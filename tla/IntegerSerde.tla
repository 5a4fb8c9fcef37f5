---------------------------- MODULE IntegerSerde ----------------------------
(***************************************************************************)
(* IntSerde and RuneSerde of runtime/serde/serde.py: any integer is        *)
(* appended to a buffer, and read back from all of its bytes or from       *)
(* fewer.                                                                  *)
(***************************************************************************)
EXTENDS IntegerCodec

CONSTANT Prefixes    (* what a buffer may hold already *)

VARIABLES type, value, prefix,
          buffer,    \* the buffer after serialize(); Raised if it raised
          decoded    \* the outcome of deserialize(), Nothing before

vars == <<type, value, prefix, buffer, decoded>>

(* Every number of the type, and one more on either side. *)
Init ==
  /\ type \in Integer
  /\ value \in Lowest(type) - 1 .. Lowest(type) + Modulus(type)
  /\ prefix \in Prefixes
  /\ buffer = Nothing /\ decoded = Nothing

Encode ==
  /\ buffer = Nothing
  /\ buffer' = EncodeInt(type, value, prefix)
  /\ UNCHANGED <<type, value, prefix, decoded>>

Whole == From(buffer.value, Len(prefix))

(* deserialize of the first n bytes of what was serialized. *)
Decode(n) ==
  /\ buffer.is = "ok" /\ decoded = Nothing
  /\ decoded' = [cut |-> Len(Whole) - n, result |-> DecodeInt(type, First(Whole, n))]
  /\ UNCHANGED <<type, value, prefix, buffer>>

Next ==
  \/ Encode
  \/ buffer.is = "ok" /\ \E n \in 0 .. Len(Whole) : Decode(n)

Spec == Init /\ [][Next]_vars

-----------------------------------------------------------------------------
(* An integer of its type is read back as it was, whatever the buffer held *)
(* before, at both ends of the range too; one of fewer bytes is an error   *)
(* and never another number.                                               *)
ReadsBack ==
  buffer.is = "ok" =>
    /\ First(buffer.value, Len(prefix)) = prefix
    /\ decoded # Nothing =>
         IF decoded.cut > 0 THEN decoded.result = Raised
         ELSE Fits(type, value) => decoded.result = Ok(value)

Before(a, b) ==
  \E i \in 1 .. Len(b) : i <= Len(a) + 1 /\ First(a, i - 1) = First(b, i - 1)
                         /\ (i > Len(a) \/ a[i] < b[i])

(* The exclusive or with the sign bit makes the bytes sort as the numbers  *)
(* do, "to match Go's sort-order encoding"; int8 and rune are excepted.    *)
SortsAsNumber ==
  buffer.is = "ok" /\ type \notin {"int8", "rune"} /\ Fits(type, value) =>
    \A other \in value + 1 .. Lowest(type) + Modulus(type) - 1 : Before(Whole, Pack(type, other))
=============================================================================
