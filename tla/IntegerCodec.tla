---------------------------- MODULE IntegerCodec ----------------------------
(***************************************************************************)
(* How runtime/serde/serde.py makes bytes of an integer: big-endian, and   *)
(* with an exclusive or with the sign bit for the signed types but int8    *)
(* and rune.  int8 and uint8 are themselves; int16 and uint16 stand for    *)
(* all wider integers.                                                     *)
(***************************************************************************)
EXTENDS Integers, Sequences

CONSTANTS Byte,   (* the values of a byte are 0 .. Byte - 1 *)
          Wide    (* the bytes of the wider integers *)

Nothing == [is |-> "nothing"]
Raised == [is |-> "raised"]
Ok(v) == [is |-> "ok", value |-> v]

From(data, n) == SubSeq(data, n + 1, Len(data))
First(data, n) == SubSeq(data, 1, n)

Power(n) == LET upTo[k \in 0 .. n] == IF k = 0 THEN 1 ELSE Byte * upTo[k - 1] IN upTo[n]

BigEndian(n, width) == [i \in 1 .. width |-> (n \div Power(width - i)) % Byte]

Number(bytes) ==
  LET upTo[i \in 0 .. Len(bytes)] == IF i = 0 THEN 0 ELSE upTo[i - 1] * Byte + bytes[i]
  IN  upTo[Len(bytes)]

-----------------------------------------------------------------------------
(* _size, _signed_fmt, _xor_mask and the masks of serialize. *)

Integer == {"int8", "uint8", "int16", "uint16", "rune"}
Width(t) == IF t \in {"int8", "uint8"} THEN 1 ELSE Wide
Signed(t) == t \in {"int8", "int16", "rune"}
XorMask(t) == t = "int16"
Masked(t) == t \in {"int16", "rune"}

Modulus(t) == Power(Width(t))
Half(t) == Modulus(t) \div 2
Lowest(t) == IF Signed(t) THEN -Half(t) ELSE 0
Fits(t, v) == Lowest(t) <= v /\ v < Lowest(t) + Modulus(t)

(* An exclusive or with the sign bit adds half of the range. *)
Flip(t, raw) == IF XorMask(t) THEN (raw + Half(t)) % Modulus(t) ELSE raw

PackPlain(t, v) == BigEndian(v % Modulus(t), Width(t))   \* Fault: no exclusive or, on either side

Pack(t, v) == BigEndian(Flip(t, v % Modulus(t)), Width(t))

EncodeInt(t, v, b) == IF Masked(t) \/ Fits(t, v) THEN Ok(b \o Pack(t, v)) ELSE Raised

Unpack(t, bytes) ==
  LET raw == Flip(t, Number(bytes))
  IN  IF Signed(t) /\ raw >= Half(t) THEN raw - Modulus(t) ELSE raw

DecodeInt(t, data) == IF Len(data) < Width(t) THEN Raised ELSE Ok(Unpack(t, First(data, Width(t))))
=============================================================================
