------------------------------- MODULE Serde -------------------------------
(***************************************************************************)
(* The binary serdes (runtime/serde/serde.py): a value is appended to a    *)
(* buffer, and read back from all of its bytes or from fewer.              *)
(*                                                                         *)
(* A type of the configuration is written <<"int16">>, <<"array", t>>,     *)
(* <<"dict", k, t>>, <<"struct">>, and that of a key-value stream          *)
(* <<"keyvalue", k, t>>; a service and a Temporal graph resolve it to a    *)
(* serde, written in the same way.  A list is a sequence, a dict the pair  *)
(* of its keys and its values, a str a sequence of characters.  Byte and   *)
(* SizeBytes stand for 256 and 8; int8 and uint8 are themselves, int16 and *)
(* uint16 stand for all wider integers.                                    *)
(* Floats (struct's conversion), JSON and the serdes that a service or the *)
(* user of the library overrides are not modelled.                         *)
(***************************************************************************)
EXTENDS IntegerCodec, SequencesExt

CONSTANT SizeBytes    (* SIZE_BYTES *)

VARIABLES type, value,
          side,      \* who resolves the type: "service" or a Temporal "workflow"
          streamed,  \* the graph made a serde for streams of the element type
          prefix,    \* what the buffer holds already
          buffer,    \* the buffer after serialize(); Raised if it raised
          outcome    \* the outcome of deserialize(), Nothing before

vars == <<type, value, side, streamed, prefix, buffer, outcome>>

(* Ok of f of the value, or what was raised. *)
Then(o, f(_)) == IF o.is = "ok" THEN f(o.value) ELSE o

-----------------------------------------------------------------------------
(* Sizes. *)

SetSize(size) == BigEndian(size, SizeBytes)

(* get_size, and what follows it. *)
GetSize(data, then(_, _)) ==
  IF Len(data) < SizeBytes THEN Raised
  ELSE then(Number(First(data, SizeBytes)), From(data, SizeBytes))

(* A part that its size precedes; take reads it. *)
Sized(data, take(_), then(_)) ==
  GetSize(data, LAMBDA size, rest :
    IF Len(rest) < size THEN Raised ELSE Then(take(First(rest, size)), then))

-----------------------------------------------------------------------------
(* Lists of integers and of booleans are packed one after the other. *)
EncodeInts(t, v, b) ==
  IF \A i \in DOMAIN v : Masked(t) \/ Fits(t, v[i])
    THEN Ok(b \o SetSize(Len(v)) \o FlattenSeq([i \in DOMAIN v |-> Pack(t, v[i])]))
    ELSE Raised

DecodeInts(t, data) ==
  GetSize(data, LAMBDA count, rest :
    IF Len(rest) < count * Width(t) THEN Raised
    ELSE Ok([i \in 1 .. count |-> Unpack(t, SubSeq(rest, (i - 1) * Width(t) + 1, i * Width(t)))]))

Bit(v) == IF v THEN 1 ELSE 0

EncodeBool(v, b) == Ok(Append(b, Bit(v)))

DecodeBool(data) == IF Len(data) < 1 THEN Raised ELSE Ok(data[1] # 0)

EncodeBools(v, b) == Ok(b \o SetSize(Len(v)) \o [i \in DOMAIN v |-> Bit(v[i])])

DecodeBools(data) ==
  GetSize(data, LAMBDA count, rest :
    IF Len(rest) < count THEN Raised ELSE Ok([i \in 1 .. count |-> rest[i] # 0]))

-----------------------------------------------------------------------------
(* Bytes and strings.  Of the characters, "a" is one byte in UTF-8 and     *)
(* "e" is two.                                                             *)

EncodeBytes(v, b) == Ok(b \o SetSize(Len(v)) \o v)

DecodeBytes(data) == Sized(data, Ok, Ok)

Utf8(v) == FlattenSeq([i \in DOMAIN v |-> IF v[i] = "a" THEN <<0>> ELSE <<1, 1>>])

RECURSIVE Text(_)
Text(bytes) ==
  IF bytes = <<>> THEN <<>>
  ELSE IF bytes[1] = 0 THEN <<"a">> \o Text(From(bytes, 1)) ELSE <<"e">> \o Text(From(bytes, 2))

EncodeStrCounted(v, b) == Ok(b \o SetSize(Len(v)) \o Utf8(v))   \* Fault: the size counts characters

EncodeStr(v, b) == Ok(b \o SetSize(Len(Utf8(v))) \o Utf8(v))

DecodeStr(data) == Sized(data, LAMBDA bytes : Ok(Text(bytes)), Ok)

EncodeStrs(v, b) ==
  Ok(FoldLeft(LAMBDA buf, s : EncodeStr(s, buf).value, b \o SetSize(Len(v)), v))

RECURSIVE TextsIn(_, _, _)
TextsIn(n, data, found) ==
  IF n = 0 THEN Ok(found)
  ELSE GetSize(data, LAMBDA size, rest :
         IF Len(rest) < size THEN Raised
         ELSE TextsIn(n - 1, From(rest, size), Append(found, Text(First(rest, size)))))

DecodeStrs(data) == GetSize(data, LAMBDA count, rest : TextsIn(count, rest, <<>>))

-----------------------------------------------------------------------------
(* Composite types: every element, the keys and the values are preceded by *)
(* their size, which is written when they are.                             *)

RECURSIVE Serialize(_, _, _), Deserialize(_, _)

(* The element appended to b behind room for its size, then the size.      *)
Behind(t, v, b) ==
  Then(Serialize(t, v, b \o SetSize(0)), LAMBDA buf :
    Ok(First(buf, Len(b)) \o SetSize(Len(buf) - Len(b) - SizeBytes) \o From(buf, Len(b) + SizeBytes)))

EncodeElements(t, v, b) ==
  FoldLeft(LAMBDA o, e : Then(o, LAMBDA buf : Behind(t, e, buf)), Ok(b \o SetSize(Len(v))), v)

RECURSIVE ElementsIn(_, _, _, _)
ElementsIn(t, n, data, found) ==
  IF n = 0 THEN Ok(found)
  ELSE GetSize(data, LAMBDA size, rest :
         IF Len(rest) < size THEN Raised
         ELSE Then(Deserialize(t, First(rest, size)), LAMBDA e :
                ElementsIn(t, n - 1, From(rest, size), Append(found, e))))

DecodeElements(t, data) == GetSize(data, LAMBDA count, rest : ElementsIn(t, count, rest, <<>>))

EncodeTuple(t, v, b) == EncodeElements(t, v, b)

DecodeTuple(t, data) == DecodeElements(t, data)

(* Two parts, of types s and t; rest(_) makes the value of both. *)
Parts(s, t, data, value2(_, _)) ==
  GetSize(data, LAMBDA n, d1 :
    IF Len(d1) < n THEN Raised
    ELSE Then(Deserialize(s, First(d1, n)), LAMBDA k :
           GetSize(From(d1, n), LAMBDA m, d2 :
             IF Len(d2) < m THEN Raised
             ELSE Then(Deserialize(t, First(d2, m)), LAMBDA v : Ok(value2(k, v))))))

(* dict(zip(keys, values)) of keys that differ. *)
Zipped(keys, values) ==
  LET n == IF Len(keys) < Len(values) THEN Len(keys) ELSE Len(values)
  IN  <<First(keys, n), First(values, n)>>

EncodeDict(s, t, v, b) == Then(Behind(s, v[1], b), LAMBDA buf : Behind(t, v[2], buf))

DecodeDict(s, t, data) == Parts(s, t, data, Zipped)

EncodeKeyValue(s, t, v, b) == Then(Behind(s, v[1], b), LAMBDA buf : Behind(t, v[2], buf))

DecodeKeyValue(s, t, data) == Parts(s, t, data, LAMBDA k, v : <<k, v>>)

-----------------------------------------------------------------------------
(* What a serde does, by its constructor. *)

Constructor(t) == t[1]
ListOf == [i \in {"[]int8", "[]uint8", "[]int16", "[]uint16"} |->
             CASE i = "[]int8" -> "int8" [] i = "[]uint8" -> "uint8"
               [] i = "[]int16" -> "int16" [] OTHER -> "uint16"]

Serialize(t, v, b) ==
  LET c == Constructor(t) IN
  CASE c \in Integer       -> EncodeInt(c, v, b)
    [] c \in DOMAIN ListOf -> EncodeInts(ListOf[c], v, b)
    [] c = "bool"          -> EncodeBool(v, b)
    [] c = "[]bool"        -> EncodeBools(v, b)
    [] c = "bytes"         -> EncodeBytes(v, b)
    [] c = "str"           -> EncodeStr(v, b)
    [] c = "[]str"         -> EncodeStrs(v, b)
    [] c = "list"          -> EncodeElements(t[2], v, b)
    [] c = "tuple"         -> EncodeTuple(t[2], v, b)
    [] c = "dict"          -> EncodeDict(t[2], t[3], v, b)
    [] c = "keyvalue"      -> EncodeKeyValue(t[2], t[3], v, b)
    [] OTHER               -> Raised   \* StubSerde, or a StreamSerde in its place

Deserialize(t, data) ==
  LET c == Constructor(t) IN
  CASE c \in Integer       -> DecodeInt(c, data)
    [] c \in DOMAIN ListOf -> DecodeInts(ListOf[c], data)
    [] c = "bool"          -> DecodeBool(data)
    [] c = "[]bool"        -> DecodeBools(data)
    [] c = "bytes"         -> DecodeBytes(data)
    [] c = "str"           -> DecodeStr(data)
    [] c = "[]str"         -> DecodeStrs(data)
    [] c = "list"          -> DecodeElements(t[2], data)
    [] c = "tuple"         -> DecodeTuple(t[2], data)
    [] c = "dict"          -> DecodeDict(t[2], t[3], data)
    [] c = "keyvalue"      -> DecodeKeyValue(t[2], t[3], data)
    [] OTHER               -> Raised

-----------------------------------------------------------------------------
(* The serde of a type: get_type_serde of the service and of the graph.    *)

Primitive == Integer \union {"bool", "bytes", "str"}
IsPrimitive(t) == Constructor(t) \in Primitive
Stub == <<"stub">>

(* make_default_serde of "[]" and the serde type: of the primitives, rune   *)
(* and bytes have no list of their own.                                     *)
ArraySerde(t) ==
  LET c == Constructor(t)
  IN  CASE c = "bool" -> <<"[]bool">>
        [] c = "str"  -> <<"[]str">>
        [] \E i \in DOMAIN ListOf : ListOf[i] = c -> <<CHOOSE i \in DOMAIN ListOf : ListOf[i] = c>>
        [] OTHER      -> Stub

RECURSIVE ServiceSerde(_)
ServiceSerde(t) ==
  LET c == Constructor(t)
      listOf(e) == IF IsPrimitive(e) THEN ArraySerde(e) ELSE <<"list", ServiceSerde(e)>>
  IN  CASE IsPrimitive(t) -> t
        [] c = "array"    -> listOf(t[2])
        [] c = "dict"     -> IF Stub \in {listOf(t[2]), listOf(t[3])} THEN Stub
                             ELSE <<"dict", listOf(t[2]), listOf(t[3])>>
        [] c = "keyvalue" -> <<"keyvalue", ServiceSerde(t[2]), ServiceSerde(t[3])>>
        [] OTHER          -> Stub

(* In a graph the lookup of a part of the type finds what make_stream_serde *)
(* has registered under its name.                                           *)
RECURSIVE WorkflowSerde(_)
WorkflowSerde(t) ==
  LET c == Constructor(t)
      part(e) == IF streamed THEN <<"stream">> ELSE WorkflowSerde(e)
  IN  CASE IsPrimitive(t) -> t
        [] c = "array"    -> <<"list", part(t[2])>>
        [] c = "dict"     -> <<"dict", <<"list", part(t[2])>>, <<"list", part(t[3])>>>>
        [] c = "keyvalue" -> <<"keyvalue", part(t[2]), part(t[3])>>
        [] OTHER          -> Stub

TypeSerde == IF side = "service" THEN ServiceSerde(type) ELSE WorkflowSerde(type)

-----------------------------------------------------------------------------
(* The types and the values tried: the integers at the edges of a type and *)
(* one beyond, sequences of at most two elements.                          *)

ArrayOf(t) == <<"array", t>>

Types ==
  {<<p>> : p \in {"int8", "uint8", "int16", "uint16", "rune", "bool", "bytes"}}
    \union {ArrayOf(<<p>>) : p \in {"uint8", "int16", "rune", "bool", "bytes", "str", "struct"}}
    \union {ArrayOf(ArrayOf(<<"bool">>)), <<"dict", <<"bool">>, <<"str">>>>,
            <<"keyvalue", <<"int16">>, ArrayOf(<<"bool">>)>>}

UpTo2(S) == {<<>>} \union {<<x>> : x \in S} \union {<<x, y>> : x, y \in S}

Edges(t) ==
  LET low == IF Signed(t) THEN -Half(t) ELSE 0
      high == low + Modulus(t) - 1
  IN  {low - 1, low, 0, 1, high, high + 1}

RECURSIVE Values(_)
Values(t) ==
  LET c == Constructor(t) IN
  CASE c \in Integer  -> Edges(c)
    [] c = "bool"     -> BOOLEAN
    [] c = "bytes"    -> UpTo2({0, Byte - 1})
    [] c = "str"      -> UpTo2({"a", "e"})
    [] c = "array"    -> UpTo2(Values(t[2]))
    [] c = "dict"     -> UNION {{ks} \X {vs \in UpTo2(Values(t[3])) : Len(vs) = Len(ks)} :
                                  ks \in {s \in UpTo2(Values(t[2])) : IsInjective(s)}}
    [] c = "keyvalue" -> Values(t[2]) \X Values(t[3])
    [] OTHER          -> {0}

(* The integers in a value fit their types. *)
RECURSIVE Representable(_, _)
Representable(t, v) ==
  LET c == Constructor(t) IN
  CASE c \in Integer  -> Fits(c, v)
    [] c = "array"    -> \A i \in DOMAIN v : Representable(t[2], v[i])
    [] c = "dict"     -> \A i \in DOMAIN v[1] : Representable(t[2], v[1][i]) /\ Representable(t[3], v[2][i])
    [] c = "keyvalue" -> Representable(t[2], v[1]) /\ Representable(t[3], v[2])
    [] OTHER          -> TRUE

Init ==
  /\ type \in Types
  /\ value \in Values(type)
  /\ side \in {"service", "workflow"} /\ streamed \in BOOLEAN /\ (side = "service" => ~streamed)
  /\ prefix \in IF Constructor(type) = "keyvalue" THEN {<<>>} ELSE {<<>>, <<1>>}
  /\ buffer = Nothing /\ outcome = Nothing

(* serialize(obj, b) *)
Encode ==
  /\ buffer = Nothing
  /\ buffer' = Serialize(TypeSerde, value, prefix)
  /\ UNCHANGED <<type, value, side, streamed, prefix, outcome>>

Whole == From(buffer.value, Len(prefix))

(* deserialize of the first n bytes of what was serialized. *)
Decode(n) ==
  /\ buffer.is = "ok" /\ outcome = Nothing
  /\ outcome' = [cut |-> Len(Whole) - n, result |-> Deserialize(TypeSerde, First(Whole, n))]
  /\ UNCHANGED <<type, value, side, streamed, prefix, buffer>>

Next ==
  \/ Encode
  \/ buffer.is = "ok" /\ \E n \in 0 .. Len(Whole) : Decode(n)

Spec == Init /\ [][Next]_vars

-----------------------------------------------------------------------------
Decoded == buffer.is = "ok" /\ outcome # Nothing

(* What a service, or a graph, has written it reads back as it was,        *)
(* whatever the buffer held before; when bytes are missing at the end, at  *)
(* any depth, deserialize raises and never returns another value.          *)
ReadsBack ==
  Decoded =>
    /\ First(buffer.value, Len(prefix)) = prefix
    /\ IF outcome.cut > 0 THEN outcome.result = Raised
       ELSE Representable(type, value) => outcome.result = Ok(value)
=============================================================================
