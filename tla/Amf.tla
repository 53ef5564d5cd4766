-------------------------------- MODULE Amf ---------------------------------
(***************************************************************************)
(* Package amf: values, Encode and Decode.  The wire is a sequence of      *)
(* tokens, each a run of bytes that the encoder writes at once and the     *)
(* decoder reads at once:                                                  *)
(*   <<"type", t>>      the marker byte                                    *)
(*   <<"string", s>>    two bytes of length and the string; a key, too     *)
(*   <<"long", s>>      four bytes of length and the string                *)
(*   <<"count", n>>     the four bytes of the length of an array           *)
(*   <<"raw", x>>       the bytes of a number, a boolean or a date         *)
(* A decoder that meets another token than it reads is out of step with    *)
(* the encoder: what it makes of the bytes is left open, and is taken for  *)
(* an error.                                                               *)
(*                                                                         *)
(* The value of a Value carries the type it has in Go, which the decoder   *)
(* leaves alone when it reads NULL or UNDEFINED.                           *)
(***************************************************************************)
EXTENDS Integers, Sequences

Lists == {"OBJECT", "ECMA_ARRAY", "STRICT_ARRAY"}

Nil == <<"nil", "">>

NewValue(t) == [type |-> t, key |-> "", value |-> Nil, list |-> <<>>, table |-> <<>>]

\* The Go type that Set demands of a value, and the decoder gives it.
GoType(t) ==
    CASE t \in {"DOUBLE", "DATE"} -> "float64"
      [] t = "BOOLEAN" -> "bool"
      [] t \in {"STRING", "LONG_STRING"} -> "string"
      [] t \in Lists -> "list"
      [] OTHER -> "nil"

\* Set with a value of the type that it demands; it panics with another.
Set(v, key, x) == [v EXCEPT !.key = key, !.value = <<GoType(v.type), x>>]

Tabled(o) == o.type \in {"OBJECT", "ECMA_ARRAY"}

\* The table of the object keeps the last value of a key, the list all of them.
Entered(table, v) ==
    [k \in DOMAIN table \cup {v.key} |-> IF k = v.key THEN v ELSE table[k]]

Add(o, v) ==
    [o EXCEPT !.value = <<"list", "">>,
              !.list = Append(@, v),
              !.table = IF Tabled(o) THEN Entered(@, v) ELSE @]

\* Del takes the key from the table, and its first value from the list.
Del(o, key) ==
    LET at == {i \in DOMAIN o.list : o.list[i].key = key}
        first == CHOOSE i \in at : \A j \in at : i <= j
    IN  [o EXCEPT !.table = [k \in DOMAIN @ \ {key} |-> @[k]],
                  !.list = IF at = {} THEN @
                           ELSE SubSeq(@, 1, first - 1) \o SubSeq(@, first + 1, Len(@))]

-----------------------------------------------------------------------------
(* Encoding.                                                               *)

Marker(t) == <<"type", t>>

EndOfObject == <<<<"string", "">>, Marker("END_OF_OBJECT")>>

\* A string of 65535 bytes or more is written as a long one.
Long(s) == s = "long"

EncodeString(s) ==
    IF Long(s) THEN <<Marker("LONG_STRING"), <<"long", s>>>>
               ELSE <<Marker("STRING"), <<"string", s>>>>

\* An empty key is not written at all.
EncodeKey(key) == IF key = "" THEN <<>> ELSE <<<<"string", key>>>>

EncodeNumber(t, x) == <<Marker(t), <<"raw", x>>>>

EncodeDate(x) == <<Marker("DATE"), <<"raw", x>>>>

RECURSIVE Encode(_), EncodeProperties(_)

\* Also used for the elements of a strict array, keys and all.
EncodeProperties(l) ==
    IF l = <<>> THEN <<>>
    ELSE EncodeKey(Head(l).key) \o Encode(Head(l)) \o EncodeProperties(Tail(l))

\* EncodeObject, EncodeECMAArray and EncodeStrictArray, which has no end.
EncodeList(v) ==
    <<Marker(v.type)>>
    \o (IF v.type = "OBJECT" THEN <<>> ELSE <<<<"count", Len(v.list)>>>>)
    \o EncodeProperties(v.list)
    \o (IF v.type = "STRICT_ARRAY" THEN <<>> ELSE EndOfObject)

\* Encode panics on an object, an array or a string that was never set.
CanEncode(v) == v.value[1] = GoType(v.type)

Encode(v) ==
    CASE v.type \in {"STRING", "LONG_STRING"} -> EncodeString(v.value[2])
      [] v.type \in Lists -> EncodeList(v)
      [] v.type \in {"NULL", "UNDEFINED"} -> <<Marker(v.type)>>
      [] v.type = "DATE" -> EncodeDate(v.value[2])
      [] OTHER -> EncodeNumber(v.type, v.value[2])

-----------------------------------------------------------------------------
(* Decoding: the value, the data behind it, and whether it went well.      *)

Decoded(v, d) == [v |-> v, rest |-> d, ok |-> TRUE]
Failed(v, d) == [v |-> v, rest |-> d, ok |-> FALSE]

\* DecodeString, DecodeLongString, DecodeDouble, DecodeBoolean and DecodeDate.
\* DecodeLongString leaves the value as it is when the length is 0, which the
\* encoder never writes: EncodeString makes short strings STRINGs.
DecodeAtom(v, d, token) ==
    IF d = <<>> \/ Head(d)[1] # token THEN Failed(v, d)
    ELSE Decoded([v EXCEPT !.value = <<GoType(v.type), Head(d)[2]>>], Tail(d))

RECURSIVE Decode(_, _), DecodeProperties(_, _), DecodeElements(_, _, _)

\* DecodeObject: properties up to the end of the object, or of the data.
DecodeProperties(o, d) ==
    IF d = <<>> THEN Decoded(o, d)
    ELSE LET key == DecodeAtom(NewValue("STRING"), d, "string")
             p == Decode([NewValue("DOUBLE") EXCEPT !.key = key.v.value[2]], key.rest)
         IN  IF ~key.ok \/ ~p.ok THEN Failed(o, d)
             ELSE IF p.v.type = "END_OF_OBJECT" THEN Decoded(o, p.rest)
             ELSE DecodeProperties(Add(o, p.v), p.rest)

EmptyList(v) == [v EXCEPT !.value = <<"list", "">>, !.list = <<>>, !.table = <<>>]

DecodeObject(v, d) ==
    IF d = <<>> THEN Failed(v, d) ELSE DecodeProperties(EmptyList(v), d)

\* Mutation: the length of the array is not skipped.
DecodeECMAArrayAsObject(v, d) == DecodeObject(v, d)

\* The length is skipped: the end of the object counts.
DecodeECMAArray(v, d) ==
    IF d = <<>> \/ Head(d)[1] # "count" THEN Failed(v, d) ELSE DecodeObject(v, Tail(d))

DecodeElements(v, d, n) ==
    IF n = 0 \/ d = <<>> THEN Decoded(v, d)
    ELSE LET e == Decode(NewValue("DOUBLE"), d)
         IN  IF e.ok THEN DecodeElements(Add(v, e.v), e.rest, n - 1) ELSE Failed(v, d)

\* What follows the elements is taken for the end of the array when it looks
\* like the end of an object, although the encoder writes none.
SkipEnd(r) ==
    IF Len(r.rest) >= 2 /\ SubSeq(r.rest, 1, 2) = EndOfObject
    THEN [r EXCEPT !.rest = SubSeq(@, 3, Len(@))]
    ELSE r

DecodeStrictArray(v, d) ==
    IF d = <<>> \/ Head(d)[1] # "count" THEN Failed(v, d)
    ELSE LET r == DecodeElements(EmptyList(v), Tail(d), Head(d)[2])
         IN  IF r.ok THEN SkipEnd(r) ELSE r

\* NULL, UNDEFINED and END_OF_OBJECT set the type and keep the value.
Decode(v0, d0) ==
    IF d0 = <<>> \/ Head(d0)[1] # "type" THEN Failed(v0, d0)
    ELSE LET v == [v0 EXCEPT !.type = Head(d0)[2]]
             d == Tail(d0)
         IN  CASE v.type = "STRING" -> DecodeAtom(v, d, "string")
               [] v.type = "LONG_STRING" -> DecodeAtom(v, d, "long")
               [] v.type \in {"DOUBLE", "BOOLEAN", "DATE"} -> DecodeAtom(v, d, "raw")
               [] v.type = "OBJECT" -> DecodeObject(v, d)
               [] v.type = "ECMA_ARRAY" -> DecodeECMAArray(v, d)
               [] v.type = "STRICT_ARRAY" -> DecodeStrictArray(v, d)
               [] OTHER -> Decoded(v, d)
=============================================================================
