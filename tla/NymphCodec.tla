----------------------------- MODULE NymphCodec -----------------------------
(***************************************************************************)
(* The binary format of NymphRPC values (nymph_types.cpp): how a NymphType *)
(* is built, how many bytes it claims, what it writes and what the         *)
(* receiver reads back.                                                    *)
(*                                                                         *)
(* A serialised value is a sequence of fields with a width in bytes: a     *)
(* typecode, an integer, or the characters of a string.  A string is       *)
(* represented by its number of characters, and a scalar by a small        *)
(* number: only widths and structure matter here.  Strings of 4 GB and     *)
(* more are left out (their length is kept in 32 bits, nymph_types.h:100). *)
(***************************************************************************)
EXTENDS Naturals, Sequences, SequencesExt

\* The NymphType objects an application may pass, with all their elements.
CONSTANT Values

-----------------------------------------------------------------------------
\* Building values: "length" is what bytes() returns, "empty" is emptyString.

ScalarWidth == [uint8 |-> 1, sint8 |-> 1, uint16 |-> 2, sint16 |-> 2, uint32 |-> 4,
                sint32 |-> 4, uint64 |-> 8, sint64 |-> 8, float |-> 4, double |-> 8]
Scalars == DOMAIN ScalarWidth
Linkable == {"array", "struct", "string"}

\* Bytes of a string: its typecode, the typecode and width of its length, its text.
binaryStringLength(len) ==
    len + (CASE len <= 255 -> 3 [] len <= 65535 -> 4 [] OTHER -> 6)

Total(ns) ==
    LET sum[k \in 0 .. Len(ns)] == IF k = 0 THEN 0 ELSE sum[k - 1] + ns[k]
    IN  sum[Len(ns)]

SumOfBytes(vs) == Total([i \in DOMAIN vs |-> vs[i].length])

\* (num: the value of a scalar, the length of a string; kids: the elements of an
\* array, or the keys and values of a struct by turns)
Object(type, num, kids, length, empty) ==
    [type |-> type, num |-> num, kids |-> kids, length |-> length, empty |-> empty]

Scalar(t, n) == Object(t, n, <<>>, 1 + ScalarWidth[t], FALSE)
Bool(n)      == Object("bool", n, <<>>, 1, FALSE)
String(n)    == Object("string", n, <<>>, binaryStringLength(n), n = 0)
\* Mutant of Array: the terminator is not counted.
ArrayTooShort(vs) == Object("array", 0, vs, SumOfBytes(vs) + 9, FALSE)
Array(vs)    == Object("array", 0, vs, SumOfBytes(vs) + 10, FALSE)
Struct(kvs)  == Object("struct", 0, kvs, SumOfBytes(kvs) + 2, FALSE)

\* setValue on an existing object: everything is overwritten but emptyString,
\* which is only ever set.
setValue(old, new) == [new EXCEPT !.empty = old.empty \/ new.empty]

\* An object with the value of v, as its constructor makes it.
Anew(v) ==
    CASE v.type = "bool"   -> Bool(v.num)
      [] v.type = "string" -> String(v.num)
      [] v.type = "array"  -> Array(v.kids)
      [] v.type = "struct" -> Struct(v.kids)
      [] OTHER             -> Scalar(v.type, v.num)

\* Every object is made by a constructor or setValue, from objects of the set ...
ASSUME ValuesBuilt ==
    \A v \in Values :
        /\ v.type \in Scalars \cup {"bool"} \cup Linkable
        /\ v.num \in Nat /\ v.kids \in Seq(Values) /\ v.empty \in BOOLEAN
        /\ v.type = "bool" => v.num \in {0, 1}
        /\ v.type = "struct" => Len(v.kids) % 2 = 0
        /\ v = setValue(v, Anew(v))

\* ... and none is among its own elements, however deep: an object owns its elements.
ASSUME ValuesNest ==
    \A S \in SUBSET Values :
        S # {} => \E v \in S : \A i \in DOMAIN v.kids : v.kids[i] \notin S

-----------------------------------------------------------------------------
\* Writing.

Code(c)   == [kind |-> "code", code |-> c, num |-> 0, width |-> 1]
Number(n, w) == [kind |-> "int", code |-> "", num |-> n, width |-> w]
Text(n)   == [kind |-> "text", code |-> "", num |-> n, width |-> n]

WidthOf(fields) == Total([i \in DOMAIN fields |-> fields[i].width])

\* The length of a string goes into the smallest unsigned integer that holds it.
LengthType(n) == IF n <= 255 THEN "uint8" ELSE IF n <= 65535 THEN "uint16" ELSE "uint32"

\* An object with emptyString set writes the typecode of the empty string, and
\* then whatever text it has.
serializeString(v) ==
    (IF v.empty THEN <<Code("empty")>>
     ELSE <<Code("string"), Code(LengthType(v.num)), Number(v.num, ScalarWidth[LengthType(v.num)])>>)
    \o (IF v.num > 0 THEN <<Text(v.num)>> ELSE <<>>)

serializeScalar(v) ==
    IF v.type = "bool" THEN <<Code(IF v.num = 1 THEN "true" ELSE "false")>>
    ELSE <<Code(v.type), Number(v.num, ScalarWidth[v.type])>>

serializeArray(v, parts)  == <<Code("array"), Number(Len(v.kids), 8)>> \o parts \o <<Code("none")>>
serializeStruct(v, parts) == <<Code("struct")>> \o parts \o <<Code("none")>>

serializeObject(v, parts) ==
    CASE v.type = "string" -> serializeString(v)
      [] v.type = "array"  -> serializeArray(v, parts)
      [] v.type = "struct" -> serializeStruct(v, parts)
      [] OTHER             -> serializeScalar(v)

serialize[v \in Values] ==
    serializeObject(v, FlattenSeq([i \in DOMAIN v.kids |-> serialize[v.kids[i]]]))

-----------------------------------------------------------------------------
\* Reading: the value at a position, the position after it and whether
\* parseValue returned true.  "w" is the message, "P" the reads at every position.

Content(type, num, kids) == [type |-> type, num |-> num, kids |-> kids]
Null == Content("null", 0, <<>>)
Read(val, next, ok) == [val |-> val, next |-> next, ok |-> ok]

parseScalar(w, i) == Read(Content(w[i].code, w[i + 1].num, <<>>), i + 2, TRUE)

parseString(w, i) ==
    IF w[i].code = "empty" THEN Read(Content("string", 0, <<>>), i + 1, TRUE)
    ELSE IF w[i + 1].code \notin {"uint8", "uint16", "uint32"} THEN Read(Null, i + 2, FALSE)
    ELSE Read(Content("string", w[i + 2].num, <<>>), i + 4, TRUE)

\* As many elements as the count says, and a terminator that is skipped unseen.
parseArray(w, P, i) ==
    LET n == w[i + 1].num
        pos[k \in 0 .. n] == IF k = 0 THEN i + 2 ELSE P[pos[k - 1]].next
    IN  Read(Content("array", 0, [k \in 1 .. n |-> P[pos[k - 1]].val]), pos[n] + 1, TRUE)

\* Pairs until a terminator; a key that does not start with the typecode of a
\* string ends the reading of the struct, and of the struct only.
ReadPair(w, P, s) ==
    IF ~s.ok \/ w[s.pos] = Code("none") THEN s
    ELSE IF w[s.pos] # Code("string") THEN [s EXCEPT !.ok = FALSE]
    ELSE LET key == P[s.pos]
             val == P[key.next]
         IN  IF ~key.ok THEN [s EXCEPT !.pos = key.next, !.ok = FALSE]
             ELSE [pos |-> val.next, ok |-> val.ok, kids |-> s.kids \o <<key.val, val.val>>]

StructFrom(w, P, i) ==
    LET after[k \in 0 .. Len(w)] ==
            IF k = 0 THEN [pos |-> i + 1, ok |-> TRUE, kids |-> <<>>]
            ELSE ReadPair(w, P, after[k - 1])
    IN  after[Len(w)]

\* Mutant of parseStruct: the terminator is not skipped.
StructWithoutSkip(w, P, i) ==
    LET s == StructFrom(w, P, i)
    IN  IF s.ok THEN Read(Content("struct", 0, s.kids), s.pos, TRUE) ELSE Read(Null, s.pos, FALSE)

parseStruct(w, P, i) ==
    LET s == StructFrom(w, P, i)
    IN  IF s.ok THEN Read(Content("struct", 0, s.kids), s.pos + 1, TRUE)
        ELSE Read(Null, s.pos, FALSE)

\* Any other byte where a typecode should be leaves the object without a type.
\* (A run of characters counts as one such byte.)
parseValue(w, P, i) ==
    CASE w[i].code \in {"true", "false"} ->
             Read(Content("bool", IF w[i].code = "true" THEN 1 ELSE 0, <<>>), i + 1, TRUE)
      [] w[i].code \in Scalars             -> parseScalar(w, i)
      [] w[i].code \in {"string", "empty"} -> parseString(w, i)
      [] w[i].code = "array"               -> parseArray(w, P, i)
      [] w[i].code = "struct"              -> parseStruct(w, P, i)
      [] OTHER                             -> Read(Null, i + 1, TRUE)

\* The reads at every position of a message.
Reads(w) == LET P[i \in 1 .. Len(w)] == parseValue(w, P, i) IN P

-----------------------------------------------------------------------------
\* What an object stands for, and the objects the format carries faithfully.

content[v \in Values] ==
    Content(v.type, v.num, [i \in DOMAIN v.kids |-> content[v.kids[i]]])

\* An object that was set to the empty string and then to something longer.
Stale(v) == v.type = "string" /\ v.empty /\ v.num > 0
\* A struct with a key that is not a string, or empty: the reader accepts no such key.
BadKey(v) ==
    v.type = "struct" /\ \E i \in DOMAIN v.kids :
        i % 2 = 1 /\ (v.kids[i].type # "string" \/ v.kids[i].empty)

faithful[v \in Values] ==
    /\ ~Stale(v)
    /\ ~BadKey(v)
    /\ \A i \in DOMAIN v.kids : faithful[v.kids[i]]
=============================================================================
