---------------------------- MODULE MessageProofs ----------------------------
(***************************************************************************)
(* Proofs about Message and the format of NymphCodec, for values of every  *)
(* type nested to any depth: a frame fits its buffer, a message arrives as *)
(* it was sent, a message is deleted twice only where it is dropped with   *)
(* references left, and the message behind a result lives as long as the   *)
(* result.                                                                 *)
(*                                                                         *)
(* The recursive functions of the model (a sum, the parts of a frame one   *)
(* after the other, what an object writes and stands for, the reads at     *)
(* every position, the elements of an array, the pairs of a struct) are    *)
(* given their meaning first: that a function satisfying the equation      *)
(* exists, by induction stated for sets (AllNaturals), or over the nesting *)
(* of the values (ValuesNest).                                             *)
(*                                                                         *)
(* EveryObjectFits is the induction over what is written, ObjectsAreRead   *)
(* the one over what is read: from the last position of a message down to  *)
(* the first, where an object stands (Stands) its value is read and the    *)
(* reader comes out behind it (Right).  IInv is the invariant of the       *)
(* exchange, RInv the one with the message that has arrived.               *)
(***************************************************************************)
EXTENDS Message, FiniteSetTheorems, SequenceTheorems, TLAPS

-----------------------------------------------------------------------------
\* A set of naturals has a least element: its initial segments are finite sets, among
\* which inclusion is well founded.
LEMMA LeastExists ==
  ASSUME NEW S, S \subseteq Nat, S # {}
  PROVE  \E x \in S : \A y \in S : x <= y
<1> DEFINE UpTo(x) == {y \in S : y <= x}
           Ups == {UpTo(x) : x \in S}
<1>1. \A x \in S : UpTo(x) \in FiniteSubsetsOf(S)
  <2> TAKE x \in S
  <2>1. UpTo(x) \in SUBSET Nat /\ \A y \in UpTo(x) : y <= x
    OBVIOUS
  <2>2. IsFiniteSet(UpTo(x))
    <3> HIDE DEF UpTo
    <3> QED BY <2>1, FS_BoundedSetOfNaturals
  <2> QED BY <2>2 DEF FiniteSubsetsOf
<1>2. PICK T \in Ups : \A U \in Ups : ~ (<<U, T>> \in StrictSubsetOrdering(S))
  <2> HIDE DEF UpTo
  <2>1. Ups # {} /\ Ups \subseteq FiniteSubsetsOf(S)
    BY <1>1
  <2> QED BY <2>1, FS_StrictSubsetOrderingWellFounded, WFMin
<1>3. PICK x \in S : T = UpTo(x)
  OBVIOUS
<1>4. ASSUME NEW y \in S PROVE x <= y
  <2> SUFFICES ASSUME ~ (x <= y) PROVE FALSE
    OBVIOUS
  <2>1. x \in Nat /\ y \in Nat
    OBVIOUS
  <2>2. y < x
    BY <2>1
  <2>3. UpTo(y) \subseteq UpTo(x)
    <3>1. \A z \in Nat : z <= y => z <= x
      BY <2>1, <2>2
    <3> QED BY <3>1
  <2>4. x \in UpTo(x) /\ x \notin UpTo(y)
    BY <2>1, <2>2
  <2>5. <<UpTo(y), UpTo(x)>> \in StrictSubsetOrdering(S)
    BY <2>3, <2>4 DEF StrictSubsetOrdering
  <2> QED BY <1>2, <1>3, <2>5
<1> QED BY <1>4

\* Induction on the naturals, for a set in place of a predicate.
LEMMA AllNaturals ==
  ASSUME NEW A, 0 \in A, \A k \in Nat : k \in A => k + 1 \in A
  PROVE  \A k \in Nat : k \in A
<1> SUFFICES ASSUME Nat \ A # {} PROVE FALSE
  OBVIOUS
<1>1. PICK x \in Nat \ A : \A y \in Nat \ A : x <= y
  BY LeastExists
<1>2. x - 1 \in Nat /\ x - 1 + 1 = x /\ ~ (x <= x - 1)
  BY <1>1
<1> QED BY <1>1, <1>2

-----------------------------------------------------------------------------
\* Sums of naturals.

IsSum(ns, n, g) == g = [k \in 0 .. n |-> IF k = 0 THEN 0 ELSE g[k - 1] + ns[k]]
Sum(ns) == CHOOSE g : IsSum(ns, Len(ns), g)

LEMMA SumExists ==
  ASSUME NEW ns
  PROVE  \A n \in Nat : \E g : IsSum(ns, n, g)
<1> DEFINE A == {n \in Nat : \E g : IsSum(ns, n, g)}
<1>1. 0 \in A
  <2>1. IsSum(ns, 0, [k \in 0 .. 0 |-> 0])
    BY DEF IsSum
  <2> QED BY <2>1
<1>2. ASSUME NEW n \in Nat, n \in A PROVE n + 1 \in A
  <2>1. PICK g : IsSum(ns, n, g)
    BY <1>2
  <2> DEFINE h == [k \in 0 .. n + 1 |-> IF k = n + 1 THEN g[n] + ns[k] ELSE g[k]]
  <2>2. \A k \in 0 .. n : g[k] = IF k = 0 THEN 0 ELSE g[k - 1] + ns[k]
    BY <2>1 DEF IsSum
  <2>3. ASSUME NEW k \in 0 .. n + 1
        PROVE  h[k] = IF k = 0 THEN 0 ELSE h[k - 1] + ns[k]
    <3>1. CASE k = n + 1
      BY <3>1
    <3>2. CASE k \in 0 .. n
      <4>1. h[k] = g[k] /\ (k # 0 => h[k - 1] = g[k - 1])
        BY <3>2
      <4> QED BY <2>2, <3>2, <4>1
    <3> QED BY <3>1, <3>2
  <2>4. h = [k \in 0 .. n + 1 |-> IF k = 0 THEN 0 ELSE h[k - 1] + ns[k]]
    <3>1. h = [k \in 0 .. n + 1 |-> h[k]]
      OBVIOUS
    <3> HIDE DEF h
    <3> QED BY <2>3, <3>1
  <2>5. IsSum(ns, n + 1, h)
    BY <2>4 DEF IsSum
  <2> QED BY <2>5
<1>3. \A n \in Nat : n \in A
  <2> HIDE DEF A
  <2> QED BY <1>1, <1>2, AllNaturals
<1> QED BY <1>3

LEMMA SumIs ==
  ASSUME NEW ns, Len(ns) \in Nat
  PROVE  IsSum(ns, Len(ns), Sum(ns)) /\ Total(ns) = Sum(ns)[Len(ns)]
<1>1. \E g : IsSum(ns, Len(ns), g)
  BY SumExists
<1>2. IsSum(ns, Len(ns), Sum(ns))
  BY <1>1 DEF Sum
<1>3. Total(ns) = Sum(ns)[Len(ns)]
  BY DEF Total, Sum, IsSum
<1> QED BY <1>2, <1>3

LEMMA SumTypes ==
  ASSUME NEW ns \in Seq(Nat)
  PROVE  /\ \A k \in 0 .. Len(ns) :
               Sum(ns)[k] = IF k = 0 THEN 0 ELSE Sum(ns)[k - 1] + ns[k]
         /\ \A k \in 0 .. Len(ns) : Sum(ns)[k] \in Nat
         /\ Total(ns) = Sum(ns)[Len(ns)] /\ Total(ns) \in Nat
<1>1. Len(ns) \in Nat /\ \A k \in 1 .. Len(ns) : ns[k] \in Nat
  OBVIOUS
<1>2. PICK g : g = Sum(ns)
  OBVIOUS
<1>3. g = [k \in 0 .. Len(ns) |-> IF k = 0 THEN 0 ELSE g[k - 1] + ns[k]]
  BY <1>1, <1>2, SumIs DEF IsSum
<1>4. \A k \in 0 .. Len(ns) : g[k] = IF k = 0 THEN 0 ELSE g[k - 1] + ns[k]
  BY <1>3
<1> DEFINE A == {k \in Nat : k <= Len(ns) => g[k] \in Nat}
<1>5. 0 \in A
  BY <1>1, <1>4
<1>6. ASSUME NEW k \in Nat, k \in A PROVE k + 1 \in A
  <2> SUFFICES ASSUME k + 1 <= Len(ns) PROVE g[k + 1] \in Nat
    OBVIOUS
  <2>1. g[k] \in Nat /\ k + 1 \in 0 .. Len(ns) /\ k + 1 - 1 = k /\ k + 1 # 0
    BY <1>1, <1>6
  <2>2. g[k + 1] = g[k] + ns[k + 1]
    BY <1>4, <2>1
  <2>3. ns[k + 1] \in Nat
    BY <1>1, <2>1
  <2> QED BY <2>1, <2>2, <2>3
<1>7. \A k \in Nat : k \in A
  <2> HIDE DEF A
  <2> QED BY <1>5, <1>6, AllNaturals
<1>8. \A k \in 0 .. Len(ns) : g[k] \in Nat
  BY <1>1, <1>7
<1>9. Total(ns) = g[Len(ns)]
  BY <1>1, <1>2, SumIs
<1> QED BY <1>1, <1>2, <1>4, <1>8, <1>9

LEMMA TotalEmpty == Total(<< >>) = 0
<1>1. PICK e \in Seq(Nat) : e = << >> /\ Len(e) = 0
  BY EmptySeq
<1>2. PICK g : g = Sum(e)
  OBVIOUS
<1>3. 0 \in 0 .. Len(e)
  BY <1>1
<1>4. g[0] = (IF 0 = 0 THEN 0 ELSE g[0 - 1] + e[0]) /\ Total(e) = g[Len(e)]
  BY <1>2, <1>3, SumTypes
<1> QED BY <1>1, <1>4

\* The sum of a sequence of two parts.
LEMMA TotalConcat ==
  ASSUME NEW a \in Seq(Nat), NEW b \in Seq(Nat)
  PROVE  Total(a \o b) = Total(a) + Total(b)
<1>1. PICK c : c = a \o b
  OBVIOUS
<1>2. /\ c \in Seq(Nat) /\ Len(c) = Len(a) + Len(b) /\ Len(a) \in Nat /\ Len(b) \in Nat
      /\ \A k \in 1 .. Len(a) : c[k] = a[k]
      /\ \A k \in 1 .. Len(b) : c[Len(a) + k] = b[k]
  BY <1>1
<1>3. PICK f : f = Sum(a)
  OBVIOUS
<1>4. PICK g : g = Sum(b)
  OBVIOUS
<1>5. PICK h : h = Sum(c)
  OBVIOUS
<1>6. /\ \A k \in 0 .. Len(a) : f[k] \in Nat /\ f[k] = IF k = 0 THEN 0 ELSE f[k - 1] + a[k]
      /\ Total(a) = f[Len(a)]
  BY <1>3, SumTypes
<1>7. /\ \A k \in 0 .. Len(b) : g[k] \in Nat /\ g[k] = IF k = 0 THEN 0 ELSE g[k - 1] + b[k]
      /\ Total(b) = g[Len(b)]
  BY <1>4, SumTypes
<1>8. /\ \A k \in 0 .. Len(c) : h[k] \in Nat /\ h[k] = IF k = 0 THEN 0 ELSE h[k - 1] + c[k]
      /\ Total(c) = h[Len(c)]
  BY <1>2, <1>5, SumTypes
<1> DEFINE A == {k \in Nat : k <= Len(a) => h[k] = f[k]}
           B == {k \in Nat : k <= Len(b) => h[Len(a) + k] = f[Len(a)] + g[k]}
<1>9. \A k \in Nat : k \in A
  <2>1. 0 \in A
    BY <1>2, <1>6, <1>8
  <2>2. ASSUME NEW k \in Nat, k \in A PROVE k + 1 \in A
    <3> SUFFICES ASSUME k + 1 <= Len(a) PROVE h[k + 1] = f[k + 1]
      OBVIOUS
    <3>1. /\ k + 1 \in 0 .. Len(a) /\ k + 1 \in 0 .. Len(c) /\ k + 1 \in 1 .. Len(a)
          /\ k + 1 - 1 = k /\ k + 1 # 0 /\ h[k] = f[k]
      BY <1>2, <2>2
    <3>2. h[k + 1] = h[k] + c[k + 1] /\ f[k + 1] = f[k] + a[k + 1]
      BY <1>6, <1>8, <3>1
    <3> QED BY <1>2, <3>1, <3>2
  <2> HIDE DEF A
  <2> QED BY <2>1, <2>2, AllNaturals
<1>10. \A k \in Nat : k \in B
  <2>1. 0 \in B
    <3>1. g[0] = 0 /\ Len(a) + 0 = Len(a)
      BY <1>2, <1>7
    <3>2. h[Len(a)] = f[Len(a)] /\ f[Len(a)] \in Nat
      BY <1>2, <1>6, <1>9
    <3> QED BY <3>1, <3>2
  <2>2. ASSUME NEW k \in Nat, k \in B PROVE k + 1 \in B
    <3> SUFFICES ASSUME k + 1 <= Len(b)
                 PROVE  h[Len(a) + (k + 1)] = f[Len(a)] + g[k + 1]
      OBVIOUS
    <3>1. /\ k + 1 \in 0 .. Len(b) /\ k \in 0 .. Len(b) /\ k + 1 \in 1 .. Len(b)
          /\ Len(a) + (k + 1) \in 0 .. Len(c) /\ Len(a) + (k + 1) - 1 = Len(a) + k
          /\ k + 1 - 1 = k /\ k + 1 # 0 /\ Len(a) + (k + 1) # 0 /\ Len(a) \in 0 .. Len(a)
      BY <1>2
    <3>2. g[k + 1] = g[k] + b[k + 1]
      BY <1>7, <3>1
    <3>5. c[Len(a) + (k + 1)] = b[k + 1]
      BY <1>2, <3>1
    <3>6. h[Len(a) + (k + 1)] = h[Len(a) + k] + b[k + 1]
      BY <1>8, <3>1, <3>5
    <3>3. h[Len(a) + k] = f[Len(a)] + g[k]
      BY <2>2, <3>1
    <3>4. b[k + 1] \in Nat /\ g[k] \in Nat /\ f[Len(a)] \in Nat
      BY <1>6, <1>7, <3>1
    <3> QED BY <3>2, <3>3, <3>4, <3>6
  <2> HIDE DEF B
  <2> QED BY <2>1, <2>2, AllNaturals
<1> QED BY <1>1, <1>2, <1>6, <1>7, <1>8, <1>10

LEMMA TotalOne ==
  ASSUME NEW n \in Nat
  PROVE  Total(<<n>>) = n
<1>1. PICK e \in Seq(Nat) : e = <<n>> /\ Len(e) = 1 /\ e[1] = n
  <2>1. <<n>> \in Seq(Nat) /\ Len(<<n>>) = 1 /\ <<n>>[1] = n
    OBVIOUS
  <2> QED BY <2>1
<1>2. PICK g : g = Sum(e)
  OBVIOUS
<1>3. /\ \A k \in 0 .. Len(e) : g[k] = IF k = 0 THEN 0 ELSE g[k - 1] + e[k]
      /\ Total(e) = g[Len(e)]
  BY <1>2, SumTypes
<1>4. g[0] = 0 /\ g[1] = g[1 - 1] + e[1] /\ 1 - 1 = 0
  BY <1>1, <1>3
<1> QED BY <1>1, <1>3, <1>4

-----------------------------------------------------------------------------
\* What is written: sequences of fields, and their widths.

Codes == {"", "none", "empty", "string", "array", "struct", "true", "false",
          "uint8", "sint8", "uint16", "sint16", "uint32", "sint32", "uint64", "sint64",
          "float", "double"}
Field == [kind : {"code", "int", "text", "unused"}, code : Codes, num : Nat, width : Nat]
Bytes == Seq(Field)

Widths(w) == [i \in DOMAIN w |-> w[i].width]

LEMMA WidthTypes ==
  ASSUME NEW w \in Bytes
  PROVE  Widths(w) \in Seq(Nat) /\ WidthOf(w) = Total(Widths(w)) /\ WidthOf(w) \in Nat
<1>1. w \in [1 .. Len(w) -> Field] /\ Len(w) \in Nat /\ DOMAIN w = 1 .. Len(w)
  BY DEF Bytes
<1>2. \A i \in 1 .. Len(w) : w[i].width \in Nat
  BY <1>1 DEF Field
<1>3. Widths(w) \in [1 .. Len(w) -> Nat]
  BY <1>1, <1>2 DEF Widths
<1>4. Widths(w) \in Seq(Nat)
  BY <1>1, <1>3
<1>5. WidthOf(w) = Total(Widths(w))
  BY DEF WidthOf, Widths
<1> QED BY <1>4, <1>5, SumTypes

LEMMA WidthEmpty == << >> \in Bytes /\ WidthOf(<< >>) = 0
<1>1. << >> \in Bytes /\ Widths(<< >>) = << >>
  BY DEF Bytes, Widths
<1> QED BY <1>1, WidthTypes, TotalEmpty

LEMMA WidthConcat ==
  ASSUME NEW u \in Bytes, NEW v \in Bytes
  PROVE  u \o v \in Bytes /\ WidthOf(u \o v) = WidthOf(u) + WidthOf(v)
<1>1. u \o v \in Bytes
  BY DEF Bytes
<1>2. /\ Len(u) \in Nat /\ Len(v) \in Nat /\ Len(u \o v) = Len(u) + Len(v)
      /\ DOMAIN u = 1 .. Len(u) /\ DOMAIN v = 1 .. Len(v)
      /\ DOMAIN (u \o v) = 1 .. Len(u) + Len(v)
      /\ \A i \in 1 .. Len(u) + Len(v) :
            (u \o v)[i] = IF i <= Len(u) THEN u[i] ELSE v[i - Len(u)]
  BY DEF Bytes
<1>3. /\ Widths(u) \in Seq(Nat) /\ Widths(v) \in Seq(Nat) /\ Widths(u \o v) \in Seq(Nat)
      /\ WidthOf(u) = Total(Widths(u)) /\ WidthOf(v) = Total(Widths(v))
      /\ WidthOf(u \o v) = Total(Widths(u \o v))
  BY <1>1, WidthTypes
<1>4. /\ Len(Widths(u)) = Len(u) /\ Len(Widths(v)) = Len(v)
      /\ Len(Widths(u \o v)) = Len(u) + Len(v)
  BY <1>2, <1>3 DEF Widths
<1>5. Widths(u \o v) = Widths(u) \o Widths(v)
  <2>1. PICK x : x = Widths(u \o v)
    OBVIOUS
  <2>2. PICK y : y = Widths(u) \o Widths(v)
    OBVIOUS
  <2>3. x \in Seq(Nat) /\ y \in Seq(Nat) /\ Len(x) = Len(u) + Len(v)
    BY <1>3, <1>4, <2>1, <2>2
  <2>5. Len(y) = Len(x)
    <3>1. Len(y) = Len(Widths(u)) + Len(Widths(v))
      BY <1>3, <2>2, ConcatProperties
    <3> QED BY <1>4, <2>3, <3>1
  <2>4. ASSUME NEW i \in 1 .. Len(u) + Len(v) PROVE x[i] = y[i]
    <3>1. x[i] = (u \o v)[i].width
      BY <1>2, <2>1 DEF Widths
    <3>2. y[i] = IF i <= Len(u) THEN Widths(u)[i] ELSE Widths(v)[i - Len(u)]
      BY <1>2, <1>3, <1>4, <2>2, ConcatProperties
    <3>3. CASE i <= Len(u)
      BY <1>2, <3>1, <3>2, <3>3 DEF Widths
    <3>4. CASE ~ (i <= Len(u))
      BY <1>2, <3>1, <3>2, <3>4 DEF Widths
    <3> QED BY <3>3, <3>4
  <2>6. x = y
    BY <2>3, <2>4, <2>5, SeqEqual
  <2> QED BY <2>1, <2>2, <2>6
<1> QED BY <1>1, <1>3, <1>5, TotalConcat

LEMMA WidthOne ==
  ASSUME NEW f \in Field
  PROVE  <<f>> \in Bytes /\ WidthOf(<<f>>) = f.width
<1>1. <<f>> \in Bytes /\ f.width \in Nat /\ Widths(<<f>>) = <<f.width>>
  BY DEF Bytes, Field, Widths
<1> QED BY <1>1, WidthTypes, TotalOne

\* Parts written one after the other.

IsFlat(ss, n, g) ==
    g = [i \in 1 .. n |-> IF i = 1 THEN ss[i] ELSE g[i - 1] \o ss[i]]
Flat(ss) == CHOOSE g : IsFlat(ss, Len(ss), g)

LEMMA FlatExists ==
  ASSUME NEW ss
  PROVE  \A n \in Nat : \E g : IsFlat(ss, n, g)
<1> DEFINE A == {n \in Nat : \E g : IsFlat(ss, n, g)}
<1>1. 0 \in A
  <2>1. IsFlat(ss, 0, [i \in 1 .. 0 |-> ss])
    BY DEF IsFlat
  <2> QED BY <2>1
<1>2. ASSUME NEW n \in Nat, n \in A PROVE n + 1 \in A
  <2>1. PICK g : IsFlat(ss, n, g)
    BY <1>2
  <2> DEFINE h == [i \in 1 .. n + 1 |-> IF i = n + 1 /\ i # 1 THEN g[n] \o ss[i]
                                        ELSE IF i = 1 THEN ss[i] ELSE g[i]]
  <2>2. \A i \in 1 .. n : g[i] = IF i = 1 THEN ss[i] ELSE g[i - 1] \o ss[i]
    BY <2>1 DEF IsFlat
  <2>3. ASSUME NEW i \in 1 .. n + 1
        PROVE  h[i] = IF i = 1 THEN ss[i] ELSE h[i - 1] \o ss[i]
    <3>1. CASE i = n + 1
      <4>1. i # 1 => h[i - 1] = g[n]
        <5> SUFFICES ASSUME i # 1 PROVE h[i - 1] = g[n]
          OBVIOUS
        <5>1. i - 1 = n /\ n \in 1 .. n /\ n \in 1 .. n + 1
          BY <3>1
        <5> QED BY <2>2, <5>1
      <4> QED BY <3>1, <4>1
    <3>2. CASE i \in 1 .. n
      <4>1. h[i] = g[i] /\ (i # 1 => h[i - 1] = g[i - 1])
        <5>1. h[i] = g[i]
          BY <2>2, <3>2
        <5>2. i # 1 => i - 1 \in 1 .. n
          BY <3>2
        <5> QED BY <2>2, <5>1, <5>2
      <4> QED BY <2>2, <3>2, <4>1
    <3> QED BY <3>1, <3>2
  <2>4. h = [i \in 1 .. n + 1 |-> IF i = 1 THEN ss[i] ELSE h[i - 1] \o ss[i]]
    <3>1. h = [i \in 1 .. n + 1 |-> h[i]]
      OBVIOUS
    <3> HIDE DEF h
    <3> QED BY <2>3, <3>1
  <2>5. IsFlat(ss, n + 1, h)
    BY <2>4 DEF IsFlat
  <2> QED BY <2>5
<1>3. \A n \in Nat : n \in A
  <2> HIDE DEF A
  <2> QED BY <1>1, <1>2, AllNaturals
<1> QED BY <1>3

LEMMA FlatIs ==
  ASSUME NEW ss, Len(ss) \in Nat, Len(ss) # 0
  PROVE  IsFlat(ss, Len(ss), Flat(ss)) /\ FlattenSeq(ss) = Flat(ss)[Len(ss)]
<1>1. \E g : IsFlat(ss, Len(ss), g)
  BY FlatExists
<1>2. IsFlat(ss, Len(ss), Flat(ss))
  BY <1>1 DEF Flat
<1>3. FlattenSeq(ss) = Flat(ss)[Len(ss)]
  BY DEF FlattenSeq, Flat, IsFlat
<1> QED BY <1>2, <1>3

\* Parts that keep within their lengths keep within the sum of these together.
LEMMA FlatFits ==
  ASSUME NEW ss \in Seq(Bytes), NEW ns \in Seq(Nat), Len(ns) = Len(ss),
         \A i \in 1 .. Len(ss) : WidthOf(ss[i]) <= ns[i]
  PROVE  FlattenSeq(ss) \in Bytes /\ WidthOf(FlattenSeq(ss)) <= Total(ns)
<1>1. Len(ss) \in Nat /\ \A i \in 1 .. Len(ss) : ss[i] \in Bytes /\ ns[i] \in Nat
  OBVIOUS
<1>2. CASE Len(ss) = 0
  <2>1. ss = << >> /\ FlattenSeq(ss) = ss
    BY <1>2 DEF FlattenSeq
  <2>2. Total(ns) \in Nat
    BY SumTypes
  <2> QED BY <2>1, <2>2, WidthEmpty
<1>3. CASE Len(ss) # 0
  <2>1. PICK g : g = Flat(ss)
    OBVIOUS
  <2>2. g = [i \in 1 .. Len(ss) |-> IF i = 1 THEN ss[i] ELSE g[i - 1] \o ss[i]]
    BY <1>1, <1>3, <2>1, FlatIs DEF IsFlat
  <2>3. \A i \in 1 .. Len(ss) : g[i] = IF i = 1 THEN ss[i] ELSE g[i - 1] \o ss[i]
    BY <2>2
  <2>4. PICK f : f = Sum(ns)
    OBVIOUS
  <2>5. /\ \A k \in 0 .. Len(ss) : f[k] \in Nat /\ f[k] = IF k = 0 THEN 0 ELSE f[k - 1] + ns[k]
        /\ Total(ns) = f[Len(ss)]
    BY <2>4, SumTypes
  <2> DEFINE A == {k \in Nat : k + 1 <= Len(ss) =>
                                  g[k + 1] \in Bytes /\ WidthOf(g[k + 1]) <= f[k + 1]}
  <2>6. 0 \in A
    <3>1. 1 \in 1 .. Len(ss) /\ 0 \in 0 .. Len(ss) /\ 1 \in 0 .. Len(ss) /\ 0 + 1 = 1
      BY <1>1, <1>3
    <3>2. g[1] = ss[1] /\ f[0] = 0 /\ f[1] = f[1 - 1] + ns[1] /\ 1 - 1 = 0
      BY <2>3, <2>5, <3>1
    <3>3. g[1] \in Bytes /\ WidthOf(g[1]) <= f[1]
      BY <1>1, <3>1, <3>2
    <3> QED BY <3>1, <3>3
  <2>7. ASSUME NEW k \in Nat, k \in A PROVE k + 1 \in A
    <3> SUFFICES ASSUME k + 1 + 1 <= Len(ss)
                 PROVE  g[k + 1 + 1] \in Bytes /\ WidthOf(g[k + 1 + 1]) <= f[k + 1 + 1]
      OBVIOUS
    <3>1. PICK j \in Nat : j = k + 1
      OBVIOUS
    <3>2. /\ j \in 1 .. Len(ss) /\ j + 1 \in 1 .. Len(ss) /\ j + 1 \in 0 .. Len(ss)
          /\ j \in 0 .. Len(ss) /\ j + 1 - 1 = j /\ j + 1 # 1 /\ j + 1 # 0
      BY <1>1, <3>1
    <3>3. g[j] \in Bytes /\ WidthOf(g[j]) <= f[j]
      BY <1>1, <2>7, <3>1
    <3>4. g[j + 1] = g[j] \o ss[j + 1] /\ f[j + 1] = f[j] + ns[j + 1]
      <4>3. PICK i \in 1 .. Len(ss) : i = j + 1 /\ i - 1 = j /\ i # 1
        BY <3>2
      <4>1. g[i] = g[i - 1] \o ss[i]
        BY <2>3, <4>3
      <4>2. f[j + 1] = IF j + 1 = 0 THEN 0 ELSE f[j + 1 - 1] + ns[j + 1]
        BY <2>5, <3>2
      <4> QED BY <3>2, <4>1, <4>2, <4>3
    <3>5. ss[j + 1] \in Bytes /\ WidthOf(ss[j + 1]) <= ns[j + 1] /\ ns[j + 1] \in Nat
      BY <1>1, <3>2
    <3>6. /\ g[j + 1] \in Bytes
          /\ WidthOf(g[j + 1]) = WidthOf(g[j]) + WidthOf(ss[j + 1])
      BY <3>3, <3>4, <3>5, WidthConcat
    <3>7. WidthOf(g[j]) \in Nat /\ WidthOf(ss[j + 1]) \in Nat /\ f[j] \in Nat
      BY <2>5, <3>2, <3>3, <3>5, WidthTypes
    <3>8. WidthOf(g[j + 1]) <= f[j + 1]
      BY <3>3, <3>4, <3>5, <3>6, <3>7
    <3> QED BY <3>1, <3>6, <3>8
  <2>8. \A k \in Nat : k \in A
    <3> HIDE DEF A
    <3> QED BY <2>6, <2>7, AllNaturals
  <2>9. PICK k \in Nat : k + 1 = Len(ss)
    <3>1. Len(ss) - 1 \in Nat /\ Len(ss) - 1 + 1 = Len(ss)
      BY <1>1, <1>3
    <3> QED BY <3>1
  <2>10. g[Len(ss)] \in Bytes /\ WidthOf(g[Len(ss)]) <= f[Len(ss)]
    BY <1>1, <2>8, <2>9
  <2>11. FlattenSeq(ss) = g[Len(ss)]
    BY <1>1, <1>3, <2>1, FlatIs
  <2> QED BY <2>5, <2>10, <2>11
<1> QED BY <1>2, <1>3

-----------------------------------------------------------------------------
\* What an object writes and what it stands for: these recursions over its elements are
\* well founded, as no object is among its own elements.  They are one function here.

Closed(C) == C \in SUBSET Values /\ \A v \in C : \A i \in DOMAIN v.kids : v.kids[i] \in C

Meant(v, parts) ==
    [bytes    |-> serializeObject(v, FlattenSeq([i \in DOMAIN v.kids |-> parts[i].bytes])),
     content  |-> Content(v.type, v.num, [i \in DOMAIN v.kids |-> parts[i].content]),
     faithful |-> ~ Stale(v) /\ ~ BadKey(v) /\ \A i \in DOMAIN v.kids : parts[i].faithful]

IsMeaning(C, g) == g = [v \in C |-> Meant(v, [i \in DOMAIN v.kids |-> g[v.kids[i]]])]

LEMMA MeaningAt ==
  ASSUME NEW C, NEW g, IsMeaning(C, g), NEW v \in C
  PROVE  g[v] = Meant(v, [i \in DOMAIN v.kids |-> g[v.kids[i]]])
<1>1. \A x \in C :
         [y \in C |-> Meant(y, [i \in DOMAIN y.kids |-> g[y.kids[i]]])][x]
           = Meant(x, [i \in DOMAIN x.kids |-> g[x.kids[i]]])
  OBVIOUS
<1> QED BY <1>1 DEF IsMeaning

LEMMA MeaningUnique ==
  ASSUME NEW C, NEW D, NEW g, NEW h, Closed(C), Closed(D), IsMeaning(C, g), IsMeaning(D, h)
  PROVE  \A v \in C \cap D : g[v] = h[v]
<1> DEFINE S == {v \in C \cap D : g[v] # h[v]}
<1> SUFFICES ASSUME S # {} PROVE FALSE
  OBVIOUS
<1>1. S \in SUBSET Values
  BY DEF Closed
<1>2. PICK v \in S : \A i \in DOMAIN v.kids : v.kids[i] \notin S
  <2> HIDE DEF S
  <2> QED BY <1>1, ValuesNest
<1>3. \A i \in DOMAIN v.kids : g[v.kids[i]] = h[v.kids[i]]
  BY <1>2 DEF Closed
<1>4. [i \in DOMAIN v.kids |-> g[v.kids[i]]] = [i \in DOMAIN v.kids |-> h[v.kids[i]]]
  BY <1>3
<1>5. g[v] = h[v]
  <2>1. v \in C /\ v \in D
    OBVIOUS
  <2>2. g[v] = Meant(v, [i \in DOMAIN v.kids |-> g[v.kids[i]]])
    BY <2>1, MeaningAt
  <2>3. h[v] = Meant(v, [i \in DOMAIN v.kids |-> h[v.kids[i]]])
    BY <2>1, MeaningAt
  <2> QED BY <1>4, <2>2, <2>3
<1> QED BY <1>5

LEMMA MeaningExists == \E g : IsMeaning(Values, g)
<1> DEFINE Done(v) == \E C : Closed(C) /\ v \in C /\ \E g : IsMeaning(C, g)
           E == {v \in Values : Done(v)}
           Is(v, y) == \E C : Closed(C) /\ v \in C /\ \E g : IsMeaning(C, g) /\ y = g[v]
           G == [v \in E |-> CHOOSE y : Is(v, y)]
<1>1. Closed(E)
  <2> SUFFICES ASSUME NEW v \in E, NEW i \in DOMAIN v.kids PROVE v.kids[i] \in E
    BY DEF Closed
  <2>1. PICK C : Closed(C) /\ v \in C /\ \E g : IsMeaning(C, g)
    OBVIOUS
  <2>2. v.kids[i] \in C /\ v.kids[i] \in Values
    BY <2>1 DEF Closed
  <2> QED BY <2>1, <2>2
<1>2. ASSUME NEW C, Closed(C), NEW g, IsMeaning(C, g), NEW v \in C
      PROVE  v \in E /\ G[v] = g[v]
  <2>1. v \in E
    BY <1>2 DEF Closed
  <2>2. Is(v, g[v])
    BY <1>2
  <2>3. Is(v, G[v])
    <3> HIDE DEF Is
    <3> QED BY <2>1, <2>2
  <2>4. PICK D : Closed(D) /\ v \in D /\ \E h : IsMeaning(D, h) /\ G[v] = h[v]
    <3> HIDE DEF G, E
    <3> QED BY <2>3
  <2> HIDE DEF G, E
  <2>5. PICK h : IsMeaning(D, h) /\ G[v] = h[v]
    BY <2>4
  <2> QED BY <1>2, <2>1, <2>4, <2>5, MeaningUnique
<1>3. ASSUME NEW v \in E
      PROVE  G[v] = Meant(v, [i \in DOMAIN v.kids |-> G[v.kids[i]]])
  <2>1. PICK C : Closed(C) /\ v \in C /\ \E g : IsMeaning(C, g)
    OBVIOUS
  <2>2. PICK g : IsMeaning(C, g)
    BY <2>1
  <2> HIDE DEF G, E
  <2>3. G[v] = g[v] /\ \A i \in DOMAIN v.kids : G[v.kids[i]] = g[v.kids[i]]
    BY <1>2, <2>1, <2>2 DEF Closed
  <2>4. [i \in DOMAIN v.kids |-> G[v.kids[i]]] = [i \in DOMAIN v.kids |-> g[v.kids[i]]]
    BY <2>3
  <2> QED BY <2>1, <2>2, <2>3, <2>4, MeaningAt
<1>4. Values \ E = {}
  <2> SUFFICES ASSUME Values \ E # {} PROVE FALSE
    OBVIOUS
  <2>1. PICK v \in Values \ E : \A i \in DOMAIN v.kids : v.kids[i] \notin Values \ E
    <3> HIDE DEF E
    <3> QED BY ValuesNest
  <2>2. v.kids \in Seq(Values)
    BY ValuesBuilt
  <2>3. \A i \in DOMAIN v.kids : v.kids[i] \in E
    <3>1. \A i \in DOMAIN v.kids : v.kids[i] \in Values
      BY <2>2
    <3> HIDE DEF E
    <3> QED BY <2>1, <3>1
  <2> DEFINE C == E \cup {v}
             Of(x) == Meant(x, [i \in DOMAIN x.kids |-> G[x.kids[i]]])
             h == [x \in C |-> Of(x)]
  <2>4. Closed(C)
    <3> HIDE DEF E
    <3> QED BY <1>1, <2>1, <2>3 DEF Closed
  <2>5. \A x \in E : h[x] = G[x]
    <3> HIDE DEF G, E
    <3> QED BY <1>3
  <2>6. ASSUME NEW x \in C
        PROVE  Of(x) = Meant(x, [i \in DOMAIN x.kids |-> h[x.kids[i]]])
    <3> HIDE DEF G, E
    <3>1. \A i \in DOMAIN x.kids : x.kids[i] \in E
      BY <1>1, <2>3 DEF Closed
    <3>2. \A i \in DOMAIN x.kids : h[x.kids[i]] = G[x.kids[i]]
      BY <2>5, <3>1
    <3> HIDE DEF h
    <3>3. [i \in DOMAIN x.kids |-> h[x.kids[i]]] = [i \in DOMAIN x.kids |-> G[x.kids[i]]]
      BY <3>2
    <3> QED BY <3>3
  <2>7. IsMeaning(C, h)
    <3>1. [x \in C |-> Of(x)]
            = [x \in C |-> Meant(x, [i \in DOMAIN x.kids |-> h[x.kids[i]]])]
      <4> HIDE DEF C, h, Of
      <4> QED BY <2>6
    <3>2. h = [x \in C |-> Of(x)]
      OBVIOUS
    <3> HIDE DEF C, h, Of
    <3> QED BY <3>1, <3>2 DEF IsMeaning
  <2> HIDE DEF h, G
  <2>8. v \in C
    OBVIOUS
  <2>9. Done(v)
    <3> HIDE DEF C
    <3> QED BY <2>4, <2>7, <2>8
  <2> QED BY <2>1, <2>9
<1>5. IsMeaning(Values, G)
  <2>1. E = Values
    BY <1>4
  <2>2. G = [v \in E |-> G[v]]
    OBVIOUS
  <2>3. [v \in E |-> G[v]]
          = [v \in E |-> Meant(v, [i \in DOMAIN v.kids |-> G[v.kids[i]]])]
    <3> HIDE DEF G, E
    <3> QED BY <1>3
  <2> HIDE DEF G, E
  <2> QED BY <2>1, <2>2, <2>3 DEF IsMeaning
<1> QED BY <1>5

LEMMA MeaningOf ==
  ASSUME NEW g, IsMeaning(Values, g), NEW x \in Values
  PROVE  /\ g[x].bytes
               = serializeObject(x, FlattenSeq([i \in DOMAIN x.kids |-> g[x.kids[i]].bytes]))
         /\ g[x].content
               = Content(x.type, x.num, [i \in DOMAIN x.kids |-> g[x.kids[i]].content])
         /\ g[x].faithful
               = (~ Stale(x) /\ ~ BadKey(x) /\ \A i \in DOMAIN x.kids : g[x.kids[i]].faithful)
<1>1. PICK parts : parts = [i \in DOMAIN x.kids |-> g[x.kids[i]]]
  OBVIOUS
<1>2. g[x] = Meant(x, parts)
  BY <1>1, MeaningAt
<1>3. \A i \in DOMAIN x.kids : parts[i] = g[x.kids[i]]
  BY <1>1
<1>4. [i \in DOMAIN x.kids |-> parts[i].bytes] = [i \in DOMAIN x.kids |-> g[x.kids[i]].bytes]
  BY <1>3
<1>5. [i \in DOMAIN x.kids |-> parts[i].content]
        = [i \in DOMAIN x.kids |-> g[x.kids[i]].content]
  BY <1>3
<1>6. g[x].bytes = serializeObject(x, FlattenSeq([i \in DOMAIN x.kids |-> parts[i].bytes]))
  BY <1>2 DEF Meant
<1>7. g[x].content = Content(x.type, x.num, [i \in DOMAIN x.kids |-> parts[i].content])
  BY <1>2 DEF Meant
<1>8. g[x].faithful
        = (~ Stale(x) /\ ~ BadKey(x) /\ \A i \in DOMAIN x.kids : parts[i].faithful)
  BY <1>2 DEF Meant
<1>9. (\A i \in DOMAIN x.kids : parts[i].faithful)
        = (\A i \in DOMAIN x.kids : g[x.kids[i]].faithful)
  BY <1>3
<1> QED BY <1>4, <1>5, <1>6, <1>7, <1>8, <1>9

LEMMA SerializeIs ==
  ASSUME NEW v \in Values
  PROVE  serialize[v]
           = serializeObject(v, FlattenSeq([i \in DOMAIN v.kids |-> serialize[v.kids[i]]]))
<1> DEFINE Of(s, x) == serializeObject(x, FlattenSeq([i \in DOMAIN x.kids |-> s[x.kids[i]]]))
           Is(s) == s = [x \in Values |-> Of(s, x)]
<1>1. PICK g : IsMeaning(Values, g)
  BY MeaningExists
<1>2. PICK s : s = [x \in Values |-> g[x].bytes]
  OBVIOUS
<1>3. ASSUME NEW x \in Values PROVE s[x] = Of(s, x)
  <2>1. x.kids \in Seq(Values)
    BY ValuesBuilt
  <2>2. \A i \in DOMAIN x.kids : s[x.kids[i]] = g[x.kids[i]].bytes
    BY <1>2, <2>1
  <2>3. [i \in DOMAIN x.kids |-> g[x.kids[i]].bytes] = [i \in DOMAIN x.kids |-> s[x.kids[i]]]
    BY <2>2
  <2>4. s[x] = g[x].bytes
    BY <1>2
  <2>5. g[x].bytes
          = serializeObject(x, FlattenSeq([i \in DOMAIN x.kids |-> g[x.kids[i]].bytes]))
    BY <1>1, MeaningOf
  <2> QED BY <2>3, <2>4, <2>5
<1>4. Is(s)
  <2>1. s = [x \in Values |-> s[x]]
    BY <1>2
  <2> HIDE DEF Of
  <2> QED BY <1>3, <2>1
<1>5. Is(CHOOSE t : Is(t))
  <2> HIDE DEF Is
  <2> QED BY <1>4
<1>6. serialize = CHOOSE t : Is(t)
  BY DEF serialize
<1>7. Is(serialize)
  <2> HIDE DEF Is
  <2> QED BY <1>5, <1>6
<1>8. \A x \in Values : [y \in Values |-> Of(serialize, y)][x] = Of(serialize, x)
  OBVIOUS
<1>9. serialize[v] = Of(serialize, v)
  <2> HIDE DEF Of
  <2> QED BY <1>7, <1>8
<1> QED BY <1>9

LEMMA ContentIs ==
  ASSUME NEW v \in Values
  PROVE  content[v] = Content(v.type, v.num, [i \in DOMAIN v.kids |-> content[v.kids[i]]])
<1> DEFINE Of(s, x) == Content(x.type, x.num, [i \in DOMAIN x.kids |-> s[x.kids[i]]])
           Is(s) == s = [x \in Values |-> Of(s, x)]
<1>1. PICK g : IsMeaning(Values, g)
  BY MeaningExists
<1>2. PICK s : s = [x \in Values |-> g[x].content]
  OBVIOUS
<1>3. ASSUME NEW x \in Values PROVE s[x] = Of(s, x)
  <2>1. x.kids \in Seq(Values)
    BY ValuesBuilt
  <2>2. \A i \in DOMAIN x.kids : s[x.kids[i]] = g[x.kids[i]].content
    BY <1>2, <2>1
  <2>3. [i \in DOMAIN x.kids |-> g[x.kids[i]].content] = [i \in DOMAIN x.kids |-> s[x.kids[i]]]
    BY <2>2
  <2>4. s[x] = g[x].content
    BY <1>2
  <2>5. g[x].content = Content(x.type, x.num, [i \in DOMAIN x.kids |-> g[x.kids[i]].content])
    BY <1>1, MeaningOf
  <2> QED BY <2>3, <2>4, <2>5
<1>4. Is(s)
  <2>1. s = [x \in Values |-> s[x]]
    BY <1>2
  <2> HIDE DEF Of
  <2> QED BY <1>3, <2>1
<1>5. Is(CHOOSE t : Is(t))
  <2> HIDE DEF Is
  <2> QED BY <1>4
<1>6. content = CHOOSE t : Is(t)
  BY DEF content
<1>7. Is(content)
  <2> HIDE DEF Is
  <2> QED BY <1>5, <1>6
<1>8. \A x \in Values : [y \in Values |-> Of(content, y)][x] = Of(content, x)
  OBVIOUS
<1>9. content[v] = Of(content, v)
  <2> HIDE DEF Of
  <2> QED BY <1>7, <1>8
<1> QED BY <1>9

LEMMA FaithfulIs ==
  ASSUME NEW v \in Values
  PROVE  faithful[v]
           = (~ Stale(v) /\ ~ BadKey(v) /\ \A i \in DOMAIN v.kids : faithful[v.kids[i]])
<1> DEFINE Of(s, x) == (~ Stale(x) /\ ~ BadKey(x) /\ \A i \in DOMAIN x.kids : s[x.kids[i]])
           Is(s) == s = [x \in Values |-> Of(s, x)]
<1>1. PICK g : IsMeaning(Values, g)
  BY MeaningExists
<1>2. PICK s : s = [x \in Values |-> g[x].faithful]
  OBVIOUS
<1>3. ASSUME NEW x \in Values PROVE s[x] = Of(s, x)
  <2>1. x.kids \in Seq(Values)
    BY ValuesBuilt
  <2>2. \A i \in DOMAIN x.kids : s[x.kids[i]] = g[x.kids[i]].faithful
    BY <1>2, <2>1
  <2>3. [i \in DOMAIN x.kids |-> g[x.kids[i]].faithful] = [i \in DOMAIN x.kids |-> s[x.kids[i]]]
    BY <2>2
  <2>4. s[x] = g[x].faithful
    BY <1>2
  <2>5. g[x].faithful
          = (~ Stale(x) /\ ~ BadKey(x) /\ \A i \in DOMAIN x.kids : g[x.kids[i]].faithful)
    BY <1>1, MeaningOf
  <2> QED BY <2>2, <2>4, <2>5
<1>4. Is(s)
  <2>1. s = [x \in Values |-> s[x]]
    BY <1>2
  <2> HIDE DEF Of
  <2> QED BY <1>3, <2>1
<1>5. Is(CHOOSE t : Is(t))
  <2> HIDE DEF Is
  <2> QED BY <1>4
<1>6. faithful = CHOOSE t : Is(t)
  BY DEF faithful
<1>7. Is(faithful)
  <2> HIDE DEF Is
  <2> QED BY <1>5, <1>6
<1>8. \A x \in Values : [y \in Values |-> Of(faithful, y)][x] = Of(faithful, x)
  OBVIOUS
<1>9. faithful[v] = Of(faithful, v)
  <2> HIDE DEF Of
  <2> QED BY <1>7, <1>8
<1> QED BY <1>9

LEMMA Pair ==
  ASSUME NEW S, NEW e \in S, NEW f \in S
  PROVE  <<e>> \o <<f>> = <<e, f>>
<1>1. /\ <<e>> \in Seq(S) /\ Len(<<e>>) = 1 /\ <<e>>[1] = e
      /\ <<f>> \in Seq(S) /\ Len(<<f>>) = 1 /\ <<f>>[1] = f
      /\ <<e, f>> \in Seq(S) /\ Len(<<e, f>>) = 2 /\ <<e, f>>[1] = e /\ <<e, f>>[2] = f
  OBVIOUS
<1>2. PICK s : s = <<e>> \o <<f>>
  OBVIOUS
<1>3. /\ s \in Seq(S) /\ Len(s) = 2
      /\ \A i \in 1 .. 2 : s[i] = IF i <= 1 THEN <<e>>[i] ELSE <<f>>[i - 1]
  BY <1>1, <1>2, ConcatProperties
<1>4. s[1] = e /\ s[2] = f
  BY <1>1, <1>3
<1>5. PICK u : u = <<e, f>>
  OBVIOUS
<1>6. \A i \in 1 .. 2 : s[i] = u[i]
  BY <1>1, <1>4, <1>5
<1> QED BY <1>1, <1>2, <1>3, <1>5, <1>6, SeqEqual

LEMMA Triple ==
  ASSUME NEW S, NEW d \in S, NEW e \in S, NEW f \in S
  PROVE  <<d, e>> \o <<f>> = <<d, e, f>>
<1>1. /\ <<d, e>> \in Seq(S) /\ Len(<<d, e>>) = 2 /\ <<d, e>>[1] = d /\ <<d, e>>[2] = e
      /\ <<f>> \in Seq(S) /\ Len(<<f>>) = 1 /\ <<f>>[1] = f
      /\ <<d, e, f>> \in Seq(S) /\ Len(<<d, e, f>>) = 3
      /\ <<d, e, f>>[1] = d /\ <<d, e, f>>[2] = e /\ <<d, e, f>>[3] = f
  OBVIOUS
<1>2. PICK s : s = <<d, e>> \o <<f>>
  OBVIOUS
<1>3. /\ s \in Seq(S) /\ Len(s) = 3
      /\ \A i \in 1 .. 3 : s[i] = IF i <= 2 THEN <<d, e>>[i] ELSE <<f>>[i - 2]
  BY <1>1, <1>2, ConcatProperties
<1>4. s[1] = d /\ s[2] = e /\ s[3] = f
  BY <1>1, <1>3
<1>5. PICK u : u = <<d, e, f>>
  OBVIOUS
<1>6. \A i \in 1 .. 3 : s[i] = u[i]
  BY <1>1, <1>4, <1>5
<1> QED BY <1>1, <1>2, <1>3, <1>5, <1>6, SeqEqual

LEMMA WidthTwo ==
  ASSUME NEW e \in Field, NEW f \in Field
  PROVE  <<e, f>> \in Bytes /\ WidthOf(<<e, f>>) = e.width + f.width
<1>1. <<e>> \o <<f>> = <<e, f>>
  BY Pair
<1>2. /\ <<e>> \in Bytes /\ WidthOf(<<e>>) = e.width
      /\ <<f>> \in Bytes /\ WidthOf(<<f>>) = f.width
  BY WidthOne
<1> QED BY <1>1, <1>2, WidthConcat

LEMMA WidthThree ==
  ASSUME NEW d \in Field, NEW e \in Field, NEW f \in Field
  PROVE  <<d, e, f>> \in Bytes /\ WidthOf(<<d, e, f>>) = d.width + e.width + f.width
<1>1. <<d, e>> \o <<f>> = <<d, e, f>>
  BY Triple
<1>2. /\ <<d, e>> \in Bytes /\ WidthOf(<<d, e>>) = d.width + e.width
      /\ <<f>> \in Bytes /\ WidthOf(<<f>>) = f.width
  BY WidthOne, WidthTwo
<1>3. d.width \in Nat /\ e.width \in Nat /\ f.width \in Nat
  BY DEF Field
<1> QED BY <1>1, <1>2, <1>3, WidthConcat

LEMMA FieldTypes ==
  /\ \A c \in Codes : Code(c) \in Field /\ Code(c).width = 1
  /\ \A n, w \in Nat : Number(n, w) \in Field /\ Number(n, w).width = w
  /\ \A n \in Nat : Text(n) \in Field /\ Text(n).width = n
<1>1. ASSUME NEW c \in Codes PROVE Code(c) \in Field /\ Code(c).width = 1
  BY <1>1 DEF Code, Field
<1>2. ASSUME NEW n \in Nat, NEW w \in Nat
      PROVE  Number(n, w) \in Field /\ Number(n, w).width = w
  BY DEF Number, Field, Codes
<1>3. ASSUME NEW n \in Nat PROVE Text(n) \in Field /\ Text(n).width = n
  BY DEF Text, Field, Codes
<1> QED BY <1>1, <1>2, <1>3

LEMMA StringFits ==
  ASSUME NEW v, v.num \in Nat, v.length = binaryStringLength(v.num)
  PROVE  /\ serializeString(v) \in Bytes /\ v.length \in Nat
         /\ WidthOf(serializeString(v)) <= v.length
<1> DEFINE n == v.num
           t == LengthType(n)
           head == IF v.empty THEN <<Code("empty")>>
                   ELSE <<Code("string"), Code(t), Number(n, ScalarWidth[t])>>
           text == IF n > 0 THEN <<Text(n)>> ELSE << >>
<1>1. t \in Codes /\ ScalarWidth[t] \in Nat /\ v.length \in Nat
      /\ 2 + ScalarWidth[t] + n <= v.length /\ 1 + n <= v.length
  BY DEF LengthType, ScalarWidth, binaryStringLength, Codes
<1>2. head \in Bytes /\ WidthOf(head) + n <= v.length
  <2>1. CASE v.empty
    <3>1. Code("empty") \in Field /\ Code("empty").width = 1
      BY FieldTypes DEF Codes
    <3>2. <<Code("empty")>> \in Bytes /\ WidthOf(<<Code("empty")>>) = 1
      BY <3>1, WidthOne
    <3> QED BY <1>1, <2>1, <3>2
  <2>2. CASE ~ v.empty
    <3> HIDE DEF t
    <3>1. /\ Code("string") \in Field /\ Code("string").width = 1
          /\ Code(t) \in Field /\ Code(t).width = 1
          /\ Number(n, ScalarWidth[t]) \in Field
          /\ Number(n, ScalarWidth[t]).width = ScalarWidth[t]
      BY <1>1, FieldTypes DEF Codes
    <3>2. PICK h : h = <<Code("string"), Code(t), Number(n, ScalarWidth[t])>>
      OBVIOUS
    <3>3. h \in Bytes /\ WidthOf(h) = 1 + 1 + ScalarWidth[t]
      BY <3>1, <3>2, WidthThree
    <3> QED BY <1>1, <2>2, <3>2, <3>3
  <2> QED BY <2>1, <2>2
<1>3. text \in Bytes /\ WidthOf(text) = n
  <2>1. Text(n) \in Field /\ Text(n).width = n
    BY FieldTypes DEF Codes
  <2>2. <<Text(n)>> \in Bytes /\ WidthOf(<<Text(n)>>) = n
    BY <2>1, WidthOne
  <2> QED BY <2>2, WidthEmpty
<1>4. serializeString(v) = head \o text
  BY DEF serializeString
<1> HIDE DEF head, text
<1>5. WidthOf(head) \in Nat /\ WidthOf(text) \in Nat
  BY <1>2, <1>3, WidthTypes
<1> QED BY <1>1, <1>2, <1>3, <1>4, <1>5, WidthConcat

LEMMA ScalarTypes ==
  ASSUME NEW c \in Scalars
  PROVE  c \in Codes /\ ScalarWidth[c] \in Nat
<1>1. c \in {"uint8", "sint8", "uint16", "sint16", "uint32", "sint32", "uint64", "sint64",
            "float", "double"}
  BY DEF Scalars, ScalarWidth
<1>2. c \in Codes
  BY <1>1 DEF Codes
<1>3. ScalarWidth[c] \in Nat
  BY <1>1 DEF ScalarWidth
<1> QED BY <1>2, <1>3

LEMMA ScalarFits ==
  ASSUME NEW v, v.num \in Nat, v.type \in Scalars \cup {"bool"},
         v.length = IF v.type = "bool" THEN 1 ELSE 1 + ScalarWidth[v.type]
  PROVE  /\ serializeScalar(v) \in Bytes /\ v.length \in Nat
         /\ WidthOf(serializeScalar(v)) <= v.length
<1>1. CASE v.type = "bool"
  <2>1. PICK c \in Codes : serializeScalar(v) = <<Code(c)>>
    BY <1>1 DEF serializeScalar, Codes
  <2>2. Code(c) \in Field /\ Code(c).width = 1
    BY FieldTypes DEF Codes
  <2> QED BY <1>1, <2>1, <2>2, WidthOne
<1>2. CASE v.type # "bool"
  <2>1. v.type \in Codes /\ ScalarWidth[v.type] \in Nat
    BY <1>2, ScalarTypes
  <2>2. /\ Code(v.type) \in Field /\ Code(v.type).width = 1
        /\ Number(v.num, ScalarWidth[v.type]) \in Field
        /\ Number(v.num, ScalarWidth[v.type]).width = ScalarWidth[v.type]
    BY <2>1, FieldTypes
  <2>3. serializeScalar(v) = <<Code(v.type), Number(v.num, ScalarWidth[v.type])>>
    BY <1>2 DEF serializeScalar
  <2> QED BY <1>2, <2>1, <2>2, <2>3, WidthTwo
<1> QED BY <1>1, <1>2

\* An array or a struct around its elements.
LEMMA ContainerFits ==
  ASSUME NEW v, NEW parts \in Bytes, v.kids \in Seq(Values), NEW n \in Nat,
         WidthOf(parts) <= n
  PROVE  /\ serializeArray(v, parts) \in Bytes
         /\ WidthOf(serializeArray(v, parts)) <= n + 10
         /\ serializeStruct(v, parts) \in Bytes
         /\ WidthOf(serializeStruct(v, parts)) <= n + 2
<1>1. Len(v.kids) \in Nat
  OBVIOUS
<1>2. /\ Code("array") \in Field /\ Code("array").width = 1
      /\ Number(Len(v.kids), 8) \in Field /\ Number(Len(v.kids), 8).width = 8
      /\ Code("struct") \in Field /\ Code("struct").width = 1
      /\ Code("none") \in Field /\ Code("none").width = 1
  BY <1>1, FieldTypes DEF Codes
<1>3. PICK a : a = <<Code("array"), Number(Len(v.kids), 8)>>
  OBVIOUS
<1>4. PICK s : s = <<Code("struct")>>
  OBVIOUS
<1>5. PICK e : e = <<Code("none")>>
  OBVIOUS
<1>6. /\ a \in Bytes /\ WidthOf(a) = 1 + 8 /\ s \in Bytes /\ WidthOf(s) = 1
      /\ e \in Bytes /\ WidthOf(e) = 1 /\ WidthOf(parts) \in Nat
  BY <1>2, <1>3, <1>4, <1>5, WidthOne, WidthTwo, WidthTypes
<1>7. /\ a \o parts \in Bytes /\ WidthOf(a \o parts) = 9 + WidthOf(parts)
      /\ s \o parts \in Bytes /\ WidthOf(s \o parts) = 1 + WidthOf(parts)
  BY <1>6, WidthConcat
<1>8. /\ (a \o parts) \o e \in Bytes /\ WidthOf((a \o parts) \o e) = 10 + WidthOf(parts)
      /\ (s \o parts) \o e \in Bytes /\ WidthOf((s \o parts) \o e) = 2 + WidthOf(parts)
  BY <1>6, <1>7, WidthConcat
<1>9. /\ serializeArray(v, parts) = (a \o parts) \o e
      /\ serializeStruct(v, parts) = (s \o parts) \o e
  BY <1>3, <1>4, <1>5 DEF serializeArray, serializeStruct
<1> QED BY <1>6, <1>8, <1>9

Fits(v) == serialize[v] \in Bytes /\ v.length \in Nat /\ WidthOf(serialize[v]) <= v.length

\* The objects of a sequence, one after the other, keep within the sum of their lengths.
LEMMA SequenceFits ==
  ASSUME NEW vs \in Seq(Values), \A i \in DOMAIN vs : Fits(vs[i])
  PROVE  LET parts == FlattenSeq([i \in DOMAIN vs |-> serialize[vs[i]]])
         IN  /\ parts \in Bytes /\ SumOfBytes(vs) \in Nat
             /\ WidthOf(parts) <= SumOfBytes(vs)
<1> DEFINE ss == [i \in DOMAIN vs |-> serialize[vs[i]]]
           ns == [i \in DOMAIN vs |-> vs[i].length]
<1>1. DOMAIN vs = 1 .. Len(vs) /\ Len(vs) \in Nat
  OBVIOUS
<1>2. /\ \A i \in 1 .. Len(vs) : serialize[vs[i]] \in Bytes /\ vs[i].length \in Nat
      /\ \A i \in 1 .. Len(vs) : WidthOf(serialize[vs[i]]) <= vs[i].length
  BY <1>1 DEF Fits
<1>3. ss \in [1 .. Len(vs) -> Bytes] /\ ns \in [1 .. Len(vs) -> Nat]
  BY <1>1, <1>2
<1>4. ss \in Seq(Bytes) /\ ns \in Seq(Nat) /\ Len(ss) = Len(vs) /\ Len(ns) = Len(vs)
  <2> HIDE DEF ss, ns
  <2>1. ss \in Seq(Bytes) /\ Len(ss) = Len(vs)
    BY <1>1, <1>3
  <2>2. ns \in Seq(Nat) /\ Len(ns) = Len(vs)
    BY <1>1, <1>3
  <2> QED BY <2>1, <2>2
<1>5. \A i \in 1 .. Len(ss) : WidthOf(ss[i]) <= ns[i]
  BY <1>1, <1>2, <1>4
<1>6. SumOfBytes(vs) = Total(ns)
  BY DEF SumOfBytes
<1> HIDE DEF ss, ns
<1>7. FlattenSeq(ss) \in Bytes /\ WidthOf(FlattenSeq(ss)) <= Total(ns) /\ Total(ns) \in Nat
  BY <1>4, <1>5, FlatFits, SumTypes
<1> QED BY <1>6, <1>7 DEF ss

\* Every object writes no more than it claims (bytes(), serialize), whatever is in it.
THEOREM EveryObjectFits == \A v \in Values : Fits(v)
<1> DEFINE S == {v \in Values : ~ Fits(v)}
<1> SUFFICES ASSUME S # {} PROVE FALSE
  OBVIOUS
<1>1. PICK v \in S : \A i \in DOMAIN v.kids : v.kids[i] \notin S
  BY ValuesNest
<1>2. /\ v \in Values /\ ~ Fits(v) /\ v.num \in Nat /\ v.kids \in Seq(Values)
      /\ v.type \in Scalars \cup {"bool"} \cup Linkable /\ v = setValue(v, Anew(v))
  BY ValuesBuilt
<1>3. v.length = Anew(v).length
  <2>1. setValue(v, Anew(v)).length = Anew(v).length
    BY DEF setValue, Anew, Bool, String, Array, Struct, Scalar, Object
  <2> QED BY <1>2, <2>1
<1>4. \A i \in DOMAIN v.kids : Fits(v.kids[i])
  BY <1>1, <1>2
<1> DEFINE parts == FlattenSeq([i \in DOMAIN v.kids |-> serialize[v.kids[i]]])
<1>5. /\ parts \in Bytes /\ SumOfBytes(v.kids) \in Nat
      /\ WidthOf(parts) <= SumOfBytes(v.kids)
  BY <1>2, <1>4, SequenceFits
<1>6. serialize[v] = serializeObject(v, parts)
  BY <1>2, SerializeIs
<1> HIDE DEF parts, S
<1>7. CASE v.type = "string"
  <2>1. v.length = binaryStringLength(v.num)
    BY <1>3, <1>7 DEF Anew, String, Object
  <2>2. serialize[v] = serializeString(v)
    BY <1>6, <1>7 DEF serializeObject
  <2> QED BY <1>2, <2>1, <2>2, StringFits DEF Fits
<1>8. CASE v.type = "array"
  <2>1. v.length = SumOfBytes(v.kids) + 10
    BY <1>3, <1>8 DEF Anew, Array, Object
  <2>2. serialize[v] = serializeArray(v, parts)
    BY <1>6, <1>8 DEF serializeObject
  <2> QED BY <1>2, <1>5, <2>1, <2>2, ContainerFits DEF Fits
<1>9. CASE v.type = "struct"
  <2>1. v.length = SumOfBytes(v.kids) + 2
    BY <1>3, <1>9 DEF Anew, Struct, Object
  <2>2. serialize[v] = serializeStruct(v, parts)
    BY <1>6, <1>9 DEF serializeObject
  <2> QED BY <1>2, <1>5, <2>1, <2>2, ContainerFits DEF Fits
<1>10. CASE v.type \in Scalars \cup {"bool"}
  <2>1. v.type \notin {"string", "array", "struct"}
    BY <1>10 DEF Scalars, ScalarWidth
  <2>2. v.length = IF v.type = "bool" THEN 1 ELSE 1 + ScalarWidth[v.type]
    BY <1>3, <2>1 DEF Anew, Bool, Scalar, Object
  <2>3. serialize[v] = serializeScalar(v)
    BY <1>6, <2>1 DEF serializeObject
  <2> QED BY <1>2, <1>10, <2>2, <2>3, ScalarFits DEF Fits
<1> QED BY <1>2, <1>7, <1>8, <1>9, <1>10 DEF Linkable

-----------------------------------------------------------------------------
\* Where a sequence of fields stands in a message.

Stands(w, i, s) ==
    /\ i >= 1 /\ i + Len(s) <= Len(w) + 1
    /\ \A k \in 1 .. Len(s) : w[i + k - 1] = s[k]

LEMMA StandsIn ==
  ASSUME NEW w \in Bytes, NEW s \in Bytes, NEW x \in Bytes, NEW i \in Nat, NEW p \in Nat,
         Stands(w, i, s), Stands(s, p, x)
  PROVE  Stands(w, i + p - 1, x)
<1>1. Len(w) \in Nat /\ Len(s) \in Nat /\ Len(x) \in Nat
  BY DEF Bytes
<1>2. /\ i >= 1 /\ i + Len(s) <= Len(w) + 1 /\ p >= 1 /\ p + Len(x) <= Len(s) + 1
      /\ \A k \in 1 .. Len(s) : w[i + k - 1] = s[k]
      /\ \A k \in 1 .. Len(x) : s[p + k - 1] = x[k]
  BY DEF Stands
<1>3. ASSUME NEW k \in 1 .. Len(x) PROVE w[i + p - 1 + k - 1] = x[k]
  <2>1. PICK j \in 1 .. Len(s) : j = p + k - 1
    BY <1>1, <1>2
  <2>2. i + p - 1 + k - 1 = i + j - 1
    BY <1>1, <2>1
  <2>3. w[i + j - 1] = s[j] /\ s[j] = x[k]
    BY <1>2, <2>1
  <2> QED BY <2>2, <2>3
<1>4. i + p - 1 >= 1 /\ i + p - 1 + Len(x) <= Len(w) + 1
  BY <1>1, <1>2
<1> QED BY <1>3, <1>4 DEF Stands

LEMMA StandsConcat ==
  ASSUME NEW s \in Bytes, NEW t \in Bytes
  PROVE  /\ s \o t \in Bytes /\ Len(s \o t) = Len(s) + Len(t)
         /\ Len(s) \in Nat /\ Len(t) \in Nat
         /\ Stands(s \o t, 1, s) /\ Stands(s \o t, Len(s) + 1, t)
<1>1. Len(s) \in Nat /\ Len(t) \in Nat
  BY DEF Bytes
<1>2. PICK u : u = s \o t
  OBVIOUS
<1>3. /\ u \in Bytes /\ Len(u) = Len(s) + Len(t)
      /\ \A i \in 1 .. Len(s) + Len(t) : u[i] = IF i <= Len(s) THEN s[i] ELSE t[i - Len(s)]
  BY <1>2, ConcatProperties DEF Bytes
<1>4. Stands(u, 1, s)
  <2>1. ASSUME NEW k \in 1 .. Len(s) PROVE u[1 + k - 1] = s[k]
    <3>1. k \in 1 .. Len(s) + Len(t) /\ k <= Len(s) /\ 1 + k - 1 = k
      BY <1>1
    <3> QED BY <1>3, <3>1
  <2>2. 1 >= 1 /\ 1 + Len(s) <= Len(u) + 1
    BY <1>1, <1>3
  <2> QED BY <2>1, <2>2 DEF Stands
<1>5. Stands(u, Len(s) + 1, t)
  <2>1. ASSUME NEW k \in 1 .. Len(t) PROVE u[Len(s) + 1 + k - 1] = t[k]
    <3>1. PICK j \in 1 .. Len(s) + Len(t) :
             j = Len(s) + 1 + k - 1 /\ ~ (j <= Len(s)) /\ j - Len(s) = k
      BY <1>1
    <3> QED BY <1>3, <3>1
  <2>2. Len(s) + 1 >= 1 /\ Len(s) + 1 + Len(t) <= Len(u) + 1
    BY <1>1, <1>3
  <2> QED BY <2>1, <2>2 DEF Stands
<1> QED BY <1>1, <1>2, <1>3, <1>4, <1>5

\* Between a head and a terminator.
LEMMA StandsBetween ==
  ASSUME NEW h \in Bytes, NEW s \in Bytes, NEW u \in Bytes, Len(u) = 1
  PROVE  LET w == (h \o s) \o u
         IN  /\ Len(w) = Len(h) + Len(s) + 1 /\ Len(h) \in Nat /\ Len(s) \in Nat
             /\ Stands(w, 1, h) /\ Stands(w, Len(h) + 1, s)
             /\ w[Len(h) + Len(s) + 1] = u[1]
<1>1. PICK t : t = h \o s
  OBVIOUS
<1>2. PICK w : w = t \o u
  OBVIOUS
<1>3. /\ t \in Bytes /\ Len(t) = Len(h) + Len(s) /\ Len(h) \in Nat /\ Len(s) \in Nat
      /\ Stands(t, 1, h) /\ Stands(t, Len(h) + 1, s)
  BY <1>1, StandsConcat
<1>4. /\ w \in Bytes /\ Len(w) = Len(t) + 1 /\ Stands(w, 1, t) /\ Stands(w, Len(t) + 1, u)
  <2>1. /\ t \o u \in Bytes /\ Len(t \o u) = Len(t) + Len(u)
        /\ Stands(t \o u, 1, t) /\ Stands(t \o u, Len(t) + 1, u)
    BY <1>3, StandsConcat
  <2> QED BY <1>2, <2>1
<1>5. Stands(w, 1 + 1 - 1, h) /\ Stands(w, 1 + (Len(h) + 1) - 1, s)
  BY <1>3, <1>4, StandsIn
<1>6. 1 + 1 - 1 = 1 /\ 1 + (Len(h) + 1) - 1 = Len(h) + 1
  BY <1>3
<1>7. w[Len(t) + 1 + 1 - 1] = u[1] /\ Len(t) + 1 + 1 - 1 = Len(h) + Len(s) + 1
  BY <1>3, <1>4 DEF Stands
<1> QED BY <1>1, <1>2, <1>3, <1>4, <1>5, <1>6, <1>7

-----------------------------------------------------------------------------
\* The bytes of a message in which every array and every struct is an object that the
\* format carries faithfully.

Nested(s) ==
    \A p \in 1 .. Len(s) :
        s[p].code \in {"array", "struct"} =>
            \E v \in Values : faithful[v] /\ Stands(s, p, serialize[v])

LEMMA NestedAt ==
  ASSUME NEW w \in Bytes, NEW i \in Nat, NEW s \in Bytes, Stands(w, i, s), Nested(s),
         NEW p \in i .. i + Len(s) - 1, w[p].code \in {"array", "struct"}
  PROVE  \E v \in Values : faithful[v] /\ Stands(w, p, serialize[v])
<1>1. Len(w) \in Nat /\ Len(s) \in Nat
  BY DEF Bytes
<1>2. PICK q \in 1 .. Len(s) : p = i + q - 1
  <2>1. p - i + 1 \in 1 .. Len(s) /\ p = i + (p - i + 1) - 1
    BY <1>1
  <2> QED BY <2>1
<1>3. w[p] = s[q]
  BY <1>2 DEF Stands
<1>4. PICK v \in Values : faithful[v] /\ Stands(s, q, serialize[v])
  BY <1>2, <1>3 DEF Nested
<1>5. serialize[v] \in Bytes
  BY EveryObjectFits DEF Fits
<1>6. Stands(w, i + q - 1, serialize[v])
  BY <1>2, <1>4, <1>5, StandsIn
<1> QED BY <1>2, <1>4, <1>6

LEMMA NestedConcat ==
  ASSUME NEW s \in Bytes, NEW t \in Bytes, Nested(s), Nested(t)
  PROVE  Nested(s \o t)
<1>1. PICK w : w = s \o t
  OBVIOUS
<1>2. /\ w \in Bytes /\ Len(w) = Len(s) + Len(t) /\ Len(s) \in Nat /\ Len(t) \in Nat
      /\ Stands(w, 1, s) /\ Stands(w, Len(s) + 1, t)
  BY <1>1, StandsConcat
<1>3. ASSUME NEW p \in 1 .. Len(w), w[p].code \in {"array", "struct"}
      PROVE  \E v \in Values : faithful[v] /\ Stands(w, p, serialize[v])
  <2>1. CASE p <= Len(s)
    <3>1. p \in 1 .. 1 + Len(s) - 1
      BY <1>2, <2>1
    <3> QED BY <1>2, <1>3, <3>1, NestedAt
  <2>2. CASE ~ (p <= Len(s))
    <3>1. p \in (Len(s) + 1) .. (Len(s) + 1) + Len(t) - 1 /\ Len(s) + 1 \in Nat
      BY <1>2, <2>2
    <3> QED BY <1>2, <1>3, <3>1, NestedAt
  <2> QED BY <2>1, <2>2
<1> QED BY <1>1, <1>3 DEF Nested

\* Bytes without the typecode of an array or of a struct.
LEMMA PlainIsNested ==
  ASSUME NEW s \in Bytes, \A p \in 1 .. Len(s) : s[p].code \notin {"array", "struct"}
  PROVE  Nested(s)
BY DEF Nested

-----------------------------------------------------------------------------
\* Parts written one after the other: off[k] fields are taken by the first k of them.

Row(w, i, ss, off) ==
    /\ off \in [0 .. Len(ss) -> Nat] /\ off[0] = 0
    /\ \A k \in 1 .. Len(ss) :
           off[k] = off[k - 1] + Len(ss[k]) /\ Stands(w, i + off[k - 1], ss[k])

\* The parts up to each of them, with the fields they take together.
LEMMA FlatPrefixes ==
  ASSUME NEW ss \in Seq(Bytes), Len(ss) # 0
  PROVE  \E g : /\ \A k \in 1 .. Len(ss) : g[k] \in Bytes
                /\ g[1] = ss[1] /\ g[Len(ss)] = FlattenSeq(ss)
                /\ \A k \in 2 .. Len(ss) : g[k] = g[k - 1] \o ss[k]
<1>1. Len(ss) \in Nat /\ \A i \in 1 .. Len(ss) : ss[i] \in Bytes
  OBVIOUS
<1>2. PICK g : g = Flat(ss)
  OBVIOUS
<1>3. g = [i \in 1 .. Len(ss) |-> IF i = 1 THEN ss[i] ELSE g[i - 1] \o ss[i]]
  BY <1>1, <1>2, FlatIs DEF IsFlat
<1>4. \A i \in 1 .. Len(ss) : g[i] = IF i = 1 THEN ss[i] ELSE g[i - 1] \o ss[i]
  BY <1>3
<1>5. g[Len(ss)] = FlattenSeq(ss)
  BY <1>1, <1>2, FlatIs
<1>6. g[1] = ss[1]
  <2>1. 1 \in 1 .. Len(ss)
    BY <1>1
  <2> QED BY <1>4, <2>1
<1>7. \A k \in 2 .. Len(ss) : k \in 1 .. Len(ss) /\ k # 1
  BY <1>1
<1>8. \A k \in 2 .. Len(ss) : g[k] = g[k - 1] \o ss[k]
  BY <1>4, <1>7
<1> DEFINE A == {k \in Nat : k + 1 <= Len(ss) => g[k + 1] \in Bytes}
<1>9. 0 \in A
  <2>1. 1 \in 1 .. Len(ss) /\ 0 + 1 = 1
    BY <1>1
  <2> QED BY <1>1, <1>6, <2>1
<1>10. ASSUME NEW k \in Nat, k \in A PROVE k + 1 \in A
  <2> SUFFICES ASSUME k + 1 + 1 <= Len(ss) PROVE g[k + 1 + 1] \in Bytes
    OBVIOUS
  <2>1. PICK j \in 2 .. Len(ss) : j = k + 1 + 1 /\ j - 1 = k + 1
    BY <1>1
  <2>2. g[j - 1] \in Bytes
    BY <1>1, <1>10, <2>1
  <2>3. ss[j] \in Bytes
    BY <1>1, <1>7
  <2>4. g[j] \in Bytes
    BY <1>8, <2>2, <2>3, StandsConcat
  <2> QED BY <2>1, <2>4
<1>11. \A k \in Nat : k \in A
  <2> HIDE DEF A
  <2> QED BY <1>9, <1>10, AllNaturals
<1>12. ASSUME NEW k \in 1 .. Len(ss) PROVE g[k] \in Bytes
  <2>1. PICK j \in Nat : k = j + 1
    <3>1. k - 1 \in Nat /\ k = k - 1 + 1
      BY <1>1
    <3> QED BY <3>1
  <2>2. j + 1 <= Len(ss)
    BY <1>1, <2>1
  <2>3. g[j + 1] \in Bytes
    BY <1>11, <2>2
  <2> QED BY <2>1, <2>3
<1> QED BY <1>5, <1>6, <1>8, <1>12

LEMMA RowExists ==
  ASSUME NEW ss \in Seq(Bytes), NEW w \in Bytes, NEW i \in Nat,
         FlattenSeq(ss) \in Bytes, Stands(w, i, FlattenSeq(ss))
  PROVE  \E off : Row(w, i, ss, off) /\ off[Len(ss)] = Len(FlattenSeq(ss))
<1>1. Len(ss) \in Nat /\ \A k \in 1 .. Len(ss) : ss[k] \in Bytes /\ Len(ss[k]) \in Nat
  BY DEF Bytes
<1>2. CASE Len(ss) = 0
  <2>1. ss = << >> /\ FlattenSeq(ss) = ss
    BY <1>2 DEF FlattenSeq
  <2>2. PICK off : off = [k \in 0 .. 0 |-> 0]
    OBVIOUS
  <2>3. off \in [0 .. Len(ss) -> Nat] /\ off[0] = 0 /\ 1 .. Len(ss) = {}
    BY <1>2, <2>2
  <2>4. Row(w, i, ss, off)
    BY <2>3 DEF Row
  <2> QED BY <1>2, <2>1, <2>3, <2>4
<1>3. CASE Len(ss) # 0
  <2>1. PICK g : /\ \A k \in 1 .. Len(ss) : g[k] \in Bytes
                 /\ g[1] = ss[1] /\ g[Len(ss)] = FlattenSeq(ss)
                 /\ \A k \in 2 .. Len(ss) : g[k] = g[k - 1] \o ss[k]
    BY <1>3, FlatPrefixes
  <2>2. PICK off : off = [k \in 0 .. Len(ss) |-> IF k = 0 THEN 0 ELSE Len(g[k])]
    OBVIOUS
  <2>3. \A k \in 1 .. Len(ss) : Len(g[k]) \in Nat
    BY <2>1 DEF Bytes
  <2>4. off \in [0 .. Len(ss) -> Nat] /\ off[0] = 0
    BY <1>1, <2>2, <2>3
  <2>5. \A k \in 1 .. Len(ss) : off[k] = Len(g[k])
    BY <2>2
  <2>6. ASSUME NEW k \in 2 .. Len(ss)
        PROVE  /\ g[k] \in Bytes /\ g[k - 1] \in Bytes /\ ss[k] \in Bytes
               /\ g[k] = g[k - 1] \o ss[k]
               /\ off[k - 1] \in Nat /\ off[k] = off[k - 1] + Len(ss[k])
               /\ Stands(g[k], 1, g[k - 1]) /\ Stands(g[k], off[k - 1] + 1, ss[k])
    <3>1. k \in 1 .. Len(ss) /\ k - 1 \in 1 .. Len(ss)
      BY <1>1
    <3>2. /\ g[k] \in Bytes /\ g[k - 1] \in Bytes /\ ss[k] \in Bytes
          /\ g[k] = g[k - 1] \o ss[k]
          /\ off[k] = Len(g[k]) /\ off[k - 1] = Len(g[k - 1])
      BY <1>1, <2>1, <2>5, <3>1
    <3>3. PICK a \in Bytes : a = g[k - 1]
      BY <3>2
    <3>4. PICK b \in Bytes : b = ss[k]
      BY <3>2
    <3>5. PICK c \in Bytes : c = g[k]
      BY <3>2
    <3>6. c = a \o b
      BY <3>2, <3>3, <3>4, <3>5
    <3>7. Len(c) = Len(a) + Len(b) /\ Len(a) \in Nat
          /\ Stands(c, 1, a) /\ Stands(c, Len(a) + 1, b)
      BY <3>6, StandsConcat
    <3> QED BY <3>2, <3>3, <3>4, <3>5, <3>7
  <2> DEFINE A == {k \in Nat : k + 1 <= Len(ss) /\ Stands(w, i, g[k + 1]) =>
                      \A j \in 1 .. k + 1 :
                         off[j] = off[j - 1] + Len(ss[j]) /\ Stands(w, i + off[j - 1], ss[j])}
  <2>7. 0 \in A
    <3> SUFFICES ASSUME Stands(w, i, g[0 + 1])
                 PROVE  \A j \in 1 .. 0 + 1 : /\ off[j] = off[j - 1] + Len(ss[j])
                                              /\ Stands(w, i + off[j - 1], ss[j])
      OBVIOUS
    <3>1. 1 \in 1 .. Len(ss) /\ 0 + 1 = 1 /\ 1 - 1 = 0 /\ \A j \in 1 .. 0 + 1 : j = 1
      BY <1>1, <1>3
    <3>2. off[1] = Len(ss[1]) /\ Len(ss[1]) \in Nat
      BY <1>1, <2>1, <2>5, <3>1
    <3>3. i + off[0] = i /\ off[1] = off[0] + Len(ss[1])
      BY <2>4, <3>2
    <3>4. Stands(w, i, ss[1])
      BY <2>1, <3>1
    <3> QED BY <3>1, <3>3, <3>4
  <2>8. ASSUME NEW k \in Nat, k \in A PROVE k + 1 \in A
    <3> SUFFICES ASSUME k + 1 + 1 <= Len(ss), Stands(w, i, g[k + 1 + 1])
                 PROVE  \A j \in 1 .. k + 1 + 1 : /\ off[j] = off[j - 1] + Len(ss[j])
                                                  /\ Stands(w, i + off[j - 1], ss[j])
      OBVIOUS
    <3>1. PICK n \in 2 .. Len(ss) : n = k + 1 + 1 /\ n - 1 = k + 1
      BY <1>1
    <3>2. /\ g[n] \in Bytes /\ g[n - 1] \in Bytes /\ ss[n] \in Bytes
          /\ off[n - 1] \in Nat /\ off[n] = off[n - 1] + Len(ss[n])
          /\ Stands(g[n], 1, g[n - 1]) /\ Stands(g[n], off[n - 1] + 1, ss[n])
      BY <2>6
    <3>3. Stands(w, i, g[n])
      BY <3>1
    <3>4. Stands(w, i + 1 - 1, g[n - 1]) /\ Stands(w, i + (off[n - 1] + 1) - 1, ss[n])
      BY <3>2, <3>3, StandsIn
    <3>5. i + 1 - 1 = i /\ i + (off[n - 1] + 1) - 1 = i + off[n - 1]
      BY <3>2
    <3>6. Stands(w, i, g[k + 1])
      BY <3>1, <3>4, <3>5
    <3>7. k + 1 <= Len(ss)
      BY <1>1
    <3>8. \A j \in 1 .. k + 1 :
             off[j] = off[j - 1] + Len(ss[j]) /\ Stands(w, i + off[j - 1], ss[j])
      BY <2>8, <3>6, <3>7
    <3>9. \A j \in 1 .. k + 1 + 1 : j \in 1 .. k + 1 \/ j = n
      BY <3>1
    <3> QED BY <3>2, <3>4, <3>5, <3>8, <3>9
  <2>9. \A k \in Nat : k \in A
    <3> HIDE DEF A
    <3> QED BY <2>7, <2>8, AllNaturals
  <2>10. PICK k \in Nat : k + 1 = Len(ss)
    <3>1. Len(ss) - 1 \in Nat /\ Len(ss) - 1 + 1 = Len(ss)
      BY <1>1, <1>3
    <3> QED BY <3>1
  <2>11. \A j \in 1 .. Len(ss) :
            off[j] = off[j - 1] + Len(ss[j]) /\ Stands(w, i + off[j - 1], ss[j])
    BY <1>1, <2>1, <2>9, <2>10
  <2>12. Row(w, i, ss, off)
    BY <2>4, <2>11 DEF Row
  <2>13. off[Len(ss)] = Len(FlattenSeq(ss))
    <3>1. Len(ss) \in 1 .. Len(ss)
      BY <1>1, <1>3
    <3> QED BY <2>1, <2>5, <3>1
  <2> QED BY <2>12, <2>13
<1> QED BY <1>2, <1>3

LEMMA NestedFlat ==
  ASSUME NEW ss \in Seq(Bytes), \A k \in 1 .. Len(ss) : Nested(ss[k])
  PROVE  Nested(FlattenSeq(ss))
<1>1. Len(ss) \in Nat
  OBVIOUS
<1>2. CASE Len(ss) = 0
  <2>1. FlattenSeq(ss) = << >>
    BY <1>2 DEF FlattenSeq
  <2> QED BY <2>1 DEF Nested
<1>3. CASE Len(ss) # 0
  <2>1. PICK g : /\ \A k \in 1 .. Len(ss) : g[k] \in Bytes
                 /\ g[1] = ss[1] /\ g[Len(ss)] = FlattenSeq(ss)
                 /\ \A k \in 2 .. Len(ss) : g[k] = g[k - 1] \o ss[k]
    BY <1>3, FlatPrefixes
  <2> DEFINE A == {k \in Nat : k + 1 <= Len(ss) => Nested(g[k + 1])}
  <2>2. 0 \in A
    <3>1. 1 \in 1 .. Len(ss) /\ 0 + 1 = 1
      BY <1>1, <1>3
    <3> QED BY <2>1, <3>1
  <2>3. ASSUME NEW k \in Nat, k \in A PROVE k + 1 \in A
    <3> SUFFICES ASSUME k + 1 + 1 <= Len(ss) PROVE Nested(g[k + 1 + 1])
      OBVIOUS
    <3>1. PICK n \in 2 .. Len(ss) : n = k + 1 + 1 /\ n - 1 = k + 1
      BY <1>1
    <3>2. n \in 1 .. Len(ss) /\ n - 1 \in 1 .. Len(ss) /\ k + 1 <= Len(ss)
      BY <1>1, <3>1
    <3>3. g[n - 1] \in Bytes /\ ss[n] \in Bytes /\ Nested(g[n - 1]) /\ Nested(ss[n])
      BY <2>1, <2>3, <3>1, <3>2
    <3>4. Nested(g[n - 1] \o ss[n])
      BY <3>3, NestedConcat
    <3> QED BY <2>1, <3>1, <3>4
  <2>4. \A k \in Nat : k \in A
    <3> HIDE DEF A
    <3> QED BY <2>2, <2>3, AllNaturals
  <2>5. PICK k \in Nat : k + 1 = Len(ss)
    <3>1. Len(ss) - 1 \in Nat /\ Len(ss) - 1 + 1 = Len(ss)
      BY <1>1, <1>3
    <3> QED BY <3>1
  <2>6. Nested(g[Len(ss)])
    <3>1. k + 1 <= Len(ss)
      BY <1>1, <2>5
    <3> QED BY <2>4, <2>5, <3>1
  <2> QED BY <2>1, <2>6
<1> QED BY <1>2, <1>3

-----------------------------------------------------------------------------
\* What an object looks like in a message.

\* What the objects of a sequence write.
Pieces(vs) == [i \in DOMAIN vs |-> serialize[vs[i]]]

LEMMA PiecesAre ==
  ASSUME NEW vs \in Seq(Values)
  PROVE  /\ [i \in DOMAIN vs |-> serialize[vs[i]]] \in Seq(Bytes)
         /\ Len([i \in DOMAIN vs |-> serialize[vs[i]]]) = Len(vs) /\ Len(vs) \in Nat
         /\ FlattenSeq([i \in DOMAIN vs |-> serialize[vs[i]]]) \in Bytes
         /\ \A i \in 1 .. Len(vs) :
               /\ vs[i] \in Values /\ serialize[vs[i]] \in Bytes
               /\ [j \in DOMAIN vs |-> serialize[vs[j]]][i] = serialize[vs[i]]
<1>1. DOMAIN vs = 1 .. Len(vs) /\ Len(vs) \in Nat /\ \A i \in 1 .. Len(vs) : vs[i] \in Values
  OBVIOUS
<1>2. \A i \in DOMAIN vs : Fits(vs[i])
  BY <1>1, EveryObjectFits
<1>3. \A i \in 1 .. Len(vs) : serialize[vs[i]] \in Bytes
  BY <1>1, <1>2 DEF Fits
<1>4. PICK ss : ss = [i \in DOMAIN vs |-> serialize[vs[i]]]
  OBVIOUS
<1>5. ss \in [1 .. Len(vs) -> Bytes] /\ \A i \in 1 .. Len(vs) : ss[i] = serialize[vs[i]]
  BY <1>1, <1>3, <1>4
<1>6. ss \in Seq(Bytes) /\ Len(ss) = Len(vs)
  BY <1>1, <1>5
<1>7. FlattenSeq(ss) \in Bytes
  BY <1>2, <1>4, SequenceFits
<1> QED BY <1>1, <1>3, <1>4, <1>5, <1>6, <1>7

\* The data of an object follow from how it was built.
LEMMA ObjectIs ==
  ASSUME NEW v \in Values
  PROVE  /\ v.num \in Nat /\ v.kids \in Seq(Values) /\ v.empty \in BOOLEAN
         /\ v.type \in Scalars \cup {"bool"} \cup Linkable
         /\ v.type = "bool" => v.num \in {0, 1}
         /\ v.type = "string" /\ v.num = 0 => v.empty
         /\ v.type \in {"array", "struct"} => v.num = 0
         /\ v.type \notin {"array", "struct"} => v.kids = << >>
<1>1. /\ v.num \in Nat /\ v.kids \in Seq(Values) /\ v.empty \in BOOLEAN
      /\ v.type \in Scalars \cup {"bool"} \cup Linkable
      /\ v.type = "bool" => v.num \in {0, 1}
      /\ v = setValue(v, Anew(v))
  BY ValuesBuilt
<1>2. v.num = Anew(v).num /\ v.kids = Anew(v).kids /\ (Anew(v).empty => v.empty)
  <2>1. /\ setValue(v, Anew(v)).num = Anew(v).num
        /\ setValue(v, Anew(v)).kids = Anew(v).kids
        /\ Anew(v).empty => setValue(v, Anew(v)).empty
    BY DEF setValue, Anew, Bool, String, Array, Struct, Scalar, Object
  <2> QED BY <1>1, <2>1
<1>3. v.type = "string" /\ v.num = 0 => v.empty
  <2>1. v.type = "string" => Anew(v).empty = (v.num = 0)
    BY DEF Anew, String, Object
  <2> QED BY <1>2, <2>1
<1>4. v.type \in {"array", "struct"} => v.num = 0
  <2>1. v.type \in {"array", "struct"} => Anew(v).num = 0
    BY DEF Anew, Array, Struct, Object
  <2> QED BY <1>2, <2>1
<1>5. v.type \notin {"array", "struct"} => v.kids = << >>
  <2>1. v.type \notin {"array", "struct"} => Anew(v).kids = << >>
    BY <1>1 DEF Anew, Bool, String, Scalar, Object, Linkable
  <2> QED BY <1>2, <2>1
<1> QED BY <1>1, <1>3, <1>4, <1>5

LEMMA StringIs ==
  ASSUME NEW x, x.num \in Nat, x.num = 0 => x.empty, ~ (x.empty /\ x.num > 0)
  PROVE  /\ serializeString(x) \in Bytes
         /\ x.empty => /\ x.num = 0 /\ Len(serializeString(x)) = 1
                       /\ serializeString(x)[1] = Code("empty")
         /\ ~ x.empty => /\ Len(serializeString(x)) = 4
                         /\ serializeString(x)[1] = Code("string")
                         /\ serializeString(x)[2] = Code(LengthType(x.num))
                         /\ serializeString(x)[3].code = "" /\ serializeString(x)[3].num = x.num
                         /\ serializeString(x)[4].code = ""
<1> DEFINE t == LengthType(x.num)
<1>1. t \in {"uint8", "uint16", "uint32"} /\ t \in Codes /\ ScalarWidth[t] \in Nat
  BY DEF LengthType, Codes, ScalarWidth
<1>2. CASE x.empty
  <2>1. serializeString(x) = <<Code("empty")>> \o << >> /\ x.num = 0
    <3>1. x.num = 0 /\ ~ (x.num > 0)
      BY <1>2
    <3> QED BY <1>2, <3>1, Zenon DEF serializeString
  <2>2. Code("empty") \in Field
    BY FieldTypes DEF Codes
  <2>3. PICK s : s = <<Code("empty")>>
    OBVIOUS
  <2>4. s \in Bytes /\ Len(s) = 1 /\ s[1] = Code("empty")
    BY <2>2, <2>3 DEF Bytes
  <2>5. serializeString(x) = s
    BY <2>1, <2>3, <2>4, ConcatEmptySeq DEF Bytes
  <2> QED BY <1>2, <2>1, <2>4, <2>5
<1>3. CASE ~ x.empty
  <2> DEFINE a == Code("string")
             b == Code(t)
             c == Number(x.num, ScalarWidth[t])
             d == Text(x.num)
  <2>1. a \in Field /\ b \in Field /\ c \in Field /\ d \in Field
    <3> HIDE DEF t
    <3> QED BY <1>1, FieldTypes DEF Codes
  <2>2. serializeString(x) = <<a, b, c>> \o <<d>>
    <3>1. x.num > 0
      BY <1>3
    <3> QED BY <1>3, <3>1 DEF serializeString
  <2>3. c.code = "" /\ c.num = x.num /\ d.code = ""
    BY DEF Number, Text
  <2> HIDE DEF a, b, c, d, t
  <2>4. PICK h : h = <<a, b, c>>
    OBVIOUS
  <2>5. PICK e : e = <<d>>
    OBVIOUS
  <2>6. h \in Bytes /\ Len(h) = 3 /\ h[1] = a /\ h[2] = b /\ h[3] = c
    BY <2>1, <2>4 DEF Bytes
  <2>7. e \in Bytes /\ Len(e) = 1 /\ e[1] = d
    BY <2>1, <2>5 DEF Bytes
  <2>8. PICK s : s = h \o e
    OBVIOUS
  <2>9. /\ s \in Bytes /\ Len(s) = 4
        /\ \A i \in 1 .. 4 : s[i] = IF i <= 3 THEN h[i] ELSE e[i - 3]
    <3>1. /\ s \in Seq(Field) /\ Len(s) = Len(h) + Len(e)
          /\ \A i \in 1 .. Len(h) + Len(e) :
                s[i] = IF i <= Len(h) THEN h[i] ELSE e[i - Len(h)]
      <4>1. h \in Seq(Field) /\ e \in Seq(Field)
        BY <2>6, <2>7 DEF Bytes
      <4> QED BY <2>8, <4>1, ConcatProperties
    <3>2. Len(h) + Len(e) = 4
      BY <2>6, <2>7
    <3> QED BY <2>6, <3>1, <3>2 DEF Bytes
  <2>10. s[1] = a /\ s[2] = b /\ s[3] = c /\ s[4] = d
    BY <2>6, <2>7, <2>9
  <2>11. serializeString(x) = s
    BY <2>2, <2>4, <2>5, <2>8
  <2> QED BY <1>3, <2>3, <2>9, <2>10, <2>11 DEF a, b, t
<1> QED BY <1>2, <1>3

LEMMA FaithfulString ==
  ASSUME NEW v \in Values, faithful[v], v.type = "string"
  PROVE  /\ v.num \in Nat /\ (v.num = 0 => v.empty) /\ ~ (v.empty /\ v.num > 0)
         /\ serialize[v] = serializeString(v)
<1>1. ~ Stale(v)
  BY FaithfulIs
<1>2. serialize[v] = serializeString(v)
  BY SerializeIs DEF serializeObject
<1> QED BY <1>1, <1>2, ObjectIs DEF Stale

LEMMA ScalarIs ==
  ASSUME NEW v \in Values, v.type \in Scalars \cup {"bool"}
  PROVE  /\ serialize[v] \in Bytes
         /\ v.type = "bool" => /\ Len(serialize[v]) = 1
                               /\ serialize[v][1] = Code(IF v.num = 1 THEN "true" ELSE "false")
         /\ v.type # "bool" => /\ Len(serialize[v]) = 2
                               /\ serialize[v][1] = Code(v.type)
                               /\ serialize[v][2].code = "" /\ serialize[v][2].num = v.num
<1>1. serialize[v] \in Bytes
  BY EveryObjectFits DEF Fits
<1>2. v.type \notin {"string", "array", "struct"}
  BY DEF Scalars, ScalarWidth
<1>3. serialize[v] = serializeScalar(v)
  BY <1>2, SerializeIs DEF serializeObject
<1>4. CASE v.type = "bool"
  <2>1. serialize[v] = <<Code(IF v.num = 1 THEN "true" ELSE "false")>>
    BY <1>3, <1>4 DEF serializeScalar
  <2> QED BY <1>1, <1>4, <2>1
<1>5. CASE v.type # "bool"
  <2>1. serialize[v] = <<Code(v.type), Number(v.num, ScalarWidth[v.type])>>
    BY <1>3, <1>5 DEF serializeScalar
  <2>2. PICK a : a = Code(v.type)
    OBVIOUS
  <2>3. PICK b : b = Number(v.num, ScalarWidth[v.type])
    OBVIOUS
  <2>4. b.code = "" /\ b.num = v.num
    BY <2>3 DEF Number
  <2>5. PICK s : s = <<a, b>>
    OBVIOUS
  <2>6. Len(s) = 2 /\ s[1] = a /\ s[2] = b /\ serialize[v] = s
    BY <2>1, <2>2, <2>3, <2>5
  <2> QED BY <1>1, <1>5, <2>2, <2>4, <2>6
<1> QED BY <1>1, <1>4, <1>5

HeadLength(v) == IF v.type = "array" THEN 2 ELSE 1

\* An array or a struct: a head, its elements, the terminator.
LEMMA ContainerIs ==
  ASSUME NEW v \in Values, v.type \in {"array", "struct"}
  PROVE  /\ serialize[v] \in Bytes /\ FlattenSeq(Pieces(v.kids)) \in Bytes
         /\ Len(FlattenSeq(Pieces(v.kids))) \in Nat
         /\ Len(serialize[v]) = HeadLength(v) + Len(FlattenSeq(Pieces(v.kids))) + 1
         /\ serialize[v][1] = Code(v.type)
         /\ v.type = "array" => serialize[v][2] = Number(Len(v.kids), 8)
         /\ Stands(serialize[v], HeadLength(v) + 1, FlattenSeq(Pieces(v.kids)))
         /\ serialize[v][HeadLength(v) + Len(FlattenSeq(Pieces(v.kids))) + 1] = Code("none")
<1>1. v.kids \in Seq(Values) /\ Len(v.kids) \in Nat
  BY ObjectIs
<1>2. PICK parts \in Bytes : parts = FlattenSeq(Pieces(v.kids))
  BY <1>1, PiecesAre DEF Pieces
<1>3. serialize[v] = serializeObject(v, parts)
  BY <1>2, SerializeIs DEF Pieces
<1>4. /\ Code("array") \in Field /\ Number(Len(v.kids), 8) \in Field
      /\ Code("struct") \in Field /\ Code("none") \in Field
  BY <1>1, FieldTypes DEF Codes
<1>5. PICK e \in Field : e = Code("none")
  BY <1>4
<1>6. PICK u \in Bytes : u = <<e>> /\ Len(u) = 1 /\ u[1] = e
  <2>1. <<e>> \in Bytes /\ Len(<<e>>) = 1 /\ <<e>>[1] = e
    BY DEF Bytes
  <2> QED BY <2>1
<1>7. PICK w \in Bytes : w = serialize[v]
  BY EveryObjectFits DEF Fits
<1>8. PICK h \in Bytes : /\ Len(h) = HeadLength(v) /\ h[1] = Code(v.type)
                         /\ v.type = "array" => h[2] = Number(Len(v.kids), 8)
                         /\ w = (h \o parts) \o u
  <2>1. CASE v.type = "array"
    <3>1. PICK a \in Field : a = Code("array")
      BY <1>4
    <3>2. PICK b \in Field : b = Number(Len(v.kids), 8)
      BY <1>4
    <3>3. PICK h : h = <<a, b>>
      OBVIOUS
    <3>4. h \in Bytes /\ Len(h) = 2 /\ h[1] = a /\ h[2] = b
      BY <3>3 DEF Bytes
    <3>5. w = (h \o parts) \o u
      BY <1>3, <1>5, <1>7, <1>6, <2>1, <3>1, <3>2, <3>3 DEF serializeObject, serializeArray
    <3> QED BY <2>1, <3>1, <3>2, <3>4, <3>5 DEF HeadLength
  <2>2. CASE v.type = "struct"
    <3>1. PICK a \in Field : a = Code("struct")
      BY <1>4
    <3>2. PICK h : h = <<a>>
      OBVIOUS
    <3>3. h \in Bytes /\ Len(h) = 1 /\ h[1] = a
      BY <3>2 DEF Bytes
    <3>4. w = (h \o parts) \o u
      BY <1>3, <1>5, <1>7, <1>6, <2>2, <3>1, <3>2 DEF serializeObject, serializeStruct
    <3> QED BY <2>2, <3>1, <3>3, <3>4 DEF HeadLength
  <2> QED BY <2>1, <2>2
<1>9. /\ Len(w) = Len(h) + Len(parts) + 1
      /\ Len(h) \in Nat /\ Len(parts) \in Nat
      /\ Stands(w, 1, h) /\ Stands(w, Len(h) + 1, parts) /\ w[Len(h) + Len(parts) + 1] = u[1]
  <2>1. Len(u) = 1 /\ w = (h \o parts) \o u
    BY <1>6, <1>8
  <2>2. LET x == (h \o parts) \o u
        IN  /\ Len(x) = Len(h) + Len(parts) + 1 /\ Len(h) \in Nat /\ Len(parts) \in Nat
            /\ Stands(x, 1, h) /\ Stands(x, Len(h) + 1, parts)
            /\ x[Len(h) + Len(parts) + 1] = u[1]
    BY <2>1, StandsBetween
  <2> QED BY <2>1, <2>2
<1>10. w[1] = h[1] /\ (v.type = "array" => w[2] = h[2])
  <2>1. \A k \in 1 .. Len(h) : w[1 + k - 1] = h[k]
    BY <1>9 DEF Stands
  <2>2. 1 \in 1 .. Len(h) /\ (v.type = "array" => 2 \in 1 .. Len(h))
    BY <1>8 DEF HeadLength
  <2>3. 1 + 1 - 1 = 1 /\ 1 + 2 - 1 = 2
    OBVIOUS
  <2> QED BY <2>1, <2>2, <2>3
<1> QED BY <1>2, <1>5, <1>7, <1>8, <1>9, <1>10, <1>6

\* The first field of a faithful object says what follows; it is no terminator.
LEMMA FirstField ==
  ASSUME NEW v \in Values, faithful[v]
  PROVE  /\ Len(serialize[v]) \in Nat \ {0} /\ serialize[v][1] # Code("none")
         /\ v.type \in {"array", "struct"} => serialize[v][1] = Code(v.type)
         /\ v.type = "string" => serialize[v][1] = Code(IF v.empty THEN "empty" ELSE "string")
         /\ v.type = "bool" =>
               serialize[v][1] = Code(IF v.num = 1 THEN "true" ELSE "false")
         /\ v.type \in Scalars => serialize[v][1] = Code(v.type)
<1>1. PICK s : s = serialize[v]
  OBVIOUS
<1>2. \A c \in Codes \ {"none"} : Code(c) # Code("none")
  BY DEF Code
<1>3. v.type \in Scalars \cup {"bool", "array", "struct", "string"}
  BY ObjectIs DEF Linkable
<1>4. \A c \in Scalars : c \in Codes \ {"none"} /\ c \notin {"bool", "array", "struct", "string"}
  BY DEF Scalars, ScalarWidth, Codes
<1>5. CASE v.type \in {"array", "struct"}
  <2>1. s[1] = Code(v.type) /\ Len(s) \in Nat \ {0}
    BY <1>1, <1>5, ContainerIs DEF HeadLength
  <2>2. v.type \in Codes \ {"none"}
    BY <1>5 DEF Codes
  <2> QED BY <1>1, <1>2, <1>4, <1>5, <2>1, <2>2
<1>6. CASE v.type = "string"
  <2>1. /\ Len(s) \in {1, 4}
        /\ v.empty => s[1] = Code("empty")
        /\ ~ v.empty => s[1] = Code("string")
    <3>1. /\ v.num \in Nat /\ (v.num = 0 => v.empty) /\ ~ (v.empty /\ v.num > 0)
          /\ s = serializeString(v)
      BY <1>1, <1>6, FaithfulString
    <3> QED BY <3>1, StringIs
  <2>2. "empty" \in Codes \ {"none"} /\ "string" \in Codes \ {"none"}
    BY DEF Codes
  <2> QED BY <1>1, <1>2, <1>4, <1>6, <2>1, <2>2
<1>7. CASE v.type = "bool"
  <2>1. Len(s) = 1 /\ s[1] = Code(IF v.num = 1 THEN "true" ELSE "false")
    BY <1>1, <1>7, ScalarIs
  <2>2. "true" \in Codes \ {"none"} /\ "false" \in Codes \ {"none"}
    BY DEF Codes
  <2> QED BY <1>1, <1>2, <1>4, <1>7, <2>1, <2>2
<1>8. CASE v.type \in Scalars
  <2>1. Len(s) = 2 /\ s[1] = Code(v.type)
    BY <1>1, <1>4, <1>8, ScalarIs
  <2> QED BY <1>1, <1>2, <1>4, <1>8, <2>1
<1> QED BY <1>3, <1>5, <1>6, <1>7, <1>8

\* In what a faithful object writes, every array and every struct is one.
LEMMA NestedObject == \A v \in Values : faithful[v] => Nested(serialize[v])
<1> DEFINE S == {v \in Values : faithful[v] /\ ~ Nested(serialize[v])}
<1> SUFFICES ASSUME S # {} PROVE FALSE
  OBVIOUS
<1>1. PICK v \in S : \A i \in DOMAIN v.kids : v.kids[i] \notin S
  BY ValuesNest
<1>2. v \in Values /\ faithful[v] /\ ~ Nested(serialize[v])
  OBVIOUS
<1>3. serialize[v] \in Bytes /\ Len(serialize[v]) \in Nat
  BY <1>2, EveryObjectFits DEF Fits, Bytes
<1>4. v.kids \in Seq(Values) /\ DOMAIN v.kids = 1 .. Len(v.kids)
  BY <1>2, ObjectIs
<1>5. \A i \in 1 .. Len(v.kids) : Nested(serialize[v.kids[i]])
  <2>1. \A i \in DOMAIN v.kids : faithful[v.kids[i]]
    BY <1>2, FaithfulIs
  <2>2. \A i \in DOMAIN v.kids : v.kids[i] \in Values
    BY <1>4
  <2> QED BY <1>1, <1>4, <2>1, <2>2
<1>6. PICK s \in Bytes : s = serialize[v]
  BY <1>3
<1>7. ASSUME NEW c \in Codes \ {"array", "struct"} PROVE Code(c).code \notin {"array", "struct"}
  BY DEF Code
<1>8. CASE v.type \in {"array", "struct"}
  <2>1. Pieces(v.kids) \in Seq(Bytes) /\ \A i \in 1 .. Len(Pieces(v.kids)) : Nested(Pieces(v.kids)[i])
    BY <1>4, <1>5, PiecesAre DEF Pieces
  <2>2. Nested(FlattenSeq(Pieces(v.kids)))
    BY <2>1, NestedFlat
  <2>3. PICK parts : parts = FlattenSeq(Pieces(v.kids))
    OBVIOUS
  <2>4. PICK h \in Nat : h = HeadLength(v) /\ h \in {1, 2} /\ (h = 2 <=> v.type = "array")
    BY DEF HeadLength
  <2>5. /\ parts \in Bytes /\ Len(parts) \in Nat /\ Nested(parts)
        /\ Len(s) = h + Len(parts) + 1
        /\ v.type = "array" => s[2] = Number(Len(v.kids), 8)
        /\ Stands(s, h + 1, parts) /\ s[h + Len(parts) + 1] = Code("none")
    BY <1>2, <1>6, <1>8, <2>2, <2>3, <2>4, ContainerIs
  <2>6. ASSUME NEW p \in 1 .. Len(s), s[p].code \in {"array", "struct"}
        PROVE  \E x \in Values : faithful[x] /\ Stands(s, p, serialize[x])
    <3>1. CASE p = 1
      <4>1. Stands(s, 1, s)
        <5>1. \A k \in 1 .. Len(s) : 1 + k - 1 = k
          OBVIOUS
        <5>2. Len(s) \in Nat /\ 1 >= 1 /\ 1 + Len(s) <= Len(s) + 1
          BY <1>3, <1>6
        <5> QED BY <5>1, <5>2 DEF Stands
      <4> QED BY <1>2, <1>6, <3>1, <4>1
    <3>2. CASE p = 2 /\ h = 2
      <4>1. Number(Len(v.kids), 8).code = ""
        BY DEF Number
      <4> QED BY <2>4, <2>5, <2>6, <3>2, <4>1
    <3>3. CASE p \in (h + 1) .. (h + 1) + Len(parts) - 1
      <4>1. h + 1 \in Nat
        BY <2>4
      <4> QED BY <2>5, <2>6, <3>3, <4>1, NestedAt
    <3>4. CASE p = h + Len(parts) + 1
      <4>1. "none" \in Codes \ {"array", "struct"}
        BY DEF Codes
      <4> QED BY <1>7, <2>5, <2>6, <3>4, <4>1
    <3> QED BY <2>4, <2>5, <3>1, <3>2, <3>3, <3>4
  <2> QED BY <1>2, <1>6, <2>6 DEF Nested
<1>9. CASE v.type = "string"
  <2>1. /\ v.empty => Len(s) = 1 /\ s[1] = Code("empty")
        /\ ~ v.empty => /\ Len(s) = 4 /\ s[1] = Code("string")
                        /\ s[2] = Code(LengthType(v.num)) /\ s[3].code = "" /\ s[4].code = ""
    <3>1. /\ v.num \in Nat /\ (v.num = 0 => v.empty) /\ ~ (v.empty /\ v.num > 0)
          /\ s = serializeString(v)
      BY <1>2, <1>6, <1>9, FaithfulString
    <3> QED BY <3>1, StringIs
  <2>2. LengthType(v.num) \in Codes \ {"array", "struct"}
        /\ "empty" \in Codes \ {"array", "struct"} /\ "string" \in Codes \ {"array", "struct"}
    BY DEF LengthType, Codes
  <2>3. \A p \in 1 .. Len(s) : s[p].code \notin {"array", "struct"}
    <3>1. CASE v.empty
      <4>1. \A p \in 1 .. Len(s) : p = 1
        <5>1. Len(s) = 1
          BY <2>1, <3>1
        <5> QED BY <5>1
      <4> QED BY <1>7, <2>1, <2>2, <3>1, <4>1
    <3>2. CASE ~ v.empty
      <4>1. \A p \in 1 .. Len(s) : p = 1 \/ p = 2 \/ p = 3 \/ p = 4
        <5>1. Len(s) = 4
          BY <2>1, <3>2
        <5> QED BY <5>1
      <4>2. /\ s[1].code \notin {"array", "struct"} /\ s[2].code \notin {"array", "struct"}
            /\ s[3].code \notin {"array", "struct"} /\ s[4].code \notin {"array", "struct"}
        BY <1>7, <2>1, <2>2, <3>2
      <4> QED BY <4>1, <4>2
    <3> QED BY <3>1, <3>2
  <2> QED BY <1>2, <1>6, <2>3, PlainIsNested
<1>10. CASE v.type \in Scalars \cup {"bool"}
  <2>1. /\ v.type = "bool" => /\ Len(s) = 1
                              /\ s[1] = Code(IF v.num = 1 THEN "true" ELSE "false")
        /\ v.type # "bool" => Len(s) = 2 /\ s[1] = Code(v.type) /\ s[2].code = ""
    BY <1>2, <1>6, <1>10, ScalarIs
  <2>2. /\ "true" \in Codes \ {"array", "struct"} /\ "false" \in Codes \ {"array", "struct"}
        /\ v.type # "bool" => v.type \in Codes \ {"array", "struct"}
    BY <1>10 DEF Codes, Scalars, ScalarWidth
  <2>3. s[1].code \notin {"array", "struct"}
    BY <1>7, <2>1, <2>2
  <2>4. \A p \in 1 .. Len(s) : p = 1 \/ (p = 2 /\ v.type # "bool")
    <3>1. CASE v.type = "bool"
      <4>1. Len(s) = 1
        BY <2>1, <3>1
      <4>2. \A p \in 1 .. Len(s) : p = 1
        BY <4>1
      <4> QED BY <4>2
    <3>2. CASE v.type # "bool"
      <4>1. Len(s) = 2
        BY <2>1, <3>2
      <4>2. \A p \in 1 .. Len(s) : p = 1 \/ p = 2
        BY <4>1
      <4> QED BY <3>2, <4>2
    <3> QED BY <3>1, <3>2
  <2>5. \A p \in 1 .. Len(s) : s[p].code \notin {"array", "struct"}
    BY <2>1, <2>3, <2>4
  <2> QED BY <1>2, <1>6, <2>5, PlainIsNested
<1> QED BY <1>2, <1>8, <1>9, <1>10, ObjectIs DEF Linkable

-----------------------------------------------------------------------------
\* What is read where an object stands.

Right(w, P, i, v) == P[i] = Read(content[v], i + Len(serialize[v]), TRUE)

\* Every faithful object from a position on is read as what it stands for.
Known(w, P, i) ==
    \A j \in Nat, v \in Values :
        j >= i /\ faithful[v] /\ Stands(w, j, serialize[v]) => Right(w, P, j, v)

\* Objects one after the other: where each begins, and what is read there.
Reading(w, P, i, vs, off) ==
    /\ off \in [0 .. Len(vs) -> Nat] /\ off[0] = 0
    /\ \A k \in 0 .. Len(vs) : off[k] >= k
    /\ \A k \in 1 .. Len(vs) :
           /\ P[i + off[k - 1]] = Read(content[vs[k]], i + off[k], TRUE)
           /\ w[i + off[k - 1]] = serialize[vs[k]][1] /\ w[i + off[k - 1]] # Code("none")
           /\ i + off[k - 1] <= Len(w)

LEMMA ReadingExists ==
  ASSUME NEW w \in Bytes, NEW P, NEW i \in Nat, NEW vs \in Seq(Values),
         \A k \in 1 .. Len(vs) : faithful[vs[k]],
         Stands(w, i, FlattenSeq(Pieces(vs))), Known(w, P, i)
  PROVE  \E off : Reading(w, P, i, vs, off) /\ off[Len(vs)] = Len(FlattenSeq(Pieces(vs)))
<1>1. PICK ss : ss = Pieces(vs)
  OBVIOUS
<1>2. /\ ss \in Seq(Bytes) /\ Len(ss) = Len(vs) /\ Len(vs) \in Nat
      /\ FlattenSeq(ss) \in Bytes
      /\ \A k \in 1 .. Len(vs) :
            vs[k] \in Values /\ serialize[vs[k]] \in Bytes /\ ss[k] = serialize[vs[k]]
  BY <1>1, PiecesAre DEF Pieces
<1>3. PICK off : Row(w, i, ss, off) /\ off[Len(ss)] = Len(FlattenSeq(ss))
  BY <1>1, <1>2, RowExists
<1>4. /\ off \in [0 .. Len(vs) -> Nat] /\ off[0] = 0
      /\ \A k \in 1 .. Len(vs) : /\ off[k] = off[k - 1] + Len(serialize[vs[k]])
                                 /\ Stands(w, i + off[k - 1], serialize[vs[k]])
  BY <1>2, <1>3 DEF Row
<1>5. \A k \in 1 .. Len(vs) : /\ Len(serialize[vs[k]]) \in Nat /\ Len(serialize[vs[k]]) >= 1
                              /\ serialize[vs[k]][1] # Code("none")
  BY <1>2, FirstField
<1>6. ASSUME NEW k \in 1 .. Len(vs)
      PROVE  /\ P[i + off[k - 1]] = Read(content[vs[k]], i + off[k], TRUE)
             /\ w[i + off[k - 1]] = serialize[vs[k]][1] /\ w[i + off[k - 1]] # Code("none")
             /\ i + off[k - 1] <= Len(w)
  <2>1. off[k - 1] \in Nat /\ off[k] \in Nat
    BY <1>2, <1>4
  <2>2. PICK j \in Nat : j = i + off[k - 1] /\ j >= i
    BY <2>1
  <2>3. PICK v \in Values : v = vs[k]
    BY <1>2
  <2>4. PICK n \in Nat : n = Len(serialize[v]) /\ n >= 1
    BY <1>5, <2>3
  <2>5. faithful[v] /\ Stands(w, j, serialize[v])
    BY <1>4, <2>2, <2>3
  <2>6. P[j] = Read(content[v], j + n, TRUE)
    BY <2>2, <2>4, <2>5 DEF Known, Right
  <2>7. j + n = i + off[k]
    <3>1. off[k] = off[k - 1] + n
      BY <1>4, <2>3, <2>4
    <3>2. PICK a \in Nat : a = off[k - 1]
      BY <2>1
    <3>3. off[k] = a + n /\ j = i + a
      BY <2>2, <3>1, <3>2
    <3> QED BY <3>3
  <2>8. w[j] = serialize[v][1]
    <3>1. w[j + 1 - 1] = serialize[v][1]
      BY <2>4, <2>5 DEF Stands
    <3>2. j + 1 - 1 = j
      OBVIOUS
    <3> QED BY <3>1, <3>2
  <2>9. w[j] # Code("none")
    BY <1>5, <2>3, <2>8
  <2>10. j <= Len(w)
    <3>1. j + n <= Len(w) + 1 /\ Len(w) \in Nat
      BY <2>4, <2>5 DEF Stands, Bytes
    <3> QED BY <2>4, <3>1
  <2> QED BY <2>2, <2>3, <2>6, <2>7, <2>8, <2>9, <2>10
<1> DEFINE A == {k \in Nat : k <= Len(vs) => off[k] >= k}
<1>7. 0 \in A
  BY <1>4
<1>8. ASSUME NEW k \in Nat, k \in A PROVE k + 1 \in A
  <2> SUFFICES ASSUME k + 1 <= Len(vs) PROVE off[k + 1] >= k + 1
    OBVIOUS
  <2>1. PICK n \in 1 .. Len(vs) : n = k + 1 /\ n - 1 = k
    BY <1>2
  <2>2. off[k] >= k /\ off[k] \in Nat
    BY <1>2, <1>4, <1>8
  <2>3. off[n] = off[k] + Len(serialize[vs[n]]) /\ Len(serialize[vs[n]]) \in Nat
        /\ Len(serialize[vs[n]]) >= 1
    BY <1>4, <1>5, <2>1
  <2> QED BY <2>1, <2>2, <2>3
<1>9. \A k \in Nat : k \in A
  <2> HIDE DEF A
  <2> QED BY <1>7, <1>8, AllNaturals
<1>10. \A k \in 0 .. Len(vs) : off[k] >= k
  BY <1>2, <1>9
<1>11. Reading(w, P, i, vs, off)
  BY <1>4, <1>6, <1>10 DEF Reading
<1> QED BY <1>1, <1>2, <1>3, <1>11

LEMMA ChildlessContent ==
  ASSUME NEW v \in Values, v.type \notin {"array", "struct"}
  PROVE  content[v] = Content(v.type, v.num, << >>)
<1>1. v.kids = << >>
  BY ObjectIs
<1>2. content[v] = Content(v.type, v.num, [i \in DOMAIN v.kids |-> content[v.kids[i]]])
  BY ContentIs
<1>3. [i \in DOMAIN v.kids |-> content[v.kids[i]]] = << >>
  <2>1. DOMAIN v.kids = {}
    BY <1>1
  <2> QED BY <2>1
<1> QED BY <1>2, <1>3

\* A string, a parameter or the name of a callback.
LEMMA StringRead ==
  ASSUME NEW w \in Bytes, NEW P, NEW i \in Nat, NEW x,
         x.num \in Nat, x.num = 0 => x.empty, ~ (x.empty /\ x.num > 0),
         Stands(w, i, serializeString(x))
  PROVE  parseValue(w, P, i)
           = Read(Content("string", x.num, << >>), i + Len(serializeString(x)), TRUE)
<1>1. PICK s \in Bytes : s = serializeString(x)
  BY StringIs
<1>2. \A k \in 1 .. Len(s) : w[i + k - 1] = s[k]
  BY <1>1 DEF Stands
<1>3. \A t \in {"empty", "string", "uint8", "uint16", "uint32"} : Code(t).code = t
  BY DEF Code
<1>4. \A t \in {"empty", "string"} : t \notin Scalars \cup {"true", "false"}
  BY DEF Scalars, ScalarWidth
<1>5. ASSUME w[i].code \in {"empty", "string"}
      PROVE  parseValue(w, P, i) = parseString(w, i)
  BY <1>4, <1>5 DEF parseValue
<1>6. CASE x.empty
  <2>1. Len(s) = 1 /\ s[1] = Code("empty") /\ x.num = 0
    BY <1>1, <1>6, StringIs
  <2>2. w[i].code = "empty"
    <3>1. w[i + 1 - 1] = s[1] /\ i + 1 - 1 = i
      BY <1>2, <2>1
    <3> QED BY <1>3, <2>1, <3>1
  <2>3. parseString(w, i) = Read(Content("string", 0, << >>), i + 1, TRUE)
    BY <2>2 DEF parseString
  <2> QED BY <1>1, <1>5, <2>1, <2>2, <2>3
<1>7. CASE ~ x.empty
  <2>1. /\ Len(s) = 4 /\ s[1] = Code("string") /\ s[2] = Code(LengthType(x.num))
        /\ s[3].num = x.num
    BY <1>1, <1>7, StringIs
  <2>2. w[i] = s[1] /\ w[i + 1] = s[2] /\ w[i + 2] = s[3]
    <3>1. w[i + 1 - 1] = s[1] /\ w[i + 2 - 1] = s[2] /\ w[i + 3 - 1] = s[3]
      <4>1. 1 \in 1 .. Len(s) /\ 2 \in 1 .. Len(s) /\ 3 \in 1 .. Len(s)
        BY <2>1
      <4> QED BY <1>2, <4>1
    <3>2. i + 1 - 1 = i /\ i + 2 - 1 = i + 1 /\ i + 3 - 1 = i + 2
      OBVIOUS
    <3> QED BY <3>1, <3>2
  <2>3. w[i].code = "string" /\ w[i + 1].code \in {"uint8", "uint16", "uint32"}
    <3>1. LengthType(x.num) \in {"uint8", "uint16", "uint32"}
      BY DEF LengthType
    <3> QED BY <1>3, <2>1, <2>2, <3>1
  <2>4. parseString(w, i) = Read(Content("string", x.num, << >>), i + 4, TRUE)
    BY <2>1, <2>2, <2>3 DEF parseString
  <2> QED BY <1>1, <1>5, <2>1, <2>3, <2>4
<1> QED BY <1>6, <1>7

LEMMA ScalarRead ==
  ASSUME NEW w \in Bytes, NEW P, NEW i \in Nat, NEW v \in Values,
         v.type \in Scalars \cup {"bool"}, Stands(w, i, serialize[v])
  PROVE  parseValue(w, P, i) = Read(content[v], i + Len(serialize[v]), TRUE)
<1>1. PICK s \in Bytes : s = serialize[v]
  BY ScalarIs
<1>2. \A k \in 1 .. Len(s) : w[i + k - 1] = s[k]
  BY <1>1 DEF Stands
<1>3. content[v] = Content(v.type, v.num, << >>)
  <2>1. v.type \notin {"array", "struct"}
    BY DEF Scalars, ScalarWidth
  <2> QED BY <2>1, ChildlessContent
<1>4. CASE v.type = "bool"
  <2>1. Len(s) = 1 /\ s[1] = Code(IF v.num = 1 THEN "true" ELSE "false") /\ v.num \in {0, 1}
    BY <1>1, <1>4, ScalarIs, ObjectIs
  <2>2. w[i] = s[1]
    <3>1. w[i + 1 - 1] = s[1] /\ i + 1 - 1 = i
      BY <1>2, <2>1
    <3> QED BY <3>1
  <2>3. w[i].code = IF v.num = 1 THEN "true" ELSE "false"
    BY <2>1, <2>2 DEF Code
  <2>4. (IF w[i].code = "true" THEN 1 ELSE 0) = v.num
    BY <2>1, <2>3
  <2>5. parseValue(w, P, i)
          = Read(Content("bool", IF w[i].code = "true" THEN 1 ELSE 0, << >>), i + 1, TRUE)
    <3>1. w[i].code \in {"true", "false"}
      BY <2>3
    <3>2. w[i].code \notin Scalars \cup {"string", "empty", "array", "struct"}
      BY <3>1 DEF Scalars, ScalarWidth
    <3> QED BY <3>1, <3>2 DEF parseValue
  <2> QED BY <1>1, <1>3, <1>4, <2>1, <2>4, <2>5
<1>5. CASE v.type # "bool"
  <2>1. Len(s) = 2 /\ s[1] = Code(v.type) /\ s[2].num = v.num
    BY <1>1, <1>5, ScalarIs
  <2>2. w[i] = s[1] /\ w[i + 1] = s[2]
    <3>1. 1 \in 1 .. Len(s) /\ 2 \in 1 .. Len(s)
      BY <2>1
    <3>2. w[i + 1 - 1] = s[1] /\ w[i + 2 - 1] = s[2]
      BY <1>2, <3>1
    <3>3. i + 1 - 1 = i /\ i + 2 - 1 = i + 1
      OBVIOUS
    <3> QED BY <3>2, <3>3
  <2>3. w[i].code = v.type /\ v.type \in Scalars
    BY <1>5, <2>1, <2>2 DEF Code
  <2>4. v.type \notin {"true", "false"}
    BY <2>3 DEF Scalars, ScalarWidth
  <2>5. parseValue(w, P, i) = parseScalar(w, i)
    <3>1. w[i].code \in Scalars
      BY <2>3
    <3>2. w[i].code \notin {"true", "false", "string", "empty", "array", "struct"}
      BY <3>1 DEF Scalars, ScalarWidth
    <3> QED BY <3>1, <3>2 DEF parseValue
  <2>6. parseScalar(w, i) = Read(Content(v.type, v.num, << >>), i + 2, TRUE)
    BY <2>1, <2>2, <2>3 DEF parseScalar
  <2> QED BY <1>1, <1>3, <2>1, <2>5, <2>6
<1> QED BY <1>4, <1>5

LEMMA KnownLater ==
  ASSUME NEW w, NEW P, NEW i \in Nat, NEW j \in Nat, j >= i, Known(w, P, i)
  PROVE  Known(w, P, j)
BY DEF Known

\* Where the elements of an array begin, as parseArray computes it.
IsPositions(P, i, n, g) == g = [k \in 0 .. n |-> IF k = 0 THEN i + 2 ELSE P[g[k - 1]].next]
Positions(P, i, n) == CHOOSE g : IsPositions(P, i, n, g)

LEMMA PositionsUnique ==
  ASSUME NEW P, NEW i, NEW n \in Nat, NEW f, NEW g, IsPositions(P, i, n, f), IsPositions(P, i, n, g)
  PROVE  \A k \in 0 .. n : f[k] = g[k]
<1>1. /\ \A k \in 0 .. n : f[k] = IF k = 0 THEN i + 2 ELSE P[f[k - 1]].next
      /\ \A k \in 0 .. n : g[k] = IF k = 0 THEN i + 2 ELSE P[g[k - 1]].next
  <2>1. f = [k \in 0 .. n |-> IF k = 0 THEN i + 2 ELSE P[f[k - 1]].next]
    BY DEF IsPositions
  <2>2. g = [k \in 0 .. n |-> IF k = 0 THEN i + 2 ELSE P[g[k - 1]].next]
    BY DEF IsPositions
  <2>3. \A k \in 0 .. n : f[k] = IF k = 0 THEN i + 2 ELSE P[f[k - 1]].next
    BY <2>1
  <2>4. \A k \in 0 .. n : g[k] = IF k = 0 THEN i + 2 ELSE P[g[k - 1]].next
    BY <2>2
  <2> QED BY <2>3, <2>4
<1> DEFINE A == {k \in Nat : k <= n => f[k] = g[k]}
<1>2. 0 \in A
  BY <1>1
<1>3. ASSUME NEW k \in Nat, k \in A PROVE k + 1 \in A
  <2> SUFFICES ASSUME k + 1 <= n PROVE f[k + 1] = g[k + 1]
    OBVIOUS
  <2>1. PICK j \in 0 .. n : j = k + 1 /\ j # 0 /\ j - 1 = k
    OBVIOUS
  <2>2. f[k] = g[k]
    BY <1>3
  <2> QED BY <1>1, <2>1, <2>2
<1>4. \A k \in Nat : k \in A
  <2> HIDE DEF A
  <2> QED BY <1>2, <1>3, AllNaturals
<1> QED BY <1>4

LEMMA ArrayRead ==
  ASSUME NEW w \in Bytes, NEW P, NEW i \in Nat, NEW v \in Values, faithful[v],
         v.type = "array", Stands(w, i, serialize[v]), Known(w, P, i + 1)
  PROVE  parseValue(w, P, i) = Read(content[v], i + Len(serialize[v]), TRUE)
<1>1. PICK s \in Bytes : s = serialize[v]
  BY ContainerIs
<1>2. PICK parts \in Bytes : parts = FlattenSeq(Pieces(v.kids)) /\ Len(parts) \in Nat
  BY ContainerIs
<1>3. PICK n \in Nat : n = Len(v.kids) /\ DOMAIN v.kids = 1 .. n /\ v.kids \in Seq(Values)
  <2>1. v.kids \in Seq(Values)
    BY ObjectIs
  <2> QED BY <2>1
<1>4. /\ Len(s) = 2 + Len(parts) + 1 /\ s[1] = Code("array") /\ s[2] = Number(n, 8)
      /\ Stands(s, 3, parts)
  BY <1>1, <1>2, <1>3, ContainerIs DEF HeadLength
<1>5. w[i].code = "array" /\ w[i + 1].num = n
  <2>1. \A k \in 1 .. Len(s) : w[i + k - 1] = s[k]
    BY <1>1 DEF Stands
  <2>2. 1 \in 1 .. Len(s) /\ 2 \in 1 .. Len(s)
    BY <1>2, <1>4
  <2>3. w[i + 1 - 1] = s[1] /\ w[i + 2 - 1] = s[2]
    BY <2>1, <2>2
  <2>4. i + 1 - 1 = i /\ i + 2 - 1 = i + 1
    OBVIOUS
  <2>5. w[i] = s[1] /\ w[i + 1] = s[2]
    BY <2>3, <2>4
  <2>6. Code("array").code = "array" /\ Number(n, 8).num = n
    BY DEF Code, Number
  <2> QED BY <1>4, <2>5, <2>6
<1>6. Stands(w, i + 2, parts) /\ Known(w, P, i + 2)
  <2>1. Stands(w, i + 3 - 1, parts)
    BY <1>1, <1>4, StandsIn
  <2>2. i + 3 - 1 = i + 2 /\ i + 1 \in Nat /\ i + 2 \in Nat /\ i + 2 >= i + 1
    OBVIOUS
  <2> QED BY <2>1, <2>2, KnownLater
<1>7. PICK off : Reading(w, P, i + 2, v.kids, off) /\ off[n] = Len(parts)
  <2>1. \A k \in 1 .. Len(v.kids) : faithful[v.kids[k]]
    BY <1>3, FaithfulIs
  <2>2. parts = FlattenSeq(Pieces(v.kids)) /\ Stands(w, i + 2, FlattenSeq(Pieces(v.kids)))
    BY <1>2, <1>6
  <2>3. i + 2 \in Nat
    OBVIOUS
  <2>4. \E off : Reading(w, P, i + 2, v.kids, off) /\ off[Len(v.kids)] = Len(FlattenSeq(Pieces(v.kids)))
    BY <1>3, <1>6, <2>1, <2>2, <2>3, ReadingExists
  <2> QED BY <1>3, <2>2, <2>4
<1>8. /\ off \in [0 .. n -> Nat] /\ off[0] = 0
      /\ \A k \in 1 .. n :
            P[i + 2 + off[k - 1]] = Read(content[v.kids[k]], i + 2 + off[k], TRUE)
  BY <1>3, <1>7 DEF Reading
<1> DEFINE F == [k \in 0 .. n |-> i + 2 + off[k]]
           pos == Positions(P, i, n)
<1>9. IsPositions(P, i, n, F)
  <2>1. ASSUME NEW k \in 0 .. n PROVE F[k] = IF k = 0 THEN i + 2 ELSE P[F[k - 1]].next
    <3>1. CASE k = 0
      BY <1>8, <3>1
    <3>2. CASE k # 0
      <4>1. k \in 1 .. n /\ k - 1 \in 0 .. n
        BY <3>2
      <4>2. F[k - 1] = i + 2 + off[k - 1]
        BY <4>1
      <4>3. P[i + 2 + off[k - 1]].next = i + 2 + off[k]
        <5>1. P[i + 2 + off[k - 1]] = Read(content[v.kids[k]], i + 2 + off[k], TRUE)
          BY <1>8, <4>1
        <5> QED BY <5>1 DEF Read
      <4> QED BY <3>2, <4>2, <4>3
    <3> QED BY <3>1, <3>2
  <2>2. F = [k \in 0 .. n |-> F[k]]
    OBVIOUS
  <2> HIDE DEF F
  <2>3. F = [k \in 0 .. n |-> IF k = 0 THEN i + 2 ELSE P[F[k - 1]].next]
    BY <2>1, <2>2
  <2> QED BY <2>3 DEF IsPositions
<1>10. \A k \in 0 .. n : pos[k] = i + 2 + off[k]
  <2>1. IsPositions(P, i, n, pos)
    BY <1>9 DEF Positions
  <2>2. \A k \in 0 .. n : F[k] = i + 2 + off[k]
    OBVIOUS
  <2> HIDE DEF F, pos
  <2>3. \A k \in 0 .. n : F[k] = pos[k]
    BY <1>9, <2>1, PositionsUnique
  <2> QED BY <2>2, <2>3
<1>11. parseValue(w, P, i) = parseArray(w, P, i)
  <2>1. "array" \notin Scalars \cup {"true", "false", "string", "empty"}
    BY DEF Scalars, ScalarWidth
  <2> QED BY <1>5, <2>1 DEF parseValue
<1>12. parseArray(w, P, i)
         = Read(Content("array", 0, [k \in 1 .. n |-> P[pos[k - 1]].val]), pos[n] + 1, TRUE)
  BY <1>5 DEF parseArray, Positions, IsPositions
<1> HIDE DEF F, pos
<1>13. [k \in 1 .. n |-> P[pos[k - 1]].val] = [k \in DOMAIN v.kids |-> content[v.kids[k]]]
  <2>1. ASSUME NEW k \in 1 .. n PROVE P[pos[k - 1]].val = content[v.kids[k]]
    <3>1. k - 1 \in 0 .. n
      OBVIOUS
    <3>2. pos[k - 1] = i + 2 + off[k - 1]
      BY <1>10, <3>1
    <3>3. P[i + 2 + off[k - 1]].val = content[v.kids[k]]
      <4>1. P[i + 2 + off[k - 1]] = Read(content[v.kids[k]], i + 2 + off[k], TRUE)
        BY <1>8
      <4> QED BY <4>1 DEF Read
    <3> QED BY <3>2, <3>3
  <2> QED BY <1>3, <2>1
<1>14. pos[n] + 1 = i + Len(serialize[v])
  <2>1. pos[n] = i + 2 + off[n]
    BY <1>10
  <2> QED BY <1>1, <1>2, <1>4, <1>7, <2>1
<1>15. content[v] = Content("array", 0, [k \in DOMAIN v.kids |-> content[v.kids[k]]])
  <2>1. v.num = 0
    BY ObjectIs
  <2> QED BY <2>1, ContentIs
<1> QED BY <1>11, <1>12, <1>13, <1>14, <1>15

LEMMA Halves ==
  /\ \A k \in Nat : (2 * k + 1) % 2 = 1
  /\ \A n \in Nat : n % 2 = 0 => \E m \in Nat : n = 2 * m
<1>1. \A k \in Nat : (2 * k + 1) % 2 = 1
  OBVIOUS
<1>2. ASSUME NEW n \in Nat, n % 2 = 0 PROVE \E m \in Nat : n = 2 * m
  <2>1. n = 2 * (n \div 2) /\ n \div 2 \in Nat
    BY <1>2
  <2> QED BY <2>1
<1> QED BY <1>1, <1>2

\* The pairs of a struct, as parseStruct reads them.
NoPairs(i) == [pos |-> i + 1, ok |-> TRUE, kids |-> << >>]
IsPairs(w, P, i, n, g) ==
    g = [k \in 0 .. n |-> IF k = 0 THEN [pos |-> i + 1, ok |-> TRUE, kids |-> << >>]
                          ELSE ReadPair(w, P, g[k - 1])]
Pairs(w, P, i) == CHOOSE g : IsPairs(w, P, i, Len(w), g)

LEMMA PairsUnique ==
  ASSUME NEW w, NEW P, NEW i, NEW n \in Nat, NEW f, NEW g,
         IsPairs(w, P, i, n, f), IsPairs(w, P, i, n, g)
  PROVE  \A k \in 0 .. n : f[k] = g[k]
<1>1. /\ \A k \in 0 .. n : f[k] = IF k = 0 THEN NoPairs(i) ELSE ReadPair(w, P, f[k - 1])
      /\ \A k \in 0 .. n : g[k] = IF k = 0 THEN NoPairs(i) ELSE ReadPair(w, P, g[k - 1])
  <2>1. \A k \in 0 .. n : f[k] = IF k = 0 THEN NoPairs(i) ELSE ReadPair(w, P, f[k - 1])
    <3>1. f = [k \in 0 .. n |-> IF k = 0 THEN NoPairs(i) ELSE ReadPair(w, P, f[k - 1])]
      BY DEF IsPairs, NoPairs
    <3> QED BY <3>1
  <2>2. \A k \in 0 .. n : g[k] = IF k = 0 THEN NoPairs(i) ELSE ReadPair(w, P, g[k - 1])
    <3>1. g = [k \in 0 .. n |-> IF k = 0 THEN NoPairs(i) ELSE ReadPair(w, P, g[k - 1])]
      BY DEF IsPairs, NoPairs
    <3> QED BY <3>1
  <2> QED BY <2>1, <2>2
<1> DEFINE A == {k \in Nat : k <= n => f[k] = g[k]}
<1>2. 0 \in A
  BY <1>1
<1>3. ASSUME NEW k \in Nat, k \in A PROVE k + 1 \in A
  <2> SUFFICES ASSUME k + 1 <= n PROVE f[k + 1] = g[k + 1]
    OBVIOUS
  <2>1. PICK j \in 0 .. n : j = k + 1 /\ j # 0 /\ j - 1 = k
    OBVIOUS
  <2>2. f[k] = g[k]
    BY <1>3
  <2> QED BY <1>1, <2>1, <2>2
<1>4. \A k \in Nat : k \in A
  <2> HIDE DEF A
  <2> QED BY <1>2, <1>3, AllNaturals
<1> QED BY <1>4

\* What has been read of a struct after k pairs.
PairsRead(v, i, off, k) ==
    [pos |-> i + 1 + off[2 * k], ok |-> TRUE, kids |-> [j \in 1 .. 2 * k |-> content[v.kids[j]]]]

LEMMA KidsAppended ==
  ASSUME NEW vs, NEW n \in Nat
  PROVE  [j \in 1 .. n |-> content[vs[j]]] \o <<content[vs[n + 1]], content[vs[n + 2]]>>
           = [j \in 1 .. n + 2 |-> content[vs[j]]]
<1> DEFINE C == {content[vs[j]] : j \in 1 .. n + 2}
<1>1. PICK s : s = [j \in 1 .. n |-> content[vs[j]]]
  OBVIOUS
<1>2. PICK u : u = [j \in 1 .. n + 2 |-> content[vs[j]]]
  OBVIOUS
<1>3. PICK a \in C : a = content[vs[n + 1]]
  OBVIOUS
<1>4. PICK b \in C : b = content[vs[n + 2]]
  OBVIOUS
<1>5. PICK t : t = <<a, b>>
  OBVIOUS
<1>6. /\ s \in [1 .. n -> C] /\ u \in [1 .. n + 2 -> C]
      /\ \A j \in 1 .. n : s[j] = content[vs[j]]
      /\ \A j \in 1 .. n + 2 : u[j] = content[vs[j]]
  BY <1>1, <1>2
<1> HIDE DEF C
<1>7. t \in Seq(C) /\ Len(t) = 2 /\ t[1] = a /\ t[2] = b
  BY <1>5
<1>8. s \in Seq(C) /\ u \in Seq(C) /\ Len(s) = n /\ Len(u) = n + 2
  <2>1. s \in Seq(C) /\ Len(s) = n
    BY <1>6
  <2>2. n + 2 \in Nat
    OBVIOUS
  <2>3. u \in Seq(C) /\ Len(u) = n + 2
    BY <1>6, <2>2
  <2> QED BY <2>1, <2>3
<1>9. PICK x : x = s \o t
  OBVIOUS
<1>10. /\ x \in Seq(C) /\ Len(x) = n + 2
       /\ \A j \in 1 .. n + 2 : x[j] = IF j <= n THEN s[j] ELSE t[j - n]
  <2>1. /\ x \in Seq(C) /\ Len(x) = Len(s) + Len(t)
        /\ \A j \in 1 .. Len(s) + Len(t) : x[j] = IF j <= Len(s) THEN s[j] ELSE t[j - Len(s)]
    BY <1>7, <1>8, <1>9, ConcatProperties
  <2> QED BY <1>7, <1>8, <2>1
<1>11. ASSUME NEW j \in 1 .. n + 2 PROVE x[j] = u[j]
  <2>1. CASE j <= n
    <3>1. j \in 1 .. n
      BY <2>1
    <3> QED BY <1>6, <1>10, <2>1, <3>1
  <2>2. CASE j = n + 1
    <3>1. j - n = 1 /\ ~ (j <= n)
      BY <2>2
    <3>2. x[j] = t[1]
      BY <1>10, <3>1
    <3> QED BY <1>3, <1>6, <1>7, <2>2, <3>2
  <2>3. CASE j = n + 2
    <3>1. j - n = 2 /\ ~ (j <= n)
      BY <2>3
    <3>2. x[j] = t[2]
      BY <1>10, <3>1
    <3> QED BY <1>4, <1>6, <1>7, <2>3, <3>2
  <2> QED BY <2>1, <2>2, <2>3
<1>12. x = u
  BY <1>8, <1>10, <1>11, SeqEqual
<1> QED BY <1>1, <1>2, <1>3, <1>4, <1>5, <1>9, <1>12

LEMMA PairRead ==
  ASSUME NEW w \in Bytes, NEW P, NEW i \in Nat, NEW v \in Values, faithful[v],
         v.type = "struct", NEW off, Reading(w, P, i + 1, v.kids, off),
         NEW k \in Nat, 2 * k + 2 <= Len(v.kids)
  PROVE  ReadPair(w, P, PairsRead(v, i, off, k)) = PairsRead(v, i, off, k + 1)
<1>1. v.kids \in Seq(Values) /\ DOMAIN v.kids = 1 .. Len(v.kids) /\ Len(v.kids) \in Nat
  BY ObjectIs
<1>2. PICK n \in Nat : n = 2 * k /\ n + 1 \in 1 .. Len(v.kids) /\ n + 2 \in 1 .. Len(v.kids)
                       /\ n + 1 - 1 = n /\ n + 2 - 1 = n + 1 /\ 2 * (k + 1) = n + 2
  BY <1>1
<1>3. off \in [0 .. Len(v.kids) -> Nat] /\ n \in 0 .. Len(v.kids)
      /\ n + 1 \in 0 .. Len(v.kids) /\ n + 2 \in 0 .. Len(v.kids)
  BY <1>1, <1>2 DEF Reading
<1>4. PICK a \in Nat : a = i + 1 + off[n]
  BY <1>3
<1>5. PICK b \in Nat : b = i + 1 + off[n + 1]
  BY <1>3
<1>6. PICK c \in Nat : c = i + 1 + off[n + 2]
  BY <1>3
<1>7. PICK x \in Values : x = v.kids[n + 1]
  BY <1>1, <1>2
<1>8. PICK y \in Values : y = v.kids[n + 2]
  BY <1>1, <1>2
<1>9. P[a] = Read(content[x], b, TRUE) /\ w[a] = serialize[x][1] /\ w[a] # Code("none")
  <2>1. PICK q \in 1 .. Len(v.kids) : q = n + 1 /\ q - 1 = n
    BY <1>2
  <2>2. /\ P[i + 1 + off[q - 1]] = Read(content[v.kids[q]], i + 1 + off[q], TRUE)
        /\ w[i + 1 + off[q - 1]] = serialize[v.kids[q]][1]
        /\ w[i + 1 + off[q - 1]] # Code("none")
    BY DEF Reading
  <2> QED BY <1>4, <1>5, <1>7, <2>1, <2>2
<1>10. P[b] = Read(content[y], c, TRUE)
  <2>1. PICK q \in 1 .. Len(v.kids) : q = n + 2 /\ q - 1 = n + 1
    BY <1>2
  <2>2. P[i + 1 + off[q - 1]] = Read(content[v.kids[q]], i + 1 + off[q], TRUE)
    BY DEF Reading
  <2> QED BY <1>5, <1>6, <1>8, <2>1, <2>2
<1>11. w[a] = Code("string")
  <2>1. ~ BadKey(v) /\ faithful[x]
    BY <1>1, <1>2, <1>7, FaithfulIs
  <2>2. (n + 1) % 2 = 1
    BY <1>2, Halves
  <2>3. x.type = "string" /\ ~ x.empty
    BY <1>1, <1>2, <1>7, <2>1, <2>2 DEF BadKey
  <2> QED BY <1>9, <2>1, <2>3, FirstField
<1>12. PICK s : s = [j \in 1 .. n |-> content[v.kids[j]]]
  OBVIOUS
<1>13. PICK t : t = [j \in 1 .. n + 2 |-> content[v.kids[j]]]
  OBVIOUS
<1>14. s \o <<content[x], content[y]>> = t
  BY <1>7, <1>8, <1>12, <1>13, KidsAppended
<1>15. PairsRead(v, i, off, k) = [pos |-> a, ok |-> TRUE, kids |-> s]
  BY <1>2, <1>4, <1>12 DEF PairsRead
<1>16. PairsRead(v, i, off, k + 1) = [pos |-> c, ok |-> TRUE, kids |-> t]
  BY <1>2, <1>6, <1>13 DEF PairsRead
<1>17. PICK r : r = [pos |-> a, ok |-> TRUE, kids |-> s]
  OBVIOUS
<1>18. r.pos = a /\ r.ok /\ r.kids = s
  BY <1>17
<1>19. /\ P[a].ok /\ P[a].next = b /\ P[a].val = content[x]
       /\ P[b].ok = TRUE /\ P[b].next = c /\ P[b].val = content[y]
  BY <1>9, <1>10 DEF Read
<1>20. ReadPair(w, P, r)
         = [pos |-> P[b].next, ok |-> P[b].ok, kids |-> s \o <<P[a].val, P[b].val>>]
  BY <1>9, <1>11, <1>18, <1>19 DEF ReadPair
<1> QED BY <1>14, <1>15, <1>16, <1>17, <1>19, <1>20

LEMMA StructRead ==
  ASSUME NEW w \in Bytes, NEW P, NEW i \in Nat, NEW v \in Values, faithful[v],
         v.type = "struct", Stands(w, i, serialize[v]), Known(w, P, i + 1)
  PROVE  parseValue(w, P, i) = Read(content[v], i + Len(serialize[v]), TRUE)
<1>1. PICK s \in Bytes : s = serialize[v] /\ Len(s) \in Nat /\ Len(w) \in Nat
  BY ContainerIs DEF Bytes
<1>2. PICK parts \in Bytes : parts = FlattenSeq(Pieces(v.kids)) /\ Len(parts) \in Nat
  BY ContainerIs
<1>3. /\ v.kids \in Seq(Values) /\ DOMAIN v.kids = 1 .. Len(v.kids) /\ Len(v.kids) \in Nat
      /\ Len(v.kids) % 2 = 0
  <2>1. v.kids \in Seq(Values)
    BY ObjectIs
  <2>2. Len(v.kids) % 2 = 0
    BY ValuesBuilt
  <2>3. DOMAIN v.kids = 1 .. Len(v.kids) /\ Len(v.kids) \in Nat
    BY <2>1
  <2> QED BY <2>1, <2>2, <2>3
<1>4. PICK m \in Nat : Len(v.kids) = 2 * m
  BY <1>3, Halves
<1>5. /\ Len(s) = 1 + Len(parts) + 1 /\ s[1] = Code("struct")
      /\ Stands(s, 2, parts) /\ s[1 + Len(parts) + 1] = Code("none")
  BY <1>1, <1>2, ContainerIs DEF HeadLength
<1>6. w[i].code = "struct" /\ w[i + 1 + Len(parts)] = Code("none") /\ i + Len(s) <= Len(w) + 1
  <2>1. /\ \A k \in 1 .. Len(s) : w[i + k - 1] = s[k]
        /\ i + Len(s) <= Len(w) + 1
    BY <1>1 DEF Stands
  <2>2. 1 \in 1 .. Len(s) /\ 1 + Len(parts) + 1 \in 1 .. Len(s)
    BY <1>2, <1>5
  <2>3. w[i + 1 - 1] = s[1] /\ w[i + (1 + Len(parts) + 1) - 1] = s[1 + Len(parts) + 1]
    BY <2>1, <2>2
  <2>4. i + 1 - 1 = i /\ i + (1 + Len(parts) + 1) - 1 = i + 1 + Len(parts)
    BY <1>2
  <2>5. w[i] = s[1] /\ w[i + 1 + Len(parts)] = s[1 + Len(parts) + 1]
    BY <2>3, <2>4
  <2>6. Code("struct").code = "struct"
    BY DEF Code
  <2> QED BY <1>5, <2>1, <2>5, <2>6
<1>7. Stands(w, i + 1, parts)
  <2>1. Stands(w, i + 2 - 1, parts)
    BY <1>1, <1>5, StandsIn
  <2>2. i + 2 - 1 = i + 1
    OBVIOUS
  <2> QED BY <2>1, <2>2
<1>8. PICK off : Reading(w, P, i + 1, v.kids, off) /\ off[2 * m] = Len(parts)
  <2>1. \A k \in 1 .. Len(v.kids) : faithful[v.kids[k]]
    BY <1>3, FaithfulIs
  <2>2. parts = FlattenSeq(Pieces(v.kids)) /\ Stands(w, i + 1, FlattenSeq(Pieces(v.kids)))
    BY <1>2, <1>7
  <2>3. i + 1 \in Nat
    OBVIOUS
  <2>4. \E off : /\ Reading(w, P, i + 1, v.kids, off)
                 /\ off[Len(v.kids)] = Len(FlattenSeq(Pieces(v.kids)))
    BY <1>3, <2>1, <2>2, <2>3, ReadingExists
  <2> QED BY <1>4, <2>2, <2>4
<1>9. off[0] = 0 /\ off[2 * m] >= 2 * m
  <2>1. PICK q \in 0 .. Len(v.kids) : q = 2 * m
    BY <1>4
  <2>2. off[0] = 0 /\ off[q] >= q
    BY <1>8 DEF Reading
  <2> QED BY <2>1, <2>2
<1> DEFINE R(k) == PairsRead(v, i, off, k)
           F == [k \in 0 .. Len(w) |-> IF k <= m THEN R(k) ELSE R(m)]
<1>10. R(0) = NoPairs(i)
  <2>1. 2 * 0 = 0 /\ i + 1 + off[0] = i + 1
    BY <1>9
  <2>2. [j \in 1 .. 2 * 0 |-> content[v.kids[j]]] = << >>
    <3>1. 1 .. 2 * 0 = {}
      OBVIOUS
    <3> QED BY <3>1
  <2> QED BY <2>1, <2>2 DEF PairsRead, NoPairs
<1>11. \A k \in Nat : k < m => ReadPair(w, P, R(k)) = R(k + 1)
  <2> SUFFICES ASSUME NEW k \in Nat, k < m PROVE ReadPair(w, P, R(k)) = R(k + 1)
    OBVIOUS
  <2>1. 2 * k + 2 <= Len(v.kids)
    BY <1>4
  <2> QED BY <1>8, <2>1, PairRead
<1>12. R(m).pos = i + 1 + Len(parts) /\ R(m).ok = TRUE
  BY <1>8 DEF PairsRead
<1>13. ReadPair(w, P, R(m)) = R(m)
  <2>1. w[R(m).pos] = Code("none")
    BY <1>6, <1>12
  <2> HIDE DEF R
  <2> QED BY <2>1 DEF ReadPair
<1>14. IsPairs(w, P, i, Len(w), F)
  <2>1. ASSUME NEW k \in 0 .. Len(w)
        PROVE  F[k] = IF k = 0 THEN NoPairs(i) ELSE ReadPair(w, P, F[k - 1])
    <3> HIDE DEF R
    <3>1. CASE k = 0
      BY <1>10, <3>1
    <3>2. CASE k # 0 /\ k <= m
      <4>1. k - 1 \in 0 .. Len(w) /\ k - 1 \in Nat /\ k - 1 < m /\ k - 1 <= m /\ k - 1 + 1 = k
        BY <3>2
      <4>2. ReadPair(w, P, R(k - 1)) = R(k - 1 + 1)
        BY <1>11, <4>1
      <4>3. F[k - 1] = R(k - 1) /\ F[k] = R(k)
        BY <3>2, <4>1
      <4> QED BY <3>2, <4>1, <4>2, <4>3
    <3>3. CASE ~ (k <= m)
      <4>1. k # 0 /\ k - 1 \in 0 .. Len(w) /\ F[k] = R(m)
        BY <3>3
      <4>2. F[k - 1] = R(m)
        <5>1. CASE k - 1 <= m
          <6>1. k - 1 = m
            BY <3>3, <5>1
          <6> QED BY <4>1, <6>1
        <5>2. CASE ~ (k - 1 <= m)
          BY <4>1, <5>2
        <5> QED BY <5>1, <5>2
      <4> QED BY <1>13, <4>1, <4>2
    <3> QED BY <3>1, <3>2, <3>3
  <2>2. F = [k \in 0 .. Len(w) |-> F[k]]
    OBVIOUS
  <2> HIDE DEF F
  <2>3. F = [k \in 0 .. Len(w) |-> IF k = 0 THEN NoPairs(i) ELSE ReadPair(w, P, F[k - 1])]
    BY <2>1, <2>2
  <2> QED BY <2>3 DEF IsPairs, NoPairs
<1>15. StructFrom(w, P, i) = R(m)
  <2>1. PICK g : g = Pairs(w, P, i)
    OBVIOUS
  <2>2. IsPairs(w, P, i, Len(w), g)
    BY <1>14, <2>1 DEF Pairs
  <2>3. StructFrom(w, P, i) = g[Len(w)]
    BY <2>1 DEF StructFrom, Pairs, IsPairs
  <2>4. Len(w) \in 0 .. Len(w) /\ Len(w) >= m
    BY <1>1, <1>2, <1>5, <1>6, <1>8, <1>9
  <2>5. F[Len(w)] = R(m)
    <3> HIDE DEF R
    <3>1. CASE Len(w) = m
      BY <2>4, <3>1
    <3>2. CASE Len(w) # m
      <4>1. ~ (Len(w) <= m)
        BY <1>1, <2>4, <3>2
      <4> QED BY <2>4, <4>1
    <3> QED BY <3>1, <3>2
  <2> HIDE DEF F, R
  <2>6. F[Len(w)] = g[Len(w)]
    BY <1>1, <1>14, <2>2, <2>4, PairsUnique
  <2> QED BY <2>3, <2>5, <2>6
<1>16. parseValue(w, P, i) = parseStruct(w, P, i)
  <2>1. "struct" \notin Scalars \cup {"true", "false", "string", "empty"}
    BY DEF Scalars, ScalarWidth
  <2> QED BY <1>6, <2>1 DEF parseValue
<1>17. R(m).kids = [k \in DOMAIN v.kids |-> content[v.kids[k]]]
  BY <1>3, <1>4 DEF PairsRead
<1>18. content[v] = Content("struct", 0, [k \in DOMAIN v.kids |-> content[v.kids[k]]])
  <2>1. v.num = 0
    BY ObjectIs
  <2> QED BY <2>1, ContentIs
<1>19. R(m).pos + 1 = i + Len(serialize[v])
  BY <1>1, <1>2, <1>5, <1>12
<1> HIDE DEF F, R
<1>20. parseStruct(w, P, i) = Read(Content("struct", 0, R(m).kids), R(m).pos + 1, TRUE)
  BY <1>12, <1>15 DEF parseStruct
<1> QED BY <1>16, <1>17, <1>18, <1>19, <1>20

\* A faithful object is read as what it stands for, once the later positions are.
LEMMA ObjectRead ==
  ASSUME NEW w \in Bytes, NEW P, NEW i \in Nat, NEW v \in Values, faithful[v],
         Stands(w, i, serialize[v]), Known(w, P, i + 1)
  PROVE  parseValue(w, P, i) = Read(content[v], i + Len(serialize[v]), TRUE)
<1>1. CASE v.type = "string"
  <2>1. /\ v.num \in Nat /\ (v.num = 0 => v.empty) /\ ~ (v.empty /\ v.num > 0)
        /\ serialize[v] = serializeString(v)
    BY <1>1, FaithfulString
  <2>2. Stands(w, i, serializeString(v))
    BY <2>1
  <2>3. parseValue(w, P, i)
          = Read(Content("string", v.num, << >>), i + Len(serializeString(v)), TRUE)
    BY <2>1, <2>2, StringRead
  <2>4. content[v] = Content("string", v.num, << >>)
    BY <1>1, ChildlessContent
  <2> QED BY <2>1, <2>3, <2>4
<1>2. CASE v.type = "array"
  BY <1>2, ArrayRead
<1>3. CASE v.type = "struct"
  BY <1>3, StructRead
<1>4. CASE v.type \in Scalars \cup {"bool"}
  BY <1>4, ScalarRead
<1> QED BY <1>1, <1>2, <1>3, <1>4, ObjectIs DEF Linkable

\* From the last position down to the first.
LEMMA KnownFromHere ==
  ASSUME NEW w \in Bytes, NEW P,
         \A i \in 1 .. Len(w) : Known(w, P, i + 1) =>
             \A v \in Values : faithful[v] /\ Stands(w, i, serialize[v]) => Right(w, P, i, v)
  PROVE  Known(w, P, 1)
<1>1. Len(w) \in Nat
  BY DEF Bytes
<1> DEFINE A == {d \in Nat : d <= Len(w) => Known(w, P, Len(w) + 1 - d)}
<1>2. 0 \in A
  <2>1. ASSUME NEW j \in Nat, NEW v \in Values, j >= Len(w) + 1, faithful[v],
               Stands(w, j, serialize[v])
        PROVE  FALSE
    <3>1. Len(serialize[v]) \in Nat /\ Len(serialize[v]) # 0
      BY <2>1, FirstField
    <3>2. j + Len(serialize[v]) <= Len(w) + 1
      BY <2>1 DEF Stands
    <3> QED BY <1>1, <2>1, <3>1, <3>2
  <2>2. Known(w, P, Len(w) + 1)
    BY <2>1 DEF Known
  <2>3. Len(w) + 1 - 0 = Len(w) + 1
    BY <1>1
  <2> QED BY <2>2, <2>3
<1>3. ASSUME NEW d \in Nat, d \in A PROVE d + 1 \in A
  <2> SUFFICES ASSUME d + 1 <= Len(w) PROVE Known(w, P, Len(w) + 1 - (d + 1))
    OBVIOUS
  <2>1. PICK i \in 1 .. Len(w) : i = Len(w) + 1 - (d + 1) /\ i + 1 = Len(w) + 1 - d
    BY <1>1
  <2>2. Known(w, P, i + 1)
    <3>1. d <= Len(w)
      BY <1>1
    <3> QED BY <1>3, <2>1, <3>1
  <2>3. \A v \in Values : faithful[v] /\ Stands(w, i, serialize[v]) => Right(w, P, i, v)
    BY <2>2
  <2>4. \A j \in Nat : j >= i => j = i \/ j >= i + 1
    BY <1>1
  <2>5. Known(w, P, i)
    BY <2>2, <2>3, <2>4 DEF Known
  <2> QED BY <2>1, <2>5
<1>4. \A d \in Nat : d \in A
  <2> HIDE DEF A
  <2> QED BY <1>2, <1>3, AllNaturals
<1>5. Len(w) + 1 - Len(w) = 1 /\ Len(w) <= Len(w)
  BY <1>1
<1> QED BY <1>1, <1>4, <1>5

\* parseValue is a function of the message: no object is read from within itself.
IsReads(w, P) == P = [i \in 1 .. Len(w) |-> parseValue(w, P, i)]

LEMMA ReadsExist ==
  ASSUME NEW w \in Bytes, Nested(w)
  PROVE  IsReads(w, Reads(w))
<1> DEFINE Here(i, v) == faithful[v] /\ Stands(w, i, serialize[v])
           Of(i, v) == Read(content[v], i + Len(serialize[v]), TRUE)
           It(i) == CHOOSE v \in Values : Here(i, v)
           In(i) == w[i].code \in {"array", "struct"}
           H == [i \in 1 .. Len(w) |-> IF In(i) THEN Of(i, It(i)) ELSE parseValue(w, << >>, i)]
<1>1. Len(w) \in Nat
  BY DEF Bytes
<1>2. ASSUME NEW i \in 1 .. Len(w), In(i) PROVE It(i) \in Values /\ Here(i, It(i))
  <2>1. \E v \in Values : Here(i, v)
    BY <1>2 DEF Nested
  <2> HIDE DEF Here
  <2> QED BY <2>1
<1>3. ASSUME NEW i \in 1 .. Len(w), Known(w, H, i + 1)
      PROVE  H[i] = parseValue(w, H, i)
  <2>1. CASE In(i)
    <3>1. It(i) \in Values /\ Here(i, It(i))
      BY <1>2, <2>1
    <3>2. H[i] = Of(i, It(i))
      BY <2>1
    <3> HIDE DEF H, It
    <3>3. i \in Nat
      OBVIOUS
    <3>4. parseValue(w, H, i) = Of(i, It(i))
      BY <1>3, <3>1, <3>3, ObjectRead
    <3> QED BY <3>2, <3>4
  <2>2. CASE ~ In(i)
    <3>1. H[i] = parseValue(w, << >>, i)
      BY <2>2
    <3> HIDE DEF H
    <3>2. parseValue(w, << >>, i) = parseValue(w, H, i)
      BY <2>2 DEF parseValue
    <3> QED BY <3>1, <3>2
  <2> QED BY <2>1, <2>2
<1>4. Known(w, H, 1)
  <2>1. ASSUME NEW i \in 1 .. Len(w), Known(w, H, i + 1), NEW v \in Values, Here(i, v)
        PROVE  Right(w, H, i, v)
    <3>1. H[i] = parseValue(w, H, i)
      BY <1>3, <2>1
    <3> HIDE DEF H
    <3>2. i \in Nat
      OBVIOUS
    <3>3. parseValue(w, H, i) = Of(i, v)
      BY <2>1, <3>2, ObjectRead
    <3> QED BY <3>1, <3>3 DEF Right
  <2> HIDE DEF H
  <2> QED BY <2>1, KnownFromHere
<1>5. IsReads(w, H)
  <2>1. \A i \in 1 .. Len(w) : H[i] = parseValue(w, H, i)
    <3>1. ASSUME NEW i \in 1 .. Len(w) PROVE Known(w, H, i + 1)
      <4> HIDE DEF H
      <4>1. i + 1 \in Nat /\ i + 1 >= 1
        OBVIOUS
      <4> QED BY <1>4, <4>1, KnownLater
    <3> HIDE DEF H
    <3> QED BY <1>3, <3>1
  <2>2. H = [i \in 1 .. Len(w) |-> H[i]]
    OBVIOUS
  <2> HIDE DEF H
  <2>3. H = [i \in 1 .. Len(w) |-> parseValue(w, H, i)]
    BY <2>1, <2>2
  <2> QED BY <2>3 DEF IsReads
<1>6. Reads(w) = CHOOSE P : IsReads(w, P)
  BY DEF Reads, IsReads
<1> HIDE DEF H
<1> QED BY <1>5, <1>6

\* Wherever a faithful object was written in such bytes (serialize), parseValue finds its
\* content there, returns true and leaves the index at the first field behind it.
THEOREM ObjectsAreRead ==
  ASSUME NEW w \in Bytes, Nested(w)
  PROVE  /\ Known(w, Reads(w), 1)
         /\ \A i \in 1 .. Len(w) : Reads(w)[i] = parseValue(w, Reads(w), i)
<1>1. PICK P : P = Reads(w)
  OBVIOUS
<1>2. P = [i \in 1 .. Len(w) |-> parseValue(w, P, i)]
  BY <1>1, ReadsExist DEF IsReads
<1>3. \A i \in 1 .. Len(w) : P[i] = parseValue(w, P, i)
  BY <1>2
<1>4. ASSUME NEW i \in 1 .. Len(w), Known(w, P, i + 1), NEW v \in Values,
             faithful[v], Stands(w, i, serialize[v])
      PROVE  Right(w, P, i, v)
  <2>1. i \in Nat
    BY DEF Bytes
  <2>2. parseValue(w, P, i) = Read(content[v], i + Len(serialize[v]), TRUE)
    BY <1>4, <2>1, ObjectRead
  <2> QED BY <1>3, <2>2 DEF Right
<1>5. Known(w, P, 1)
  BY <1>4, KnownFromHere
<1> QED BY <1>1, <1>3, <1>5

-----------------------------------------------------------------------------
\* The life of the messages of an exchange.

Flags == {"callback", "reply", "exception"}

\* A message as it is composed: its buffer length is what its values claim.
Composed(m) ==
    /\ DOMAIN m = DOMAIN NymphMessage({})
    /\ m.flags \in SUBSET Flags /\ m.values \in Seq(Values) /\ m.response \in Values \cup {None}
    /\ "reply" \in m.flags <=> m.response # None
    /\ "callback" \in m.flags => m.flags = {"callback"}
    /\ m.bufferLength = IF "reply" \in m.flags THEN m.response.length
                        ELSE SumOfBytes(m.values)

Moments ==
    /\ pc \in {"idle", "composing", "sent", "parsed", "handling", "replying", "answered", "done"}
    /\ pc = "composing" => out.flags \subseteq {"callback"}
    /\ pc = "handling" => "callback" \notin out.flags
    /\ pc = "sent" => wire = Frame(out)
    /\ result \in {"none", "held", "deleted"}
    /\ result = "held" <=> pc = "answered"
    /\ result = "deleted" => pc = "done"

Shape(m) ==
    /\ DOMAIN m = DOMAIN NoMessage
    /\ m.frees \in Nat /\ m.responseFrees \in Nat /\ m.linked \in Nat /\ m.refs \in Nat

\* Nothing has been deleted, and every value parsed counts one reference.
Fresh(m) ==
    /\ Shape(m)
    /\ m.frees = 0 /\ m.responseFrees = 0
    /\ m.discarded = FALSE /\ m.dropped = FALSE
    /\ m.refs = m.linked + (IF IsLinked(m.response) /\ ~ m.corrupt THEN 1 ELSE 0)

\* An answer whose response the caller holds: the only reference left is the response's.
Handed(m) ==
    /\ Fresh(m) /\ m.live /\ m.owned = FALSE
    /\ m.linked = 0 /\ ~ m.corrupt

DeletedRight(m) == (m.frees > 1 \/ m.responseFrees > 1) => m.dropped /\ m.refs > 0

Lives ==
    /\ DOMAIN obj = Sides
    /\ \A s \in Sides : DeletedRight(obj[s])
    /\ pc \notin {"answered", "done"} => Fresh(obj["client"])
    /\ pc = "parsed" => Fresh(obj[Receiver])
    /\ pc = "parsed" /\ "reply" \in out.flags =>
           obj["client"].live /\ obj["client"].linked = 0
    /\ pc = "handling" /\ obj["server"].live => Fresh(obj["server"])
    /\ pc = "answered" => Handed(obj["client"])
    /\ result = "deleted" /\ IsLinked(obj["client"].response) => obj["client"].frees = 1

IInv == Composed(out) /\ Moments /\ Lives

-----------------------------------------------------------------------------
\* What is sent fits the buffer that was allocated for it.

LEMMA NameFits ==
  /\ serializeString(CallbackName) \in Bytes /\ CallbackName.length \in Nat
  /\ WidthOf(serializeString(CallbackName)) <= CallbackName.length
<1>1. CallbackName.num \in Nat /\ CallbackName.length = binaryStringLength(CallbackName.num)
  BY BoundsAreNat DEF CallbackName, String, Object
<1> QED BY <1>1, StringFits

LEMMA PartsFit ==
  ASSUME NEW m, Composed(m)
  PROVE  /\ Parts(m) \in Bytes /\ m.bufferLength \in Nat
         /\ WidthOf(Parts(m)) <=
               m.bufferLength + IF "callback" \in m.flags THEN CallbackName.length ELSE 0
<1>1. CASE "reply" \in m.flags
  <2>1. m.response \in Values /\ m.bufferLength = m.response.length /\ "callback" \notin m.flags
    BY <1>1 DEF Composed
  <2>2. Parts(m) = serialize[m.response]
    BY <1>1 DEF Parts
  <2> QED BY <2>1, <2>2, EveryObjectFits DEF Fits
<1>2. CASE "reply" \notin m.flags
  <2> DEFINE parts == FlattenSeq([i \in DOMAIN m.values |-> serialize[m.values[i]]])
             name == IF "callback" \in m.flags THEN serializeString(CallbackName) ELSE << >>
  <2>1. m.values \in Seq(Values) /\ m.bufferLength = SumOfBytes(m.values)
    BY <1>2 DEF Composed
  <2>2. \A i \in DOMAIN m.values : Fits(m.values[i])
    <3>1. \A i \in DOMAIN m.values : m.values[i] \in Values
      BY <2>1
    <3> QED BY <3>1, EveryObjectFits
  <2>3. parts \in Bytes /\ SumOfBytes(m.values) \in Nat /\ WidthOf(parts) <= SumOfBytes(m.values)
    BY <2>1, <2>2, SequenceFits
  <2>4. /\ name \in Bytes /\ CallbackName.length \in Nat
        /\ WidthOf(name) <= IF "callback" \in m.flags THEN CallbackName.length ELSE 0
    BY NameFits, WidthEmpty
  <2>5. Parts(m) = name \o parts
    BY <1>2 DEF Parts
  <2> HIDE DEF parts, name
  <2>6. WidthOf(name) \in Nat /\ WidthOf(parts) \in Nat
    BY <2>3, <2>4, WidthTypes
  <2>7. name \o parts \in Bytes /\ WidthOf(name \o parts) = WidthOf(name) + WidthOf(parts)
    BY <2>3, <2>4, WidthConcat
  <2> QED BY <2>1, <2>3, <2>4, <2>5, <2>6, <2>7
<1> QED BY <1>1, <1>2

LEMMA FrameFits ==
  ASSUME NEW m, Composed(m)
  PROVE  /\ Written(m) \in Nat /\ messageLength(m) \in Nat
         /\ Written(m) <= messageLength(m) + 8
<1>1. WidthOf(Parts(m)) \in Nat /\ CallbackName.length \in Nat
  BY PartsFit, NameFits, WidthTypes
<1>2. "callback" \in m.flags => "exception" \notin m.flags
  BY DEF Composed
<1> QED BY <1>1, <1>2, PartsFit DEF Written, messageLength

LEMMA BodyIs ==
  ASSUME NEW m, Composed(m)
  PROVE  Frame(m).body \in Bytes
<1> DEFINE rest == Frame(m).size - Written(m)
           tail == IF Written(m) < Frame(m).size THEN <<Unused(rest)>> ELSE << >>
<1>1. Frame(m).size = messageLength(m) + 8
  BY DEF Frame
<1>2. tail \in Bytes
  <2>1. CASE Written(m) < Frame(m).size
    <3>1. rest \in Nat
      BY <1>1, <2>1, FrameFits
    <3>2. Unused(rest) \in Field
      <4> HIDE DEF rest
      <4> QED BY <3>1 DEF Unused, Field, Codes
    <3> QED BY <2>1, <3>2, WidthOne
  <2> QED BY <2>1, WidthEmpty
<1>3. Parts(m) \in Bytes
  BY PartsFit
<1>4. <<Code("none")>> \in Bytes
  <2>1. Code("none") \in Field
    BY FieldTypes DEF Codes
  <2> QED BY <2>1, WidthOne
<1>5. Frame(m).body = (Parts(m) \o <<Code("none")>>) \o tail
  BY <1>1 DEF Frame
<1> HIDE DEF tail
<1> QED BY <1>2, <1>3, <1>4, <1>5, WidthConcat

-----------------------------------------------------------------------------
\* What is received: the values read are a sequence, however corrupt the message.

IsRead(w, P, from, n, g) ==
    g = [k \in 0 .. n |->
            IF k = 0 THEN [pos |-> from, vals |-> << >>]
            ELSE LET s == g[k - 1]
                 IN  IF s.pos > Len(w) \/ w[s.pos] = Code("none") THEN s
                     ELSE [pos |-> P[s.pos].next, vals |-> Append(s.vals, P[s.pos].val)]]
ReadOn(w, P, s) ==
    IF s.pos > Len(w) \/ w[s.pos] = Code("none") THEN s
    ELSE [pos |-> P[s.pos].next, vals |-> Append(s.vals, P[s.pos].val)]
After(w, P, from) == CHOOSE g : IsRead(w, P, from, Len(w), g)

LEMMA ReadExists ==
  ASSUME NEW w, NEW P, NEW from
  PROVE  \A n \in Nat : \E g : IsRead(w, P, from, n, g)
<1> DEFINE Start == [pos |-> from, vals |-> << >>]
           A == {n \in Nat : \E g : IsRead(w, P, from, n, g)}
<1>0. ASSUME NEW n, NEW g
      PROVE  IsRead(w, P, from, n, g) <=>
                g = [k \in 0 .. n |-> IF k = 0 THEN Start ELSE ReadOn(w, P, g[k - 1])]
  BY DEF IsRead, ReadOn
<1>1. 0 \in A
  <2> DEFINE g == [k \in 0 .. 0 |-> Start]
  <2>1. g = [k \in 0 .. 0 |-> IF k = 0 THEN Start ELSE ReadOn(w, P, g[k - 1])]
    <3>1. \A k \in 0 .. 0 : k = 0
      OBVIOUS
    <3> HIDE DEF Start
    <3> QED BY <3>1
  <2> HIDE DEF g, Start
  <2>2. IsRead(w, P, from, 0, g)
    BY <1>0, <2>1
  <2> QED BY <2>2
<1>2. ASSUME NEW n \in Nat, n \in A PROVE n + 1 \in A
  <2>1. PICK g : IsRead(w, P, from, n, g)
    BY <1>2
  <2> DEFINE h == [k \in 0 .. n + 1 |-> IF k = n + 1 THEN ReadOn(w, P, g[n]) ELSE g[k]]
  <2> HIDE DEF Start
  <2>2. \A k \in 0 .. n : g[k] = IF k = 0 THEN Start ELSE ReadOn(w, P, g[k - 1])
    <3>1. g = [k \in 0 .. n |-> IF k = 0 THEN Start ELSE ReadOn(w, P, g[k - 1])]
      BY <1>0, <2>1
    <3> QED BY <3>1
  <2>3. ASSUME NEW k \in 0 .. n + 1
        PROVE  h[k] = IF k = 0 THEN Start ELSE ReadOn(w, P, h[k - 1])
    <3>1. CASE k = n + 1
      BY <3>1
    <3>2. CASE k \in 0 .. n
      <4>1. h[k] = g[k] /\ (k # 0 => h[k - 1] = g[k - 1])
        BY <3>2
      <4> QED BY <2>2, <3>2, <4>1
    <3> QED BY <3>1, <3>2
  <2>4. h = [k \in 0 .. n + 1 |-> IF k = 0 THEN Start ELSE ReadOn(w, P, h[k - 1])]
    <3>1. h = [k \in 0 .. n + 1 |-> h[k]]
      OBVIOUS
    <3> HIDE DEF h
    <3> QED BY <2>3, <3>1
  <2> HIDE DEF h
  <2>5. IsRead(w, P, from, n + 1, h)
    BY <1>0, <2>4
  <2> QED BY <2>5
<1>3. \A n \in Nat : n \in A
  <2> HIDE DEF A
  <2> QED BY <1>1, <1>2, AllNaturals
<1> QED BY <1>3

LEMMA ReadValuesAre ==
  ASSUME NEW w, NEW P, NEW from, Len(w) \in Nat
  PROVE  \E S : ReadValues(w, P, from).vals \in Seq(S)
<1>1. \E g : IsRead(w, P, from, Len(w), g)
  BY ReadExists
<1>2. PICK g : g = After(w, P, from)
  OBVIOUS
<1>3. IsRead(w, P, from, Len(w), g)
  BY <1>1, <1>2 DEF After
<1>4. ReadValues(w, P, from) = g[Len(w)]
  BY <1>2 DEF ReadValues, After, IsRead
<1>5. \A k \in 0 .. Len(w) :
         g[k] = IF k = 0 THEN [pos |-> from, vals |-> << >>] ELSE ReadOn(w, P, g[k - 1])
  <2>1. g = [k \in 0 .. Len(w) |->
               IF k = 0 THEN [pos |-> from, vals |-> << >>] ELSE ReadOn(w, P, g[k - 1])]
    BY <1>3 DEF IsRead, ReadOn
  <2> QED BY <2>1
<1> DEFINE A == {k \in Nat : k <= Len(w) => \E S : g[k].vals \in Seq(S)}
<1>6. 0 \in A
  <2>1. g[0].vals = << >>
    BY <1>5
  <2>2. g[0].vals \in Seq({})
    BY <2>1
  <2> QED BY <2>2
<1>7. ASSUME NEW k \in Nat, k \in A PROVE k + 1 \in A
  <2> SUFFICES ASSUME k + 1 <= Len(w) PROVE \E S : g[k + 1].vals \in Seq(S)
    OBVIOUS
  <2>1. PICK S : g[k].vals \in Seq(S)
    BY <1>7
  <2>2. PICK j \in 0 .. Len(w) : j = k + 1 /\ j # 0 /\ j - 1 = k
    OBVIOUS
  <2>3. g[j] = ReadOn(w, P, g[k])
    BY <1>5, <2>2
  <2>4. PICK e : e = P[g[k].pos].val
    OBVIOUS
  <2>5. g[j].vals = g[k].vals \/ g[j].vals = Append(g[k].vals, e)
    BY <2>3, <2>4 DEF ReadOn
  <2>6. g[k].vals \in Seq(S \cup {e})
    BY <2>1, SeqMonotonic
  <2>7. Append(g[k].vals, e) \in Seq(S \cup {e})
    BY <2>6
  <2> QED BY <2>2, <2>5, <2>6, <2>7
<1>8. \A k \in Nat : k \in A
  <2> HIDE DEF A
  <2> QED BY <1>6, <1>7, AllNaturals
<1> QED BY <1>4, <1>8

LEMMA LinksAre ==
  ASSUME NEW S, NEW vs \in Seq(S)
  PROVE  Links(vs) \in Nat
<1>1. DOMAIN vs = 1 .. Len(vs) /\ Len(vs) \in Nat
  OBVIOUS
<1>2. IsFiniteSet(DOMAIN vs)
  BY <1>1, FS_Interval
<1>3. IsFiniteSet({i \in DOMAIN vs : IsLinked(vs[i])})
  BY <1>2, FS_Subset
<1> QED BY <1>3, FS_CardinalityType DEF Links

LEMMA ParsedIsFresh ==
  ASSUME NEW m, Composed(m)
  PROVE  /\ Fresh(parse(Frame(m))) /\ parse(Frame(m)).live
         /\ "reply" \in m.flags => parse(Frame(m)).linked = 0
<1> DEFINE f == Frame(m)
           w == f.body
           P == Reads(w)
           base == [NoMessage EXCEPT !.live = TRUE, !.flags = f.flags,
                                     !.messageId = f.messageId, !.responseId = f.responseId]
<1>1. f.flags = m.flags /\ Len(w) \in Nat
  <2>1. w \in Bytes
    BY BodyIs
  <2>2. Len(w) \in Nat
    <3> HIDE DEF w
    <3> QED BY <2>1 DEF Bytes
  <2> QED BY <2>2 DEF Frame
<1>2. /\ DOMAIN base = DOMAIN NoMessage /\ base.live = TRUE
      /\ base.frees = 0 /\ base.responseFrees = 0 /\ base.linked = 0
      /\ base.discarded = FALSE /\ base.dropped = FALSE /\ base.response = Null
  BY DEF NoMessage
<1>3. ~ IsLinked(Null)
  BY DEF IsLinked, Null, Content, Linkable
<1> HIDE DEF P, base
<1>4. CASE "reply" \in m.flags
  <2> DEFINE bad == P[1].next > Len(w) \/ w[P[1].next] # Code("none")
             r == [base EXCEPT !.response = P[1].val, !.corrupt = bad,
                               !.refs = IF ~ bad /\ IsLinked(P[1].val) THEN 1 ELSE 0]
  <2>1. parse(f) = r
    BY <1>1, <1>4 DEF parse, P, base
  <2> HIDE DEF bad, f
  <2>2. /\ DOMAIN r = DOMAIN NoMessage /\ r.live = TRUE
        /\ r.frees = 0 /\ r.responseFrees = 0 /\ r.linked = 0
        /\ r.discarded = FALSE /\ r.dropped = FALSE /\ r.response = P[1].val
        /\ r.refs = IF ~ bad /\ IsLinked(P[1].val) THEN 1 ELSE 0
    BY <1>2 DEF NoMessage
  <2>3. r.corrupt <=> bad
    BY <1>2, Zenon DEF NoMessage
  <2> HIDE DEF r
  <2>4. Fresh(r)
    BY <2>2, <2>3 DEF Fresh, Shape
  <2> QED BY <2>1, <2>2, <2>4 DEF f
<1>5. CASE "reply" \notin m.flags
  <2> DEFINE from == IF "callback" \in f.flags THEN P[1].next ELSE 1
             args == ReadValues(w, P, from)
             gone == args.pos > Len(w)
             c == IF "callback" \in f.flags THEN P[1].val ELSE Null
             r == [base EXCEPT !.callback = c, !.values = args.vals,
                               !.linked = Links(args.vals), !.corrupt = gone,
                               !.refs = Links(args.vals)]
  <2>1. parse(f) = r
    BY <1>1, <1>5 DEF parse, P, base
  <2>2. Links(args.vals) \in Nat
    <3> HIDE DEF w, from
    <3>1. PICK S : args.vals \in Seq(S)
      BY <1>1, ReadValuesAre
    <3> HIDE DEF args
    <3> QED BY <3>1, LinksAre
  <2> HIDE DEF args, c, gone
  <2>3. /\ DOMAIN r = DOMAIN NoMessage /\ r.live = TRUE
        /\ r.frees = 0 /\ r.responseFrees = 0 /\ r.linked = Links(args.vals)
        /\ r.discarded = FALSE /\ r.dropped = FALSE /\ r.response = Null
        /\ r.refs = Links(args.vals)
    BY <1>2 DEF NoMessage
  <2> HIDE DEF r
  <2>4. Fresh(r)
    BY <1>3, <2>2, <2>3 DEF Fresh, Shape
  <2> HIDE DEF f
  <2> QED BY <1>5, <2>1, <2>3, <2>4 DEF f
<1> QED BY <1>4, <1>5

-----------------------------------------------------------------------------
\* Deleting a message.

\* The references the values give back when their message is deleted, and whether that
\* deletes it again.
Back(m) == m.linked + (IF OwnsResponse(m) /\ IsLinked(m.response) /\ ~m.corrupt THEN 1 ELSE 0)
Again(m) == ~m.discarded /\ m.refs \in 1 .. Back(m)

LEMMA DestroyIs ==
  ASSUME NEW m, Shape(m)
  PROVE  /\ Destroy(m).live = FALSE /\ Destroy(m).dropped = m.dropped
         /\ Destroy(m).refs = m.refs /\ Destroy(m).response = m.response
         /\ Destroy(m).frees = m.frees + (IF Again(m) THEN 2 ELSE 1)
         /\ Destroy(m).responseFrees =
               m.responseFrees + (IF ~OwnsResponse(m) THEN 0 ELSE IF Again(m) THEN 2 ELSE 1)
BY DEF Destroy, Shape, NoMessage, Again, Back

\* A message deleted only once, and what it takes to be deleted twice.
LEMMA OnceOrAgain ==
  ASSUME NEW m, Shape(m), m.frees = 0
  PROVE  /\ ~ Again(m) => /\ Destroy(m).frees = 1
                          /\ m.responseFrees = 0 => ~ (Destroy(m).responseFrees > 1)
                          /\ ~ OwnsResponse(m) => Destroy(m).responseFrees = m.responseFrees
         /\ Again(m) => m.refs > 0
<1>1. ASSUME ~ Again(m)
      PROVE  /\ Destroy(m).frees = 0 + 1
             /\ Destroy(m).responseFrees = m.responseFrees + IF ~ OwnsResponse(m) THEN 0 ELSE 1
  BY <1>1, DestroyIs
<1>2. ASSUME Again(m) PROVE m.refs > 0
  <2>1. Back(m) \in Nat /\ m.refs \in 1 .. Back(m)
    BY <1>2 DEF Again, Back, Shape
  <2> QED BY <2>1
<1>3. m.responseFrees \in Nat
  BY DEF Shape
<1> QED BY <1>1, <1>2, <1>3

LEMMA DropDeletes ==
  ASSUME NEW m, Fresh(m)
  PROVE  DeletedRight(Drop(m))
<1> DEFINE d == [m EXCEPT !.dropped = TRUE]
<1>1. Shape(d) /\ d.frees = 0 /\ d.responseFrees = 0 /\ d.dropped = TRUE
  BY DEF Fresh, Shape, NoMessage
<1>2. Drop(m) = Destroy(d)
  BY DEF Drop
<1> HIDE DEF d
<1>3. Destroy(d).dropped = TRUE /\ Destroy(d).refs = d.refs
  BY <1>1, DestroyIs
<1>4. /\ ~ Again(d) => Destroy(d).frees = 1 /\ ~ (Destroy(d).responseFrees > 1)
      /\ Again(d) => d.refs > 0
  BY <1>1, OnceOrAgain
<1> QED BY <1>2, <1>3, <1>4 DEF DeletedRight

LEMMA DiscardDeletes ==
  ASSUME NEW m, Fresh(m)
  PROVE  DeletedRight(discard(m)) /\ discard(m).live = FALSE
<1> DEFINE d == [m EXCEPT !.discarded = TRUE]
<1>1. Shape(d) /\ d.frees = 0 /\ d.responseFrees = 0 /\ d.discarded = TRUE
  BY DEF Fresh, Shape, NoMessage
<1>2. discard(m) = Destroy(d)
  BY DEF discard
<1> HIDE DEF d
<1>3. ~ Again(d)
  BY <1>1 DEF Again
<1>4. Destroy(d).frees = 1 /\ ~ (Destroy(d).responseFrees > 1) /\ Destroy(d).live = FALSE
  BY <1>1, <1>3, OnceOrAgain, DestroyIs
<1> QED BY <1>2, <1>4 DEF DeletedRight

LEMMA AnswerIsHanded ==
  ASSUME NEW m, Fresh(m), m.live, m.linked = 0, ~ m.corrupt
  PROVE  Handed(getResponse(m)) /\ DeletedRight(getResponse(m))
BY DEF getResponse, Handed, Fresh, Shape, NoMessage, DeletedRight

LEMMA ResultDeletes ==
  ASSUME NEW m, Handed(m)
  PROVE  /\ DeletedRight(deleteResponse(m))
         /\ IsLinked(deleteResponse(m).response) => deleteResponse(m).frees = 1
<1> DEFINE e == [m EXCEPT !.responseFrees = @ + 1]
           z == [e EXCEPT !.refs = 0]
<1>1. /\ Shape(e) /\ Shape(z) /\ e.frees = 0 /\ e.responseFrees = 1
      /\ e.discarded = FALSE /\ e.response = m.response
      /\ e.refs = IF IsLinked(m.response) THEN 1 ELSE 0
      /\ z.frees = 0 /\ z.responseFrees = 1 /\ z.refs = 0 /\ z.response = m.response
      /\ z.owned = FALSE
  BY DEF Handed, Fresh, Shape, NoMessage
<1>2. CASE IsLinked(m.response)
  <2>1. deleteResponse(m) = Destroy(z)
    BY <1>1, <1>2 DEF deleteResponse, decrementReferenceCount
  <2> HIDE DEF z, e
  <2>2. ~ OwnsResponse(z)
    BY <1>1 DEF OwnsResponse
  <2>3. Destroy(z).frees = 1 /\ Destroy(z).responseFrees = 1
    <3>1. ~ Again(z)
      <4>1. Back(z) \in Nat /\ z.refs = 0
        BY <1>1 DEF Back, Shape
      <4> QED BY <4>1 DEF Again
    <3> QED BY <1>1, <2>2, <3>1, OnceOrAgain
  <2> QED BY <2>1, <2>3 DEF DeletedRight
<1>3. CASE ~ IsLinked(m.response)
  <2>1. deleteResponse(m) = e
    BY <1>3 DEF deleteResponse
  <2> QED BY <1>1, <1>3, <2>1 DEF DeletedRight
<1> QED BY <1>2, <1>3

-----------------------------------------------------------------------------
\* Composing a message.

LEMMA NothingToSend == SumOfBytes(<< >>) = 0
<1>1. [i \in DOMAIN << >> |-> << >>[i].length] = << >>
  OBVIOUS
<1> QED BY <1>1, TotalEmpty DEF SumOfBytes

LEMMA StartsEmpty ==
  ASSUME NEW flags \in {{}, {"callback"}}
  PROVE  Composed(NymphMessage(flags)) /\ NymphMessage(flags).flags = flags
<1>1. << >> \in Seq(Values)
  OBVIOUS
<1> QED BY <1>1, NothingToSend DEF Composed, NymphMessage, Flags

LEMMA SumAppended ==
  ASSUME NEW vs \in Seq(Values), NEW v \in Values
  PROVE  SumOfBytes(Append(vs, v)) = SumOfBytes(vs) + v.length
<1>1. \A x \in Values : x.length \in Nat
  BY EveryObjectFits DEF Fits
<1> DEFINE Lengths(us) == [i \in DOMAIN us |-> us[i].length]
<1>2. PICK us : us = Append(vs, v)
  OBVIOUS
<1>3. /\ us \in Seq(Values) /\ Len(us) = Len(vs) + 1 /\ Len(vs) \in Nat
      /\ DOMAIN us = 1 .. Len(vs) + 1 /\ DOMAIN vs = 1 .. Len(vs)
      /\ us[Len(vs) + 1] = v /\ \A i \in 1 .. Len(vs) : us[i] = vs[i]
  BY <1>2
<1>4. \A i \in 1 .. Len(vs) + 1 : us[i] \in Values /\ us[i].length \in Nat
  BY <1>1, <1>3
<1>5. PICK a : a = Lengths(us)
  OBVIOUS
<1>6. PICK b : b = Lengths(vs)
  OBVIOUS
<1>7. a \in [1 .. Len(vs) + 1 -> Nat] /\ b \in [1 .. Len(vs) -> Nat]
  <2>1. \A i \in 1 .. Len(vs) : vs[i].length \in Nat
    BY <1>3, <1>4
  <2> QED BY <1>3, <1>4, <1>5, <1>6, <2>1
<1>8. a \in Seq(Nat) /\ b \in Seq(Nat) /\ Len(a) = Len(vs) + 1 /\ Len(b) = Len(vs)
  <2>1. PICK n \in Nat : n = Len(vs) + 1
    BY <1>3
  <2>2. a \in [1 .. n -> Nat]
    BY <1>7, <2>1
  <2>3. a \in Seq(Nat) /\ Len(a) = n
    BY <2>1, <2>2
  <2>4. b \in Seq(Nat) /\ Len(b) = Len(vs)
    BY <1>3, <1>7
  <2> QED BY <2>1, <2>3, <2>4
<1>9. /\ \A i \in 1 .. Len(vs) : a[i] = b[i]
      /\ a[Len(vs) + 1] = v.length
  BY <1>3, <1>5, <1>6
<1>10. v.length \in Nat
  BY <1>1
<1>11. a = b \o <<v.length>>
  <2>1. PICK n : n = v.length
    OBVIOUS
  <2>2. <<n>> \in Seq(Nat) /\ Len(<<n>>) = 1 /\ <<n>>[1] = n
    BY <1>10, <2>1
  <2>3. PICK c : c = b \o <<n>>
    OBVIOUS
  <2>4. /\ c \in Seq(Nat) /\ Len(c) = Len(vs) + 1
        /\ \A i \in 1 .. Len(vs) + 1 : c[i] = IF i <= Len(vs) THEN b[i] ELSE <<n>>[i - Len(vs)]
    BY <1>8, <2>2, <2>3, ConcatProperties
  <2>5. ASSUME NEW i \in 1 .. Len(vs) + 1 PROVE a[i] = c[i]
    <3>1. CASE i \in 1 .. Len(vs)
      BY <1>3, <1>9, <2>4, <3>1
    <3>2. CASE i = Len(vs) + 1
      <4>1. i - Len(vs) = 1 /\ ~ (i <= Len(vs))
        BY <1>3, <3>2
      <4> QED BY <1>9, <2>1, <2>2, <2>4, <3>2, <4>1
    <3> QED BY <1>3, <3>1, <3>2
  <2> QED BY <1>8, <2>1, <2>3, <2>4, <2>5, SeqEqual
<1>12. Total(a) = Total(b) + v.length
  <2>1. PICK n \in Nat : n = v.length
    BY <1>10
  <2>2. <<n>> \in Seq(Nat)
    OBVIOUS
  <2> QED BY <1>8, <1>11, <2>1, <2>2, TotalConcat, TotalOne
<1>13. SumOfBytes(us) = Total(a) /\ SumOfBytes(vs) = Total(b)
  BY <1>5, <1>6 DEF SumOfBytes
<1> QED BY <1>2, <1>12, <1>13

LEMMA ValueAdded ==
  ASSUME NEW m, Composed(m), "reply" \notin m.flags, NEW v \in Values
  PROVE  Composed(addValue(m, v)) /\ addValue(m, v).flags = m.flags
<1>1. m.values \in Seq(Values) /\ m.bufferLength = SumOfBytes(m.values)
  BY DEF Composed
<1>2. SumOfBytes(Append(m.values, v)) = m.bufferLength + v.length
  BY <1>1, SumAppended
<1>3. PICK n : n = addValue(m, v)
  OBVIOUS
<1>4. /\ DOMAIN n = DOMAIN m /\ n.flags = m.flags /\ n.response = m.response
      /\ n.values = Append(m.values, v) /\ n.bufferLength = m.bufferLength + v.length
  BY <1>3 DEF addValue, Composed, NymphMessage
<1>5. Append(m.values, v) \in Seq(Values)
  BY <1>1
<1> QED BY <1>2, <1>3, <1>4, <1>5 DEF Composed

-----------------------------------------------------------------------------
LEMMA Initially == Init => IInv
<1> SUFFICES ASSUME Init PROVE IInv
  OBVIOUS
<1>1. out = NymphMessage({}) /\ pc = "idle" /\ result = "none"
      /\ obj = [s \in Sides |-> NoMessage]
  BY DEF Init
<1>2. Composed(NymphMessage({}))
  BY StartsEmpty
<1>3. Moments
  BY <1>1 DEF Moments
<1>4. Fresh(NoMessage) /\ DeletedRight(NoMessage)
  BY DEF Fresh, Shape, NoMessage, IsLinked, Null, Content, Linkable, DeletedRight
<1>5. Lives
  BY <1>1, <1>4 DEF Lives, Sides
<1> QED BY <1>1, <1>2, <1>3, <1>5 DEF IInv

\* A step of the sender, which leaves the parsed messages alone.
LEMMA ObjectsKept ==
  ASSUME IInv, UNCHANGED <<obj, result>>, result = "none",
         pc' \notin {"parsed", "handling", "answered"}, pc \notin {"answered", "done"}
  PROVE  Lives'
BY DEF IInv, Lives, Moments

LEMMA SenderSteps ==
  ASSUME IInv,
         \/ \E k \in {"call", "callback"} : Compose(k)
         \/ \E v \in Values : AddValue(v)
         \/ Refuse \/ Send
  PROVE  IInv'
<1>1. /\ UNCHANGED <<obj, result>> /\ result = "none" /\ pc \notin {"answered", "done"}
      /\ pc' \in {"composing", "sent", "done"}
  BY DEF Compose, AddValue, Refuse, Send, IInv, Moments
<1>2. Lives'
  BY <1>1, ObjectsKept
<1>3. CASE \E k \in {"call", "callback"} : Compose(k)
  <2>1. PICK k \in {"call", "callback"} : Compose(k)
    BY <1>3
  <2>2. out' = NymphMessage(IF k = "callback" THEN {"callback"} ELSE {}) /\ pc' = "composing"
    BY <2>1 DEF Compose
  <2>3. Composed(out') /\ out'.flags \subseteq {"callback"}
    BY <2>2, StartsEmpty
  <2>4. Moments'
    BY <1>1, <2>2, <2>3 DEF Moments
  <2> QED BY <1>2, <2>3, <2>4 DEF IInv
<1>4. CASE \E v \in Values : AddValue(v)
  <2>1. PICK v \in Values : AddValue(v)
    BY <1>4
  <2>2. out' = addValue(out, v) /\ pc = "composing" /\ pc' = pc /\ out.flags \subseteq {"callback"}
    BY <2>1 DEF AddValue, IInv, Moments
  <2>3. Composed(out') /\ out'.flags = out.flags
    BY <2>2, ValueAdded DEF IInv
  <2>4. Moments'
    BY <1>1, <2>2, <2>3 DEF Moments
  <2> QED BY <1>2, <2>3, <2>4 DEF IInv
<1>5. CASE Refuse
  BY <1>1, <1>2, <1>5 DEF Refuse, IInv, Moments
<1>6. CASE Send
  <2>1. /\ out' = IF "reply" \in out.flags THEN out ELSE [out EXCEPT !.messageId = nextId]
        /\ wire' = Frame(out') /\ pc' = "sent"
    BY <1>6 DEF Send
  <2>2. Composed(out')
    BY <2>1 DEF IInv, Composed, NymphMessage
  <2>3. Moments'
    BY <1>1, <2>1 DEF Moments
  <2> QED BY <1>2, <2>2, <2>3 DEF IInv
<1> QED BY <1>3, <1>4, <1>5, <1>6

LEMMA ReceiveStep ==
  ASSUME IInv, Receive
  PROVE  IInv'
<1>1. /\ pc = "sent" /\ pc' = "parsed" /\ UNCHANGED <<kind, out, result>>
      /\ obj' = [obj EXCEPT ![Receiver] = parse(wire)]
  BY DEF Receive
<1>2. wire = Frame(out) /\ Composed(out) /\ result = "none"
  BY <1>1 DEF IInv, Moments
<1>3. PICK p : p = parse(wire)
  OBVIOUS
<1>4. Fresh(p) /\ p.live /\ ("reply" \in out.flags => p.linked = 0)
  BY <1>2, <1>3, ParsedIsFresh
<1>5. DeletedRight(p)
  BY <1>4 DEF Fresh, DeletedRight
<1>6. Receiver' = Receiver /\ Receiver \in Sides /\ ("reply" \in out.flags => Receiver = "client")
  BY <1>1 DEF Receiver, Sides
<1>7. /\ DOMAIN obj' = Sides /\ obj'[Receiver] = p
      /\ \A s \in Sides \ {Receiver} : obj'[s] = obj[s]
  BY <1>1, <1>3, <1>6 DEF IInv, Lives
<1>8. Moments'
  BY <1>1, <1>2 DEF Moments
<1>9. Lives'
  <2>1. \A s \in Sides : DeletedRight(obj'[s])
    BY <1>5, <1>7 DEF IInv, Lives
  <2>2. Fresh(obj'["client"])
    BY <1>1, <1>4, <1>7 DEF IInv, Lives, Sides
  <2>3. "reply" \in out.flags => obj'["client"].live /\ obj'["client"].linked = 0
    BY <1>4, <1>6, <1>7
  <2>4. Fresh(obj'[Receiver'])
    BY <1>4, <1>6, <1>7
  <2> QED BY <1>1, <1>2, <1>7, <2>1, <2>2, <2>3, <2>4 DEF Lives
<1> QED BY <1>1, <1>2, <1>8, <1>9 DEF IInv

\* A step that replaces one side's message by what becomes of it.
LEMMA ObjectChanges ==
  ASSUME IInv, NEW s \in Sides, NEW m, obj' = [obj EXCEPT ![s] = m], DeletedRight(m)
  PROVE  /\ DOMAIN obj' = Sides /\ obj'[s] = m
         /\ \A x \in Sides \ {s} : obj'[x] = obj[x]
         /\ \A x \in Sides : DeletedRight(obj'[x])
BY DEF IInv, Lives

\* The exchange ends with the message of one side deleted.
LEMMA Ends ==
  ASSUME IInv, NEW s \in Sides, NEW m, obj' = [obj EXCEPT ![s] = m], DeletedRight(m),
         pc' = "done", UNCHANGED <<kind, out, result>>, pc # "answered", result # "deleted"
  PROVE  IInv'
<1>1. DOMAIN obj' = Sides /\ \A x \in Sides : DeletedRight(obj'[x])
  BY ObjectChanges
<1>2. result = "none"
  BY DEF IInv, Moments
<1>3. Moments'
  BY <1>2 DEF Moments
<1>4. Lives'
  BY <1>1, <1>2 DEF Lives
<1> QED BY <1>3, <1>4 DEF IInv

LEMMA EndSteps ==
  ASSUME IInv, DropCorrupt \/ CallbackRuns \/ CallbackMissing \/ DropLate
  PROVE  IInv'
<1>1. pc = "parsed" /\ Receiver \in Sides /\ Fresh(obj[Receiver]) /\ Fresh(obj["client"])
      /\ "client" \in Sides /\ result # "deleted"
  BY DEF DropCorrupt, CallbackRuns, CallbackMissing, DropLate, IsAnswer, IInv, Lives,
         Moments, Receiver, Sides
<1>2. CASE DropCorrupt
  BY <1>1, <1>2, DropDeletes, Ends DEF DropCorrupt
<1>3. CASE CallbackRuns
  BY <1>1, <1>3, DiscardDeletes, Ends DEF CallbackRuns
<1>4. CASE CallbackMissing
  BY <1>1, <1>4, DropDeletes, Ends DEF CallbackMissing
<1>5. CASE DropLate
  BY <1>1, <1>5, DropDeletes, Ends DEF DropLate
<1> QED BY <1>2, <1>3, <1>4, <1>5

LEMMA HandlerSteps ==
  ASSUME IInv,
         \/ UnknownMethod \/ GetReply \/ SetException
         \/ \E v \in Values : SetResult(v)
         \/ \E b \in BOOLEAN : HandlerReturns(b)
  PROVE  IInv'
<1>1. UNCHANGED <<obj, result>> /\ pc \in {"parsed", "handling"} /\ result = "none"
  BY DEF UnknownMethod, GetReply, SetException, SetResult, HandlerReturns, IInv, Moments
<1>2. ASSUME pc' \in {"handling", "replying", "done"},
             pc' = "handling" /\ obj["server"].live => Fresh(obj["server"])
      PROVE  Lives'
  BY <1>1, <1>2 DEF IInv, Lives
<1>3. CASE UnknownMethod
  BY <1>1, <1>2, <1>3 DEF UnknownMethod, IInv, Moments
<1>4. CASE GetReply
  <2>1. PICK id : out' = setInReplyTo(NymphMessage({}), id)
    BY <1>4 DEF GetReply
  <2>2. Composed(out') /\ out'.flags = {}
    <3>1. Composed(NymphMessage({})) /\ NymphMessage({}).flags = {}
      BY StartsEmpty
    <3>2. PICK n : n = NymphMessage({})
      OBVIOUS
    <3>3. DOMAIN n = {"flags", "values", "response", "bufferLength", "messageId", "responseId"}
      BY <3>2 DEF NymphMessage
    <3> QED BY <2>1, <3>1, <3>2, <3>3 DEF Composed, setInReplyTo
  <2>3. pc = "parsed" /\ Receiver = "server" /\ pc' = "handling"
    BY <1>4 DEF GetReply
  <2>4. Fresh(obj["server"])
    BY <2>3 DEF IInv, Lives
  <2>5. Lives'
    BY <1>2, <2>3, <2>4
  <2>6. Moments'
    BY <1>1, <2>2, <2>3 DEF Moments
  <2> QED BY <2>2, <2>5, <2>6 DEF IInv
<1>5. CASE SetException
  <2>1. out' = setException(out) /\ pc = "handling" /\ pc' = pc
    BY <1>5 DEF SetException
  <2>2. /\ DOMAIN out' = DOMAIN out /\ out'.flags = out.flags \cup {"exception"}
        /\ out'.values = out.values /\ out'.response = out.response
        /\ out'.bufferLength = out.bufferLength
    BY <2>1 DEF setException, IInv, Composed, NymphMessage
  <2>3. Composed(out') /\ "callback" \notin out'.flags
    BY <2>1, <2>2 DEF IInv, Composed, Moments, Flags
  <2>4. Lives'
    BY <1>2, <2>1 DEF IInv, Lives
  <2>5. Moments'
    BY <1>1, <2>1, <2>3 DEF Moments
  <2> QED BY <2>3, <2>4, <2>5 DEF IInv
<1>6. CASE \E v \in Values : SetResult(v)
  <2>1. PICK v \in Values : SetResult(v)
    BY <1>6
  <2>2. out' = setResultValue(out, v) /\ pc = "handling" /\ pc' = pc
    BY <2>1 DEF SetResult
  <2>3. /\ DOMAIN out' = DOMAIN out /\ out'.flags = out.flags \cup {"reply"}
        /\ out'.values = out.values /\ out'.response = v
        /\ out'.bufferLength = v.length
    BY <2>2 DEF setResultValue, IInv, Composed, NymphMessage
  <2>4. Composed(out') /\ "callback" \notin out'.flags
    BY <2>2, <2>3, NoneIsNoValue DEF IInv, Composed, Moments, Flags
  <2>5. Lives'
    BY <1>2, <2>2 DEF IInv, Lives
  <2>6. Moments'
    BY <1>1, <2>2, <2>4 DEF Moments
  <2> QED BY <2>4, <2>5, <2>6 DEF IInv
<1>7. CASE \E b \in BOOLEAN : HandlerReturns(b)
  BY <1>1, <1>2, <1>7 DEF HandlerReturns, IInv, Moments
<1> QED BY <1>3, <1>4, <1>5, <1>6, <1>7

LEMMA DiscardStep ==
  ASSUME IInv, Discard
  PROVE  IInv'
<1>1. /\ pc = "handling" /\ pc' = pc /\ UNCHANGED <<kind, out, result>>
      /\ obj' = [obj EXCEPT !["server"] = discard(obj["server"])] /\ obj["server"].live
  BY DEF Discard
<1>2. Fresh(obj["server"]) /\ "server" \in Sides /\ result = "none"
  BY <1>1 DEF IInv, Lives, Sides, Moments
<1>3. PICK m : m = discard(obj["server"])
  OBVIOUS
<1>4. DeletedRight(m) /\ m.live = FALSE
  BY <1>2, <1>3, DiscardDeletes
<1>5. /\ DOMAIN obj' = Sides /\ obj'["server"] = m /\ obj'["client"] = obj["client"]
      /\ \A x \in Sides : DeletedRight(obj'[x])
  <2>1. obj' = [obj EXCEPT !["server"] = m]
    BY <1>1, <1>3
  <2> QED BY <1>2, <1>4, <2>1, ObjectChanges DEF Sides
<1>6. Lives'
  BY <1>1, <1>2, <1>4, <1>5 DEF IInv, Lives
<1>7. Moments'
  BY <1>1, <1>2 DEF IInv, Moments
<1> QED BY <1>1, <1>6, <1>7 DEF IInv

\* The answer is handed to the caller, or its result deleted by it.
LEMMA CallerSteps ==
  ASSUME IInv, Deliver \/ DeleteResult
  PROVE  IInv'
<1>1. "client" \in Sides
  BY DEF Sides
<1>2. CASE Deliver
  <2>1. /\ pc = "parsed" /\ Receiver = "client" /\ kind = "call" /\ ~ obj["client"].corrupt
        /\ pc' = "answered" /\ result' = "held" /\ UNCHANGED <<kind, out>>
        /\ obj' = [obj EXCEPT !["client"] = getResponse(obj["client"])]
    BY <1>2 DEF Deliver, IsAnswer
  <2>2. "reply" \in out.flags
    BY <2>1 DEF Receiver
  <2>3. Fresh(obj["client"]) /\ obj["client"].live /\ obj["client"].linked = 0
    BY <2>1, <2>2 DEF IInv, Lives
  <2>4. PICK m : m = getResponse(obj["client"])
    OBVIOUS
  <2>5. Handed(m) /\ DeletedRight(m)
    BY <2>1, <2>3, <2>4, AnswerIsHanded
  <2>6. /\ DOMAIN obj' = Sides /\ obj'["client"] = m
        /\ \A x \in Sides : DeletedRight(obj'[x])
    <3>1. obj' = [obj EXCEPT !["client"] = m]
      BY <2>1, <2>4
    <3> QED BY <1>1, <2>5, <3>1, ObjectChanges
  <2>7. Lives'
    BY <2>1, <2>5, <2>6 DEF Lives
  <2>8. Moments'
    BY <2>1 DEF IInv, Moments
  <2> QED BY <2>1, <2>7, <2>8 DEF IInv
<1>3. CASE DeleteResult
  <2>1. /\ pc = "answered" /\ pc' = "done" /\ result' = "deleted" /\ UNCHANGED <<kind, out>>
        /\ obj' = [obj EXCEPT !["client"] = deleteResponse(obj["client"])]
    BY <1>3 DEF DeleteResult
  <2>2. Handed(obj["client"])
    BY <2>1 DEF IInv, Lives
  <2>3. PICK m : m = deleteResponse(obj["client"])
    OBVIOUS
  <2>4. DeletedRight(m) /\ (IsLinked(m.response) => m.frees = 1)
    BY <2>2, <2>3, ResultDeletes
  <2>5. /\ DOMAIN obj' = Sides /\ obj'["client"] = m
        /\ \A x \in Sides : DeletedRight(obj'[x])
    <3>1. obj' = [obj EXCEPT !["client"] = m]
      BY <2>1, <2>3
    <3> QED BY <1>1, <2>4, <3>1, ObjectChanges
  <2>6. Lives'
    BY <2>1, <2>4, <2>5 DEF Lives
  <2>7. Moments'
    BY <2>1 DEF IInv, Moments
  <2> QED BY <2>1, <2>6, <2>7 DEF IInv
<1> QED BY <1>2, <1>3

LEMMA EveryStep ==
  ASSUME IInv, [Next]_vars
  PROVE  IInv'
<1>1. CASE TimeOut \/ UNCHANGED vars
  <2>1. UNCHANGED <<pc, kind, out, wire, obj, result>>
    BY <1>1 DEF TimeOut, vars
  <2>2. Moments' /\ Composed(out')
    BY <2>1 DEF IInv, Moments
  <2>3. Receiver' = Receiver
    BY <2>1 DEF Receiver
  <2>4. Lives'
    BY <2>1, <2>3 DEF IInv, Lives
  <2> QED BY <2>2, <2>4 DEF IInv
<1>2. CASE \/ \E k \in {"call", "callback"} : Compose(k)
           \/ \E v \in Values : AddValue(v)
           \/ Refuse \/ Send
  BY <1>2, SenderSteps
<1>3. CASE \/ UnknownMethod \/ GetReply \/ SetException
           \/ \E v \in Values : SetResult(v)
           \/ \E b \in BOOLEAN : HandlerReturns(b)
  BY <1>3, HandlerSteps
<1>4. CASE DropCorrupt \/ CallbackRuns \/ CallbackMissing \/ DropLate
  BY <1>4, EndSteps
<1> QED
  BY <1>1, <1>2, <1>3, <1>4, ReceiveStep, DiscardStep, CallerSteps DEF Next

\* In every state of an exchange the buffer length of the message being composed is what
\* its values claim, and the references a parsed message counts are its values'.
THEOREM ExchangeInductive == Spec => []IInv
<1>1. Init => IInv
  BY Initially
<1>2. IInv /\ [Next]_vars => IInv'
  BY EveryStep
<1> QED BY <1>1, <1>2, PTL DEF Spec

\* NymphMessage::serialize never writes past the end of the buffer it allocates from the
\* lengths the values claim, for values of every type and any depth.
THEOREM FramesFitTheirBuffers == Spec => []FitsBuffer
<1>1. IInv => FitsBuffer
  <2> SUFFICES ASSUME IInv, pc = "sent" PROVE Written(out) <= wire.size
    BY DEF FitsBuffer
  <2>1. wire.size = messageLength(out) + 8
    BY DEF IInv, Moments, Frame
  <2> QED BY <2>1, FrameFits DEF IInv
<1> QED BY <1>1, ExchangeInductive, PTL

\* A message, or the response in it, is deleted twice (~NymphMessage) only where it is
\* dropped by a plain delete while its values still count references to it.
THEOREM OnlyDroppedOnesAreDeletedTwice == Spec => []DoubleDeleteOnlyByDrop
<1>1. IInv => DoubleDeleteOnlyByDrop
  BY DEF IInv, Lives, DoubleDeleteOnlyByDrop, DeletedRight
<1> QED BY <1>1, ExchangeInductive, PTL

\* The message behind a string, array or struct the caller was given (getResponse)
\* exists as long as the caller holds it, and goes with it, once.
THEOREM HeldResultsAreBacked == Spec => []ResultIsBacked
<1>1. IInv => ResultIsBacked
  BY DEF IInv, Lives, Moments, Handed, ResultIsBacked
<1> QED BY <1>1, ExchangeInductive, PTL

-----------------------------------------------------------------------------
\* What is read of a frame.

LEMMA ContentAppended ==
  ASSUME NEW vs, NEW n \in Nat
  PROVE  Append([j \in 1 .. n |-> content[vs[j]]], content[vs[n + 1]])
           = [j \in 1 .. n + 1 |-> content[vs[j]]]
<1> DEFINE C == {content[vs[j]] : j \in 1 .. n + 1}
<1>1. PICK s : s = [j \in 1 .. n |-> content[vs[j]]]
  OBVIOUS
<1>2. PICK u : u = [j \in 1 .. n + 1 |-> content[vs[j]]]
  OBVIOUS
<1>3. PICK a \in C : a = content[vs[n + 1]]
  OBVIOUS
<1>4. /\ s \in [1 .. n -> C] /\ u \in [1 .. n + 1 -> C]
      /\ \A j \in 1 .. n : s[j] = content[vs[j]]
      /\ \A j \in 1 .. n + 1 : u[j] = content[vs[j]]
  BY <1>1, <1>2
<1> HIDE DEF C
<1>5. s \in Seq(C) /\ u \in Seq(C) /\ Len(s) = n /\ Len(u) = n + 1
  <2>1. s \in Seq(C) /\ Len(s) = n
    BY <1>4
  <2>2. n + 1 \in Nat
    OBVIOUS
  <2>3. u \in Seq(C) /\ Len(u) = n + 1
    BY <1>4, <2>2
  <2> QED BY <2>1, <2>3
<1>6. PICK x : x = Append(s, a)
  OBVIOUS
<1>7. /\ x \in Seq(C) /\ Len(x) = n + 1 /\ x[n + 1] = a /\ \A j \in 1 .. n : x[j] = s[j]
  BY <1>5, <1>6, AppendProperties
<1>8. ASSUME NEW j \in 1 .. n + 1 PROVE x[j] = u[j]
  <2>1. CASE j \in 1 .. n
    BY <1>4, <1>7, <2>1
  <2>2. CASE j = n + 1
    BY <1>3, <1>4, <1>7, <2>2
  <2> QED BY <2>1, <2>2
<1>9. x = u
  BY <1>5, <1>7, <1>8, SeqEqual
<1> QED BY <1>1, <1>2, <1>3, <1>6, <1>9

\* The values of a message, up to the terminator behind them.
LEMMA ValuesRead ==
  ASSUME NEW w \in Bytes, NEW P, NEW from \in Nat, NEW vs \in Seq(Values), NEW off,
         Reading(w, P, from, vs, off), NEW end \in Nat, end = from + off[Len(vs)],
         from >= 1, end <= Len(w), w[end] = Code("none")
  PROVE  /\ ReadValues(w, P, from).pos = end
         /\ ReadValues(w, P, from).vals = [k \in 1 .. Len(vs) |-> content[vs[k]]]
<1>1. PICK n \in Nat : n = Len(vs)
  OBVIOUS
<1>2. PICK g : g = After(w, P, from)
  OBVIOUS
<1>3. Len(w) \in Nat
  BY DEF Bytes
<1>4. IsRead(w, P, from, Len(w), g)
  <2>1. \E h : IsRead(w, P, from, Len(w), h)
    BY <1>3, ReadExists
  <2> QED BY <1>2, <2>1 DEF After
<1>5. ReadValues(w, P, from) = g[Len(w)]
  BY <1>2 DEF ReadValues, After, IsRead
<1>6. \A k \in 0 .. Len(w) :
         g[k] = IF k = 0 THEN [pos |-> from, vals |-> << >>] ELSE ReadOn(w, P, g[k - 1])
  <2>1. g = [k \in 0 .. Len(w) |->
               IF k = 0 THEN [pos |-> from, vals |-> << >>] ELSE ReadOn(w, P, g[k - 1])]
    BY <1>4 DEF IsRead, ReadOn
  <2> QED BY <2>1
<1>7. /\ off \in [0 .. n -> Nat] /\ off[0] = 0 /\ end = from + off[n]
      /\ \A k \in 0 .. n : off[k] >= k
      /\ \A k \in 1 .. n :
            /\ P[from + off[k - 1]] = Read(content[vs[k]], from + off[k], TRUE)
            /\ w[from + off[k - 1]] # Code("none") /\ from + off[k - 1] <= Len(w)
  BY <1>1 DEF Reading
<1> DEFINE Kept(k) == [j \in 1 .. k |-> content[vs[j]]]
           S(k) == [pos |-> from + off[k], vals |-> Kept(k)]
<1>8. S(0) = [pos |-> from, vals |-> << >>]
  <2>1. Kept(0) = << >>
    <3>1. 1 .. 0 = {}
      OBVIOUS
    <3> QED BY <3>1
  <2> QED BY <1>7, <2>1
<1>9. ASSUME NEW k \in Nat, k + 1 <= n PROVE ReadOn(w, P, S(k)) = S(k + 1)
  <2>1. PICK q \in 1 .. n : q = k + 1 /\ q - 1 = k
    BY <1>9
  <2>2. k \in 0 .. n /\ off[k] \in Nat
    BY <1>7, <1>9
  <2>3. PICK a \in Nat : a = from + off[k]
    BY <2>2
  <2>4. PICK b : b = from + off[q]
    OBVIOUS
  <2>5. P[a] = Read(content[vs[q]], b, TRUE) /\ w[a] # Code("none") /\ a <= Len(w)
    BY <1>7, <2>1, <2>3, <2>4
  <2>6. P[a].val = content[vs[q]] /\ P[a].next = b
    BY <2>5 DEF Read
  <2>7. Append(Kept(k), content[vs[q]]) = Kept(q)
    <3>1. Append([j \in 1 .. k |-> content[vs[j]]], content[vs[k + 1]])
            = [j \in 1 .. k + 1 |-> content[vs[j]]]
      BY ContentAppended
    <3> QED BY <2>1, <3>1
  <2>8. PICK s : s = [pos |-> a, vals |-> Kept(k)]
    OBVIOUS
  <2>9. S(k) = s /\ S(k + 1) = [pos |-> b, vals |-> Kept(q)]
    BY <2>1, <2>3, <2>4, <2>8
  <2>10. s.pos = a /\ s.vals = Kept(k)
    BY <2>8
  <2> HIDE DEF S, Kept
  <2>11. ~ (s.pos > Len(w) \/ w[s.pos] = Code("none"))
    BY <1>3, <2>5, <2>10
  <2>12. ReadOn(w, P, s) = [pos |-> b, vals |-> Append(Kept(k), content[vs[q]])]
    BY <2>6, <2>10, <2>11 DEF ReadOn
  <2> QED BY <2>7, <2>9, <2>12
<1>10. ReadOn(w, P, S(n)) = S(n)
  <2>1. w[S(n).pos] = Code("none")
    BY <1>7
  <2> HIDE DEF S
  <2> QED BY <2>1 DEF ReadOn
<1> HIDE DEF S
<1> DEFINE A == {k \in Nat : k <= Len(w) => g[k] = IF k <= n THEN S(k) ELSE S(n)}
<1>11. 0 \in A
  BY <1>6, <1>8
<1>12. ASSUME NEW k \in Nat, k \in A PROVE k + 1 \in A
  <2> SUFFICES ASSUME k + 1 <= Len(w)
               PROVE  g[k + 1] = IF k + 1 <= n THEN S(k + 1) ELSE S(n)
    OBVIOUS
  <2>1. PICK q \in 0 .. Len(w) : q = k + 1 /\ q - 1 = k /\ q # 0
    BY <1>3
  <2>2. g[q] = ReadOn(w, P, g[k])
    BY <1>6, <2>1
  <2>3. g[k] = IF k <= n THEN S(k) ELSE S(n)
    BY <1>3, <1>12
  <2>4. CASE k + 1 <= n
    <3>1. g[k] = S(k)
      BY <2>3, <2>4
    <3> QED BY <1>9, <2>1, <2>2, <2>4, <3>1
  <2>5. CASE ~ (k + 1 <= n)
    <3>1. g[k] = S(n)
      <4>1. CASE k <= n
        <5>1. k = n
          BY <2>5, <4>1
        <5> QED BY <2>3, <4>1, <5>1
      <4>2. CASE ~ (k <= n)
        BY <2>3, <4>2
      <4> QED BY <4>1, <4>2
    <3> QED BY <1>10, <2>1, <2>2, <2>5, <3>1
  <2> QED BY <2>4, <2>5
<1>13. \A k \in Nat : k \in A
  <2> HIDE DEF A
  <2> QED BY <1>11, <1>12, AllNaturals
<1>14. g[Len(w)] = S(n)
  <2>1. Len(w) >= n
    <3>1. off[n] >= n /\ off[n] \in Nat
      BY <1>7
    <3> QED BY <1>3, <1>7, <3>1
  <2>2. g[Len(w)] = IF Len(w) <= n THEN S(Len(w)) ELSE S(n)
    BY <1>3, <1>13
  <2>3. CASE Len(w) = n
    BY <2>2, <2>3
  <2>4. CASE Len(w) # n
    <3>1. ~ (Len(w) <= n)
      BY <1>3, <2>1, <2>4
    <3> QED BY <2>2, <3>1
  <2> QED BY <2>3, <2>4
<1>15. S(n).pos = end /\ S(n).vals = [k \in 1 .. Len(vs) |-> content[vs[k]]]
  BY <1>1, <1>7 DEF S
<1> QED BY <1>5, <1>14, <1>15

\* The values of a message, as it is composed.
Sent(m) == IF "reply" \in m.flags THEN <<m.response>> ELSE m.values

\* Everything written before the values, and the values.
NameOf(m) == IF "callback" \in m.flags THEN serializeString(CallbackName) ELSE << >>

LEMMA NameIs ==
  /\ CallbackName.num \in Nat /\ CallbackName.num = NameLength
  /\ (CallbackName.num = 0 => CallbackName.empty)
  /\ ~ (CallbackName.empty /\ CallbackName.num > 0)
<1>1. CallbackName.num = NameLength /\ NameLength \in Nat
  BY BoundsAreNat DEF CallbackName, String, Object
<1>2. CallbackName.empty = (NameLength = 0)
  BY DEF CallbackName, String, Object
<1>3. CallbackName.empty <=> CallbackName.num = 0
  BY <1>1, <1>2
<1>4. CallbackName.num = 0 => ~ (CallbackName.num > 0)
  BY <1>1
<1> QED BY <1>1, <1>3, <1>4

LEMMA NameNested == Nested(serializeString(CallbackName))
<1>1. PICK s \in Bytes : s = serializeString(CallbackName)
  BY NameIs, StringIs
<1>2. /\ CallbackName.empty => Len(s) = 1 /\ s[1] = Code("empty")
      /\ ~ CallbackName.empty =>
            /\ Len(s) = 4 /\ s[1] = Code("string") /\ s[2] = Code(LengthType(CallbackName.num))
            /\ s[3].code = "" /\ s[4].code = ""
  BY <1>1, NameIs, StringIs
<1>3. /\ Code("empty").code = "empty" /\ Code("string").code = "string"
      /\ Code(LengthType(CallbackName.num)).code \in {"uint8", "uint16", "uint32"}
  BY DEF Code, LengthType
<1>4. \A p \in 1 .. Len(s) : s[p].code \notin {"array", "struct"}
  <2>1. CASE CallbackName.empty
    <3>1. Len(s) = 1
      BY <1>2, <2>1
    <3>2. \A p \in 1 .. Len(s) : p = 1
      BY <3>1
    <3> QED BY <1>2, <1>3, <2>1, <3>2
  <2>2. CASE ~ CallbackName.empty
    <3>1. Len(s) = 4
      BY <1>2, <2>2
    <3>2. \A p \in 1 .. Len(s) : p = 1 \/ p = 2 \/ p = 3 \/ p = 4
      BY <3>1
    <3> QED BY <1>2, <1>3, <2>2, <3>2
  <2> QED BY <2>1, <2>2
<1> QED BY <1>1, <1>4, PlainIsNested

\* The body of a frame: the parts, the terminator, what the buffer has left.
LEMMA BodyStands ==
  ASSUME NEW m, Composed(m)
  PROVE  /\ Frame(m).body \in Bytes /\ Parts(m) \in Bytes /\ Len(Parts(m)) \in Nat
         /\ Len(Frame(m).body) \in Nat
         /\ Stands(Frame(m).body, 1, Parts(m)) /\ Len(Parts(m)) + 1 <= Len(Frame(m).body)
         /\ Frame(m).body[Len(Parts(m)) + 1] = Code("none")
         /\ Nested(Parts(m)) => Nested(Frame(m).body)
<1>1. PICK w \in Bytes : w = Frame(m).body
  BY BodyIs
<1>2. PICK p \in Bytes : p = Parts(m)
  BY PartsFit
<1>3. PICK e \in Field : e = Code("none")
  BY FieldTypes DEF Codes
<1>4. PICK u \in Bytes : u = <<e>> /\ Len(u) = 1 /\ u[1] = e
  <2>1. <<e>> \in Bytes /\ Len(<<e>>) = 1 /\ <<e>>[1] = e
    BY DEF Bytes
  <2> QED BY <2>1
<1>5. PICK t \in Bytes : /\ w = (p \o u) \o t
                         /\ \A k \in 1 .. Len(t) : t[k].code \notin {"array", "struct"}
  <2> DEFINE rest == Frame(m).size - Written(m)
             tail == IF Written(m) < Frame(m).size THEN <<Unused(rest)>> ELSE << >>
  <2>1. Frame(m).size = messageLength(m) + 8
    BY DEF Frame
  <2>2. Frame(m).body = (Parts(m) \o <<Code("none")>>) \o tail
    BY <2>1 DEF Frame
  <2>3. CASE Written(m) < Frame(m).size
    <3>1. rest \in Nat
      BY <2>1, <2>3, FrameFits
    <3>2. PICK f \in Field : f = Unused(rest) /\ f.code = ""
      <4> HIDE DEF rest
      <4>1. Unused(rest) \in Field /\ Unused(rest).code = ""
        BY <3>1 DEF Unused, Field, Codes
      <4> QED BY <4>1
    <3>3. PICK t : t = <<f>>
      OBVIOUS
    <3>4. t \in Bytes /\ Len(t) = 1 /\ t[1] = f
      BY <3>3 DEF Bytes
    <3>5. tail = t
      BY <2>3, <3>2, <3>3
    <3> HIDE DEF tail
    <3>6. w = (p \o u) \o t
      BY <1>1, <1>2, <1>3, <1>4, <2>2, <3>5
    <3>7. \A k \in 1 .. Len(t) : t[k].code \notin {"array", "struct"}
      <4>1. \A k \in 1 .. Len(t) : k = 1
        BY <3>4
      <4> QED BY <3>2, <3>4, <4>1
    <3> QED BY <3>4, <3>6, <3>7
  <2>4. CASE ~ (Written(m) < Frame(m).size)
    <3>1. PICK t : t = << >>
      OBVIOUS
    <3>2. tail = t
      BY <2>4, <3>1
    <3> HIDE DEF tail
    <3>3. w = (p \o u) \o t
      BY <1>1, <1>2, <1>3, <1>4, <2>2, <3>2
    <3>4. t \in Bytes /\ 1 .. Len(t) = {}
      BY <3>1, WidthEmpty
    <3> QED BY <3>3, <3>4
  <2> QED BY <2>3, <2>4
<1>6. PICK x : x = p \o u
  OBVIOUS
<1>7. /\ x \in Bytes /\ Len(x) = Len(p) + 1 /\ Len(p) \in Nat /\ Stands(x, 1, p)
      /\ Stands(x, Len(p) + 1, u)
  BY <1>4, <1>6, StandsConcat
<1>8. /\ Len(w) = Len(x) + Len(t) /\ Len(t) \in Nat /\ Stands(w, 1, x)
  BY <1>5, <1>6, <1>7, StandsConcat
<1>9. Stands(w, 1, p)
  <2>1. Stands(w, 1 + 1 - 1, p)
    BY <1>7, <1>8, StandsIn
  <2> QED BY <2>1
<1>10. w[Len(p) + 1] = e
  <2>1. Len(p) + 1 \in 1 .. Len(x) /\ Len(p) + 1 \in Nat
    BY <1>7
  <2>2. x[Len(p) + 1 + 1 - 1] = u[1] /\ Len(p) + 1 + 1 - 1 = Len(p) + 1
    BY <1>4, <1>7 DEF Stands
  <2>3. w[1 + (Len(p) + 1) - 1] = x[Len(p) + 1] /\ 1 + (Len(p) + 1) - 1 = Len(p) + 1
    BY <1>7, <1>8, <2>1 DEF Stands
  <2> QED BY <1>4, <2>2, <2>3
<1>11. Nested(p) => Nested(w)
  <2> SUFFICES ASSUME Nested(p) PROVE Nested(w)
    OBVIOUS
  <2>1. Nested(u)
    <3>1. \A k \in 1 .. Len(u) : k = 1
      BY <1>4
    <3>2. u[1].code = "none"
      BY <1>3, <1>4 DEF Code
    <3> QED BY <3>1, <3>2, PlainIsNested
  <2>2. Nested(x)
    BY <1>6, <2>1, NestedConcat
  <2>3. Nested(t)
    BY <1>5, PlainIsNested
  <2>4. Nested(x \o t)
    BY <1>7, <2>2, <2>3, NestedConcat
  <2> QED BY <1>5, <1>6, <2>4
<1>12. Len(w) \in Nat /\ Len(p) + 1 <= Len(w)
  BY <1>7, <1>8
<1> QED BY <1>1, <1>2, <1>3, <1>7, <1>9, <1>10, <1>11, <1>12

\* What a call or a callback writes: the name, then the values.
LEMMA CallParts ==
  ASSUME NEW m, Composed(m), "reply" \notin m.flags
  PROVE  /\ NameOf(m) \in Bytes /\ FlattenSeq(Pieces(m.values)) \in Bytes
         /\ m.values \in Seq(Values)
         /\ Parts(m) = NameOf(m) \o FlattenSeq(Pieces(m.values))
<1>1. m.values \in Seq(Values)
  BY DEF Composed
<1>2. FlattenSeq(Pieces(m.values)) \in Bytes
  BY <1>1, PiecesAre DEF Pieces
<1>3. NameOf(m) \in Bytes
  BY NameFits, WidthEmpty DEF NameOf
<1>4. Parts(m) = NameOf(m) \o FlattenSeq(Pieces(m.values))
  BY DEF Parts, NameOf, Pieces
<1> QED BY <1>1, <1>2, <1>3, <1>4

LEMMA PartsNested ==
  ASSUME NEW m, Composed(m), \A i \in DOMAIN Sent(m) : faithful[Sent(m)[i]]
  PROVE  Nested(Parts(m))
<1>1. CASE "reply" \in m.flags
  <2>1. m.response \in Values /\ Parts(m) = serialize[m.response]
    BY <1>1 DEF Composed, Parts
  <2>2. PICK s : s = <<m.response>>
    OBVIOUS
  <2>3. Sent(m) = s /\ 1 \in DOMAIN s /\ s[1] = m.response
    BY <1>1, <2>2 DEF Sent
  <2>4. faithful[m.response]
    BY <2>3
  <2> QED BY <2>1, <2>4, NestedObject
<1>2. CASE "reply" \notin m.flags
  <2>1. /\ NameOf(m) \in Bytes /\ FlattenSeq(Pieces(m.values)) \in Bytes
        /\ m.values \in Seq(Values)
        /\ Parts(m) = NameOf(m) \o FlattenSeq(Pieces(m.values))
    BY <1>2, CallParts
  <2>2. Nested(NameOf(m))
    <3>1. Nested(<< >>)
      BY DEF Nested
    <3> QED BY <3>1, NameNested DEF NameOf
  <2>3. \A i \in 1 .. Len(m.values) : m.values[i] \in Values /\ faithful[m.values[i]]
    <3>1. Sent(m) = m.values
      BY <1>2 DEF Sent
    <3> QED BY <2>1, <3>1
  <2>4. Pieces(m.values) \in Seq(Bytes)
        /\ \A i \in 1 .. Len(Pieces(m.values)) : Nested(Pieces(m.values)[i])
    <3>1. /\ Pieces(m.values) \in Seq(Bytes) /\ Len(Pieces(m.values)) = Len(m.values)
          /\ \A i \in 1 .. Len(m.values) : Pieces(m.values)[i] = serialize[m.values[i]]
      BY <2>1, PiecesAre DEF Pieces
    <3> QED BY <2>3, <3>1, NestedObject
  <2>5. Nested(FlattenSeq(Pieces(m.values)))
    BY <2>4, NestedFlat
  <2> QED BY <2>1, <2>2, <2>5, NestedConcat
<1> QED BY <1>1, <1>2

\* A reply is read with the response that was sent.
LEMMA ReplyParsed ==
  ASSUME NEW m, Composed(m), "reply" \in m.flags, faithful[m.response]
  PROVE  /\ ~ parse(Frame(m)).corrupt
         /\ parse(Frame(m)).response = content[m.response]
         /\ parse(Frame(m)).responseId = m.responseId
<1>1. PICK f : f = Frame(m)
  OBVIOUS
<1>2. PICK w \in Bytes : w = f.body
  BY <1>1, BodyIs
<1>3. PICK P : P = Reads(w)
  OBVIOUS
<1>4. m.response \in Values /\ Parts(m) = serialize[m.response]
  BY DEF Composed, Parts
<1>5. PICK n \in Nat : n = Len(Parts(m)) + 1
  BY BodyStands
<1>6. /\ n <= Len(w) /\ w[n] = Code("none") /\ Len(w) \in Nat
      /\ Stands(w, 1, serialize[m.response]) /\ n = 1 + Len(serialize[m.response])
  <2>1. Len(serialize[m.response]) \in Nat
    BY <1>4, BodyStands
  <2> QED BY <1>1, <1>2, <1>4, <1>5, <2>1, BodyStands
<1>7. Nested(w)
  BY <1>1, <1>2, <1>4, BodyStands, NestedObject
<1>8. P[1] = Read(content[m.response], n, TRUE)
  <2>1. Known(w, P, 1)
    BY <1>3, <1>7, ObjectsAreRead
  <2>2. Right(w, P, 1, m.response)
    BY <1>4, <1>6, <2>1 DEF Known
  <2> QED BY <1>6, <2>2 DEF Right
<1>9. P[1].val = content[m.response] /\ P[1].next = n
  BY <1>8 DEF Read
<1> DEFINE base == [NoMessage EXCEPT !.live = TRUE, !.flags = f.flags,
                                     !.messageId = f.messageId, !.responseId = f.responseId]
           bad == P[1].next > Len(w) \/ w[P[1].next] # Code("none")
           r == [base EXCEPT !.response = P[1].val, !.corrupt = bad,
                             !.refs = IF ~ bad /\ IsLinked(P[1].val) THEN 1 ELSE 0]
<1>10. f.flags = m.flags /\ f.responseId = m.responseId
  BY <1>1 DEF Frame
<1>11. parse(f) = r
  BY <1>2, <1>3, <1>10 DEF parse
<1>12. DOMAIN base = DOMAIN NoMessage /\ base.responseId = m.responseId
  BY <1>10 DEF NoMessage
<1>13. ~ bad
  BY <1>6, <1>9
<1> HIDE DEF base, bad
<1>14. r.response = P[1].val /\ r.responseId = base.responseId
  BY <1>12 DEF NoMessage
<1>15. r.corrupt <=> bad
  BY <1>12, Zenon DEF NoMessage
<1> HIDE DEF r
<1> QED BY <1>1, <1>9, <1>11, <1>12, <1>13, <1>14, <1>15

\* What a call or a callback looks like where it is read: the values come after the name.
LEMMA CallStands ==
  ASSUME NEW m, Composed(m), "reply" \notin m.flags, NEW w \in Bytes, w = Frame(m).body
  PROVE  /\ Len(NameOf(m)) \in Nat /\ Stands(w, 1, NameOf(m))
         /\ Stands(w, 1 + Len(NameOf(m)), FlattenSeq(Pieces(m.values)))
         /\ Len(FlattenSeq(Pieces(m.values))) \in Nat
         /\ Len(Parts(m)) = Len(NameOf(m)) + Len(FlattenSeq(Pieces(m.values)))
<1>1. PICK s \in Bytes : s = NameOf(m)
  BY CallParts
<1>2. PICK t \in Bytes : t = FlattenSeq(Pieces(m.values))
  BY CallParts
<1>3. PICK p : p = s \o t
  OBVIOUS
<1>4. Parts(m) = p
  BY <1>1, <1>2, <1>3, CallParts
<1>5. /\ p \in Bytes /\ Len(p) = Len(s) + Len(t) /\ Len(s) \in Nat /\ Len(t) \in Nat
      /\ Stands(p, 1, s) /\ Stands(p, Len(s) + 1, t)
  BY <1>3, StandsConcat
<1>6. Stands(w, 1, p)
  BY <1>4, BodyStands
<1>7. Stands(w, 1, s)
  <2>1. Stands(w, 1 + 1 - 1, s)
    BY <1>5, <1>6, StandsIn
  <2> QED BY <2>1
<1>8. Stands(w, 1 + Len(s), t)
  <2>1. PICK q \in Nat : q = Len(s) + 1
    BY <1>5
  <2>2. Stands(w, 1 + q - 1, t) /\ 1 + q - 1 = 1 + Len(s)
    BY <1>5, <1>6, <2>1, StandsIn
  <2> QED BY <2>2
<1> QED BY <1>1, <1>2, <1>4, <1>5, <1>7, <1>8

\* A call or a callback is read with the values, and the name, that were sent.
LEMMA CallParsed ==
  ASSUME NEW m, Composed(m), "reply" \notin m.flags,
         \A i \in DOMAIN m.values : faithful[m.values[i]]
  PROVE  /\ ~ parse(Frame(m)).corrupt
         /\ parse(Frame(m)).values = [k \in 1 .. Len(m.values) |-> content[m.values[k]]]
         /\ parse(Frame(m)).responseId = m.responseId
         /\ "callback" \in m.flags =>
               parse(Frame(m)).callback = Content("string", NameLength, << >>)
<1>1. PICK f : f = Frame(m)
  OBVIOUS
<1>2. PICK w \in Bytes : w = f.body
  BY <1>1, BodyIs
<1>3. PICK P : P = Reads(w)
  OBVIOUS
<1>4. PICK vs \in Seq(Values) : vs = m.values
  BY CallParts
<1>5. \A k \in 1 .. Len(vs) : faithful[vs[k]]
  BY <1>4
<1>6. Nested(w)
  <2>1. Sent(m) = m.values
    BY DEF Sent
  <2> QED BY <1>1, <1>2, <2>1, BodyStands, PartsNested
<1>7. Known(w, P, 1) /\ \A i \in 1 .. Len(w) : P[i] = parseValue(w, P, i)
  BY <1>3, <1>6, ObjectsAreRead
<1>8. PICK at \in Nat : at = 1 + Len(NameOf(m))
  BY <1>1, <1>2, CallStands
<1>9. PICK n \in Nat : n = Len(Parts(m)) + 1
  BY BodyStands
<1>10. /\ n <= Len(w) /\ w[n] = Code("none") /\ Len(w) \in Nat /\ at >= 1
       /\ Stands(w, at, FlattenSeq(Pieces(vs))) /\ n = at + Len(FlattenSeq(Pieces(vs)))
       /\ Stands(w, 1, NameOf(m))
  <2>1. /\ Len(NameOf(m)) \in Nat /\ Len(FlattenSeq(Pieces(vs))) \in Nat
        /\ Len(Parts(m)) = Len(NameOf(m)) + Len(FlattenSeq(Pieces(vs)))
        /\ Stands(w, 1 + Len(NameOf(m)), FlattenSeq(Pieces(vs))) /\ Stands(w, 1, NameOf(m))
    BY <1>1, <1>2, <1>4, CallStands
  <2>2. n <= Len(w) /\ w[n] = Code("none") /\ Len(w) \in Nat
    BY <1>1, <1>2, <1>9, BodyStands
  <2> QED BY <1>8, <1>9, <2>1, <2>2
<1>11. PICK name : name = Content("string", NameLength, << >>)
  OBVIOUS
<1>12. "callback" \in m.flags => P[1].val = name /\ P[1].next = at
  <2> SUFFICES ASSUME "callback" \in m.flags PROVE P[1].val = name /\ P[1].next = at
    OBVIOUS
  <2>1. NameOf(m) = serializeString(CallbackName)
    BY DEF NameOf
  <2>2. parseValue(w, P, 1)
          = Read(Content("string", CallbackName.num, << >>), 1 + Len(NameOf(m)), TRUE)
    <3>1. PICK x : x = CallbackName
      OBVIOUS
    <3>2. x.num \in Nat /\ (x.num = 0 => x.empty) /\ ~ (x.empty /\ x.num > 0)
      BY <3>1, NameIs
    <3>3. Stands(w, 1, serializeString(x)) /\ 1 \in Nat
      BY <1>10, <2>1, <3>1
    <3>4. parseValue(w, P, 1)
            = Read(Content("string", x.num, << >>), 1 + Len(serializeString(x)), TRUE)
      BY <3>2, <3>3, StringRead
    <3> QED BY <2>1, <3>1, <3>4
  <2>3. P[1] = Read(name, at, TRUE)
    <3>1. 1 \in 1 .. Len(w)
      BY <1>8, <1>9, <1>10
    <3> QED BY <1>7, <1>8, <1>11, <2>2, <3>1, NameIs
  <2> QED BY <2>3 DEF Read
<1>13. "callback" \notin m.flags => at = 1
  <2> SUFFICES ASSUME "callback" \notin m.flags PROVE at = 1
    OBVIOUS
  <2>1. NameOf(m) = << >>
    BY DEF NameOf
  <2> QED BY <1>8, <2>1
<1>14. PICK off : Reading(w, P, at, vs, off) /\ off[Len(vs)] = Len(FlattenSeq(Pieces(vs)))
  <2>1. Known(w, P, at)
    BY <1>7, <1>10, KnownLater
  <2> QED BY <1>5, <1>10, <2>1, ReadingExists
<1>15. PICK args : args = ReadValues(w, P, at)
  OBVIOUS
<1>16. args.pos = n /\ args.vals = [k \in 1 .. Len(vs) |-> content[vs[k]]]
  BY <1>10, <1>14, <1>15, ValuesRead
<1> DEFINE base == [NoMessage EXCEPT !.live = TRUE, !.flags = f.flags,
                                     !.messageId = f.messageId, !.responseId = f.responseId]
           gone == args.pos > Len(w)
           c == IF "callback" \in f.flags THEN P[1].val ELSE Null
           r == [base EXCEPT !.callback = c, !.values = args.vals,
                             !.linked = Links(args.vals), !.corrupt = gone,
                             !.refs = Links(args.vals)]
<1>17. f.flags = m.flags /\ f.responseId = m.responseId
  BY <1>1 DEF Frame
<1>18. parse(f) = r
  <2>1. (IF "callback" \in f.flags THEN P[1].next ELSE 1) = at
    BY <1>12, <1>13, <1>17
  <2> QED BY <1>2, <1>3, <1>15, <1>17, <2>1 DEF parse
<1>19. DOMAIN base = DOMAIN NoMessage /\ base.responseId = m.responseId
  BY <1>17 DEF NoMessage
<1>20. ~ gone
  BY <1>10, <1>16
<1>21. "callback" \in m.flags => c = name
  BY <1>12, <1>17
<1> HIDE DEF base, gone, c
<1>22. r.values = args.vals /\ r.callback = c /\ r.responseId = base.responseId
  BY <1>19 DEF NoMessage
<1>23. r.corrupt <=> gone
  BY <1>19, Zenon DEF NoMessage
<1> HIDE DEF r
<1> QED BY <1>1, <1>4, <1>11, <1>16, <1>18, <1>19, <1>20, <1>21, <1>22, <1>23

-----------------------------------------------------------------------------
\* Messages arrive as they were sent.

\* The message of a callback is flagged as one, from the call on.
CallbackMarked == kind = "callback" => "callback" \in out.flags

\* The invariant of the exchange together with what the receiver finds.
RInv == IInv /\ CallbackMarked /\ RoundTrip

LEMMA CallbackStaysMarked ==
  ASSUME IInv, CallbackMarked, [Next]_vars
  PROVE  CallbackMarked'
<1> SUFFICES ASSUME kind' = "callback" PROVE "callback" \in out'.flags
  BY DEF CallbackMarked
<1>1. CASE \E k \in {"call", "callback"} : Compose(k)
  BY <1>1 DEF Compose, NymphMessage
<1>2. CASE ~ \E k \in {"call", "callback"} : Compose(k)
  <2>1. kind' = kind
    BY <1>2 DEF Next, vars, AddValue, SetResult, Refuse, Send, Receive, DropCorrupt,
                UnknownMethod, GetReply, SetException, Discard, HandlerReturns, CallbackRuns,
                CallbackMissing, Deliver, DropLate, TimeOut, DeleteResult
  <2>2. "callback" \in out.flags /\ kind = "callback"
    BY <2>1 DEF CallbackMarked
  <2>3. pc # "handling" /\ Receiver = "client"
    BY <2>2 DEF IInv, Moments, Receiver
  <2>4. CASE out' = out
    BY <2>2, <2>4
  <2>5. CASE \E v \in Values : AddValue(v)
    <3>1. PICK v \in Values : AddValue(v)
      BY <2>5
    <3>2. out' = addValue(out, v) /\ out.flags \subseteq {"callback"} /\ Composed(out)
      BY <3>1 DEF AddValue, IInv, Moments
    <3>3. out'.flags = out.flags
      BY <3>2, ValueAdded
    <3> QED BY <2>2, <3>3
  <2>6. CASE Send
    <3>1. out' = IF "reply" \in out.flags THEN out ELSE [out EXCEPT !.messageId = nextId]
      BY <2>6 DEF Send
    <3>2. DOMAIN out = DOMAIN NymphMessage({})
      BY DEF IInv, Composed
    <3> QED BY <2>2, <3>1, <3>2 DEF NymphMessage
  <2> QED BY <1>2, <2>3, <2>4, <2>5, <2>6
          DEF Next, vars, SetResult, Refuse, Receive, DropCorrupt, UnknownMethod, GetReply,
              SetException, Discard, HandlerReturns, CallbackRuns, CallbackMissing, Deliver,
              DropLate, TimeOut, DeleteResult
<1> QED BY <1>1, <1>2

LEMMA ReceivedAsSent ==
  ASSUME IInv, CallbackMarked, Receive
  PROVE  RoundTrip'
<1>1. /\ pc = "sent" /\ UNCHANGED <<kind, out>>
      /\ obj' = [obj EXCEPT ![Receiver] = parse(wire)]
  BY DEF Receive
<1>2. wire = Frame(out) /\ Composed(out)
  BY <1>1 DEF IInv, Moments
<1>3. Receiver' = Receiver /\ Receiver \in Sides
  BY <1>1 DEF Receiver, Sides
<1>4. obj'[Receiver'] = parse(Frame(out))
  BY <1>1, <1>2, <1>3 DEF IInv, Lives
<1>5. PICK got : got = parse(Frame(out))
  OBVIOUS
<1>6. CASE "reply" \in out.flags
  <2>1. PICK s : s = <<out.response>>
    OBVIOUS
  <2>2. ASSUME \A i \in DOMAIN s : faithful[s[i]]
        PROVE  /\ ~ got.corrupt /\ got.responseId = out.responseId
               /\ <<got.response>> = [i \in DOMAIN s |-> content[s[i]]]
               /\ kind # "callback"
    <3>1. DOMAIN s = {1} /\ s[1] = out.response
      BY <2>1
    <3>2. /\ ~ got.corrupt /\ got.responseId = out.responseId
          /\ got.response = content[out.response]
      BY <1>2, <1>5, <1>6, <2>2, <3>1, ReplyParsed
    <3>3. <<got.response>> = [i \in DOMAIN s |-> content[s[i]]]
      BY <3>1, <3>2
    <3>4. kind # "callback"
      BY <1>2, <1>6 DEF CallbackMarked, Composed
    <3> QED BY <3>2, <3>3, <3>4
  <2> QED BY <1>1, <1>4, <1>5, <1>6, <2>1, <2>2 DEF RoundTrip
<1>7. CASE "reply" \notin out.flags
  <2>1. PICK s : s = out.values
    OBVIOUS
  <2>2. ASSUME \A i \in DOMAIN s : faithful[s[i]]
        PROVE  /\ ~ got.corrupt /\ got.responseId = out.responseId
               /\ got.values = [i \in DOMAIN s |-> content[s[i]]]
               /\ kind = "callback" => got.callback = Content("string", NameLength, << >>)
    <3>1. s \in Seq(Values)
      BY <1>2, <2>1 DEF Composed
    <3>2. DOMAIN s = 1 .. Len(s)
      BY <3>1
    <3>3. /\ ~ got.corrupt /\ got.responseId = out.responseId
          /\ got.values = [k \in 1 .. Len(s) |-> content[s[k]]]
          /\ "callback" \in out.flags => got.callback = Content("string", NameLength, << >>)
      BY <1>2, <1>5, <1>7, <2>1, <2>2, CallParsed
    <3>4. [k \in 1 .. Len(s) |-> content[s[k]]] = [k \in DOMAIN s |-> content[s[k]]]
      BY <3>2
    <3> QED BY <3>3, <3>4 DEF CallbackMarked
  <2> QED BY <1>1, <1>4, <1>5, <1>7, <2>1, <2>2 DEF RoundTrip
<1> QED BY <1>6, <1>7

LEMMA RoundTripStays ==
  ASSUME RInv, [Next]_vars
  PROVE  RInv'
<1>1. IInv' /\ CallbackMarked'
  BY EveryStep, CallbackStaysMarked DEF RInv
<1> SUFFICES RoundTrip'
  BY <1>1 DEF RInv
<1>2. CASE Receive
  BY <1>2, ReceivedAsSent DEF RInv
<1>3. CASE TimeOut \/ UNCHANGED vars
  <2>1. UNCHANGED <<pc, kind, out, obj>>
    BY <1>3 DEF TimeOut, vars
  <2>2. Receiver' = Receiver
    BY <2>1 DEF Receiver
  <2> QED BY <2>1, <2>2 DEF RInv, RoundTrip
<1>4. CASE ~ (Receive \/ TimeOut \/ UNCHANGED vars)
  <2>1. pc' # "parsed"
    BY <1>4 DEF RInv, IInv, Moments, Next, Compose, AddValue, SetResult, Refuse, Send,
                DropCorrupt, UnknownMethod, GetReply, SetException, Discard, HandlerReturns,
                CallbackRuns, CallbackMissing, Deliver, DropLate, DeleteResult
  <2> QED BY <2>1 DEF RoundTrip
<1> QED BY <1>2, <1>3, <1>4

\* The receiver of a call, a callback or an answer (the NymphMessage constructor) gets the
\* values the sender put in, in order and with their structure, the name of the callback
\* and the id of the call that is answered: for values of every type, nested to any depth,
\* except those the format does not carry.
THEOREM MessagesArriveAsSent == Spec => []RoundTrip
<1>1. Init => RInv
  <2>1. Init => CallbackMarked /\ RoundTrip
    BY DEF Init, CallbackMarked, RoundTrip
  <2> QED BY <2>1, Initially DEF RInv
<1>2. RInv /\ [Next]_vars => RInv'
  BY RoundTripStays
<1>3. RInv => RoundTrip
  BY DEF RInv
<1> QED BY <1>1, <1>2, <1>3, PTL DEF Spec
=============================================================================
