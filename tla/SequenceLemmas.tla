---------------------------- MODULE SequenceLemmas ----------------------------
(***************************************************************************)
(* Induction on the natural numbers in a form the back-end provers take (a *)
(* set instead of an operator); from it what FlattenSeq computes, and what *)
(* the filters, projections and counts that are made of it do to a         *)
(* concatenation; and facts about sorted lists.                            *)
(***************************************************************************)
EXTENDS SequencesExt, Integers, SequenceTheorems, WellFoundedInduction, TLAPS

\* Every non-empty set of naturals has a smallest element.
LEMMA SmallestElement ==
    ASSUME NEW T, T \subseteq Nat, T # {}
    PROVE  \E n \in T : \A m \in T : ~(m < n)
<1> DEFINE R == {p \in Nat \X Nat : p[1] < p[2]}
<1>1. IsWellFoundedOn(R, Nat)
  BY NatLessThanWellFounded DEF OpToRel
<1>2. \E x \in T : \A y \in T : ~ (<<y, x>> \in R)
  BY <1>1, WFMin
<1> QED
  BY <1>2

\* A set that contains 0 and is closed under successor contains every natural.
LEMMA SetInduction ==
    ASSUME NEW S, 0 \in S, \A n \in Nat : n \in S => n + 1 \in S
    PROVE  Nat \subseteq S
<1> DEFINE B == {n \in Nat : n \notin S}
<1> SUFFICES ASSUME B # {} PROVE FALSE
  OBVIOUS
<1>1. PICK n \in B : \A m \in B : ~(m < n)
  BY SmallestElement, B \subseteq Nat
<1>2. n # 0
  OBVIOUS
<1>3. n - 1 \in Nat /\ n - 1 \notin B
  BY <1>1, <1>2
<1> QED
  BY <1>3

\* f[m] is the concatenation of the first m of the n sequences in ss.
PrefixesConcatenate(f, S, ss, n) ==
    /\ f \in [0 .. n -> Seq(S)]
    /\ f[0] = <<>>
    /\ \A i \in 1 .. n : f[i] = f[i - 1] \o ss[i]

\* The concatenations of the prefixes of a sequence of sequences form a function.
LEMMA PrefixConcatenations ==
    ASSUME NEW S, NEW n \in Nat, NEW ss \in [1 .. n -> Seq(S)]
    PROVE  \E f : PrefixesConcatenate(f, S, ss, n)
<1> DEFINE Good(m) == \E f : PrefixesConcatenate(f, S, ss, m)
           K == {m \in Nat : m <= n => Good(m)}
<1>1. Good(0)
  <2> DEFINE f == [i \in 0 .. 0 |-> <<>>]
  <2>1. PrefixesConcatenate(f, S, ss, 0)
    BY DEF PrefixesConcatenate
  <2> QED
    BY <2>1
<1>2. ASSUME NEW m \in Nat, m + 1 <= n, Good(m)
      PROVE  Good(m + 1)
  <2>1. PICK f : PrefixesConcatenate(f, S, ss, m)
    BY <1>2
  <2> DEFINE h == [i \in 0 .. m + 1 |-> IF i <= m THEN f[i] ELSE f[m] \o ss[m + 1]]
  <2>2. ss[m + 1] \in Seq(S) /\ f[m] \in Seq(S)
    BY <1>2, <2>1 DEF PrefixesConcatenate
  <2>3. h \in [0 .. m + 1 -> Seq(S)]
    BY <2>1, <2>2 DEF PrefixesConcatenate
  <2>4. h[0] = <<>>
    BY <2>1 DEF PrefixesConcatenate
  <2>5. ASSUME NEW i \in 1 .. m + 1
        PROVE  h[i] = h[i - 1] \o ss[i]
    <3>1. CASE i \in 1 .. m
      <4>1. h[i] = f[i] /\ h[i - 1] = f[i - 1]
        BY <3>1
      <4>2. f[i] = f[i - 1] \o ss[i]
        BY <2>1, <3>1 DEF PrefixesConcatenate
      <4> QED
        BY <4>1, <4>2
    <3>2. CASE i = m + 1
      <4>1. h[m + 1] = f[m] \o ss[m + 1] /\ h[(m + 1) - 1] = f[m]
        OBVIOUS
      <4> QED
        BY <4>1, <3>2
    <3>3. i \in 1 .. m \/ i = m + 1
      OBVIOUS
    <3> HIDE DEF h
    <3> QED
      BY <3>1, <3>2, <3>3
  <2> HIDE DEF h
  <2>6. PrefixesConcatenate(h, S, ss, m + 1)
    BY <2>3, <2>4, <2>5 DEF PrefixesConcatenate
  <2> QED
    BY <2>6
<1> HIDE DEF Good
<1>3. n \in K
  <2>1. 0 \in K
    BY <1>1
  <2>2. \A m \in Nat : m \in K => m + 1 \in K
    BY <1>2
  <2> HIDE DEF K
  <2> QED
    BY <2>1, <2>2, SetInduction
<1>4. Good(n)
  BY <1>3
<1> QED
  BY <1>4 DEF Good

\* FlattenSeq of a sequence of sequences is the last of those concatenations.
LEMMA FlattenSeqPrefixes ==
    ASSUME NEW S, NEW n \in Nat, NEW ss \in [1 .. n -> Seq(S)]
    PROVE  \E f : PrefixesConcatenate(f, S, ss, n) /\ FlattenSeq(ss) = f[n]
<1>1. PICK f : PrefixesConcatenate(f, S, ss, n)
  BY PrefixConcatenations
<1>2. ss \in Seq(Seq(S)) /\ Len(ss) = n
  OBVIOUS
<1>3. CASE n = 0
  <2>1. FlattenSeq(ss) = ss /\ ss = <<>>
    BY <1>2, <1>3 DEF FlattenSeq
  <2>2. f[n] = <<>>
    BY <1>1, <1>3 DEF PrefixesConcatenate
  <2> QED
    BY <1>1, <2>1, <2>2
<1>4. CASE n # 0
  <2> DEFINE g == [i \in 1 .. n |-> f[i]]
             h == CHOOSE h : h = [i \in 1 .. n |-> IF i = 1 THEN ss[i] ELSE h[i - 1] \o ss[i]]
  <2>1. f[1] = ss[1]
    <3>0. 1 \in 1 .. n /\ 1 - 1 = 0
      BY <1>4
    <3>1. f[1] = f[1 - 1] \o ss[1] /\ f[0] = <<>>
      BY <1>1, <3>0 DEF PrefixesConcatenate
    <3>2. ss[1] \in Seq(S)
      BY <1>4
    <3> QED
      BY <3>0, <3>1, <3>2, ConcatEmptySeq
  <2>2. g = [i \in 1 .. n |-> IF i = 1 THEN ss[i] ELSE g[i - 1] \o ss[i]]
    <3> SUFFICES ASSUME NEW i \in 1 .. n
                 PROVE  f[i] = IF i = 1 THEN ss[i] ELSE g[i - 1] \o ss[i]
      OBVIOUS
    <3>1. CASE i = 1
      BY <3>1, <2>1
    <3>2. CASE i # 1
      <4>1. g[i - 1] = f[i - 1]
        BY <3>2
      <4>2. f[i] = f[i - 1] \o ss[i]
        BY <1>1 DEF PrefixesConcatenate
      <4> QED
        BY <3>2, <4>1, <4>2
    <3> QED
      BY <3>1, <3>2
  <2>3. h = [i \in 1 .. n |-> IF i = 1 THEN ss[i] ELSE h[i - 1] \o ss[i]]
    <3> HIDE DEF h, g
    <3> QED
      BY <2>2 DEF h
  <2>4. FlattenSeq(ss) = h[n]
    BY <1>2, <1>4 DEF FlattenSeq
  <2> HIDE DEF h, g
  <2> DEFINE J == {m \in Nat : m + 1 <= n => h[m + 1] = f[m + 1]}
  <2>5. 0 \in J
    <3>1. h[1] = ss[1]
      BY <2>3, <1>4
    <3> QED
      BY <3>1, <2>1
  <2>6. \A m \in Nat : m \in J => m + 1 \in J
    <3> SUFFICES ASSUME NEW m \in Nat, m \in J, (m + 1) + 1 <= n
                 PROVE  h[(m + 1) + 1] = f[(m + 1) + 1]
      OBVIOUS
    <3>1. /\ m + 1 <= n /\ (m + 1) + 1 \in 1 .. n /\ (m + 1) + 1 # 1
          /\ ((m + 1) + 1) - 1 = m + 1
      OBVIOUS
    <3>2. h[m + 1] = f[m + 1]
      BY <3>1
    <3>3. h[(m + 1) + 1] = h[m + 1] \o ss[(m + 1) + 1]
      BY <2>3, <3>1
    <3>4. f[(m + 1) + 1] = f[m + 1] \o ss[(m + 1) + 1]
      BY <1>1, <3>1 DEF PrefixesConcatenate
    <3> QED
      BY <3>2, <3>3, <3>4
  <2>7. n - 1 \in J
    <3> HIDE DEF J
    <3>1. n - 1 \in Nat
      BY <1>4
    <3> QED
      BY <2>5, <2>6, <3>1, SetInduction
  <2>8. h[n] = f[n]
    BY <2>7, <1>4
  <2> QED
    BY <1>1, <2>4, <2>8
<1> QED
  BY <1>3, <1>4

\* FlattenSeq of one sequence more appends it.
LEMMA FlattenSeqOneMore ==
    ASSUME NEW S, NEW n \in Nat, NEW ss \in [1 .. n -> Seq(S)], NEW tt \in [1 .. n + 1 -> Seq(S)],
           \A i \in 1 .. n : tt[i] = ss[i]
    PROVE  /\ FlattenSeq(ss) \in Seq(S)
           /\ FlattenSeq(tt) = FlattenSeq(ss) \o tt[n + 1]
<1>1. PICK f : PrefixesConcatenate(f, S, ss, n) /\ FlattenSeq(ss) = f[n]
  BY FlattenSeqPrefixes
<1>2. PICK g : PrefixesConcatenate(g, S, tt, n + 1) /\ FlattenSeq(tt) = g[n + 1]
  BY FlattenSeqPrefixes
<1> DEFINE K == {m \in Nat : m <= n => g[m] = f[m]}
<1>3. 0 \in K
  BY <1>1, <1>2 DEF PrefixesConcatenate
<1>4. ASSUME NEW m \in Nat, m \in K
      PROVE  m + 1 \in K
  <2> SUFFICES ASSUME m + 1 <= n
               PROVE  g[m + 1] = f[m + 1]
    OBVIOUS
  <2>1. m <= n /\ m + 1 \in 1 .. n /\ m + 1 \in 1 .. n + 1 /\ (m + 1) - 1 = m
    OBVIOUS
  <2>2. g[m] = f[m]
    BY <1>4, <2>1
  <2>3. f[m + 1] = f[m] \o ss[m + 1]
    BY <1>1, <2>1 DEF PrefixesConcatenate
  <2>4. g[m + 1] = g[m] \o tt[m + 1]
    BY <1>2, <2>1 DEF PrefixesConcatenate
  <2> QED
    BY <2>1, <2>2, <2>3, <2>4
<1>5. g[n] = f[n]
  <2> HIDE DEF K
  <2>1. n \in K
    BY <1>3, <1>4, SetInduction
  <2> QED
    BY <2>1 DEF K
<1>6. g[n + 1] = g[n] \o tt[n + 1]
  <2>1. n + 1 \in 1 .. n + 1 /\ (n + 1) - 1 = n
    OBVIOUS
  <2> QED
    BY <1>2, <2>1 DEF PrefixesConcatenate
<1>7. f[n] \in Seq(S)
  BY <1>1 DEF PrefixesConcatenate
<1> QED
  BY <1>1, <1>2, <1>5, <1>6, <1>7

\* FlattenSeq of empty sequences is empty.
LEMMA FlattenSeqOfEmpties ==
    ASSUME NEW n \in Nat, NEW ss \in [1 .. n -> {<<>>}]
    PROVE  FlattenSeq(ss) = <<>>
<1>1. ASSUME NEW t \in Seq({})
      PROVE  t = <<>>
  <2>1. Len(t) \in Nat /\ \A i \in 1 .. Len(t) : t[i] \in {}
    OBVIOUS
  <2>2. Len(t) = 0
    BY <2>1
  <2> QED
    BY <2>2, EmptySeq
<1>2. <<>> \in Seq({})
  BY EmptySeq
<1>3. ss \in [1 .. n -> Seq({})]
  BY <1>2
<1>4. PICK f : PrefixesConcatenate(f, {}, ss, n) /\ FlattenSeq(ss) = f[n]
  BY <1>3, FlattenSeqPrefixes
<1>5. f[n] \in Seq({})
  BY <1>4 DEF PrefixesConcatenate
<1> QED
  BY <1>1, <1>4, <1>5

\* Concatenation under a name of its own, which keeps the provers from
\* expanding it while they re-associate.
Cat(s, t) == s \o t

LEMMA CatSeq ==
    ASSUME NEW S, NEW s \in Seq(S), NEW t \in Seq(S)
    PROVE  Cat(s, t) \in Seq(S)
BY DEF Cat

LEMMA CatAssociative ==
    ASSUME NEW S, NEW s \in Seq(S), NEW t \in Seq(S), NEW u \in Seq(S)
    PROVE  Cat(s, Cat(t, u)) = Cat(Cat(s, t), u)
BY ConcatAssociative DEF Cat

\* Concatenating five parts from either end.
LEMMA CatFive ==
    ASSUME NEW S, NEW s \in Seq(S), NEW a \in Seq(S), NEW b \in Seq(S), NEW c \in Seq(S),
           NEW d \in Seq(S)
    PROVE  Cat(s, Cat(Cat(Cat(a, b), c), d)) = Cat(Cat(Cat(Cat(s, a), b), c), d)
<1>1. Cat(a, b) \in Seq(S) /\ Cat(Cat(a, b), c) \in Seq(S)
  BY CatSeq
<1>2. Cat(s, Cat(a, b)) = Cat(Cat(s, a), b)
  BY CatAssociative
<1>3. Cat(s, Cat(Cat(a, b), c)) = Cat(Cat(s, Cat(a, b)), c)
  BY <1>1, CatAssociative
<1>4. Cat(s, Cat(Cat(Cat(a, b), c), d)) = Cat(Cat(s, Cat(Cat(a, b), c)), d)
  BY <1>1, CatAssociative
<1> QED
  BY <1>2, <1>3, <1>4

\* Sequences over a larger set, of one element, and given as a function.
LEMMA SeqSubset ==
    ASSUME NEW S, NEW T, S \subseteq T, NEW s \in Seq(S)
    PROVE  s \in Seq(T)
<1>1. Len(s) \in Nat /\ \A i \in 1 .. Len(s) : s[i] \in T
  OBVIOUS
<1> QED
  BY <1>1

LEMMA ElementOf ==
    ASSUME NEW S, NEW s \in Seq(S), NEW i \in 1 .. Len(s)
    PROVE  s[i] \in S
OBVIOUS

LEMMA SeqOfOne ==
    ASSUME NEW S, NEW x \in S
    PROVE  <<x>> \in Seq(S)
OBVIOUS

\* The first element of a sequence between two others of one element.
LEMMA FirstOfThree ==
    ASSUME NEW S, NEW first, NEW s \in Seq(S), NEW last
    PROVE  LET whole == <<first>> \o s \o <<last>>
           IN  Len(whole) \in Nat /\ Len(whole) >= 1 /\ whole[1] = first
<1> DEFINE T == S \cup {first, last}
           whole == <<first>> \o s \o <<last>>
<1>1. <<first>> \in Seq(T) /\ s \in Seq(T) /\ <<last>> \in Seq(T)
  BY SeqOfOne, SeqSubset
<1> HIDE DEF T
<1>2. Len(<<first>> \o s) = Len(s) + 1 /\ (<<first>> \o s)[1] = first /\ <<first>> \o s \in Seq(T)
  BY <1>1
<1> QED
  BY <1>1, <1>2

\* A sequence that begins outside a set is not one over that set.
LEMMA BeginsOutside ==
    ASSUME NEW s, Len(s) \in Nat, Len(s) >= 1, NEW B, s[1] \notin B
    PROVE  ~(\A i \in 1 .. Len(s) : s[i] \in B)
OBVIOUS

LEMMA OnlyElement ==
    ASSUME NEW S, NEW x, <<x>> \in Seq(S)
    PROVE  x \in S
<1>1. <<x>>[1] \in S
  BY ElementOf
<1> QED
  BY <1>1

LEMMA ConcatType ==
    ASSUME NEW S, NEW s \in Seq(S), NEW t \in Seq(S)
    PROVE  s \o t \in Seq(S)
OBVIOUS

LEMMA WholeSeq ==
    ASSUME NEW S, NEW s \in Seq(S)
    PROVE  SubSeq(s, 1, Len(s)) = s
OBVIOUS

LEMMA SeqOfFunction ==
    ASSUME NEW S, NEW n \in Nat, NEW f \in [1 .. n -> S]
    PROVE  f \in Seq(S) /\ Len(f) = n
OBVIOUS

LEMMA SeqOfTwo ==
    ASSUME NEW S, NEW x \in S, NEW y \in S
    PROVE  <<x>> \o <<y>> = <<x, y>>
<1> DEFINE s == <<x>> \o <<y>>
<1>1. s \in Seq(S) /\ Len(s) = 2
  BY SeqOfOne
<1>2. s[1] = x
  BY SeqOfOne
<1>3. s[2] = y
  BY SeqOfOne
<1>4. <<x, y>> \in Seq(S) /\ Len(<<x, y>>) = 2
  OBVIOUS
<1> HIDE DEF s
<1>5. \A i \in 1 .. Len(s) : s[i] = <<x, y>>[i]
  BY <1>1, <1>2, <1>3
<1>6. s = <<x, y>>
  BY <1>1, <1>4, <1>5, SeqEqual
<1> QED
  BY <1>6 DEF s

\* What stands between two elements.
LEMMA Bracketed ==
    ASSUME NEW S, NEW x \in S, NEW y \in S, NEW t \in Seq(S),
           NEW s, s = (<<x>> \o t) \o <<y>>
    PROVE  s \in Seq(S) /\ Len(s) = Len(t) + 2 /\ SubSeq(s, 2, Len(t) + 1) = t
<1> DEFINE u == <<x>> \o t
           v == SubSeq(s, 2, Len(t) + 1)
<1>1. /\ u \in Seq(S) /\ Len(u) = Len(t) + 1 /\ Len(t) \in Nat
      /\ \A k \in 1 .. Len(t) : u[k + 1] = t[k]
  OBVIOUS
<1>2. s = u \o <<y>>
  OBVIOUS
<1> HIDE DEF u
<1>3. /\ s \in Seq(S) /\ Len(s) = Len(t) + 2
      /\ \A k \in 1 .. Len(t) : s[k + 1] = t[k]
  BY <1>1, <1>2
<1>4. v \in Seq(S) /\ Len(v) = Len(t) /\ \A k \in 1 .. Len(t) : v[k] = s[k + 1]
  BY <1>1, <1>3
<1> HIDE DEF v
<1>5. v = t
  BY <1>1, <1>3, <1>4, SeqEqual
<1> QED
  BY <1>3, <1>5 DEF v

\* A set of sequences that has the empty one, and with each one all that are one
\* longer, has all of them.
LEMMA SequenceInduction ==
    ASSUME NEW S, NEW P, <<>> \in P,
           \A s \in Seq(S) : \A x \in S : s \in P => Append(s, x) \in P
    PROVE  Seq(S) \subseteq P
<1> DEFINE K == {n \in Nat : \A s \in Seq(S) : Len(s) = n => s \in P}
<1>1. 0 \in K
  <2>1. ASSUME NEW s \in Seq(S), Len(s) = 0 PROVE s \in P
    <3>1. s = <<>>
      BY <2>1, EmptySeq
    <3> QED
      BY <3>1
  <2> QED
    BY <2>1
<1>2. ASSUME NEW n \in Nat, n \in K
      PROVE  n + 1 \in K
  <2>1. ASSUME NEW s \in Seq(S), Len(s) = n + 1 PROVE s \in P
    <3> DEFINE t == SubSeq(s, 1, n)
    <3>1. t \in Seq(S) /\ Len(t) = n /\ s[n + 1] \in S /\ s = Append(t, s[n + 1])
      BY <2>1
    <3>2. t \in P
      BY <1>2, <3>1
    <3> HIDE DEF t
    <3> QED
      BY <3>1, <3>2
  <2> QED
    BY <2>1
<1> HIDE DEF K
<1>3. Nat \subseteq K
  BY <1>1, <1>2, SetInduction
<1> QED
  BY <1>3 DEF K

-----------------------------------------------------------------------------
(* What each element contributes *)

\* The concatenation of what h makes of each element: filters, and changes of
\* every element, are of this form too.
\* Lists is under a name of its own for the provers to recognize it by.
Lists(S, T) == [S -> Seq(T)]
FlatMap(h, s) == FlattenSeq([i \in 1 .. Len(s) |-> h[s[i]]])

Mapped(g, s) == [i \in 1 .. Len(s) |-> g[s[i]]]

LEMMA MappedType ==
    ASSUME NEW S, NEW T, NEW s \in Seq(S), NEW g, \A x \in S : g[x] \in T
    PROVE  Mapped(g, s) \in Seq(T)
<1>1. Len(s) \in Nat /\ \A i \in 1 .. Len(s) : s[i] \in S
  OBVIOUS
<1> QED
  BY <1>1 DEF Mapped

LEMMA ListOf ==
    ASSUME NEW S, NEW T, NEW h \in Lists(S, T), NEW x \in S
    PROVE  h[x] \in Seq(T)
BY DEF Lists

LEMMA ListsSubset ==
    ASSUME NEW S, NEW T, NEW U, T \subseteq U, NEW h \in Lists(S, T)
    PROVE  h \in Lists(S, U)
<1>1. \A x \in S : h[x] \in Seq(U)
  BY ListOf, SeqSubset
<1> QED
  BY <1>1 DEF Lists

LEMMA FlatMapEmpty ==
    ASSUME NEW h
    PROVE  FlatMap(h, <<>>) = <<>>
<1> DEFINE ss == [i \in 1 .. Len(<<>>) |-> h[<<>>[i]]]
<1>1. ss \in [1 .. 0 -> {<<>>}]
  OBVIOUS
<1> HIDE DEF ss
<1>2. FlattenSeq(ss) = <<>>
  BY <1>1, FlattenSeqOfEmpties
<1> QED
  BY <1>2 DEF FlatMap, ss

LEMMA FlatMapOneMore ==
    ASSUME NEW S, NEW T, NEW h \in Lists(S, T), NEW s \in Seq(S), NEW x \in S
    PROVE  /\ FlatMap(h, s) \in Seq(T)
           /\ FlatMap(h, Append(s, x)) = FlatMap(h, s) \o h[x]
<1> DEFINE n == Len(s)
           ss == [i \in 1 .. Len(s) |-> h[s[i]]]
           t == Append(s, x)
           tt == [i \in 1 .. Len(t) |-> h[t[i]]]
<1>1. n \in Nat /\ Len(t) = n + 1 /\ t[n + 1] = x /\ \A i \in 1 .. n : t[i] = s[i] /\ s[i] \in S
  OBVIOUS
<1>2. ss \in [1 .. n -> Seq(T)]
  BY <1>1, ListOf
<1>3. tt \in [1 .. n + 1 -> Seq(T)]
  BY <1>1, ListOf
<1>4. \A i \in 1 .. n : tt[i] = ss[i]
  BY <1>1
<1>5. tt[n + 1] = h[x]
  BY <1>1
<1>6. FlatMap(h, s) = FlattenSeq(ss) /\ FlatMap(h, Append(s, x)) = FlattenSeq(tt)
  BY DEF FlatMap
<1> HIDE DEF n, ss, t, tt
<1>7. FlattenSeq(ss) \in Seq(T) /\ FlattenSeq(tt) = FlattenSeq(ss) \o tt[n + 1]
  BY <1>1, <1>2, <1>3, <1>4, FlattenSeqOneMore
<1> QED
  BY <1>5, <1>6, <1>7

LEMMA FlatMapType ==
    ASSUME NEW S, NEW T, NEW h \in Lists(S, T), NEW s \in Seq(S)
    PROVE  FlatMap(h, s) \in Seq(T)
<1>1. CASE s = <<>>
  <2>1. FlatMap(h, s) = <<>>
    BY <1>1, FlatMapEmpty
  <2> QED
    BY <2>1
<1>2. CASE s # <<>>
  <2>1. s[1] \in S
    BY <1>2
  <2> QED
    BY <2>1, FlatMapOneMore
<1> QED
  BY <1>1, <1>2

LEMMA FlatMapOne ==
    ASSUME NEW S, NEW T, NEW h \in Lists(S, T), NEW x \in S
    PROVE  FlatMap(h, <<x>>) = h[x]
<1>1. <<>> \in Seq(S) /\ Append(<<>>, x) = <<x>>
  OBVIOUS
<1>2. ASSUME NEW v \in Seq(S)
      PROVE  FlatMap(h, Append(v, x)) = FlatMap(h, v) \o h[x]
  BY FlatMapOneMore
<1>3. h[x] \in Seq(T)
  BY ListOf
<1> QED
  BY <1>1, <1>2, <1>3, FlatMapEmpty, ConcatEmptySeq

LEMMA FlatMapConcat ==
    ASSUME NEW S, NEW T, NEW h \in Lists(S, T), NEW s \in Seq(S), NEW t \in Seq(S)
    PROVE  FlatMap(h, s \o t) = FlatMap(h, s) \o FlatMap(h, t)
<1> DEFINE P == {u \in Seq(S) : FlatMap(h, s \o u) = FlatMap(h, s) \o FlatMap(h, u)}
<1>0. FlatMap(h, s) \in Seq(T)
  BY FlatMapType
<1>a. ASSUME NEW v \in Seq(S), NEW x \in S
      PROVE  FlatMap(h, Append(v, x)) = FlatMap(h, v) \o h[x]
  BY FlatMapOneMore
<1>b. ASSUME NEW a \in Seq(T), NEW b \in Seq(T), NEW c \in Seq(T)
      PROVE  (a \o b) \o c = a \o (b \o c)
  BY ConcatAssociative
<1>1. <<>> \in P
  <2>1. s \o <<>> = s /\ FlatMap(h, s) \o <<>> = FlatMap(h, s)
    BY <1>0, ConcatEmptySeq
  <2>2. <<>> \in Seq(S)
    OBVIOUS
  <2> QED
    BY <2>1, <2>2, FlatMapEmpty
<1>2. ASSUME NEW u \in Seq(S), NEW x \in S, u \in P
      PROVE  Append(u, x) \in P
  <2>1. s \o Append(u, x) = Append(s \o u, x) /\ s \o u \in Seq(S) /\ Append(u, x) \in Seq(S)
    OBVIOUS
  <2>2. FlatMap(h, Append(s \o u, x)) = FlatMap(h, s \o u) \o h[x]
    <3> DEFINE su == s \o u
    <3>1. su \in Seq(S)
      BY <2>1
    <3> HIDE DEF su
    <3>2. FlatMap(h, Append(su, x)) = FlatMap(h, su) \o h[x]
      BY <1>a, <3>1
    <3> QED
      BY <3>2 DEF su
  <2>3. FlatMap(h, Append(u, x)) = FlatMap(h, u) \o h[x]
    BY FlatMapOneMore
  <2>4. FlatMap(h, u) \in Seq(T) /\ h[x] \in Seq(T)
    BY FlatMapType, ListOf
  <2>5. (FlatMap(h, s) \o FlatMap(h, u)) \o h[x] = FlatMap(h, s) \o (FlatMap(h, u) \o h[x])
    BY <1>0, <1>b, <2>4
  <2> QED
    BY <1>2, <2>1, <2>2, <2>3, <2>5
<1>3. t \in P
  <2> HIDE DEF P
  <2> QED
    BY <1>1, <1>2, SequenceInduction
<1> QED
  BY <1>3

\* One after the other, and both at once.
Composed(S, k, h) == [x \in S |-> FlatMap(k, h[x])]

LEMMA FlatMapCompose ==
    ASSUME NEW S, NEW T, NEW U, NEW h \in Lists(S, T), NEW k \in Lists(T, U), NEW s \in Seq(S)
    PROVE  /\ Composed(S, k, h) \in Lists(S, U)
           /\ \A x \in S : Composed(S, k, h)[x] = FlatMap(k, h[x])
           /\ FlatMap(k, FlatMap(h, s)) = FlatMap(Composed(S, k, h), s)
<1> DEFINE kh == Composed(S, k, h)
           P == {u \in Seq(S) : FlatMap(k, FlatMap(h, u)) = FlatMap(kh, u)}
<1>1. kh \in Lists(S, U)
  <2>1. ASSUME NEW x \in S PROVE FlatMap(k, h[x]) \in Seq(U)
    <3>1. h[x] \in Seq(T)
      BY ListOf
    <3> QED
      BY <3>1, FlatMapType
  <2> QED
    BY <2>1 DEF Lists, Composed
<1>2. \A x \in S : kh[x] = FlatMap(k, h[x])
  BY DEF Composed
<1> HIDE DEF kh
<1>a. ASSUME NEW v \in Seq(T), NEW w \in Seq(T)
      PROVE  FlatMap(k, v \o w) = FlatMap(k, v) \o FlatMap(k, w)
  BY FlatMapConcat
<1>b. ASSUME NEW v \in Seq(S), NEW x \in S
      PROVE  FlatMap(kh, Append(v, x)) = FlatMap(kh, v) \o kh[x]
  BY <1>1, FlatMapOneMore
<1>3. <<>> \in P
  <2>1. <<>> \in Seq(S)
    OBVIOUS
  <2> QED
    BY <2>1, FlatMapEmpty
<1>4. ASSUME NEW u \in Seq(S), NEW x \in S, u \in P
      PROVE  Append(u, x) \in P
  <2>1. FlatMap(h, Append(u, x)) = FlatMap(h, u) \o h[x]
    BY FlatMapOneMore
  <2>2. FlatMap(kh, Append(u, x)) = FlatMap(kh, u) \o kh[x]
    BY <1>b
  <2>3. FlatMap(h, u) \in Seq(T) /\ h[x] \in Seq(T)
    BY FlatMapType, ListOf
  <2>4. FlatMap(k, FlatMap(h, u) \o h[x]) = FlatMap(k, FlatMap(h, u)) \o FlatMap(k, h[x])
    BY <2>3, <1>a
  <2>5. Append(u, x) \in Seq(S)
    OBVIOUS
  <2> QED
    BY <1>2, <1>4, <2>1, <2>2, <2>4, <2>5
<1>5. s \in P
  <2> HIDE DEF P
  <2> QED
    BY <1>3, <1>4, SequenceInduction
<1>6. FlatMap(k, FlatMap(h, s)) = FlatMap(kh, s)
  BY <1>5
<1> QED
  BY <1>1, <1>2, <1>6 DEF kh

LEMMA ComposedAt ==
    ASSUME NEW S, NEW k, NEW h, NEW x \in S
    PROVE  Composed(S, k, h)[x] = FlatMap(k, h[x])
BY DEF Composed

\* A change of every element.
LEMMA MapIsFlatMap ==
    ASSUME NEW S, NEW g, NEW s \in Seq(S)
    PROVE  FlatMap([x \in S |-> <<g[x]>>], s) = Mapped(g, s)
<1> DEFINE T == {g[x] : x \in S}
           h == [x \in S |-> <<g[x]>>]
           M(u) == [i \in 1 .. Len(u) |-> g[u[i]]]
           P == {u \in Seq(S) : FlatMap(h, u) = M(u)}
<1>1. h \in Lists(S, T) /\ \A x \in S : h[x] = <<g[x]>>
  BY DEF Lists
<1>0. \A x \in S : g[x] \in T
  OBVIOUS
<1> HIDE DEF h, T
<1>2. <<>> \in P
  <2>1. <<>> \in Seq(S) /\ M(<<>>) = <<>>
    OBVIOUS
  <2> QED
    BY <2>1, FlatMapEmpty
<1>3. ASSUME NEW u \in Seq(S), NEW x \in S, u \in P
      PROVE  Append(u, x) \in P
  <2>1. FlatMap(h, Append(u, x)) = M(u) \o <<g[x]>>
    <3>1. FlatMap(h, Append(u, x)) = FlatMap(h, u) \o h[x]
      BY <1>1, FlatMapOneMore
    <3> QED
      BY <1>1, <1>3, <3>1
  <2>2. M(u) \in Seq(T) /\ g[x] \in T /\ Len(M(u)) = Len(u)
    BY <1>0
  <2>3. /\ Append(u, x) \in Seq(S) /\ Len(Append(u, x)) = Len(u) + 1
        /\ Append(u, x)[Len(u) + 1] = x
        /\ \A i \in 1 .. Len(u) : Append(u, x)[i] = u[i] /\ u[i] \in S
    OBVIOUS
  <2> DEFINE v == M(u) \o <<g[x]>>
             w == M(Append(u, x))
  <2>4. v \in Seq(T) /\ Len(v) = Len(u) + 1 /\ v[Len(u) + 1] = g[x]
        /\ \A i \in 1 .. Len(u) : v[i] = g[u[i]]
    BY <2>2
  <2>5. w \in Seq(T) /\ Len(w) = Len(u) + 1 /\ w[Len(u) + 1] = g[x]
        /\ \A i \in 1 .. Len(u) : w[i] = g[u[i]]
    <3> DEFINE ux == Append(u, x)
    <3>1. Len(u) \in Nat /\ ux \in Seq(S) /\ Len(ux) = Len(u) + 1
      BY <2>3
    <3>2. ux[Len(u) + 1] = x /\ \A i \in 1 .. Len(u) : ux[i] = u[i]
      BY <2>3
    <3> HIDE DEF ux
    <3> DEFINE image == [i \in 1 .. Len(ux) |-> g[ux[i]]]
    <3>3. \A i \in 1 .. Len(ux) : ux[i] \in S /\ g[ux[i]] \in T
      BY <1>0, <3>1
    <3>4. image \in Seq(T) /\ Len(image) = Len(ux)
      BY <3>1, <3>3, SeqOfFunction
    <3>5. \A i \in 1 .. Len(ux) : image[i] = g[ux[i]]
      OBVIOUS
    <3>6. image = w
      BY DEF ux
    <3> HIDE DEF image, w
    <3>7. image[Len(u) + 1] = g[x]
      BY <3>1, <3>2, <3>5
    <3>8. \A i \in 1 .. Len(u) : image[i] = g[u[i]]
      BY <3>1, <3>2, <3>5
    <3> QED
      BY <3>1, <3>4, <3>6, <3>7, <3>8
  <2>6. v = w
    <3> HIDE DEF v, w, M
    <3> QED
      BY <2>4, <2>5, SeqEqual
  <2> QED
    BY <2>1, <2>3, <2>6
<1>4. s \in P
  <2> HIDE DEF P
  <2> QED
    BY <1>2, <1>3, SequenceInduction
<1>5. FlatMap(h, s) = M(s)
  BY <1>4
<1>6. M(s) = Mapped(g, s)
  BY DEF Mapped
<1> QED
  BY <1>5, <1>6 DEF h

\* Only what h makes of the elements of the sequence matters.
LEMMA FlatMapSame ==
    ASSUME NEW S, NEW s \in Seq(S), NEW h, NEW k, \A x \in S : h[x] = k[x]
    PROVE  FlatMap(h, s) = FlatMap(k, s)
<1>1. [i \in 1 .. Len(s) |-> h[s[i]]] = [i \in 1 .. Len(s) |-> k[s[i]]]
  OBVIOUS
<1> QED
  BY <1>1 DEF FlatMap

LEMMA FlatMapNothing ==
    ASSUME NEW S, NEW s \in Seq(S), NEW h, \A x \in S : h[x] = <<>>
    PROVE  FlatMap(h, s) = <<>>
<1> DEFINE ss == [i \in 1 .. Len(s) |-> h[s[i]]]
<1>1. Len(s) \in Nat /\ ss \in [1 .. Len(s) -> {<<>>}]
  OBVIOUS
<1> HIDE DEF ss
<1>2. FlattenSeq(ss) = <<>>
  BY <1>1, FlattenSeqOfEmpties
<1> QED
  BY <1>2 DEF FlatMap, ss

\* The elements of a list are those that h makes of some element.
Elements(s) == {s[i] : i \in 1 .. Len(s)}

LEMMA ElementsOfConcat ==
    ASSUME NEW S, NEW s \in Seq(S), NEW t \in Seq(S)
    PROVE  Elements(s \o t) = Elements(s) \cup Elements(t)
<1> DEFINE u == s \o t
<1>1. /\ Len(u) = Len(s) + Len(t) /\ Len(s) \in Nat /\ Len(t) \in Nat
      /\ \A i \in 1 .. Len(s) : u[i] = s[i]
      /\ \A i \in 1 .. Len(t) : u[Len(s) + i] = t[i]
      /\ \A i \in 1 .. Len(u) : i > Len(s) => u[i] = t[i - Len(s)]
  OBVIOUS
<1> HIDE DEF u
<1>2. ASSUME NEW x \in Elements(u) PROVE x \in Elements(s) \cup Elements(t)
  <2>1. PICK i \in 1 .. Len(u) : x = u[i]
    BY DEF Elements
  <2>2. CASE i <= Len(s)
    BY <1>1, <2>1, <2>2 DEF Elements
  <2>3. CASE i > Len(s)
    <3>1. i - Len(s) \in 1 .. Len(t) /\ x = t[i - Len(s)]
      BY <1>1, <2>1, <2>3
    <3> QED
      BY <3>1 DEF Elements
  <2> QED
    BY <1>1, <2>2, <2>3
<1>3. ASSUME NEW x \in Elements(s) PROVE x \in Elements(u)
  <2>1. PICK i \in 1 .. Len(s) : x = s[i]
    BY DEF Elements
  <2>2. i \in 1 .. Len(u) /\ u[i] = x
    BY <1>1, <2>1
  <2> QED
    BY <2>2 DEF Elements
<1>4. ASSUME NEW x \in Elements(t) PROVE x \in Elements(u)
  <2>1. PICK i \in 1 .. Len(t) : x = t[i]
    BY DEF Elements
  <2>2. Len(s) + i \in 1 .. Len(u) /\ u[Len(s) + i] = x
    BY <1>1, <2>1
  <2> QED
    BY <2>2 DEF Elements
<1>5. Elements(u) = Elements(s) \cup Elements(t)
  BY <1>2, <1>3, <1>4
<1> QED
  BY <1>5 DEF u

LEMMA FlatMapElements ==
    ASSUME NEW S, NEW T, NEW h \in Lists(S, T), NEW s \in Seq(S)
    PROVE  Elements(FlatMap(h, s)) = UNION {Elements(h[x]) : x \in Elements(s)}
<1> DEFINE E(u) == UNION {Elements(h[x]) : x \in Elements(u)}
           P == {u \in Seq(S) : Elements(FlatMap(h, u)) = E(u)}
<1>1. <<>> \in P
  <2>1. <<>> \in Seq(S) /\ Elements(<<>>) = {}
    BY DEF Elements
  <2>2. Elements(FlatMap(h, <<>>)) = {}
    BY <2>1, FlatMapEmpty
  <2> QED
    BY <2>1, <2>2
<1>2. ASSUME NEW u \in Seq(S), NEW x \in S, u \in P
      PROVE  Append(u, x) \in P
  <2>1. FlatMap(h, Append(u, x)) = FlatMap(h, u) \o h[x]
    BY FlatMapOneMore
  <2>2. FlatMap(h, u) \in Seq(T) /\ h[x] \in Seq(T)
    BY FlatMapType, ListOf
  <2>3. Elements(FlatMap(h, u) \o h[x]) = Elements(FlatMap(h, u)) \cup Elements(h[x])
    BY <2>2, ElementsOfConcat
  <2>4. Elements(Append(u, x)) = Elements(u) \cup {x}
    <3>1. /\ Len(Append(u, x)) = Len(u) + 1 /\ Append(u, x)[Len(u) + 1] = x /\ Len(u) \in Nat
          /\ \A i \in 1 .. Len(u) : Append(u, x)[i] = u[i]
      OBVIOUS
    <3> QED
      BY <3>1 DEF Elements
  <2>5. E(Append(u, x)) = E(u) \cup Elements(h[x])
    BY <2>4
  <2>6. Append(u, x) \in Seq(S)
    OBVIOUS
  <2> QED
    BY <1>2, <2>1, <2>3, <2>5, <2>6
<1>3. s \in P
  <2> HIDE DEF P
  <2> QED
    BY <1>1, <1>2, SequenceInduction
<1> QED
  BY <1>3

-----------------------------------------------------------------------------
(* Filters *)

\* The elements of s in A, and what g makes of each.
Kept(A, s) == FlattenSeq([i \in 1 .. Len(s) |-> IF s[i] \in A THEN <<s[i]>> ELSE <<>>])
Picks(S, A, g) == [x \in S |-> IF x \in A THEN <<g[x]>> ELSE <<>>]

LEMMA PicksType ==
    ASSUME NEW S, NEW T, NEW A, NEW g, \A x \in A : g[x] \in T
    PROVE  Picks(S, A, g) \in Lists(S, T)
BY DEF Picks, Lists

\* A filter followed by a change of every element.
LEMMA MapKept ==
    ASSUME NEW S, NEW A, A \subseteq S, NEW g, NEW s \in Seq(S)
    PROVE  /\ Kept(A, s) \in Seq(A)
           /\ Mapped(g, Kept(A, s)) = FlatMap(Picks(S, A, g), s)
<1> DEFINE T == {g[x] : x \in A}
           h == [x \in S |-> IF x \in A THEN <<x>> ELSE <<>>]
           k == [x \in A |-> <<g[x]>>]
           kh == Composed(S, k, h)
           w == Kept(A, s)
<1>1. h \in Lists(S, A)
  BY DEF Lists
<1>2. w = FlatMap(h, s)
  <2>1. [i \in 1 .. Len(s) |-> IF s[i] \in A THEN <<s[i]>> ELSE <<>>] = [i \in 1 .. Len(s) |-> h[s[i]]]
    OBVIOUS
  <2> QED
    BY <2>1 DEF Kept, FlatMap
<1>3. w \in Seq(A)
  <2> HIDE DEF h, w
  <2> QED
    BY <1>1, <1>2, FlatMapType
<1>4. k \in Lists(A, T)
  BY DEF Lists
<1> HIDE DEF T
<1>5. FlatMap(k, w) = Mapped(g, w)
  <2> HIDE DEF w
  <2> QED
    BY <1>3, MapIsFlatMap
<1>6. FlatMap(k, FlatMap(h, s)) = FlatMap(kh, s)
  <2> HIDE DEF h, k
  <2> QED
    BY <1>1, <1>4, FlatMapCompose
<1>7. ASSUME NEW x \in S
      PROVE  kh[x] = Picks(S, A, g)[x]
  <2>1. CASE x \in A
    <3>1. FlatMap(k, <<x>>) = k[x]
      <4> HIDE DEF k
      <4> QED
        BY <1>4, <2>1, FlatMapOne
    <3> QED
      BY <2>1, <3>1 DEF Picks, Composed
  <2>2. CASE x \notin A
    <3>1. FlatMap(k, <<>>) = <<>>
      BY FlatMapEmpty
    <3> QED
      BY <2>2, <3>1 DEF Picks, Composed
  <2> QED
    BY <2>1, <2>2
<1>8. FlatMap(kh, s) = FlatMap(Picks(S, A, g), s)
  <2> HIDE DEF kh
  <2> QED
    BY <1>7, FlatMapSame
<1> QED
  BY <1>2, <1>3, <1>5, <1>6, <1>8

LEMMA KeptElements ==
    ASSUME NEW S, NEW A, A \subseteq S, NEW s \in Seq(S)
    PROVE  Elements(Kept(A, s)) = Elements(s) \cap A
<1> DEFINE h == [x \in S |-> IF x \in A THEN <<x>> ELSE <<>>]
<1>1. h \in Lists(S, A)
  BY DEF Lists
<1>2. Kept(A, s) = FlatMap(h, s)
  <2>1. [i \in 1 .. Len(s) |-> IF s[i] \in A THEN <<s[i]>> ELSE <<>>] = [i \in 1 .. Len(s) |-> h[s[i]]]
    OBVIOUS
  <2> QED
    BY <2>1 DEF Kept, FlatMap
<1>3. Elements(FlatMap(h, s)) = UNION {Elements(h[x]) : x \in Elements(s)}
  <2> HIDE DEF h
  <2> QED
    BY <1>1, FlatMapElements
<1>4. ASSUME NEW x \in Elements(s)
      PROVE  x \in S /\ Elements(h[x]) = {x} \cap A
  <2>1. x \in S
    BY DEF Elements
  <2>2. Elements(<<x>>) = {x} /\ Elements(<<>>) = {}
    BY DEF Elements
  <2> QED
    BY <2>1, <2>2
<1>5. UNION {Elements(h[x]) : x \in Elements(s)} = Elements(s) \cap A
  <2> HIDE DEF h
  <2> QED
    BY <1>4
<1> QED
  BY <1>2, <1>3, <1>5

\* Two filters are one.
LEMMA KeptTwice ==
    ASSUME NEW S, NEW A, A \subseteq S, NEW B, NEW s \in Seq(S)
    PROVE  Kept(B, Kept(A, s)) = Kept(A \cap B, s)
<1> DEFINE h == [x \in S |-> IF x \in A THEN <<x>> ELSE <<>>]
           k == [x \in A |-> IF x \in B THEN <<x>> ELSE <<>>]
           kh == Composed(S, k, h)
           j == [x \in S |-> IF x \in A \cap B THEN <<x>> ELSE <<>>]
           w == Kept(A, s)
<1>1. h \in Lists(S, A) /\ k \in Lists(A, A)
  BY DEF Lists
<1>2. w = FlatMap(h, s)
  <2>1. [i \in 1 .. Len(s) |-> IF s[i] \in A THEN <<s[i]>> ELSE <<>>] = [i \in 1 .. Len(s) |-> h[s[i]]]
    OBVIOUS
  <2> QED
    BY <2>1 DEF Kept, FlatMap
<1>3. w \in Seq(A)
  <2> HIDE DEF h, w
  <2> QED
    BY <1>1, <1>2, FlatMapType
<1>4. Kept(B, w) = FlatMap(k, w)
  <2> HIDE DEF w
  <2>1. [i \in 1 .. Len(w) |-> IF w[i] \in B THEN <<w[i]>> ELSE <<>>] = [i \in 1 .. Len(w) |-> k[w[i]]]
    BY <1>3
  <2> QED
    BY <2>1 DEF Kept, FlatMap
<1>5. FlatMap(k, FlatMap(h, s)) = FlatMap(kh, s)
  <2> HIDE DEF h, k
  <2> QED
    BY <1>1, FlatMapCompose
<1>6. ASSUME NEW x \in S
      PROVE  kh[x] = j[x]
  <2>1. CASE x \in A
    <3>1. FlatMap(k, <<x>>) = k[x]
      <4> HIDE DEF k
      <4> QED
        BY <1>1, <2>1, FlatMapOne
    <3> QED
      BY <2>1, <3>1 DEF Composed
  <2>2. CASE x \notin A
    <3>1. FlatMap(k, <<>>) = <<>>
      BY FlatMapEmpty
    <3> QED
      BY <2>2, <3>1 DEF Composed
  <2> QED
    BY <2>1, <2>2
<1>7. FlatMap(kh, s) = FlatMap(j, s)
  <2> HIDE DEF kh, j
  <2> QED
    BY <1>6, FlatMapSame
<1>8. FlatMap(j, s) = Kept(A \cap B, s)
  <2>1. [i \in 1 .. Len(s) |-> IF s[i] \in A \cap B THEN <<s[i]>> ELSE <<>>] = [i \in 1 .. Len(s) |-> j[s[i]]]
    OBVIOUS
  <2> QED
    BY <2>1 DEF Kept, FlatMap
<1> QED
  BY <1>2, <1>4, <1>5, <1>7, <1>8

\* A filter before a change of every element into a list.
Spread(S, A, g) == [x \in S |-> IF x \in A THEN g[x] ELSE <<>>]

LEMMA SpreadType ==
    ASSUME NEW S, NEW T, NEW A, A \subseteq S, NEW g \in Lists(A, T)
    PROVE  Spread(S, A, g) \in Lists(S, T)
<1>1. \A x \in A : g[x] \in Seq(T)
  BY ListOf
<1> QED
  BY <1>1, EmptySeq DEF Spread, Lists

LEMMA FlatMapKept ==
    ASSUME NEW S, NEW T, NEW A, A \subseteq S, NEW g \in Lists(A, T), NEW s \in Seq(S)
    PROVE  /\ Spread(S, A, g) \in Lists(S, T)
           /\ FlatMap(g, Kept(A, s)) = FlatMap(Spread(S, A, g), s)
<1> DEFINE h == [x \in S |-> IF x \in A THEN <<x>> ELSE <<>>]
           kh == Composed(S, g, h)
<1>1. h \in Lists(S, A)
  BY DEF Lists
<1>2. Kept(A, s) = FlatMap(h, s)
  <2>1. [i \in 1 .. Len(s) |-> IF s[i] \in A THEN <<s[i]>> ELSE <<>>] = [i \in 1 .. Len(s) |-> h[s[i]]]
    OBVIOUS
  <2> QED
    BY <2>1 DEF Kept, FlatMap
<1>3. FlatMap(g, FlatMap(h, s)) = FlatMap(kh, s)
  <2> HIDE DEF h
  <2> QED
    BY <1>1, FlatMapCompose
<1>4. ASSUME NEW x \in S
      PROVE  kh[x] = Spread(S, A, g)[x]
  <2>1. CASE x \in A
    BY <2>1, FlatMapOne DEF Spread, Composed
  <2>2. CASE x \notin A
    BY <2>2, FlatMapEmpty DEF Spread, Composed
  <2> QED
    BY <2>1, <2>2
<1>5. FlatMap(kh, s) = FlatMap(Spread(S, A, g), s)
  <2> HIDE DEF kh
  <2> QED
    BY <1>4, FlatMapSame
<1>6. Spread(S, A, g) \in Lists(S, T)
  BY DEF Spread, Lists
<1> QED
  BY <1>2, <1>3, <1>5, <1>6

\* A list of lists, as it is.
Same(S) == [x \in S |-> x]

LEMMA FlattenSeqType ==
    ASSUME NEW T, NEW ss \in Seq(Seq(T))
    PROVE  FlattenSeq(ss) \in Seq(T)
<1>1. PICK f : PrefixesConcatenate(f, T, ss, Len(ss)) /\ FlattenSeq(ss) = f[Len(ss)]
  BY FlattenSeqPrefixes
<1> QED
  BY <1>1 DEF PrefixesConcatenate

\* What k makes of a concatenation.
LEMMA FlatMapFlatten ==
    ASSUME NEW T, NEW U, NEW k \in Lists(T, U), NEW ss \in Seq(Seq(T))
    PROVE  FlatMap(k, FlattenSeq(ss)) = FlattenSeq([i \in 1 .. Len(ss) |-> FlatMap(k, ss[i])])
<1> DEFINE id == [x \in Seq(T) |-> x]
           kid == Composed(Seq(T), k, id)
<1>1. id \in Lists(Seq(T), T)
  BY DEF Lists
<1>2. FlattenSeq(ss) = FlatMap(id, ss)
  <2>1. ss = [i \in 1 .. Len(ss) |-> id[ss[i]]]
    OBVIOUS
  <2> QED
    BY <2>1 DEF FlatMap
<1>3. FlatMap(k, FlatMap(id, ss)) = FlatMap(kid, ss)
  <2> HIDE DEF id
  <2> QED
    BY <1>1, FlatMapCompose
<1>4. [i \in 1 .. Len(ss) |-> kid[ss[i]]] = [i \in 1 .. Len(ss) |-> FlatMap(k, ss[i])]
  BY DEF Composed
<1> QED
  BY <1>2, <1>3, <1>4 DEF FlatMap

LEMMA FlattenIsFlatMap ==
    ASSUME NEW T, NEW ss \in Seq(Seq(T))
    PROVE  /\ Same(Seq(T)) \in Lists(Seq(T), T)
           /\ FlattenSeq(ss) = FlatMap(Same(Seq(T)), ss)
<1>1. Same(Seq(T)) \in Lists(Seq(T), T)
  BY DEF Lists, Same
<1>2. ss = [i \in 1 .. Len(ss) |-> Same(Seq(T))[ss[i]]]
  BY DEF Same
<1> QED
  BY <1>1, <1>2 DEF FlatMap

\* A filter, element by element.
Keeping(S, A) == [x \in S |-> IF x \in A THEN <<x>> ELSE <<>>]

LEMMA KeptIsFlatMap ==
    ASSUME NEW S, NEW A, NEW s \in Seq(S)
    PROVE  /\ Keeping(S, A) \in Lists(S, S)
           /\ Kept(A, s) = FlatMap(Keeping(S, A), s)
<1>1. Keeping(S, A) \in Lists(S, S)
  BY DEF Keeping, Lists
<1>2. [i \in 1 .. Len(s) |-> IF s[i] \in A THEN <<s[i]>> ELSE <<>>]
          = [i \in 1 .. Len(s) |-> Keeping(S, A)[s[i]]]
  BY DEF Keeping
<1> QED
  BY <1>1, <1>2 DEF Kept, FlatMap

LEMMA KeptConcat ==
    ASSUME NEW S, NEW A, NEW s \in Seq(S), NEW t \in Seq(S)
    PROVE  Kept(A, s \o t) = Kept(A, s) \o Kept(A, t)
<1> DEFINE k == Keeping(S, A)
           st == s \o t
<1>1. st \in Seq(S)
  BY ConcatType
<1> HIDE DEF st
<1>2. k \in Lists(S, S) /\ Kept(A, s) = FlatMap(k, s) /\ Kept(A, t) = FlatMap(k, t) /\ Kept(A, st) = FlatMap(k, st)
  BY <1>1, KeptIsFlatMap
<1> HIDE DEF k
<1>3. FlatMap(k, s \o t) = FlatMap(k, s) \o FlatMap(k, t)
  BY <1>2, FlatMapConcat
<1> QED
  BY <1>2, <1>3 DEF st

LEMMA KeptAll ==
    ASSUME NEW A, NEW s \in Seq(A)
    PROVE  Kept(A, s) = s
<1> DEFINE g == [x \in A |-> x]
           h == [x \in A |-> <<g[x]>>]
<1>1. Kept(A, s) = FlatMap(Keeping(A, A), s)
  BY KeptIsFlatMap
<1>2. \A x \in A : Keeping(A, A)[x] = h[x]
  BY DEF Keeping
<1>3. FlatMap(Keeping(A, A), s) = FlatMap(h, s)
  <2> HIDE DEF h
  <2> QED
    BY <1>2, FlatMapSame
<1>4. FlatMap(h, s) = Mapped(g, s)
  <2> HIDE DEF g
  <2> QED
    BY MapIsFlatMap
<1>5. Mapped(g, s) = s
  BY DEF Mapped
<1> QED
  BY <1>1, <1>3, <1>4, <1>5

LEMMA KeptNone ==
    ASSUME NEW S, NEW A, A \cap S = {}, NEW s \in Seq(S)
    PROVE  Kept(A, s) = <<>>
<1>1. \A x \in S : Keeping(S, A)[x] = <<>>
  BY DEF Keeping
<1> QED
  BY <1>1, KeptIsFlatMap, FlatMapNothing

LEMMA KeptFlatten ==
    ASSUME NEW S, NEW A, NEW ss \in Seq(Seq(S))
    PROVE  Kept(A, FlattenSeq(ss)) = FlattenSeq([i \in 1 .. Len(ss) |-> Kept(A, ss[i])])
<1> DEFINE k == Keeping(S, A)
           flat == FlattenSeq(ss)
<1>1. flat \in Seq(S)
  BY FlattenSeqType
<1>2. \A i \in 1 .. Len(ss) : ss[i] \in Seq(S)
  BY ElementOf
<1> HIDE DEF flat
<1>3. k \in Lists(S, S) /\ Kept(A, flat) = FlatMap(k, flat)
      /\ \A i \in 1 .. Len(ss) : Kept(A, ss[i]) = FlatMap(k, ss[i])
  BY <1>1, <1>2, KeptIsFlatMap, EmptySeq
<1> HIDE DEF k
<1>4. FlatMap(k, FlattenSeq(ss)) = FlattenSeq([i \in 1 .. Len(ss) |-> FlatMap(k, ss[i])])
  BY <1>3, FlatMapFlatten
<1>5. [i \in 1 .. Len(ss) |-> FlatMap(k, ss[i])] = [i \in 1 .. Len(ss) |-> Kept(A, ss[i])]
  BY <1>3
<1> QED
  BY <1>3, <1>4, <1>5 DEF flat

\* How often an element is in a sequence.
Count(v, s) == Len(Kept({v}, s))

LEMMA CountConcat ==
    ASSUME NEW S, NEW v, NEW s \in Seq(S), NEW t \in Seq(S)
    PROVE  /\ Count(v, s) \in Nat
           /\ Count(v, s \o t) = Count(v, s) + Count(v, t)
<1>1. Kept({v}, s) \in Seq(S) /\ Kept({v}, t) \in Seq(S)
  <2> DEFINE k == Keeping(S, {v})
  <2>1. k \in Lists(S, S) /\ Kept({v}, s) = FlatMap(k, s) /\ Kept({v}, t) = FlatMap(k, t)
    BY KeptIsFlatMap
  <2> HIDE DEF k
  <2> QED
    BY <2>1, FlatMapType
<1>2. Kept({v}, s \o t) = Kept({v}, s) \o Kept({v}, t)
  BY KeptConcat
<1> DEFINE a == Kept({v}, s)
           b == Kept({v}, t)
<1> HIDE DEF a, b
<1>3. a \in Seq(S) /\ b \in Seq(S)
  BY <1>1 DEF a, b
<1>4. Len(a) \in Nat /\ Len(a \o b) = Len(a) + Len(b)
  BY <1>3
<1> QED
  BY <1>2, <1>4 DEF Count, a, b

LEMMA CountEmpty ==
    ASSUME NEW v
    PROVE  Count(v, <<>>) = 0
<1>1. Kept({v}, <<>>) = <<>>
  BY EmptySeq, KeptAll
<1> QED
  BY <1>1 DEF Count

\* What h makes of every element is, but for the order, what a and b make of it.
LEMMA CountSum ==
    ASSUME NEW S, NEW T, NEW h \in Lists(S, T), NEW a \in Lists(S, T), NEW b \in Lists(S, T), NEW v,
           \A x \in S : Count(v, h[x]) = Count(v, a[x]) + Count(v, b[x]),
           NEW s \in Seq(S)
    PROVE  Count(v, FlatMap(h, s)) = Count(v, FlatMap(a, s)) + Count(v, FlatMap(b, s))
<1> DEFINE P == {u \in Seq(S) : Count(v, FlatMap(h, u)) = Count(v, FlatMap(a, u)) + Count(v, FlatMap(b, u))}
<1>1. <<>> \in P
  BY FlatMapEmpty, CountEmpty, EmptySeq
<1>2. ASSUME NEW u \in Seq(S), NEW x \in S, u \in P
      PROVE  Append(u, x) \in P
  <2>1. ASSUME NEW k \in Lists(S, T)
        PROVE  /\ Count(v, FlatMap(k, Append(u, x))) = Count(v, FlatMap(k, u)) + Count(v, k[x])
               /\ Count(v, FlatMap(k, u)) \in Nat /\ Count(v, k[x]) \in Nat
    <3> DEFINE f == FlatMap(k, u)
               g == k[x]
    <3>1. FlatMap(k, Append(u, x)) = f \o g
      BY FlatMapOneMore
    <3>2. f \in Seq(T) /\ g \in Seq(T)
      BY FlatMapType, ListOf
    <3> HIDE DEF f, g
    <3>3. Count(v, f \o g) = Count(v, f) + Count(v, g) /\ Count(v, f) \in Nat /\ Count(v, g) \in Nat
      BY <3>2, CountConcat
    <3> QED
      BY <3>1, <3>3 DEF f, g
  <2>2. Append(u, x) \in Seq(S)
    BY AppendProperties
  <2>3. Count(v, FlatMap(h, u)) = Count(v, FlatMap(a, u)) + Count(v, FlatMap(b, u))
    BY <1>2
  <2>4. Count(v, FlatMap(h, Append(u, x))) =
            Count(v, FlatMap(a, Append(u, x))) + Count(v, FlatMap(b, Append(u, x)))
    BY <2>1, <2>3
  <2> QED
    BY <2>2, <2>4
<1>3. s \in P
  <2> HIDE DEF P
  <2> QED
    BY <1>1, <1>2, SequenceInduction
<1> QED
  BY <1>3

LEMMA CountSame ==
    ASSUME NEW S, NEW T, NEW h \in Lists(S, T), NEW k \in Lists(S, T), NEW v,
           \A x \in S : Count(v, h[x]) = Count(v, k[x]),
           NEW s \in Seq(S)
    PROVE  Count(v, FlatMap(h, s)) = Count(v, FlatMap(k, s))
<1> DEFINE b == [x \in S |-> <<>>]
<1>1. b \in Lists(S, T) /\ \A x \in S : b[x] = <<>>
  BY EmptySeq DEF Lists
<1> HIDE DEF b
<1>2. \A x \in S : Count(v, k[x]) \in Nat
  BY ListOf, CountConcat
<1>3. \A x \in S : Count(v, h[x]) = Count(v, k[x]) + Count(v, b[x])
  BY <1>1, <1>2, CountEmpty
<1>4. Count(v, FlatMap(h, s)) = Count(v, FlatMap(k, s)) + Count(v, FlatMap(b, s))
  BY <1>1, <1>3, CountSum
<1>5. FlatMap(b, s) = <<>>
  BY <1>1, FlatMapNothing
<1>6. Count(v, FlatMap(k, s)) \in Nat
  BY FlatMapType, CountConcat
<1> QED
  BY <1>4, <1>5, <1>6, CountEmpty

\* A concatenation of which one part is not empty.
LEMMA NonEmptyConcat ==
    ASSUME NEW S, NEW s \in Seq(S), NEW t \in Seq(S), NEW u \in Seq(S), s # <<>>
    PROVE  (s \o t) \o u # <<>>
<1> DEFINE v == s \o t
           w == v \o u
<1>1. Len(s) > 0
  BY EmptySeq
<1>2. v \in Seq(S) /\ Len(v) = Len(s) + Len(t)
  BY ConcatProperties
<1> HIDE DEF v
<1>3. Len(w) = Len(v) + Len(u)
  BY <1>2, ConcatProperties
<1> HIDE DEF w
<1>4. w # <<>>
  BY <1>1, <1>2, <1>3
<1> QED
  BY <1>4 DEF v, w

\* Prefixes, and the sequence without its last element.
LEMMA EmptyIsPrefix ==
    ASSUME NEW S, NEW t \in Seq(S)
    PROVE  IsPrefix(<<>>, t)
BY DEF IsPrefix

LEMMA ConcatIsPrefix ==
    ASSUME NEW S, NEW s \in Seq(S), NEW t \in Seq(S)
    PROVE  IsPrefix(s, s \o t)
<1> DEFINE u == s \o t
<1>1. u \in Seq(S) /\ Len(s) <= Len(u) /\ \A i \in 1 .. Len(s) : u[i] = s[i]
  OBVIOUS
<1> HIDE DEF u
<1>2. IsPrefix(s, u)
  BY <1>1 DEF IsPrefix
<1> QED
  BY <1>2 DEF u

LEMMA FrontOfAppend ==
    ASSUME NEW S, NEW s \in Seq(S), NEW x
    PROVE  Front(Append(s, x)) = s
<1> DEFINE t == Append(s, x)
           f == Front(t)
<1>1. t \in Seq(S \cup {x}) /\ Len(t) = Len(s) + 1 /\ \A i \in 1 .. Len(s) : t[i] = s[i]
  OBVIOUS
<1> HIDE DEF t
<1>2. f \in Seq(S \cup {x}) /\ Len(f) = Len(s) /\ \A i \in 1 .. Len(s) : f[i] = s[i]
  BY <1>1 DEF Front
<1> HIDE DEF f
<1>3. s \in Seq(S \cup {x})
  OBVIOUS
<1>4. f = s
  BY <1>2, <1>3, SeqEqual
<1> QED
  BY <1>4 DEF f, t

===============================================================================
