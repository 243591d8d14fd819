----------------------------- MODULE SeqLemmas -----------------------------
(***************************************************************************)
(* What the proofs need about FlattenSeq and SetToSeq, by the least-number *)
(* principle.                                                              *)
(***************************************************************************)
EXTENDS Integers, SequencesExt, FunctionTheorems, FiniteSetTheorems,
        WellFoundedInduction, TLAPS

\* The least-number principle.
LEMMA NatLeast ==
  ASSUME NEW T, T \subseteq Nat, T # {}
  PROVE  \E n \in T : \A m \in T : n <= m
<1> DEFINE R == OpToRel(<, Nat)
<1>1. IsWellFoundedOn(R, Nat)
  BY NatLessThanWellFounded
<1>2. \A x, y \in Nat : <<y, x>> \in R <=> y < x
  BY DEF OpToRel
<1> HIDE DEF R
<1>3. PICK x \in T : \A y \in T : ~(<<y, x>> \in R)
  BY <1>1, WFMin
<1>4. \A y \in T : y \in Nat /\ x \in Nat /\ ~(y < x)
  BY <1>2, <1>3
<1>5. \A y \in T : x <= y
  BY <1>4
<1> QED
  BY <1>5

\* In the form of an induction from a to b: a set that has a, and with every number
\* below b its successor, has all of a .. b.
LEMMA Climb ==
  ASSUME NEW a \in Nat, NEW b \in Nat, NEW S,
         a \in S, \A i \in a .. b : i < b /\ i \in S => i + 1 \in S
  PROVE  \A i \in a .. b : i \in S
<1> DEFINE T == {i \in a .. b : i \notin S}
<1> SUFFICES ASSUME T # {} PROVE FALSE
  OBVIOUS
<1>1. T \subseteq Nat
  OBVIOUS
<1>2. PICK k \in T : \A m \in T : k <= m
  BY <1>1, NatLeast
<1>3. k \in a .. b /\ k # a
  BY <1>2
<1>4. k - 1 \in a .. b /\ k - 1 < b
  BY <1>3
<1>5. k - 1 \notin T
  <2> SUFFICES ASSUME k - 1 \in T PROVE FALSE
    OBVIOUS
  <2>1. k <= k - 1
    BY <1>2
  <2> QED
    BY <2>1, <1>3
<1>6. k - 1 \in S
  BY <1>4, <1>5
<1>7. (k - 1) + 1 \in S
  BY <1>4, <1>6
<1>8. (k - 1) + 1 = k
  BY <1>3
<1> QED
  BY <1>2, <1>7, <1>8

\* The recursive function of FlattenSeq exists.
LEMMA FlattenExists ==
  ASSUME NEW seqs, NEW n \in Nat, n >= 1
  PROVE  \E g : g = [i \in 1 .. n |-> IF i = 1 THEN seqs[i] ELSE g[i - 1] \o seqs[i]]
<1> DEFINE D(k, g) == g = [i \in 1 .. k |-> IF i = 1 THEN seqs[i] ELSE g[i - 1] \o seqs[i]]
           S == {k \in 1 .. n : \E g : D(k, g)}
<1>1. 1 \in S
  <2> DEFINE h == [i \in 1 .. 1 |-> seqs[i]]
  <2>1. D(1, h)
    OBVIOUS
  <2>2. 1 \in 1 .. n
    OBVIOUS
  <2> HIDE DEF h
  <2> QED
    BY <2>1, <2>2
<1>2. ASSUME NEW k \in 1 .. n, k < n, k \in S
      PROVE  k + 1 \in S
  <2>1. PICK g : D(k, g)
    BY <1>2
  <2> DEFINE h == [i \in 1 .. k + 1 |-> IF i = k + 1 THEN g[k] \o seqs[k + 1] ELSE g[i]]
  <2>2. k \in Nat /\ k >= 1 /\ k + 1 \in 1 .. n
    BY <1>2
  <2>3. ASSUME NEW i \in 1 .. k + 1
        PROVE  h[i] = IF i = 1 THEN seqs[i] ELSE h[i - 1] \o seqs[i]
    <3>1. CASE i = k + 1
      <4>1. i - 1 = k /\ k \in 1 .. k + 1 /\ k # k + 1 /\ i # 1
        BY <2>2, <3>1
      <4>2. h[k] = g[k] /\ h[i] = g[k] \o seqs[i]
        BY <3>1, <4>1
      <4> QED
        BY <4>1, <4>2
    <3>2. CASE i # k + 1
      <4>1. i \in 1 .. k /\ h[i] = g[i]
        BY <2>2, <3>2
      <4>2. g[i] = IF i = 1 THEN seqs[i] ELSE g[i - 1] \o seqs[i]
        BY <2>1, <4>1
      <4>3. CASE i = 1
        BY <4>1, <4>2, <4>3
      <4>4. CASE i # 1
        <5>1. i - 1 \in 1 .. k + 1 /\ i - 1 # k + 1
          BY <2>2, <4>1, <4>4
        <5>2. h[i - 1] = g[i - 1]
          BY <5>1
        <5> QED
          BY <4>1, <4>2, <4>4, <5>2
      <4> QED
        BY <4>3, <4>4
    <3> QED
      BY <3>1, <3>2
  <2>4. D(k + 1, h)
    BY <2>3
  <2> HIDE DEF h
  <2> QED
    BY <2>2, <2>4
<1> HIDE DEF S
<1>3. \A k \in 1 .. n : k \in S
  BY <1>1, <1>2, Climb
<1>4. n \in S
  BY <1>3
<1> QED
  BY <1>4 DEF S

LEMMA FlattenUnfold ==
  ASSUME NEW seqs, Len(seqs) \in Nat, Len(seqs) # 0
  PROVE  \E g : /\ g[1] = seqs[1]
                /\ \A i \in 2 .. Len(seqs) : g[i] = g[i - 1] \o seqs[i]
                /\ FlattenSeq(seqs) = g[Len(seqs)]
<1> DEFINE D(g) == g = [i \in 1 .. Len(seqs) |-> IF i = 1 THEN seqs[i] ELSE g[i - 1] \o seqs[i]]
           f == CHOOSE g : D(g)
<1>1. \E g : D(g)
  <2> DEFINE n == Len(seqs)
  <2>1. n \in Nat /\ n >= 1
    OBVIOUS
  <2> HIDE DEF n
  <2>2. \E g : g = [i \in 1 .. n |-> IF i = 1 THEN seqs[i] ELSE g[i - 1] \o seqs[i]]
    BY <2>1, FlattenExists
  <2> QED
    BY <2>2 DEF n
<1>2. D(f)
  <2> HIDE DEF D
  <2> QED BY <1>1
<1>3. FlattenSeq(seqs) = f[Len(seqs)]
  BY DEF FlattenSeq
<1> HIDE DEF f
<1>4. \A i \in 1 .. Len(seqs) : f[i] = IF i = 1 THEN seqs[i] ELSE f[i - 1] \o seqs[i]
  BY <1>2
<1>5. 1 \in 1 .. Len(seqs) /\ \A i \in 2 .. Len(seqs) : i \in 1 .. Len(seqs) /\ i # 1
  OBVIOUS
<1>6. f[1] = seqs[1] /\ \A i \in 2 .. Len(seqs) : f[i] = f[i - 1] \o seqs[i]
  BY <1>4, <1>5
<1> QED
  BY <1>3, <1>6

\* The elements of a concatenation.
LEMMA ConcatElements ==
  ASSUME NEW T, NEW s \in Seq(T), NEW t \in Seq(T)
  PROVE  s \o t \in Seq(T) /\ ToSet(s \o t) = ToSet(s) \cup ToSet(t)
<1>1. s \o t \in Seq(T) /\ Len(s \o t) = Len(s) + Len(t)
  OBVIOUS
<1>2. /\ DOMAIN s = 1 .. Len(s) /\ DOMAIN t = 1 .. Len(t)
      /\ DOMAIN (s \o t) = 1 .. Len(s) + Len(t)
  BY <1>1
<1>3. \A i \in 1 .. Len(s) : i \in 1 .. Len(s) + Len(t) /\ (s \o t)[i] = s[i]
  OBVIOUS
<1>4. \A i \in 1 .. Len(t) : i + Len(s) \in 1 .. Len(s) + Len(t) /\ (s \o t)[i + Len(s)] = t[i]
  OBVIOUS
<1>5. \A i \in 1 .. Len(s) + Len(t) :
         \/ i \in 1 .. Len(s) /\ (s \o t)[i] = s[i]
         \/ i - Len(s) \in 1 .. Len(t) /\ (s \o t)[i] = t[i - Len(s)]
  OBVIOUS
<1> DEFINE c == s \o t
<1> HIDE DEF c
<1>6. ToSet(c) \subseteq ToSet(s) \cup ToSet(t)
  BY <1>2, <1>5 DEF ToSet, c
<1>7. ToSet(s) \subseteq ToSet(c)
  BY <1>2, <1>3 DEF ToSet, c
<1>8. ToSet(t) \subseteq ToSet(c)
  BY <1>2, <1>4 DEF ToSet, c
<1> QED
  BY <1>1, <1>6, <1>7, <1>8 DEF c

\* FlattenSeq has the elements of all its parts, and no others.
LEMMA FlattenElements ==
  ASSUME NEW T, NEW n \in Nat, NEW seqs \in [1 .. n -> Seq(T)]
  PROVE  /\ FlattenSeq(seqs) \in Seq(T)
         /\ ToSet(FlattenSeq(seqs)) = UNION {ToSet(seqs[i]) : i \in 1 .. n}
<1>1. seqs \in Seq(Seq(T)) /\ Len(seqs) = n
  OBVIOUS
<1>2. CASE n = 0
  <2>1. FlattenSeq(seqs) = seqs
    BY <1>1, <1>2 DEF FlattenSeq
  <2>2. seqs = << >>
    BY <1>1, <1>2
  <2>3. 1 .. n = {} /\ DOMAIN << >> = {}
    BY <1>2
  <2> QED
    BY <2>1, <2>2, <2>3 DEF ToSet
<1>3. CASE n # 0
  <2>1. PICK g : /\ g[1] = seqs[1]
                 /\ \A i \in 2 .. n : g[i] = g[i - 1] \o seqs[i]
                 /\ FlattenSeq(seqs) = g[n]
    BY <1>1, <1>3, FlattenUnfold
  <2> DEFINE S == {k \in 1 .. n : /\ g[k] \in Seq(T)
                                  /\ ToSet(g[k]) = UNION {ToSet(seqs[i]) : i \in 1 .. k}}
  <2>2. 1 \in S
    <3>1. 1 \in 1 .. n /\ 1 .. 1 = {1} /\ g[1] \in Seq(T)
      BY <1>3, <2>1
    <3> QED
      BY <2>1, <3>1
  <2>3. ASSUME NEW k \in 1 .. n, k < n, k \in S
        PROVE  k + 1 \in S
    <3>1. k + 1 \in 2 .. n /\ k + 1 \in 1 .. n /\ (k + 1) - 1 = k
      BY <2>3
    <3>2. g[k + 1] = g[k] \o seqs[k + 1]
      BY <2>1, <3>1
    <3>3. /\ g[k + 1] \in Seq(T)
          /\ ToSet(g[k + 1]) = ToSet(g[k]) \cup ToSet(seqs[k + 1])
      BY <2>3, <3>1, <3>2, ConcatElements
    <3>4. \A i : i \in 1 .. k + 1 <=> i \in 1 .. k \/ i = k + 1
      BY <3>1
    <3>5. ToSet(g[k + 1]) = UNION {ToSet(seqs[i]) : i \in 1 .. k + 1}
      BY <2>3, <3>3, <3>4
    <3> QED
      BY <3>1, <3>3, <3>5
  <2> HIDE DEF S
  <2>4. \A k \in 1 .. n : k \in S
    BY <2>2, <2>3, Climb
  <2>5. n \in S
    BY <1>3, <2>4
  <2> QED
    BY <2>1, <2>5 DEF S
<1> QED
  BY <1>2, <1>3

\* SetToSeq lists every element of a finite set.
LEMMA SetToSeqLists ==
  ASSUME NEW S, IsFiniteSet(S)
  PROVE  /\ Cardinality(S) \in Nat
         /\ SetToSeq(S) \in [1 .. Cardinality(S) -> S]
         /\ SetToSeq(S) \in Seq(S) /\ DOMAIN SetToSeq(S) = 1 .. Cardinality(S)
         /\ ToSet(SetToSeq(S)) = S
<1> DEFINE n == Cardinality(S)
           f == SetToSeq(S)
<1>1. n \in Nat /\ ExistsBijection(1 .. n, S)
  BY FS_CardinalityType
<1>2. PICK b : b \in Bijection(1 .. n, S)
  BY <1>1 DEF ExistsBijection
<1>3. b \in [1 .. n -> S] /\ IsInjective(b)
  <2>1. b \in [1 .. n -> S] /\ \A x, y \in 1 .. n : b[x] = b[y] => x = y
    BY <1>2, Fun_BijectionProperties
  <2> QED
    BY <2>1 DEF IsInjective
<1>4. f \in [1 .. n -> S] /\ IsInjective(f)
  BY <1>3 DEF SetToSeq
<1> HIDE DEF f
<1>5. f \in Injection(1 .. n, S)
  <2>1. \A x, y \in 1 .. n : f[x] = f[y] => x = y
    BY <1>4 DEF IsInjective
  <2> QED
    BY <1>4, <2>1, Fun_IsInj
<1>6. Cardinality(1 .. n) = n
  BY <1>1, FS_Interval
<1>7. f \in Surjection(1 .. n, S)
  BY <1>5, <1>6, FS_Injection
<1>8. \A x \in S : \E i \in 1 .. n : f[i] = x
  BY <1>7 DEF Surjection
<1>9. DOMAIN f = 1 .. n
  BY <1>4
<1>10. ToSet(f) = S
  BY <1>4, <1>8, <1>9 DEF ToSet
<1>11. f \in Seq(S)
  <2> HIDE DEF n
  <2> QED
    BY <1>1, <1>4
<1> QED
  BY <1>1, <1>4, <1>9, <1>10, <1>11 DEF f

\* A sequence with one more element in front.
LEMMA ConsElements ==
  ASSUME NEW T, NEW x \in T, NEW s \in Seq(T)
  PROVE  <<x>> \o s \in Seq(T) /\ (<<x>> \o s)[1] = x
<1>1. <<x>> \in Seq(T) /\ Len(<<x>>) = 1 /\ <<x>>[1] = x
  OBVIOUS
<1> DEFINE t == <<x>>
<1> HIDE DEF t
<1>2. t \o s \in Seq(T) /\ (t \o s)[1] = t[1]
  BY <1>1 DEF t
<1> QED
  BY <1>1, <1>2 DEF t

\* A sequence all of whose elements are in U.
LEMMA SeqInto ==
  ASSUME NEW T, NEW U, NEW s \in Seq(T), \A i \in DOMAIN s : s[i] \in U
  PROVE  s \in Seq(U)
  OBVIOUS

\* What is left of a sequence after its first i elements.
LEMMA SuffixElements ==
  ASSUME NEW T, NEW s \in Seq(T), NEW i \in DOMAIN s
  PROVE  /\ SubSeq(s, i + 1, Len(s)) \in Seq(T)
         /\ ToSet(SubSeq(s, i + 1, Len(s))) \subseteq ToSet(s)
         /\ \A j \in DOMAIN s : j > i => s[j] \in ToSet(SubSeq(s, i + 1, Len(s)))
<1> DEFINE n == Len(s)
           t == SubSeq(s, i + 1, n)
<1>1. n \in Nat /\ i \in 1 .. n /\ DOMAIN s = 1 .. n
  OBVIOUS
<1>2. t \in Seq(T) /\ Len(t) = n - i /\ \A j \in 1 .. n - i : t[j] = s[i + j]
  OBVIOUS
<1> HIDE DEF t
<1>3. DOMAIN t = 1 .. n - i
  BY <1>2
<1> HIDE DEF n
<1>4. \A j \in 1 .. n - i : i + j \in 1 .. n
  BY <1>1
<1>5. \A j \in 1 .. n : j > i => j - i \in 1 .. n - i /\ i + (j - i) = j
  BY <1>1
<1>6. ToSet(t) \subseteq ToSet(s)
  BY <1>1, <1>2, <1>3, <1>4 DEF ToSet
<1>7. \A j \in DOMAIN s : j > i => s[j] \in ToSet(t)
  BY <1>1, <1>2, <1>3, <1>5 DEF ToSet
<1> QED
  BY <1>2, <1>6, <1>7 DEF t, n

\* The first element and the others.
LEMMA HeadTailElements ==
  ASSUME NEW T, NEW s \in Seq(T), s # << >>
  PROVE  /\ Head(s) \in T /\ Head(s) \in ToSet(s) /\ Tail(s) \in Seq(T)
         /\ ToSet(s) = {Head(s)} \cup ToSet(Tail(s))
<1> DEFINE n == Len(s)
           t == Tail(s)
<1>1. n \in Nat /\ n >= 1 /\ DOMAIN s = 1 .. n /\ Head(s) = s[1] /\ s[1] \in T
  OBVIOUS
<1>2. t \in Seq(T) /\ Len(t) = n - 1 /\ \A j \in 1 .. n - 1 : t[j] = s[j + 1]
  OBVIOUS
<1> HIDE DEF t
<1>3. DOMAIN t = 1 .. n - 1
  BY <1>2
<1> HIDE DEF n
<1>4. 1 \in 1 .. n /\ \A j \in 1 .. n - 1 : j + 1 \in 1 .. n
  BY <1>1
<1>5. \A j \in 1 .. n : j = 1 \/ (j - 1 \in 1 .. n - 1 /\ (j - 1) + 1 = j)
  BY <1>1
<1>6. ToSet(t) \subseteq ToSet(s)
  BY <1>1, <1>2, <1>3, <1>4 DEF ToSet
<1>7. ToSet(s) \subseteq {s[1]} \cup ToSet(t)
  <2> SUFFICES ASSUME NEW j \in 1 .. n, j # 1
               PROVE  s[j] \in ToSet(t)
    BY <1>1 DEF ToSet
  <2>1. t[j - 1] = s[j]
    BY <1>2, <1>5
  <2> QED
    BY <1>3, <1>5, <2>1 DEF ToSet
<1>8. s[1] \in ToSet(s)
  BY <1>1, <1>4 DEF ToSet
<1> QED
  BY <1>1, <1>2, <1>6, <1>7, <1>8 DEF t

=============================================================================
