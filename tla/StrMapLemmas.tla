---------------------------- MODULE StrMapLemmas ----------------------------
(***************************************************************************)
(* What the operations of strmap.c do, for buckets of any set of pairs R.  *)
(* Nothing below looks into Hash: any function of the key would do.        *)
(***************************************************************************)
EXTENDS StrMap, SeqLemmas

\* A key's bucket exists.
LEMMA IndexInRange == \A k : Index(k) \in Slot
  BY CapacityAssumption DEF Index, Hash, Slot

\* What get_pair returns: the place of the key's only pair, if there is one.
LEMMA GetPairFound ==
  ASSUME NEW R, NEW b \in Seq(R), NEW k, NEW i \in 1 .. Len(b), b[i].key = k,
         \A j \in 1 .. Len(b) : b[j].key = k => j = i
  PROVE  get_pair(b, k) = i
<1>1. i \in 1 .. Len(b) /\ b[i].key = k /\ \A j \in 1 .. i - 1 : b[j].key # k
  OBVIOUS
<1>2. \A n \in 1 .. Len(b) :
         b[n].key = k /\ (\A j \in 1 .. n - 1 : b[j].key # k) => n = i
  OBVIOUS
<1> QED
  BY <1>1, <1>2 DEF get_pair

LEMMA GetPairMissing ==
  ASSUME NEW R, NEW b \in Seq(R), NEW k, \A j \in 1 .. Len(b) : b[j].key # k
  PROVE  get_pair(b, k) = 0
  BY DEF get_pair

\* The place get_pair returns holds the key.
LEMMA GetPairPlace ==
  ASSUME NEW R, NEW m \in [Slot -> Seq(R)], UniqueIn(m), NEW k,
         get_pair(m[Index(k)], k) # 0
  PROVE  /\ get_pair(m[Index(k)], k) \in 1 .. Len(m[Index(k)])
         /\ m[Index(k)][get_pair(m[Index(k)], k)].key = k
<1> DEFINE b == m[Index(k)]
<1>1. b \in Seq(R)
  BY IndexInRange
<1>2. PICK i \in 1 .. Len(b) : b[i].key = k
  BY <1>1, GetPairMissing
<1>3. \A j \in 1 .. Len(b) : b[j].key = k => j = i
  BY <1>2, IndexInRange DEF UniqueIn
<1>4. get_pair(b, k) = i
  BY <1>1, <1>2, <1>3, GetPairFound
<1> QED
  BY <1>2, <1>4

\* strmap_put keeps one pair per key, in the bucket of the key.
LEMMA PutKeeps ==
  ASSUME NEW R, NEW m \in [Slot -> Seq(R)], UniqueIn(m),
         NEW k, NEW v, [key |-> k, value |-> v] \in R
  PROVE  Put(m, k, v) \in [Slot -> Seq(R)] /\ UniqueIn(Put(m, k, v))
<1> DEFINE s == Index(k)
           b == m[s]
           n == get_pair(b, k)
           c == Put(m, k, v)[s]
<1>1. s \in Slot /\ b \in Seq(R)
  BY IndexInRange
<1>2. CASE n # 0
  <2>1. n \in 1 .. Len(b) /\ b[n].key = k
    BY <1>2, GetPairPlace
  <2>2. c = [b EXCEPT ![n] = [key |-> b[n].key, value |-> v]]
    BY <1>1, <1>2 DEF Put
  <2>3. [key |-> b[n].key, value |-> v] \in R
    BY <2>1
  <2>4. c \in Seq(R) /\ Len(c) = Len(b)
    BY <1>1, <2>1, <2>2, <2>3
  <2>5. \A i \in 1 .. Len(b) : c[i].key = b[i].key
    BY <1>1, <2>1, <2>2
  <2>6. \A t \in Slot : t # s => Put(m, k, v)[t] = m[t]
    BY <1>1 DEF Put
  <2>7. Put(m, k, v) \in [Slot -> Seq(R)]
    BY <1>1, <2>4 DEF Put
  <2>8. ASSUME NEW i \in 1 .. Len(c)
        PROVE  /\ Index(c[i].key) = s
               /\ \A j \in 1 .. Len(c) : c[i].key = c[j].key => i = j
    BY <1>1, <2>4, <2>5 DEF UniqueIn
  <2> QED
    BY <1>1, <2>6, <2>7, <2>8 DEF UniqueIn
<1>3. CASE n = 0
  <2>1. c = Append(b, [key |-> k, value |-> v])
    BY <1>1, <1>3 DEF Put
  <2>2. [key |-> k, value |-> v] \in R
    OBVIOUS
  <2>3. /\ c \in Seq(R) /\ Len(c) = Len(b) + 1
        /\ \A i \in 1 .. Len(b) : c[i] = b[i]
        /\ c[Len(b) + 1].key = k
    BY <1>1, <2>1, <2>2
  <2>4. \A i \in 1 .. Len(b) : b[i].key # k
    <3>1. SUFFICES ASSUME NEW i \in 1 .. Len(b), b[i].key = k PROVE FALSE
      OBVIOUS
    <3>2. \A j \in 1 .. Len(b) : b[j].key = k => j = i
      BY <1>1, <3>1 DEF UniqueIn
    <3>3. get_pair(b, k) = i
      BY <1>1, <3>1, <3>2, GetPairFound
    <3> QED
      BY <1>3, <3>3
  <2>5. \A t \in Slot : t # s => Put(m, k, v)[t] = m[t]
    BY <1>1 DEF Put
  <2>6. Put(m, k, v) \in [Slot -> Seq(R)]
    BY <1>1, <2>3 DEF Put
  <2>7. ASSUME NEW i \in 1 .. Len(c)
        PROVE  /\ Index(c[i].key) = s
               /\ \A j \in 1 .. Len(c) : c[i].key = c[j].key => i = j
    <3>1. CASE i \in 1 .. Len(b)
      BY <1>1, <2>3, <2>4, <3>1 DEF UniqueIn
    <3>2. CASE i = Len(b) + 1
      <4>1. c[i].key = k /\ Index(k) = s
        BY <2>3, <3>2
      <4>2. \A j \in 1 .. Len(c) : j \in 1 .. Len(b) \/ j = i
        BY <1>1, <2>3, <3>2
      <4> QED
        BY <2>3, <2>4, <4>1, <4>2
    <3> QED
      BY <1>1, <2>3, <3>1, <3>2
  <2> QED
    BY <1>1, <2>5, <2>6, <2>7 DEF UniqueIn
<1> QED
  BY <1>2, <1>3

\* After strmap_put(k, v) the key k exists and has the value v.
LEMMA PutOwn ==
  ASSUME NEW R, NEW m \in [Slot -> Seq(R)], UniqueIn(m),
         NEW k, NEW v, [key |-> k, value |-> v] \in R
  PROVE  strmap_exists(Put(m, k, v), k) /\ strmap_get(Put(m, k, v), k) = v
<1> DEFINE s == Index(k)
           b == m[s]
           n == get_pair(b, k)
           c == Put(m, k, v)[s]
<1>1. s \in Slot /\ b \in Seq(R) /\ c \in Seq(R)
  BY IndexInRange, PutKeeps
<1>2. PICK i \in 1 .. Len(c) : c[i].key = k /\ c[i].value = v
  <2>1. CASE n # 0
    <3>1. n \in 1 .. Len(b) /\ b[n].key = k
      BY <2>1, GetPairPlace
    <3>2. c = [b EXCEPT ![n] = [key |-> b[n].key, value |-> v]]
      BY <1>1, <2>1 DEF Put
    <3>3. n \in 1 .. Len(c) /\ c[n].key = k /\ c[n].value = v
      BY <1>1, <3>1, <3>2
    <3> QED
      BY <3>3
  <2>2. CASE n = 0
    <3>1. c = Append(b, [key |-> k, value |-> v])
      BY <1>1, <2>2 DEF Put
    <3>2. /\ Len(b) + 1 \in 1 .. Len(c)
          /\ c[Len(b) + 1] = [key |-> k, value |-> v]
      BY <1>1, <3>1
    <3> QED
      BY <3>2
  <2> QED
    BY <2>1, <2>2
<1>3. \A j \in 1 .. Len(c) : c[j].key = k => j = i
  <2>1. UniqueIn(Put(m, k, v))
    BY PutKeeps
  <2> QED
    BY <1>1, <1>2, <2>1 DEF UniqueIn
<1>4. get_pair(c, k) = i
  <2> HIDE DEF c
  <2> QED
    BY <1>1, <1>2, <1>3, GetPairFound
<1> QED
  BY <1>2, <1>4 DEF strmap_exists, strmap_get

\* strmap_put(k, v) disturbs no other key.
LEMMA PutOther ==
  ASSUME NEW R, NEW m \in [Slot -> Seq(R)], UniqueIn(m),
         NEW k, NEW v, [key |-> k, value |-> v] \in R,
         NEW x, x # k
  PROVE  /\ strmap_exists(Put(m, k, v), x) <=> strmap_exists(m, x)
         /\ strmap_exists(m, x) => strmap_get(Put(m, k, v), x) = strmap_get(m, x)
<1> DEFINE s == Index(k)
           t == Index(x)
           b == m[s]
           n == get_pair(b, k)
           c == Put(m, k, v)[s]
<1>1. /\ s \in Slot /\ t \in Slot /\ b \in Seq(R) /\ c \in Seq(R)
      /\ m[t] \in Seq(R)
  BY IndexInRange, PutKeeps
<1>2. CASE t # s
  <2>1. Put(m, k, v)[t] = m[t]
    BY <1>1, <1>2 DEF Put
  <2> QED
    BY <2>1 DEF strmap_exists, strmap_get
<1>3. CASE t = s
  <2>1. /\ Len(b) <= Len(c)
        /\ \A i \in 1 .. Len(b) : /\ c[i].key = b[i].key
                                  /\ b[i].key # k => c[i] = b[i]
        /\ \A i \in 1 .. Len(c) : i > Len(b) => c[i].key = k
    <3>1. CASE n # 0
      <4>1. n \in 1 .. Len(b) /\ b[n].key = k
        BY <3>1, GetPairPlace
      <4>2. c = [b EXCEPT ![n] = [key |-> b[n].key, value |-> v]]
        BY <1>1, <3>1 DEF Put
      <4> QED
        BY <1>1, <4>1, <4>2
    <3>2. CASE n = 0
      <4>1. c = Append(b, [key |-> k, value |-> v])
        BY <1>1, <3>2 DEF Put
      <4> QED
        BY <1>1, <4>1
    <3> QED
      BY <3>1, <3>2
  <2>2. CASE strmap_exists(m, x)
    <3> DEFINE i == get_pair(b, x)
    <3>1. i \in 1 .. Len(b) /\ b[i].key = x
      BY <1>3, <2>2, GetPairPlace DEF strmap_exists
    <3>2. i \in 1 .. Len(c) /\ c[i] = b[i] /\ c[i].key = x
      BY <1>1, <2>1, <3>1
    <3>3. \A j \in 1 .. Len(c) : c[j].key = x => j = i
      <4>1. UniqueIn(Put(m, k, v))
        BY PutKeeps
      <4>2. \A j \in 1 .. Len(c) : c[i].key = c[j].key => i = j
        BY <1>1, <3>2, <4>1 DEF UniqueIn
      <4> QED
        BY <3>2, <4>2
    <3>4. get_pair(c, x) = i
      <4>1. c \in Seq(R)
        BY <1>1
      <4> HIDE DEF c, i
      <4> QED
        BY <3>2, <3>3, <4>1, GetPairFound
    <3> QED
      BY <1>3, <2>2, <3>1, <3>2, <3>4 DEF strmap_exists, strmap_get
  <2>3. CASE ~strmap_exists(m, x)
    <3>1. \A i \in 1 .. Len(b) : b[i].key # x
      <4>1. SUFFICES ASSUME NEW i \in 1 .. Len(b), b[i].key = x PROVE FALSE
        OBVIOUS
      <4>2. \A j \in 1 .. Len(b) : b[j].key = x => j = i
        BY <1>1, <4>1 DEF UniqueIn
      <4>3. b \in Seq(R)
        BY <1>1
      <4>4. get_pair(b, x) = i
        <5> HIDE DEF b
        <5> QED
          BY <4>1, <4>2, <4>3, GetPairFound
      <4> QED
        BY <1>3, <2>3, <4>1, <4>4 DEF strmap_exists
    <3>2. b \in Seq(R) /\ c \in Seq(R)
      BY <1>1
    <3>3. \A i \in 1 .. Len(c) : c[i].key # x
      <4> HIDE DEF b, c
      <4> QED
        BY <2>1, <3>1, <3>2
    <3>4. get_pair(c, x) = 0
      BY <3>2, <3>3, GetPairMissing
    <3> QED
      BY <1>3, <2>3, <3>4 DEF strmap_exists
  <2> QED
    BY <2>2, <2>3
<1> QED
  BY <1>2, <1>3

\* A new map has no pairs.
LEMMA NewKeeps ==
  ASSUME NEW R
  PROVE  /\ strmap_new \in [Slot -> Seq(R)] /\ UniqueIn(strmap_new)
         /\ \A k : ~strmap_exists(strmap_new, k)
<1>1. strmap_new \in [Slot -> Seq(R)] /\ \A s \in Slot : strmap_new[s] = << >>
  BY DEF strmap_new
<1>2. \A s \in Slot : Len(strmap_new[s]) = 0
  BY <1>1
<1>3. UniqueIn(strmap_new)
  BY <1>2 DEF UniqueIn
<1>4. ASSUME NEW k
      PROVE  get_pair(strmap_new[Index(k)], k) = 0
  <2>1. strmap_new[Index(k)] = << >>
    BY <1>1, IndexInRange
  <2>2. << >> \in Seq(R) /\ \A j \in 1 .. Len(<< >>) : << >>[j].key # k
    OBVIOUS
  <2> QED
    BY <2>1, <2>2, GetPairMissing
<1> QED
  BY <1>1, <1>3, <1>4 DEF strmap_exists

\* A key exists when its bucket has a pair with it, and strmap_get has the value from
\* one.
LEMMA ExistsPair ==
  ASSUME NEW R, NEW m \in [Slot -> Seq(R)], UniqueIn(m), NEW k
  PROVE  strmap_exists(m, k) =>
            /\ Index(k) \in Slot
            /\ \E r \in ToSet(m[Index(k)]) : r \in R /\ r.key = k /\ r.value = strmap_get(m, k)
<1> SUFFICES ASSUME strmap_exists(m, k)
             PROVE  \E r \in ToSet(m[Index(k)]) :
                       r \in R /\ r.key = k /\ r.value = strmap_get(m, k)
  BY IndexInRange
<1> DEFINE b == m[Index(k)]
           i == get_pair(b, k)
<1>1. b \in Seq(R)
  BY IndexInRange
<1>2. i \in 1 .. Len(b) /\ b[i].key = k
  BY GetPairPlace DEF strmap_exists
<1>3. strmap_get(m, k) = b[i].value
  BY DEF strmap_get
<1> HIDE DEF b, i
<1>4. b[i] \in R /\ i \in DOMAIN b
  BY <1>1, <1>2
<1>5. b[i] \in ToSet(b)
  BY <1>4 DEF ToSet
<1> QED
  BY <1>2, <1>3, <1>4, <1>5 DEF b

\* strmap_enum calls its function for the pairs of all buckets, so for every key
\* that exists.
LEMMA EnumLists ==
  ASSUME NEW R, NEW m \in [Slot -> Seq(R)], UniqueIn(m)
  PROVE  /\ strmap_enum(m) \in Seq(R)
         /\ \A k : strmap_exists(m, k) =>
               \E i \in DOMAIN strmap_enum(m) : strmap_enum(m)[i].key = k
<1> DEFINE parts == [i \in 1 .. Capacity |-> m[i - 1]]
<1>1. Capacity \in Nat /\ \A i \in 1 .. Capacity : i - 1 \in Slot
  BY CapacityAssumption DEF Slot
<1>2. parts \in [1 .. Capacity -> Seq(R)]
  BY <1>1
<1>3. \A s \in Slot : s + 1 \in 1 .. Capacity /\ parts[s + 1] = m[s]
  BY CapacityAssumption DEF Slot
<1>4. strmap_enum(m) = FlattenSeq(parts)
  BY DEF strmap_enum
<1> HIDE DEF parts
<1>5. /\ strmap_enum(m) \in Seq(R)
      /\ ToSet(strmap_enum(m)) = UNION {ToSet(parts[i]) : i \in 1 .. Capacity}
  BY <1>1, <1>2, <1>4, FlattenElements
<1>6. ASSUME NEW k, strmap_exists(m, k)
      PROVE  \E i \in DOMAIN strmap_enum(m) : strmap_enum(m)[i].key = k
  <2>1. PICK r \in ToSet(m[Index(k)]) : r.key = k
    BY <1>6, ExistsPair
  <2>2. r \in ToSet(strmap_enum(m))
    BY <1>3, <1>5, <2>1, IndexInRange
  <2> QED
    BY <2>1, <2>2 DEF ToSet
<1> QED
  BY <1>5, <1>6

=============================================================================
