---------------------------- MODULE StrMap_proofs ----------------------------
(***************************************************************************)
(* The buckets of StrMap implement the association that strmap.h promises, *)
(* for every set of keys and values and every number of buckets.           *)
(***************************************************************************)
EXTENDS StrMapSpec, StrMapLemmas

-----------------------------------------------------------------------------
(* Buckets without duplicates are reachable only.                          *)

\* The inductive invariant: the types and one pair per key.
IInv == TypeOK /\ KeysUnique

LEMMA InitInv == Init => IInv
<1> SUFFICES ASSUME Init PROVE IInv
  OBVIOUS
<1>1. map \in [Slot -> Seq(Pair)] /\ \A s \in Slot : map[s] = << >>
  BY DEF Init, strmap_new
<1>2. \A s \in Slot : Len(map[s]) = 0
  BY <1>1
<1> QED
  BY <1>1, <1>2 DEF IInv, TypeOK, KeysUnique, UniqueIn

LEMMA NextInv == IInv /\ [Next]_map => IInv'
<1> SUFFICES ASSUME IInv, [Next]_map PROVE IInv'
  OBVIOUS
<1>1. CASE UNCHANGED map
  BY <1>1 DEF IInv, TypeOK, KeysUnique, UniqueIn
<1>2. CASE strmap_delete
  <2>1. map' \in [Slot -> Seq(Pair)] /\ \A s \in Slot : map'[s] = << >>
    BY <1>2 DEF strmap_delete, strmap_new
  <2>2. \A s \in Slot : Len(map'[s]) = 0
    BY <2>1
  <2> QED
    BY <2>1, <2>2 DEF IInv, TypeOK, KeysUnique, UniqueIn
<1>3. ASSUME NEW k \in Key, NEW v \in Value, map' = Put(map, k, v)
      PROVE  IInv'
  <2>1. [key |-> k, value |-> v] \in Pair
    BY DEF Pair
  <2>2. Put(map, k, v) \in [Slot -> Seq(Pair)] /\ UniqueIn(Put(map, k, v))
    BY <2>1, PutKeeps DEF IInv, TypeOK, KeysUnique
  <2> QED
    BY <1>3, <2>2 DEF IInv, TypeOK, KeysUnique
<1> QED
  BY <1>1, <1>2, <1>3 DEF Next, strmap_put

\* However long the sequence of puts, no key of a string map has two pairs and
\* each pair is in the bucket of its key.
THEOREM KeysStayUnique == Spec => []KeysUnique
<1>1. IInv => KeysUnique
  BY DEF IInv
<1> QED
  BY InitInv, NextInv, <1>1, PTL DEF Spec

-----------------------------------------------------------------------------
(* The refinement.                                                         *)

\* A new map has no associations.
LEMMA NewIsEmpty == Associations(strmap_new) = A!Empty
<1>1. \A k \in Key : strmap_new[Index(k)] = << >>
  BY IndexInRange DEF strmap_new
<1>2. \A k \in Key : get_pair(strmap_new[Index(k)], k) = 0
  <2> SUFFICES ASSUME NEW k \in Key PROVE get_pair(<< >>, k) = 0
    BY <1>1
  <2>1. << >> \in Seq(Pair) /\ \A j \in 1 .. Len(<< >>) : << >>[j].key # k
    OBVIOUS
  <2> QED
    BY <2>1, GetPairMissing
<1> QED
  BY <1>2 DEF Associations, A!Empty, strmap_exists

\* strmap_put is Associate of the abstract map.
LEMMA PutAssociates ==
  ASSUME NEW m \in [Slot -> Seq(Pair)], UniqueIn(m), NEW k \in Key, NEW v \in Value
  PROVE  Associations(Put(m, k, v)) =
           [x \in DOMAIN Associations(m) \cup {k} |->
              IF x = k THEN v ELSE Associations(m)[x]]
<1> DEFINE D == {key \in Key : strmap_exists(m, key)}
           E == {key \in Key : strmap_exists(Put(m, k, v), key)}
<1>4. [key |-> k, value |-> v] \in Pair
  BY DEF Pair
<1>5. strmap_exists(Put(m, k, v), k) /\ strmap_get(Put(m, k, v), k) = v
  BY <1>4, PutOwn
<1>6. \A x : x # k =>
         /\ strmap_exists(Put(m, k, v), x) <=> strmap_exists(m, x)
         /\ strmap_exists(m, x) => strmap_get(Put(m, k, v), x) = strmap_get(m, x)
  BY <1>4, PutOther
<1>1. E = D \cup {k}
  BY <1>5, <1>6
<1>2. DOMAIN Associations(m) = D
  BY DEF Associations
<1>3. \A x \in D \cup {k} : strmap_get(Put(m, k, v), x) =
                             IF x = k THEN v ELSE Associations(m)[x]
  BY <1>5, <1>6 DEF Associations
<1> QED
  BY <1>1, <1>2, <1>3 DEF Associations

\* The buckets of strmap.c implement the association that strmap.h describes:
\* every put replaces the value of its key or adds it, and changes no other.
THEOREM BucketsImplement == Spec => Implements
<1>1. Init => A!Init
  BY NewIsEmpty DEF Init, A!Init
<1>2. IInv /\ [Next]_map => [A!Next]_(Associations(map))
  <2> SUFFICES ASSUME IInv, [Next]_map PROVE [A!Next]_(Associations(map))
    OBVIOUS
  <2>1. CASE UNCHANGED map
    BY <2>1 DEF Associations, strmap_exists, strmap_get
  <2>2. CASE strmap_delete
    BY <2>2, NewIsEmpty DEF strmap_delete, A!Next, A!Renew
  <2>3. ASSUME NEW k \in Key, NEW v \in Value, map' = Put(map, k, v)
        PROVE  A!Next
    BY <2>3, PutAssociates DEF IInv, TypeOK, KeysUnique, A!Next, A!Associate, A!Override
  <2> QED
    BY <2>1, <2>2, <2>3 DEF Next, strmap_put
<1> QED
  BY InitInv, NextInv, <1>1, <1>2, PTL DEF Spec, Implements, A!Spec
=============================================================================
