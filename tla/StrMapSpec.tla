----------------------------- MODULE StrMapSpec -----------------------------
(***************************************************************************)
(* One string map as a state machine, and what it implements.              *)
(***************************************************************************)
EXTENDS StrMap

VARIABLE map            \* the buckets

\* strmap_put(), which leaves the map alone when memory runs out: every
\* allocation comes before the first change.
strmap_put(key, value) ==
    \/ map' = Put(map, key, value)
    \/ UNCHANGED map

\* strmap_delete() and the strmap_new() of the next user.
strmap_delete == map' = strmap_new

Init == map = strmap_new

Next == strmap_delete \/ \E k \in Key, v \in Value : strmap_put(k, v)

Spec == Init /\ [][Next]_map

-----------------------------------------------------------------------------

TypeOK == map \in [Slot -> Seq(Pair)]

\* No key has two pairs, and each pair is in the bucket of its key.
KeysUnique == UniqueIn(map)

A == INSTANCE Assoc WITH assoc <- Associations(map)

\* The buckets implement the association of strmap.h.
Implements == A!Spec
=============================================================================
