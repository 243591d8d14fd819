------------------------------- MODULE StrMap -------------------------------
(***************************************************************************)
(* The string map of the tools (adk/tools/strmap.c): an array of buckets,  *)
(* each a growing array of key-value pairs.  A map m is the array of its   *)
(* buckets; pkgrebuild keeps three.  Keys are non-empty strings, as         *)
(* strmap.h asks, and a value always fits the caller's buffer.             *)
(***************************************************************************)
EXTENDS Naturals, SequencesExt

CONSTANTS Key, Value,
          Capacity      \* the number of buckets, 1024 in pkgrebuild

ASSUME CapacityAssumption == Capacity \in Nat \ {0}

Pair == [key : Key, value : Value]
Slot == 0 .. Capacity - 1

\* hash(): the loop compares the first character with c, which is 0, instead of
\* assigning it, so it ends before its first turn for every non-empty key.
Hash(key) == 5381
Index(key) == Hash(key) % Capacity

\* A strmap_new() with one bucket too many.
new_larger == [i \in 0 .. Capacity |-> << >>]

strmap_new == [i \in Slot |-> << >>]

\* A get_pair() that takes the first pair of the bucket for the one it looks for.
get_first(bucket, key) == IF bucket = << >> THEN 0 ELSE 1

\* get_pair(): the place of the first pair with the key, 0 for NULL.
get_pair(bucket, key) ==
    IF \E i \in 1 .. Len(bucket) : bucket[i].key = key
    THEN CHOOSE i \in 1 .. Len(bucket) :
             bucket[i].key = key /\ \A j \in 1 .. i - 1 : bucket[j].key # key
    ELSE 0

strmap_exists(m, key) == get_pair(m[Index(key)], key) # 0

\* strmap_get(), for a key that exists.
strmap_get(m, key) == m[Index(key)][get_pair(m[Index(key)], key)].value

\* The buckets after a successful strmap_put().
Put(m, key, value) ==
    LET bucket == m[Index(key)]
        i == get_pair(bucket, key)
    IN  [m EXCEPT ![Index(key)] =
            IF i # 0 THEN [bucket EXCEPT ![i] = [key |-> bucket[i].key, value |-> value]]
                     ELSE Append(bucket, [key |-> key, value |-> value])]

\* strmap_enum(): the pairs in the order the callback sees them.  strmap_get_count()
\* runs the same two loops.
strmap_enum(m) == FlattenSeq([i \in 1 .. Capacity |-> m[i - 1]])
strmap_get_count(m) == Len(strmap_enum(m))

-----------------------------------------------------------------------------

\* No key has two pairs, and each pair is in the bucket of its key: what makes
\* strmap_enum() call its function "once for every key associated with a value"
\* (strmap.h).
UniqueIn(m) ==
    \A s \in Slot : \A i \in 1 .. Len(m[s]) :
        /\ Index(m[s][i].key) = s
        /\ \A j \in 1 .. Len(m[s]) : m[s][i].key = m[s][j].key => i = j

\* The associations the buckets stand for.
Associations(m) ==
    [k \in {key \in Key : strmap_exists(m, key)} |-> strmap_get(m, k)]
=============================================================================
