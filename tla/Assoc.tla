------------------------------- MODULE Assoc -------------------------------
(***************************************************************************)
(* What adk/tools/strmap.h promises of a string map: every key has at most *)
(* one value, the one given last, and a new association disturbs no other. *)
(* StrMap implements this.                                                 *)
(***************************************************************************)
EXTENDS Naturals

CONSTANTS Key, Value

VARIABLE assoc      \* a function from the keys that have a value

\* "Associates a value with the supplied key.  If the key is already associated
\* with a value, the previous value is replaced."
Override(f, k, v) == [x \in DOMAIN f \cup {k} |-> IF x = k THEN v ELSE f[x]]
Associate(k, v) == assoc' = Override(assoc, k, v)

Empty == [x \in {} |-> x]

\* The map is released, the next one starts empty.
Renew == assoc' = Empty

Init == assoc = Empty

Next == Renew \/ \E k \in Key, v \in Value : Associate(k, v)

Spec == Init /\ [][Next]_assoc
=============================================================================
