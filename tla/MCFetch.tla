------------------------------ MODULE MCFetch ------------------------------
(* Fetch for TLC: the trees that share a download directory are alike.     *)
EXTENDS Fetch, TLC

Symmetry == Permutations(Tree)
=============================================================================
