----------------------------- MODULE MCFinalize -----------------------------
(* Small dependency trees over a tristate, a boolean and the modules symbol. *)
EXTENDS Finalize

MCTypeOf == [s \in {"A", "B", "MOD"} |-> IF s = "A" THEN "TRISTATE" ELSE "BOOLEAN"]

Comps == {expr_alloc_comp(t, s, c) : t \in {"EQUAL", "UNEQUAL"}, s \in {"A", "B"}, c \in Consts}
Atoms == {expr_alloc_symbol(s) : s \in {"A", "B", "m", "n"}} \cup Comps
         \cup {expr_alloc_comp("EQUAL", "A", "B")}
Literals == Atoms \cup {expr_alloc_one(e) : e \in Atoms}
Twos(E, F) == {expr_alloc_two(t, e, f) : t \in {"AND", "OR"}, e \in E, f \in F}
Some == {expr_alloc_symbol("A"), expr_alloc_symbol("B"),
         expr_alloc_one(expr_alloc_symbol("A")), expr_alloc_comp("UNEQUAL", "A", "n")}

MCDeps == Literals \cup Twos(Atoms, Literals)
          \cup {expr_alloc_one(e) : e \in Twos(Some, Atoms)}
          \cup Twos(Some, Twos(Some, Some))

MCParentDeps == {Null} \cup Some \cup {expr_alloc_two("OR", expr_alloc_symbol("A"), expr_alloc_symbol("B")),
  expr_alloc_two("AND", expr_alloc_comp("UNEQUAL", "A", "m"), expr_alloc_symbol("B"))}

MCPrompts == {Null} \cup Some
  \cup {expr_alloc_two("AND", expr_alloc_symbol("B"), expr_alloc_comp("EQUAL", "A", "y"))}
=============================================================================
