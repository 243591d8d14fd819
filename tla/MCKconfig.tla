----------------------------- MODULE MCKconfig ------------------------------
(* A menu with every kind of entry: a plain option A; an option B that       *)
(* selects T with the value m, as packages do with kernel options; T with an *)
(* entry X below it; a choice C, whose value V1 selects X and is selected by *)
(* B; a number N with a range and an option D that follows from it.          *)
EXTENDS Kconfig, Expr

sym(s) == expr_alloc_symbol(s)
both(s, t) == expr_alloc_two("AND", sym(s), sym(t))

MCOrder == <<"MOD", "k1", "k2", "k3", "A", "B", "T", "C", "V1", "V2", "X", "N", "D">>
MCSymbols == ToSet(MCOrder)

MCTypeOf == [s \in MCSymbols |->
  IF s \in {"k1", "k2", "k3"} THEN "UNKNOWN"
  ELSE IF s \in {"T", "X"} THEN "TRISTATE" ELSE IF s = "N" THEN "INT" ELSE "BOOLEAN"]

MCPrompt == [s \in MCSymbols |->
  CASE s \in {"A", "B"} -> Yes
    [] s \in {"T", "N", "C"} -> sym("A")
    [] s = "X" -> sym("T")
    [] s = "V1" -> sym("C")
    [] s = "V2" -> both("C", "T")
    [] OTHER -> No]

Default(v, c) == [val |-> v, cond |-> c]
MCDefaults == [s \in MCSymbols |->
  CASE s \in {"MOD", "B"} -> <<Default(Yes, Yes)>>
    [] s = "T" -> <<Default(sym("m"), sym("A"))>>
    [] s = "C" -> <<Default(sym("V2"), Yes)>>
    [] s = "N" -> <<Default(sym("k3"), sym("B")), Default(sym("k2"), Yes)>>
    [] s = "D" -> <<Default(Yes, expr_alloc_comp("EQUAL", "N", "k3"))>>
    [] OTHER -> <<>>]

MCRevDep == [s \in MCSymbols |->
  CASE s = "X" -> sym("V1") [] s = "V1" -> sym("B") [] s = "C" -> both("A", "m") [] OTHER -> No]
MCValDep == [s \in MCSymbols |->
  IF s = "T" THEN <<[cond |-> sym("B"), val |-> sym("m")]>> ELSE <<>>]
MCChoiceOf == [s \in MCSymbols |-> IF s \in {"V1", "V2"} THEN "C" ELSE "none"]
MCRangeOf == [s \in {"N"} |-> <<"k1", "k3">>]
MCChildren == [s \in MCSymbols |->
  CASE s = "T" -> {"X"} [] s = "C" -> {"V1", "V2"} [] OTHER -> {}]
MCNumber == [k1 |-> 1, k2 |-> 2, k3 |-> 3]

\* A comparison also looks at modules.
MCMentions(e) ==
  LET here == {s \in MCSymbols : expr_contains_symbol(e, s)}
  IN IF here = {} THEN {} ELSE here \cup {modules_sym}

\* A choice without a line for the member that is selected.
MCSelected == << <<"A", 2>>, <<"B", 2>>, <<"V2", 2>> >>
MCSelectedOnly == {MCSelected}

\* No file and no line; a number out of range; both values of the choice; a
\* boolean that is m, a symbol that is gone, one that is set twice; a .config
\* as conf writes it, with a number that is hidden; the choice of MCSelected.
MCGiven == {NoFile, <<>>, << <<"A", 2>>, <<"B", 0>>, <<"N", 7>> >>,
            << <<"A", 2>>, <<"T", 2>>, <<"V1", 2>>, <<"V2", 2>>, <<"N", 3>> >>,
            << <<"A", 1>>, <<"GONE", 2>>, <<"B", 0>>, <<"B", 0>> >>,
            << <<"MOD", 2>>, <<"A", 0>>, <<"B", 2>>, <<"T", 1>>, <<"X", 0>>,
               <<"N", 3>>, <<"D", 2>> >>,
            MCSelected}

\* T is selected with m, which no condition but n is below; V1, which B selects,
\* has no condition but the choice.
ASSUME MCSelects == SelectsBounded
ASSUME MCShown == SelectedShown
=============================================================================
