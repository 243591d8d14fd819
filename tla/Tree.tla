-------------------------------- MODULE Tree --------------------------------
(***************************************************************************)
(* The symbols of adk/config and the trees of dependency expressions over  *)
(* them (expr.c, expr.h).  A tree is a record.                             *)
(***************************************************************************)
EXTENDS Integers

CONSTANTS Symbols,      \* the names of the symbols that expressions mention
          TypeOf,       \* struct symbol.type of each; numbers are "UNKNOWN"
          modules_sym   \* the symbol of "option modules"

ASSUME ExprAssumption ==
  /\ modules_sym \in Symbols
  /\ TypeOf \in [Symbols -> {"BOOLEAN", "TRISTATE", "INT", "UNKNOWN"}]
  /\ TypeOf[modules_sym] = "BOOLEAN"

Consts == {"y", "m", "n"}          \* symbol_yes, symbol_mod, symbol_no

Null == [type |-> "NULL"]
expr_alloc_symbol(s) == [type |-> "SYMBOL", sym |-> s]
expr_alloc_comp(t, s1, s2) == [type |-> t, sym |-> s1, val |-> s2]
expr_alloc_one(e) == [type |-> "NOT", left |-> e]
expr_alloc_two(t, e1, e2) == [type |-> t, left |-> e1, right |-> e2]
Yes == expr_alloc_symbol("y")
No == expr_alloc_symbol("n")

\* EXPR_AND and EXPR_OR of two values: no = 0, mod = 1, yes = 2.
Lower(x, y) == IF x < y THEN x ELSE y
Higher(x, y) == IF x > y THEN x ELSE y
=============================================================================
