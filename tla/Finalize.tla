------------------------------ MODULE Finalize ------------------------------
(***************************************************************************)
(* One menu entry on its way through menu_finalize (menu.c): the condition *)
(* of its prompt is brought into the form everything later works on, and   *)
(* it is decided whether the entry is shown below the entry before it.     *)
(***************************************************************************)
EXTENDS Expr

CONSTANTS Deps,         \* the dependencies written in the menu files
          ParentDeps,   \* the finalised dependencies of parents
          Prompts       \* the finalised prompt conditions of entries before

VARIABLES pc,         \* the step menu_finalize is at
          entry,      \* the type of the entry's symbol
          source,     \* what the menu file says, with the parent's condition
          dep,        \* prop->visible.expr of the entry's prompt
          placed      \* the entry before and whether this one went below it

vars == <<pc, entry, source, dep, placed>>

Init ==
  /\ pc = "parsed"
  /\ entry \in {"BOOLEAN", "TRISTATE"}
  /\ \E d \in Deps :
       /\ dep = menu_check_dep(d)
       /\ source = dep
  /\ placed = Null

\* basedep = expr_transform(menu->dep), and in the same way the condition of
\* a property, for which the entry's basedep is then the parent's condition.
Transform ==
  /\ pc = "parsed"
  /\ dep' = expr_transform(dep)
  /\ pc' = "transformed"
  /\ UNCHANGED <<entry, source, placed>>

\* ... and the conjunction with the parent's condition, simplified.
Conjoin ==
  /\ pc = "transformed"
  /\ \E parentdep \in ParentDeps :
       /\ source' = expr_alloc_and(parentdep, source)
       /\ dep' = expr_eliminate_dups(expr_alloc_and(parentdep, dep))
  /\ pc' = "conjoined"
  /\ UNCHANGED <<entry, placed>>

\* The conditions of a symbol that is not a tristate may confuse m and y.
TransBool ==
  /\ pc = "conjoined"
  /\ dep' = IF entry # "TRISTATE" THEN expr_trans_bool(dep) ELSE dep
  /\ pc' = "visible"
  /\ UNCHANGED <<entry, source, placed>>

\* menu_finalize of the entry before this one.
Place ==
  /\ pc = "visible"
  /\ \E s \in Symbols, prompt \in Prompts :
       placed' = [sym |-> s, prompt |-> prompt, below |-> Below(s, prompt, dep)]
  /\ pc' = "placed"
  /\ UNCHANGED <<entry, source, dep>>

Next == Transform \/ Conjoin \/ TransBool \/ Place

Spec == Init /\ [][Next]_vars

-----------------------------------------------------------------------------
(* Properties. *)

\* What sym_calc_value can leave in the symbols: a mod only in a tristate,
\* and only while modules are on (sym_get_type).
Values ==
  {a \in [Symbols -> 0 .. 2] : \A s \in Symbols :
     a[s] = 1 => TypeOf[s] = "TRISTATE" /\ a[modules_sym] = 2}

RECURSIVE IsTree(_)
IsTree(e) ==
  CASE IsBinary(e) -> IsTree(e.left) /\ IsTree(e.right)
    [] e.type = "NOT" -> IsTree(e.left)
    [] IsComp(e) -> {e.sym, e.val} \subseteq Symbols \cup Consts
    [] e.type = "SYMBOL" -> e.sym \in Symbols \cup Consts
    [] OTHER -> FALSE

Definite(a) == \A s \in Symbols : a[s] # 1

\* No rewriting changes the answer y or n of a condition: wherever the
\* condition as written is y or n, expr_transform and expr_eliminate_dups
\* leave that answer; an answer m may become n or y (the rules for
\* (FOO || BAR) && !FOO && !BAR take an m for impossible).
AnswersKept ==
  pc \in {"transformed", "conjoined"} =>
    \A a \in Values :
      expr_calc_value(source, a) # 1 =>
        expr_calc_value(dep, a) = expr_calc_value(source, a)

\* expr_trans_bool, applied to the conditions of symbols that are not
\* tristates, may weaken y to m but never makes a visible prompt invisible
\* or shows a hidden one (sym_calc_visibility takes m for y there).
VisibilityKept ==
  pc = "visible" =>
    \A a \in Values :
      expr_calc_value(source, a) # 1 =>
        (expr_calc_value(dep, a) = 0) = (expr_calc_value(source, a) = 0)

RECURSIVE NegatesSymbols(_)
NegatesSymbols(e) ==
  CASE IsBinary(e) -> NegatesSymbols(e.left) /\ NegatesSymbols(e.right)
    [] e.type = "NOT" -> e.left.type = "SYMBOL" /\ e.left.sym \in Symbols
    [] OTHER -> TRUE

\* The form expr_trans_bool and expr_depends_symbol count on: once a
\* condition has been transformed, negations stand only in front of symbols,
\* through the conjunction with the parent and every join of operands.
NormalForm == pc # "parsed" => NegatesSymbols(dep)

\* An entry that was moved below the entry of symbol s because its condition
\* covers that entry's prompt condition is never visible while that prompt
\* is hidden, and one moved because it depends on s is never visible while s
\* is n: otherwise the menus could not show it.  In configurations without an
\* m; with one it fails, as expr_trans_compare takes !A for A = n.
SubmenuShown ==
  pc = "placed" /\ placed.below =>
    \A a \in Values :
      Definite(a) /\ expr_calc_value(dep, a) # 0 =>
        \/ expr_depends_symbol(dep, placed.sym) /\ a[placed.sym] # 0
        \/ expr_calc_value(placed.prompt, a) # 0

TypeOK ==
  /\ pc \in {"parsed", "transformed", "conjoined", "visible", "placed"}
  /\ entry \in {"BOOLEAN", "TRISTATE"}
  /\ IsTree(source) /\ IsTree(dep)
  /\ placed = Null \/ placed.prompt = Null \/ IsTree(placed.prompt)
=============================================================================
