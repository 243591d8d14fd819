-------------------------------- MODULE Expr --------------------------------
(***************************************************************************)
(* The dependency expressions of adk/config (expr.c): their values, the    *)
(* rewriting they go through when the menus have been read and the         *)
(* questions menu_finalize (menu.c) asks of them.                          *)
(*                                                                         *)
(* A pointer into a tree is a path, a sequence of "left" and "right".  The *)
(* functions that take two pointers into trees walk the operands of one    *)
(* operator in pairs and change both in place; they are folds over the     *)
(* pairs of paths, in the order of the recursion.                          *)
(***************************************************************************)
EXTENDS Tree, Sequences, SequencesExt

-----------------------------------------------------------------------------
(* Parts of trees. *)

IsBinary(e) == e.type \in {"AND", "OR"}
IsComp(e) == e.type \in {"EQUAL", "UNEQUAL"}

\* The bug of not expecting an absent condition.
AllocAndAlways(e1, e2) == expr_alloc_two("AND", e1, e2)

expr_alloc_and(e1, e2) ==
  IF e1 = Null THEN e2
  ELSE IF e2 = Null THEN e1 ELSE expr_alloc_two("AND", e1, e2)

expr_is_yes(e) == e \in {Null, Yes}
expr_is_no(e) == e = No

Under(side, paths) == [i \in DOMAIN paths |-> <<side>> \o paths[i]]

\* The operands of a chain of one operator, as paths, from left to right.
RECURSIVE Operands(_, _)
Operands(t, e) ==
  IF e.type # t THEN << <<>> >>
  ELSE Under("left", Operands(t, e.left)) \o Under("right", Operands(t, e.right))

\* The same walk, which also visits every node of the chain after its parts.
RECURSIVE Visits(_, _)
Visits(t, e) ==
  IF e.type # t THEN << <<>> >>
  ELSE Under("left", Visits(t, e.left)) \o Under("right", Visits(t, e.right))
         \o << <<>> >>

RECURSIVE At(_, _)
At(e, p) == IF p = <<>> THEN e ELSE At(e[Head(p)], Tail(p))

RECURSIVE Put(_, _, _)
Put(e, p, x) ==
  IF p = <<>> THEN x ELSE [e EXCEPT ![Head(p)] = Put(@, Tail(p), x)]

\* All pairs <<s[i], t[j]>>, the second varying fastest.
Pairs(s, t) == [k \in 1 .. Len(s) * Len(t) |->
                  <<s[(k - 1) \div Len(t) + 1], t[((k - 1) % Len(t)) + 1]>>]

Neutral(t) == IF t = "AND" THEN Yes ELSE No     \* of the operator t
Absorbing(t) == IF t = "AND" THEN No ELSE Yes

-----------------------------------------------------------------------------
(* expr_calc_value, with the symbols' values given by a: no = 0, mod = 1,  *)
(* yes = 2.  Comparisons compare sym_get_string_value, in which a mod is   *)
(* shown as n while modules are off.                                       *)

tri(s, a) == IF s \in Symbols THEN a[s] ELSE [n |-> 0, m |-> 1, y |-> 2][s]

\* The symbols whose string is y, m or n.
Tristates == {s \in Symbols : TypeOf[s] \in {"BOOLEAN", "TRISTATE"}}

\* The string of a mod is that of n while modules are off.
sym_get_string_value(s, a) ==
  tri(IF s \in Tristates /\ a[s] = 1 /\ a[modules_sym] = 0 THEN "n" ELSE s, a)

Compared(e, a) ==
  IF (sym_get_string_value(e.sym, a) = sym_get_string_value(e.val, a)) = (e.type = "EQUAL")
  THEN 2 ELSE 0

\* The value of e; part gives those of its operands.
Combined(e, part, a) ==
  CASE e.type = "NULL" -> 2
    [] e.type = "SYMBOL" -> tri(e.sym, a)
    [] e.type = "AND" -> Lower(part["left"], part["right"])
    [] e.type = "OR" -> Higher(part["left"], part["right"])
    [] e.type = "NOT" -> 2 - part["left"]
    [] IsComp(e) -> Compared(e, a)

RECURSIVE expr_calc_value(_, _)
expr_calc_value(e, a) ==
  Combined(e, [side \in {"left", "right"} \cap DOMAIN e |-> expr_calc_value(e[side], a)], a)

-----------------------------------------------------------------------------
(* Rewriting one tree. *)

RECURSIVE menu_check_dep(_)
menu_check_dep(e) ==
  CASE e.type = "NOT" -> [e EXCEPT !.left = menu_check_dep(@)]
    [] IsBinary(e) -> [e EXCEPT !.left = menu_check_dep(@),
                                !.right = menu_check_dep(@)]
    [] e = expr_alloc_symbol("m") ->
         expr_alloc_and(e, expr_alloc_symbol(modules_sym))
    [] OTHER -> e

\* Constant operands are absorbed or dropped, from the leaves up.
RECURSIVE expr_eliminate_yn(_)
expr_eliminate_yn(e) ==
  IF ~IsBinary(e) THEN e
  ELSE LET left == expr_eliminate_yn(e.left)
           right == expr_eliminate_yn(e.right)
       IN IF Absorbing(e.type) \in {left, right} THEN Absorbing(e.type)
          ELSE IF left = Neutral(e.type) THEN right
          ELSE IF right = Neutral(e.type) THEN left
          ELSE expr_alloc_two(e.type, left, right)

\* The bug of taking every comparison for one with n.
RECURSIVE TransBoolAny(_)
TransBoolAny(e) ==
  CASE IsBinary(e) -> [e EXCEPT !.left = TransBoolAny(@), !.right = TransBoolAny(@)]
    [] e.type = "UNEQUAL" /\ TypeOf[e.sym] = "TRISTATE" -> expr_alloc_symbol(e.sym)
    [] OTHER -> e

RECURSIVE expr_trans_bool(_)
expr_trans_bool(e) ==
  CASE IsBinary(e) -> [e EXCEPT !.left = expr_trans_bool(@),
                                !.right = expr_trans_bool(@)]
    [] e.type = "NOT" -> [e EXCEPT !.left = expr_trans_bool(@)]
    [] /\ e.type = "UNEQUAL" /\ e.val = "n"
       /\ e.sym \in Symbols /\ TypeOf[e.sym] = "TRISTATE" ->
         expr_alloc_symbol(e.sym)
    [] OTHER -> e

\* A comparison of a boolean symbol with a constant becomes the symbol, its
\* negation or a constant.
BoolComp(e) ==
  LET plain == expr_alloc_symbol(e.sym)
      equal == e.type = "EQUAL"
  IN CASE e.val = "n" -> IF equal THEN expr_alloc_one(plain) ELSE plain
       [] e.val = "m" -> IF equal THEN No ELSE Yes
       [] e.val = "y" -> IF equal THEN plain ELSE expr_alloc_one(plain)
       [] OTHER -> e

\* The bug of negating the operands and keeping the operator.
FlipComparison(t) == CASE t = "EQUAL" -> "UNEQUAL" [] t = "UNEQUAL" -> "EQUAL"
                       [] OTHER -> t

Flip(t) == CASE t = "AND" -> "OR" [] t = "OR" -> "AND"
             [] t = "EQUAL" -> "UNEQUAL" [] t = "UNEQUAL" -> "EQUAL"

\* The bug of leaving the operands of a negated chain for later.
NegatedLater(x) == expr_alloc_one(x)

RECURSIVE expr_transform(_)

Negated(x) == expr_transform(expr_alloc_one(x))

expr_transform(e) ==
  LET below == expr_transform(e.left)
      inverse == CASE below.sym = "y" -> No [] below.sym = "n" -> Yes
                   [] below.sym = "m" -> below
                   [] OTHER -> expr_alloc_one(below)
  IN CASE e.type \in {"NULL", "SYMBOL"} -> e
       [] IsComp(e) -> IF e.sym \in Symbols /\ TypeOf[e.sym] = "BOOLEAN"
                       THEN BoolComp(e) ELSE e
       [] IsBinary(e) ->
            expr_alloc_two(e.type, below, expr_transform(e.right))
       [] e.type = "NOT" ->
            CASE below.type = "NOT" -> expr_transform(below.left)
              [] IsComp(below) -> [below EXCEPT !.type = Flip(@)]
              [] IsBinary(below) ->
                   expr_alloc_two(Flip(below.type), Negated(below.left),
                                  Negated(below.right))
              [] OTHER -> inverse

-----------------------------------------------------------------------------
(* Comparing two trees: both are consumed operand by operand. *)

RECURSIVE expr_eq(_, _)

\* Equal operands cancel, except constants.
Cancels(x, y) == ~(x = y /\ x \in {Yes, No}) /\ expr_eq(x, y)

__expr_eliminate_eq(t, r) ==
  FoldLeft(LAMBDA acc, p :
             IF Cancels(At(acc.left, p[1]), At(acc.right, p[2]))
             THEN [left |-> Put(acc.left, p[1], Neutral(t)),
                   right |-> Put(acc.right, p[2], Neutral(t))]
             ELSE acc,
           r, Pairs(Operands(t, r.left), Operands(t, r.right)))

\* First the operands of e1's operator, then those of e2's if it is another.
CancelLeft(r) ==
  IF IsBinary(r.left) THEN __expr_eliminate_eq(r.left.type, r) ELSE r

CancelRight(r) ==
  IF r.left.type # r.right.type /\ IsBinary(r.right)
  THEN __expr_eliminate_eq(r.right.type, r) ELSE r

WithoutConstants(r) == [side \in {"left", "right"} |-> expr_eliminate_yn(r[side])]

expr_eliminate_eq(r) ==
  IF Null \in {r.left, r.right} THEN r
  ELSE WithoutConstants(CancelRight(CancelLeft(r)))

\* Nothing is left but one constant, the same on both sides.
SameSymbol(r) == r.left.type = "SYMBOL" /\ r.left = r.right

expr_eq(e1, e2) ==
  /\ e1.type = e2.type
  /\ CASE e1.type \in {"SYMBOL", "EQUAL", "UNEQUAL"} -> e1 = e2
       [] e1.type = "NOT" -> expr_eq(e1.left, e2.left)
       [] IsBinary(e1) -> SameSymbol(expr_eliminate_eq([left |-> e1, right |-> e2]))

\* Equal operands move from both trees into r.common.
Extracted(t, r, p, x) ==
  [common |-> IF r.common = Null THEN x ELSE expr_alloc_two(t, r.common, x),
   left |-> Put(r.left, p[1], Neutral(t)),
   right |-> Put(r.right, p[2], Neutral(t))]

expr_extract_eq(t, r) ==
  FoldLeft(LAMBDA acc, p :
             IF expr_eq(At(acc.left, p[1]), At(acc.right, p[2]))
             THEN Extracted(t, acc, p, At(acc.left, p[1])) ELSE acc,
           r, Pairs(Operands(t, r.left), Operands(t, r.right)))

\* expr_extract_eq_and, expr_extract_eq_or: what remains of the first tree.
Rest(r) == IF r.common = Null THEN r.left ELSE expr_eliminate_yn(r.left)

ExtractedRest(t, e1, e2) ==
  Rest(expr_extract_eq(t, [common |-> Null, left |-> e1, right |-> e2]))

-----------------------------------------------------------------------------
(* expr_eliminate_dups: pairs of operands of one operator are joined.      *)

\* The symbol a simple operand is about: a symbol, a comparison, or the
\* negation of a symbol.
SymOf(e) == CASE e.type = "SYMBOL" \/ IsComp(e) -> e.sym
              [] e.type = "NOT" /\ e.left.type = "SYMBOL" -> e.left.sym
              [] OTHER -> "none"

\* Only booleans and tristates are joined.
Joinable(e1, e2) ==
  LET s == SymOf(e1)
  IN s = SymOf(e2) /\ s \in Symbols /\ TypeOf[s] \in {"BOOLEAN", "TRISTATE"}

\* The two operands are x and y, in one order or the other.
Both(e1, e2, x, y) == {e1, e2} = {x, y}

expr_join_or(e1, e2) ==
  LET s == SymOf(e1)
      is(c) == expr_alloc_comp("EQUAL", s, c)
      plain == expr_alloc_symbol(s)
  IN IF expr_eq(e1, e2) THEN e1
     ELSE IF ~Joinable(e1, e2) THEN Null
     ELSE IF TypeOf[s] = "TRISTATE"
     THEN CASE Both(e1, e2, is("y"), is("m")) -> expr_alloc_comp("UNEQUAL", s, "n")
            [] Both(e1, e2, is("y"), is("n")) -> expr_alloc_comp("UNEQUAL", s, "m")
            [] Both(e1, e2, is("m"), is("n")) -> expr_alloc_comp("UNEQUAL", s, "y")
            [] OTHER -> Null
     ELSE IF Both(e1, e2, plain, expr_alloc_one(plain)) THEN Yes ELSE Null

\* (a = b) && (a # c), b and c constants.
EqualAndUnequal(eq, ne) == IF eq.val # ne.val THEN eq ELSE No

expr_join_and(e1, e2) ==
  LET s == SymOf(e1)
      is(c) == expr_alloc_comp("EQUAL", s, c)
      isnt(c) == expr_alloc_comp("UNEQUAL", s, c)
      plain == expr_alloc_symbol(s)
      consts == {e1.val, e2.val} \subseteq Consts
  IN IF expr_eq(e1, e2) THEN e1
     ELSE IF ~Joinable(e1, e2) THEN Null
     ELSE CASE Both(e1, e2, plain, is("y")) -> is("y")
            [] Both(e1, e2, plain, isnt("n")) -> plain
            [] Both(e1, e2, plain, isnt("m")) -> is("y")
            [] OTHER ->
               IF TypeOf[s] # "TRISTATE" THEN Null
               ELSE CASE e1.type = "EQUAL" /\ e2.type = "UNEQUAL" /\ consts ->
                           EqualAndUnequal(e1, e2)
                      [] e1.type = "UNEQUAL" /\ e2.type = "EQUAL" /\ consts ->
                           EqualAndUnequal(e2, e1)
                      [] Both(e1, e2, isnt("y"), isnt("n")) -> is("m")
                      [] Both(e1, e2, isnt("y"), isnt("m")) -> is("n")
                      [] Both(e1, e2, isnt("m"), isnt("n")) -> is("y")
                      [] OTHER -> Null

Join(t, e1, e2) ==
  IF t = "OR" THEN expr_join_or(e1, e2) ELSE expr_join_and(e1, e2)

\* acc is a tree and trans_count.  Operands that are chains of the other
\* operator are treated first; two operands that can be joined become the
\* neutral element and the result.
Replaced(a, p, r) == [e |-> Put(a.e, p, r.e), n |-> r.n]

Joined(t, a, pair, x) ==
  IF x = Null THEN a
  ELSE [e |-> Put(Put(a.e, pair[1], Neutral(t)), pair[2], x), n |-> a.n + 1]

JoinPair(t, a, pair) ==
  Joined(t, a, pair, Join(t, At(a.e, pair[1]), At(a.e, pair[2])))

RECURSIVE expr_eliminate_dups1(_, _)
expr_eliminate_dups1(t, acc) ==
  LET inner(a, p, x) ==
        IF IsBinary(x)
        THEN Replaced(a, p, expr_eliminate_dups1(x.type, [a EXCEPT !.e = x])) ELSE a
  IN FoldLeft(LAMBDA a, pair :
                IF pair[1] = pair[2] THEN a
                ELSE JoinPair(t, inner(a, pair[1], At(a.e, pair[1])), pair),
              acc, Pairs(Operands(t, acc.e), Operands(t, acc.e)))

\* An operand is false beside, or true next to, the negation of all its
\* parts: it becomes the absorbing element of t.  The second pointer also
\* visits the nodes of the chain itself (the early return is missing).
Absorbed(t, a, pair) ==
  IF ExtractedRest(t, expr_transform(expr_alloc_one(At(a.e, pair[1]))),
                   At(a.e, pair[2])) # Neutral(t)
  THEN a
  ELSE [e |-> Put(a.e, pair[1], Absorbing(t)), n |-> a.n + 1]

RECURSIVE expr_eliminate_dups2(_, _)
expr_eliminate_dups2(t, acc) ==
  LET step(a, pair, x) ==
        IF pair[1] = pair[2] \/ ~IsBinary(x) THEN a
        ELSE Absorbed(t, Replaced(a, pair[1],
               expr_eliminate_dups2(x.type, [a EXCEPT !.e = x])), pair)
  IN FoldLeft(LAMBDA a, pair : step(a, pair, At(a.e, pair[1])),
              acc, Pairs(Operands(t, acc.e), Visits(t, acc.e)))

\* Again until nothing was joined.
RECURSIVE expr_eliminate_dups(_)
expr_eliminate_dups(e) ==
  LET again(r) == IF r.n = 0 THEN r.e ELSE expr_eliminate_dups(expr_eliminate_yn(r.e))
  IN IF ~IsBinary(e) THEN e
     ELSE again(expr_eliminate_dups2(e.type,
            expr_eliminate_dups1(e.type, [e |-> e, n |-> 0])))

-----------------------------------------------------------------------------
(* The questions menu_finalize asks of two neighbouring entries. *)

\* e compared with the constant c, as a tree of comparisons; t is "EQUAL" or
\* "UNEQUAL".  Only c = y and c = n occur.
RECURSIVE expr_trans_compare(_, _, _)
expr_trans_compare(e, t, c) ==
  LET wrap(x) == IF t = "UNEQUAL" THEN expr_alloc_one(x) ELSE x
      part(side) == expr_trans_compare(e[side], "EQUAL", c)
  IN CASE e.type = "NULL" -> wrap(expr_alloc_symbol(c))
       [] IsBinary(e) -> wrap(expr_alloc_two(IF c = "y" THEN e.type ELSE Flip(e.type),
                                             part("left"), part("right")))
       [] e.type = "NOT" -> expr_trans_compare(e.left, Flip(t), c)
       [] IsComp(e) -> IF (t = "EQUAL") = (c = "y") THEN e ELSE expr_alloc_one(e)
       [] e.type = "SYMBOL" -> expr_alloc_comp(t, e.sym, c)

RECURSIVE expr_contains_symbol(_, _)
expr_contains_symbol(e, s) ==
  CASE e.type = "NULL" -> FALSE
    [] IsBinary(e) -> \/ expr_contains_symbol(e.left, s)
                      \/ expr_contains_symbol(e.right, s)
    [] e.type = "NOT" -> expr_contains_symbol(e.left, s)
    [] e.type = "SYMBOL" -> e.sym = s
    [] IsComp(e) -> s \in {e.sym, e.val}

\* The bug of treating an alternative as a requirement.
RECURSIVE DependsOnEither(_, _)
DependsOnEither(e, s) ==
  CASE IsBinary(e) -> DependsOnEither(e.left, s) \/ DependsOnEither(e.right, s)
    [] OTHER -> e = expr_alloc_symbol(s)

RECURSIVE expr_depends_symbol(_, _)
expr_depends_symbol(e, s) ==
  CASE e.type = "AND" -> \/ expr_depends_symbol(e.left, s)
                         \/ expr_depends_symbol(e.right, s)
    [] e.type = "SYMBOL" -> e.sym = s
    [] e.type = "EQUAL" -> e.sym = s /\ e.val \in {"y", "m"}
    [] e.type = "UNEQUAL" -> e.sym = s /\ e.val = "n"
    [] OTHER -> FALSE

NotNo(e) == expr_eliminate_dups(expr_transform(expr_trans_compare(e, "UNEQUAL", "n")))

\* Every conjunct of the prompt condition cancels against one of dep.
Covered(prompt, dep) ==
  expr_is_yes(expr_eliminate_eq([left |-> NotNo(dep), right |-> NotNo(prompt)]).right)

\* The entry with condition dep goes below the entry of symbol s before it.
Below(s, prompt, dep) ==
  /\ expr_contains_symbol(dep, s)
  /\ expr_depends_symbol(dep, s) \/ Covered(prompt, dep)
=============================================================================
