--------------------------- MODULE Kconfig_proofs ---------------------------
(***************************************************************************)
(* Proofs about Kconfig, for all menus, files, numbers and bounds.         *)
(***************************************************************************)
EXTENDS Kconfig, SeqLemmas

-----------------------------------------------------------------------------
(* The tables that occur.                                                  *)

\* Values that fit the types of the symbols.
Typed(a) ==
  \A s \in Symbols :
    /\ TypeOf[s] = "BOOLEAN" => a[s] \in {0, 2}
    /\ TypeOf[s] = "TRISTATE" => a[s] \in Tri
    /\ TypeOf[s] = "INT" => a[s] \in Numbers
    /\ TypeOf[s] = "UNKNOWN" => a[s] = Number[s]

Selections == UNION {[DOMAIN ValDep[s] -> Tri] : s \in Symbols}

\* The type of the symbol table, and what ties its fields together.
Shape ==
  [has : SUBSET Symbols, def : [Symbols -> Int], defsym : [ChoiceSyms -> Symbols \cup {"none"}],
   valid : SUBSET Symbols, write : SUBSET Symbols,
   pick : [ChoiceSyms -> Symbols \cup {"none"}], curr : [Symbols -> Int],
   vis : [Symbols -> Tri], rev : [Symbols -> Tri], sel : [Symbols -> Selections]]

Proper(t) ==
  /\ Typed(t.curr)
  /\ \A s \in Symbols :
       /\ t.sel[s] \in [DOMAIN ValDep[s] -> Tri]
       /\ TypeOf[s] = "INT" => t.def[s] \in Numbers
       /\ IsTri(s) => t.def[s] \in Tri
       /\ TypeOf[s] = "UNKNOWN" => s \notin t.valid \cup t.write
  /\ \A c \in ChoiceSyms : {t.defsym[c], t.pick[c]} \subseteq Members(c) \cup {"none"}

Table == {t \in Shape : Proper(t)}

\* An assignment of values that fit the types is one of Assignments.
LEMMA TypedAssignment ==
  ASSUME NEW a \in [Symbols -> Int], Typed(a)
  PROVE  a \in Assignments
<1> DEFINE b == [s \in OfType("BOOLEAN") |-> a[s]]
           t == [s \in OfType("TRISTATE") |-> a[s]]
           n == [s \in OfType("INT") |-> a[s]]
           A(x, y, z) == [s \in Symbols |->
             CASE TypeOf[s] = "BOOLEAN" -> x[s] [] TypeOf[s] = "TRISTATE" -> y[s]
               [] TypeOf[s] = "INT" -> z[s] [] OTHER -> Number[s]]
<1>1. b \in [OfType("BOOLEAN") -> {0, 2}]
  BY DEF OfType, Typed
<1>2. t \in [OfType("TRISTATE") -> Tri]
  BY DEF OfType, Typed
<1>3. n \in [OfType("INT") -> Numbers]
  BY DEF OfType, Typed
<1>4. A(b, t, n) = a
  <2>1. ASSUME NEW s \in Symbols
        PROVE  A(b, t, n)[s] = a[s]
    BY <2>1, ExprAssumption DEF OfType, Typed
  <2> QED
    BY <2>1
<1>5. \E x \in [OfType("BOOLEAN") -> {0, 2}], y \in [OfType("TRISTATE") -> Tri],
         z \in [OfType("INT") -> Numbers] : a = A(x, y, z)
  <2> HIDE DEF b, t, n, A
  <2> QED
    BY <1>1, <1>2, <1>3, <1>4
<1> QED
  BY <1>5 DEF Assignments

\* The values in a table fit the types of their symbols.
LEMMA TableAssignment == \A t \in Table : t.curr \in Assignments /\ t.curr \in [Symbols -> Int]
  BY TypedAssignment DEF Table, Shape, Proper

\* The conditions of a symbol have values.
LEMMA ConditionValue ==
  ASSUME NEW s \in Symbols, NEW e \in {Prompt[s]} \cup Conditions(s), NEW t \in Table
  PROVE  calc_value(e, t.curr) \in Tri
BY TableAssignment, ConditionAssumption

\* The value of a condition depends on what it mentions.
LEMMA ConditionLocal ==
  ASSUME NEW s \in Symbols, NEW e \in {Prompt[s]} \cup Conditions(s),
         NEW a \in Assignments, NEW b \in Assignments,
         \A r \in Symbols : r \in Mentions(e) => a[r] = b[r]
  PROVE  calc_value(e, a) = calc_value(e, b)
<1> DEFINE only(x) == [r \in Symbols |-> IF r \in Mentions(e) THEN x[r] ELSE Blank[r]]
<1>1. only(a) = only(b)
  OBVIOUS
<1>2. calc_value(e, a) = calc_value(e, only(a)) /\ calc_value(e, b) = calc_value(e, only(b))
  BY ConditionAssumption
<1> QED
  BY <1>1, <1>2

-----------------------------------------------------------------------------
(* Order.                                                                  *)

\* Order has every symbol once, and begins with modules_sym.
LEMMA OrderFacts ==
  /\ Len(Order) \in Nat /\ DOMAIN Order = 1 .. Len(Order) /\ Len(Order) >= 1
  /\ \A i \in DOMAIN Order : Order[i] \in Symbols
  /\ \A s \in Symbols : \E i \in DOMAIN Order : Order[i] = s
  /\ \A i, j \in DOMAIN Order : Order[i] = Order[j] => i = j
  /\ Order[1] = modules_sym /\ modules_sym \in Symbols /\ 1 \in DOMAIN Order
<1>1. /\ Order \in Seq(Symbols) /\ Symbols = ToSet(Order) /\ Head(Order) = modules_sym
      /\ \A i, j \in DOMAIN Order : Order[i] = Order[j] => i = j
  BY OrderAssumption
<1>2. modules_sym \in Symbols
  BY ExprAssumption
<1>3. \A s \in Symbols : \E i \in DOMAIN Order : Order[i] = s
  BY <1>1 DEF ToSet
<1>4. Len(Order) \in Nat /\ DOMAIN Order = 1 .. Len(Order)
  BY <1>1
<1>5. Len(Order) >= 1 /\ 1 \in DOMAIN Order
  BY <1>2, <1>3, <1>4
<1>6. Order # <<>>
  BY <1>5, <1>1
<1> QED
  BY <1>1, <1>2, <1>3, <1>4, <1>5, <1>6

\* What is earlier than the i-th symbol are the symbols before it.
LEMMA EarlierFacts ==
  /\ \A i \in DOMAIN Order : \A r \in Earlier(Order[i]) :
       r \in Symbols /\ \E j \in DOMAIN Order : j < i /\ Order[j] = r
  /\ \A s \in Symbols : s \notin Earlier(s)
  /\ \A s \in Symbols : \A r \in Earlier(s) : Earlier(r) \subseteq Earlier(s)
  /\ \A s \in Symbols : s # modules_sym => modules_sym \in Earlier(s)
<1>1. ASSUME NEW i \in DOMAIN Order, NEW r \in Earlier(Order[i])
      PROVE  r \in Symbols /\ \E j \in DOMAIN Order : j < i /\ Order[j] = r
  BY OrderFacts DEF Earlier
<1>2. ASSUME NEW s \in Symbols, s \in Earlier(s) PROVE FALSE
  BY <1>2, OrderFacts DEF Earlier
<1>3. ASSUME NEW s \in Symbols, NEW r \in Earlier(s), NEW q \in Earlier(r)
      PROVE  q \in Earlier(s)
  BY OrderFacts DEF Earlier
<1>4. ASSUME NEW s \in Symbols, s # modules_sym
      PROVE  modules_sym \in Earlier(s)
  <2>1. PICK i \in DOMAIN Order : Order[i] = s
    BY OrderFacts
  <2>2. i # 1 /\ 1 < i
    BY <2>1, <1>4, OrderFacts
  <2> QED
    BY <2>1, <2>2, OrderFacts DEF Earlier
<1> QED
  BY <1>1, <1>2, <1>3, <1>4

\* A member comes after its choice, and neither is the other.
LEMMA MemberFacts ==
  /\ \A s \in Symbols : IsMember(s) =>
       /\ ChoiceOf[s] \in ChoiceSyms /\ ChoiceOf[s] \in Earlier(s) /\ s \in Members(ChoiceOf[s])
       /\ TypeOf[s] = "BOOLEAN" /\ s \notin ChoiceSyms
  /\ \A c \in ChoiceSyms :
       /\ c \in Symbols /\ TypeOf[c] = "BOOLEAN" /\ ~IsMember(c) /\ c # modules_sym
       /\ \A m \in Members(c) : m \in Symbols /\ IsMember(m) /\ ChoiceOf[m] = c /\ m # c
  /\ ~IsMember(modules_sym)
<1>1. ASSUME NEW s \in Symbols, IsMember(s)
      PROVE  ChoiceOf[s] \in Symbols /\ s \in Members(ChoiceOf[s]) /\ ChoiceOf[s] \in Earlier(s)
             /\ ChoiceOf[s] \in ChoiceSyms
  <2>1. ChoiceOf[s] \in Symbols
    BY <1>1, ChoiceAssumption DEF IsMember
  <2>2. s \in Members(ChoiceOf[s])
    BY DEF Members
  <2>3. ChoiceOf[s] \in Earlier(s)
    BY <1>1, OrderAssumption
  <2> QED
    BY <2>1, <2>2, <2>3 DEF ChoiceSyms, IsChoice
<1>2. ASSUME NEW c \in ChoiceSyms
      PROVE  /\ c \in Symbols /\ TypeOf[c] = "BOOLEAN" /\ ~IsMember(c) /\ c # modules_sym
             /\ \A m \in Members(c) : m \in Symbols /\ IsMember(m) /\ ChoiceOf[m] = c /\ m # c
  <2>1. c \in Symbols /\ TypeOf[c] = "BOOLEAN" /\ ~IsMember(c) /\ c # modules_sym /\ c # "none"
    BY ChoiceAssumption, OrderAssumption DEF ChoiceSyms
  <2>2. \A m \in Members(c) : m \in Symbols /\ ChoiceOf[m] = c
    BY DEF Members
  <2> QED
    BY <2>1, <2>2 DEF IsMember
<1>3. \A s \in Symbols : IsMember(s) => TypeOf[s] = "BOOLEAN"
  BY ChoiceAssumption
<1>4. ~IsMember(modules_sym)
  <2> SUFFICES ASSUME IsMember(modules_sym) PROVE FALSE
    OBVIOUS
  <2>1. ChoiceOf[modules_sym] \in Earlier(modules_sym)
    BY <1>1, ExprAssumption
  <2>2. PICK j \in DOMAIN Order : j < 1
    BY <2>1, OrderFacts, EarlierFacts
  <2> QED
    BY <2>2, OrderFacts
<1> QED
  BY <1>1, <1>2, <1>3, <1>4

-----------------------------------------------------------------------------
(* Largest, least and first elements.                                      *)

\* The largest of some tristate values exists, although Max is a CHOOSE.
LEMMA MaxTri ==
  ASSUME NEW S, S \subseteq Tri, S # {}
  PROVE  Max(S) \in S /\ \A y \in S : y <= Max(S)
<1>1. \E x \in S : \A y \in S : x >= y
  <2>1. S \subseteq {0, 1, 2}
    BY DEF Tri
  <2>2. CASE 2 \in S
    BY <2>1, <2>2
  <2>3. CASE 2 \notin S /\ 1 \in S
    BY <2>1, <2>3
  <2>4. CASE S = {0}
    BY <2>4
  <2> QED
    BY <2>1, <2>2, <2>3, <2>4
<1>2. Max(S) \in S /\ \A y \in S : Max(S) >= y
  BY <1>1 DEF Max
<1> QED
  BY <1>2, S \subseteq 0 .. 2 DEF Tri

\* So does the least of some indices.
LEMMA MinNat ==
  ASSUME NEW S, S \subseteq Nat, S # {}
  PROVE  Min(S) \in S /\ \A y \in S : Min(S) <= y
<1>1. \E x \in S : \A y \in S : x <= y
  BY NatLeast
<1> QED
  BY <1>1 DEF Min

\* Earliest gives an element of the set, or "none".
LEMMA EarliestFact ==
  ASSUME NEW S, S \subseteq Symbols
  PROVE  IF S = {} THEN Earliest(S) = "none" ELSE Earliest(S) \in S
<1> DEFINE I == {i \in DOMAIN Order : Order[i] \in S}
<1>1. CASE S # {}
  <2>1. I # {} /\ I \subseteq Nat
    BY <1>1, OrderFacts
  <2>2. Min(I) \in I
    BY <2>1, MinNat
  <2> QED
    BY <1>1, <2>2 DEF Earliest
<1> QED
  BY <1>1 DEF Earliest

-----------------------------------------------------------------------------
(* Conditions.                                                             *)

\* sym_get_type(s) = S_BOOLEAN for what is no member; a promoted condition; all conditions of s.
Bool(s, a) == TypeOf[s] = "BOOLEAN" \/ (TypeOf[s] = "TRISTATE" /\ a[modules_sym] = 0)
Val(s, e, a) == Promote(calc_value(e, a), Bool(s, a))
Exprs(s) == {Prompt[s]} \cup Conditions(s)

\* What the conditions of a symbol depend on.
Before(s) == IF IsMember(s) THEN Earlier(ChoiceOf[s]) \cup {ChoiceOf[s]} ELSE Earlier(s)

\* What the conditions of a symbol mention comes before it.
LEMMA BeforeEarlier == \A s \in Symbols : Before(s) \subseteq Earlier(s)
BY MemberFacts, EarlierFacts DEF Before

\* sym_get_type of what is no member depends on modules_sym only.
LEMMA GetType ==
  ASSUME NEW t, NEW s \in Symbols
  PROVE  (sym_get_type(s, t) = "BOOLEAN") <=> Bool(s, t.curr)
BY MemberFacts, ExprAssumption DEF sym_get_type, Bool

\* Promote gives a boolean symbol no m, keeps n, and never lowers a value.
LEMMA PromoteTri ==
  ASSUME NEW v \in Tri, NEW b \in BOOLEAN
  PROVE  /\ Promote(v, b) \in Tri /\ (b => Promote(v, b) \in {0, 2}) /\ (~b => Promote(v, b) = v)
         /\ v <= Promote(v, b) /\ (Promote(v, b) = 0 <=> v = 0) /\ (v # 1 => Promote(v, b) = v)
BY DEF Promote, Tri

\* The visibility of a boolean is not m; a prompt is hidden when its condition is n.
LEMMA VisibleFacts ==
  ASSUME NEW s \in Symbols, NEW a \in Assignments
  PROVE  /\ Visible(s, a) \in Tri /\ (Bool(s, a) => Visible(s, a) \in {0, 2})
         /\ Visible(s, a) = 0 <=> calc_value(Prompt[s], a) = 0
<1>1. calc_value(Prompt[s], a) \in Tri
  BY ConditionAssumption
<1> DEFINE b == TypeOf[s] # "TRISTATE" \/ a[modules_sym] = 0
<1>2. b \in BOOLEAN /\ (Bool(s, a) => b) /\ Visible(s, a) = Promote(calc_value(Prompt[s], a), b)
  BY DEF Bool, Visible
<1> HIDE DEF b
<1> QED
  BY <1>1, <1>2, PromoteTri

\* A promoted condition is n exactly when the condition is.
LEMMA ValFacts ==
  ASSUME NEW s \in Symbols, NEW a \in Assignments, NEW e \in Exprs(s)
  PROVE  Val(s, e, a) \in Tri /\ calc_value(e, a) \in Tri /\ (Val(s, e, a) = 0 <=> calc_value(e, a) = 0)
<1>1. calc_value(e, a) \in Tri
  BY ConditionAssumption DEF Exprs
<1>2. Bool(s, a) \in BOOLEAN
  BY DEF Bool
<1> QED
  BY <1>1, <1>2, PromoteTri DEF Val

\* Which conditions a symbol has.
LEMMA ExprsFacts ==
  ASSUME NEW s \in Symbols
  PROVE  /\ Prompt[s] \in Exprs(s) /\ RevDep[s] \in Exprs(s)
         /\ \A i \in DOMAIN Defaults[s] : Defaults[s][i].cond \in Exprs(s)
         /\ \A i \in DOMAIN ValDep[s] : ValDep[s][i].cond \in Exprs(s)
         /\ IsTri(s) => \A i \in DOMAIN ValDep[s] : ValDep[s][i].val \in Exprs(s)
         /\ IsTri(s) /\ ~IsChoice(s) => \A i \in DOMAIN Defaults[s] : Defaults[s][i].val \in Exprs(s)
         /\ DOMAIN ValDep[s] \subseteq Nat /\ DOMAIN Defaults[s] \subseteq Nat
<1>1. ASSUME NEW q \in {Defaults[s], ValDep[s]}
      PROVE  DOMAIN q \subseteq Nat
  <2>1. Len(q) \in Nat /\ DOMAIN q = 1 .. Len(q)
    BY ConditionAssumption
  <2> DEFINE n == Len(q)
  <2> HIDE DEF n
  <2>2. n \in Nat /\ DOMAIN q = 1 .. n
    BY <2>1 DEF n
  <2> QED
    BY <2>2
<1>2. \A i \in DOMAIN Defaults[s] : Defaults[s][i].cond \in Exprs(s)
  BY DEF Exprs, Conditions
<1>3. \A i \in DOMAIN ValDep[s] : ValDep[s][i].cond \in Exprs(s)
  BY DEF Exprs, Conditions
<1>4. IsTri(s) => \A i \in DOMAIN ValDep[s] : ValDep[s][i].val \in Exprs(s)
  BY DEF Exprs, Conditions
<1>5. IsTri(s) /\ ~IsChoice(s) => \A i \in DOMAIN Defaults[s] : Defaults[s][i].val \in Exprs(s)
  BY DEF Exprs, Conditions
<1>6. Prompt[s] \in Exprs(s) /\ RevDep[s] \in Exprs(s)
  BY DEF Exprs, Conditions
<1> QED
  BY <1>1, <1>2, <1>3, <1>4, <1>5, <1>6

\* A condition is the same for two assignments that agree on what it mentions.
LEMMA Local ==
  ASSUME NEW s \in Symbols, NEW a \in Assignments, NEW b \in Assignments,
         \A r \in Symbols : r \in Before(s) => a[r] = b[r]
  PROVE  /\ \A e \in Exprs(s) : calc_value(e, a) = calc_value(e, b) /\ Val(s, e, a) = Val(s, e, b)
         /\ Bool(s, a) <=> Bool(s, b)
         /\ Visible(s, a) = Visible(s, b)
<1>1. ASSUME NEW e \in Exprs(s)
      PROVE  Mentions(e) \subseteq Before(s)
  <2>1. CASE ~IsMember(s)
    BY <2>1, OrderAssumption DEF Before, Exprs
  <2>2. CASE IsMember(s)
    BY <2>2, OrderAssumption DEF Before, Exprs
  <2> QED
    BY <2>1, <2>2
<1>2. ASSUME NEW e \in Exprs(s)
      PROVE  calc_value(e, a) = calc_value(e, b)
  <2>1. \A r \in Symbols : r \in Mentions(e) => a[r] = b[r]
    BY <1>1
  <2> QED
    BY <2>1, ConditionLocal DEF Exprs
<1>3. TypeOf[s] # "BOOLEAN" => a[modules_sym] = b[modules_sym]
  <2> SUFFICES ASSUME TypeOf[s] # "BOOLEAN" PROVE modules_sym \in Before(s)
    BY ExprAssumption
  <2>1. s # modules_sym /\ ~IsMember(s)
    BY MemberFacts, ExprAssumption
  <2> QED
    BY <2>1, EarlierFacts DEF Before
<1>4. Bool(s, a) <=> Bool(s, b)
  BY <1>3 DEF Bool
<1>5. (TypeOf[s] # "TRISTATE" \/ a[modules_sym] = 0) <=> (TypeOf[s] # "TRISTATE" \/ b[modules_sym] = 0)
  BY <1>3
<1>6. calc_value(Prompt[s], a) = calc_value(Prompt[s], b)
  BY <1>2, ExprsFacts
<1>7. Visible(s, a) = Visible(s, b)
  BY <1>5, <1>6 DEF Visible, Promote
<1>8. ASSUME NEW e \in Exprs(s) PROVE Val(s, e, a) = Val(s, e, b)
  BY <1>2, <1>4 DEF Val, Promote
<1> QED
  BY <1>2, <1>4, <1>7, <1>8

-----------------------------------------------------------------------------
(* Calculation of visibilities.                                            *)

\* What a table consists of.
LEMMA TableFacts ==
  ASSUME NEW t \in Table
  PROVE  /\ t \in Shape /\ Proper(t)
         /\ t.curr \in Assignments /\ t.curr \in [Symbols -> Int]
         /\ t.vis \in [Symbols -> Tri] /\ t.rev \in [Symbols -> Tri]
         /\ t.sel \in [Symbols -> Selections] /\ t.def \in [Symbols -> Int]
         /\ \A s \in Symbols : t.sel[s] \in [DOMAIN ValDep[s] -> Tri]
BY TableAssignment DEF Table, Shape, Proper

\* What sym_calc_visibility gives a symbol, and that it leaves one alone.
SelOf(s, a) == [i \in DOMAIN ValDep[s] |-> Val(s, ValDep[s][i].cond, a)]
SeenAt(s, t, a) ==
  t.vis[s] = Visible(s, a) /\ t.rev[s] = Val(s, RevDep[s], a) /\ t.sel[s] = SelOf(s, a)

SameAt(s, t, u) == t.vis[s] = u.vis[s] /\ t.rev[s] = u.rev[s] /\ t.sel[s] = u.sel[s]

\* A table with other results of sym_calc_visibility.
LEMMA TableVisible ==
  ASSUME NEW t \in Table, NEW v \in [Symbols -> Tri], NEW r \in [Symbols -> Tri], NEW l,
         l \in [Symbols -> Selections], \A s \in Symbols : l[s] \in [DOMAIN ValDep[s] -> Tri]
  PROVE  [[t EXCEPT !.vis = v] EXCEPT !.rev = r, !.sel = l] \in Table
<1> DEFINE u == [[t EXCEPT !.vis = v] EXCEPT !.rev = r, !.sel = l]
<1>1. t \in Shape /\ Proper(t)
  BY TableFacts
<1>2. u \in Shape
  BY <1>1 DEF Shape
<1>3. /\ u.has = t.has /\ u.def = t.def /\ u.defsym = t.defsym /\ u.valid = t.valid
      /\ u.write = t.write /\ u.pick = t.pick /\ u.curr = t.curr /\ u.sel = l
  BY <1>1 DEF Shape
<1> HIDE DEF u
<1>4. Proper(u)
  BY <1>1, <1>3 DEF Proper
<1> QED
  BY <1>2, <1>4 DEF Table, u

\* sym_calc_visibility changes visibilities and selectors, of S only, to those the values give.
LEMMA VisibilityFacts ==
  ASSUME NEW S, NEW t \in Table, NEW u, u = sym_calc_visibility(S, t)
  PROVE  /\ u \in Table
         /\ u.has = t.has /\ u.def = t.def /\ u.defsym = t.defsym /\ u.valid = t.valid
         /\ u.write = t.write /\ u.pick = t.pick /\ u.curr = t.curr
         /\ \A s \in Symbols : IF s \in S THEN SeenAt(s, u, t.curr) ELSE SameAt(s, u, t)
<1> DEFINE v == [s \in Symbols |-> IF s \in S THEN Visible(s, t.curr) ELSE t.vis[s]]
           w == [t EXCEPT !.vis = v]
           value(s, e) == Promote(calc_value(e, w.curr), sym_get_type(s, w) = "BOOLEAN")
           r == [s \in Symbols |-> IF s \in S THEN Val(s, RevDep[s], t.curr) ELSE t.rev[s]]
           l == [s \in Symbols |-> IF s \in S
                  THEN [i \in DOMAIN ValDep[s] |-> Val(s, ValDep[s][i].cond, t.curr)] ELSE t.sel[s]]
           x == [w EXCEPT !.rev = r, !.sel = l]
<1>1. /\ t \in Shape /\ t.curr \in Assignments /\ t.vis \in [Symbols -> Tri]
      /\ t.rev \in [Symbols -> Tri] /\ t.sel \in [Symbols -> Selections]
      /\ \A s \in Symbols : t.sel[s] \in [DOMAIN ValDep[s] -> Tri]
  BY TableFacts
<1>2. w.curr = t.curr /\ w.rev = t.rev /\ w.sel = t.sel
  BY <1>1 DEF Shape
<1>3. \A s \in Symbols : \A e : value(s, e) = Val(s, e, t.curr)
  <2> SUFFICES ASSUME NEW s \in Symbols, NEW e PROVE value(s, e) = Val(s, e, t.curr)
    OBVIOUS
  <2>1. (sym_get_type(s, w) = "BOOLEAN") <=> Bool(s, t.curr)
    BY <1>2, GetType
  <2> QED
    BY <2>1, <1>2 DEF Val, Promote
<1>4. v \in [Symbols -> Tri]
  BY <1>1, VisibleFacts
<1>5. r \in [Symbols -> Tri]
  BY <1>1, ValFacts, ExprsFacts
<1>6. \A s \in Symbols : l[s] \in [DOMAIN ValDep[s] -> Tri]
  BY <1>1, ValFacts, ExprsFacts
<1>7. l \in [Symbols -> Selections]
  BY <1>6 DEF Selections
<1>8. u = x
  <2>1. u = Selectors(S, w)
    BY DEF sym_calc_visibility
  <2>2. Selectors(S, w) =
          [w EXCEPT
             !.rev = [s \in Symbols |-> IF s \in S THEN value(s, RevDep[s]) ELSE w.rev[s]],
             !.sel = [s \in Symbols |->
                        IF s \in S THEN [i \in DOMAIN ValDep[s] |-> value(s, ValDep[s][i].cond)]
                        ELSE w.sel[s]]]
    BY DEF Selectors
  <2>3. [s \in Symbols |-> IF s \in S THEN value(s, RevDep[s]) ELSE w.rev[s]] = r
    <3> HIDE DEF value, w
    <3> QED
      BY <1>2, <1>3
  <2>4. [s \in Symbols |->
           IF s \in S THEN [i \in DOMAIN ValDep[s] |-> value(s, ValDep[s][i].cond)] ELSE w.sel[s]] = l
    <3> HIDE DEF value, w
    <3> QED
      BY <1>2, <1>3
  <2> QED
    BY <2>1, <2>2, <2>3, <2>4
<1>9. x \in Table
  <2> HIDE DEF v, r, l
  <2> QED
    BY <1>4, <1>5, <1>6, <1>7, TableVisible DEF w, x
<1>10. /\ x.has = t.has /\ x.def = t.def /\ x.defsym = t.defsym /\ x.valid = t.valid
       /\ x.write = t.write /\ x.pick = t.pick /\ x.curr = t.curr
       /\ x.vis = v /\ x.rev = r /\ x.sel = l
  <2> HIDE DEF v, r, l
  <2> QED
    BY <1>1 DEF Shape, w, x
<1>11. \A s \in Symbols : IF s \in S THEN SeenAt(s, x, t.curr) ELSE SameAt(s, x, t)
  <2>1. \A s \in Symbols :
          /\ v[s] = IF s \in S THEN Visible(s, t.curr) ELSE t.vis[s]
          /\ r[s] = IF s \in S THEN Val(s, RevDep[s], t.curr) ELSE t.rev[s]
          /\ l[s] = IF s \in S THEN SelOf(s, t.curr) ELSE t.sel[s]
    BY DEF SelOf
  <2> HIDE DEF v, r, l, x
  <2> QED
    BY <2>1, <1>10 DEF SeenAt, SameAt
<1> HIDE DEF x
<1> QED
  BY <1>8, <1>9, <1>10, <1>11

-----------------------------------------------------------------------------
(* The member of a choice, the value of a boolean or tristate.             *)

\* The first default that applies is one of those that apply.
LEMMA ApplyingFacts ==
  ASSUME NEW s \in Symbols, NEW t, Applying(s, t) # {}
  PROVE  Min(Applying(s, t)) \in DOMAIN Defaults[s] /\ Min(Applying(s, t)) \in Applying(s, t)
<1>1. Applying(s, t) \subseteq DOMAIN Defaults[s] /\ Applying(s, t) \subseteq Nat
  BY ExprsFacts DEF Applying
<1> QED
  BY <1>1, MinNat

\* The first select that chooses a value is one of those that do.
LEMMA ChosenFacts ==
  ASSUME NEW s \in Symbols, NEW t, Chosen(s, t) # {}
  PROVE  Min(Chosen(s, t)) \in DOMAIN ValDep[s] /\ Min(Chosen(s, t)) \in Chosen(s, t)
<1>1. Chosen(s, t) \subseteq DOMAIN ValDep[s] /\ Chosen(s, t) \subseteq Nat
  BY ExprsFacts DEF Chosen
<1> QED
  BY <1>1, MinNat

\* The default of a choice is one of its members, visible or selected; if there
\* is none, no member is visible and none is selected.
LEMMA ChoiceDefaultFacts ==
  ASSUME NEW c \in ChoiceSyms, NEW t
  PROVE  /\ sym_choice_default(c, t) \in Members(c) \cup {"none"}
         /\ sym_choice_default(c, t) = "none" => \A m \in Members(c) : t.vis[m] = 0 /\ t.rev[m] = 0
         /\ LET m == sym_choice_default(c, t) IN m # "none" => t.vis[m] # 0 \/ t.rev[m] # 0
<1> DEFINE selected == {s \in Members(c) : t.rev[s] # 0}
           defaults == {i \in Applying(c, t) : t.vis[Defaults[c][i].val.sym] # 0}
           seen == {s \in Members(c) : t.vis[s] # 0}
           d == sym_choice_default(c, t)
<1>1. d = IF selected # {} THEN Earliest(selected)
          ELSE IF defaults # {} THEN Defaults[c][Min(defaults)].val.sym ELSE Earliest(seen)
  BY DEF sym_choice_default
<1>2. selected \subseteq Symbols /\ seen \subseteq Symbols /\ c \in Symbols
  BY DEF Members, ChoiceSyms
<1>3. "none" \notin Symbols
  BY OrderAssumption
<1>4. CASE selected # {}
  <2>1. Earliest(selected) \in selected
    BY <1>2, <1>4, EarliestFact
  <2>2. /\ Earliest(selected) \in Members(c) /\ Earliest(selected) # "none"
        /\ t.rev[Earliest(selected)] # 0
    BY <2>1, <1>2, <1>3
  <2> QED
    BY <2>2, <1>1, <1>4
<1>5. CASE selected = {} /\ defaults # {}
  <2>1. defaults \subseteq DOMAIN Defaults[c] /\ defaults \subseteq Nat
    BY <1>2, ExprsFacts DEF Applying
  <2>2. Min(defaults) \in DOMAIN Defaults[c] /\ t.vis[Defaults[c][Min(defaults)].val.sym] # 0
    BY <2>1, <1>5, MinNat
  <2>3. d \in Members(c) /\ t.vis[d] # 0
    <3>1. d = Defaults[c][Min(defaults)].val.sym
      BY <1>1, <1>5
    <3> HIDE DEF d, defaults
    <3> QED
      BY <2>2, <3>1, ChoiceAssumption
  <2>4. d # "none"
    BY <2>3, <1>3 DEF Members
  <2> QED
    BY <2>3, <2>4
<1>6. CASE selected = {} /\ defaults = {}
  <2>1. d = Earliest(seen)
    BY <1>1, <1>6
  <2>2. IF seen = {} THEN Earliest(seen) = "none" ELSE Earliest(seen) \in seen
    BY <1>2, EarliestFact
  <2>3. seen = {} => \A m \in Members(c) : t.vis[m] = 0 /\ t.rev[m] = 0
    BY <1>6
  <2>4. seen # {} => d \in Members(c) /\ d # "none" /\ t.vis[d] # 0
    BY <2>1, <2>2, <1>2, <1>3
  <2> QED
    BY <2>1, <2>2, <2>3, <2>4
<1> QED
  BY <1>4, <1>5, <1>6

\* A choice picks a member that is visible or selected, or none when all are
\* hidden and none is selected.
LEMMA PickFacts ==
  ASSUME NEW c \in ChoiceSyms, NEW t \in Table
  PROVE  /\ Pick(c, t) \in Members(c) \cup {"none"}
         /\ Pick(c, t) = "none" => \A m \in Members(c) : t.vis[m] = 0 /\ t.rev[m] = 0
         /\ Pick(c, t) # "none" => t.vis[Pick(c, t)] # 0 \/ t.rev[Pick(c, t)] # 0
<1>1. t.defsym[c] \in Members(c) \cup {"none"}
  BY TableFacts DEF Proper
<1> QED
  BY <1>1, ChoiceDefaultFacts DEF Pick

\* The member depends on what is known of the choice and its members.
LEMMA PickLocal ==
  ASSUME NEW c \in ChoiceSyms, NEW t \in Table, NEW u \in Table,
         Applying(c, t) = Applying(c, u),
         \A m \in Members(c) : t.vis[m] = u.vis[m] /\ t.rev[m] = u.rev[m]
  PROVE  /\ sym_choice_default(c, t) = sym_choice_default(c, u)
         /\ t.defsym[c] = u.defsym[c] => Pick(c, t) = Pick(c, u)
<1>1. {s \in Members(c) : t.rev[s] # 0} = {s \in Members(c) : u.rev[s] # 0}
  OBVIOUS
<1>2. {s \in Members(c) : t.vis[s] # 0} = {s \in Members(c) : u.vis[s] # 0}
  OBVIOUS
<1>3. {i \in Applying(c, t) : t.vis[Defaults[c][i].val.sym] # 0}
        = {i \in Applying(c, u) : u.vis[Defaults[c][i].val.sym] # 0}
  <2>1. \A i \in Applying(c, t) : Defaults[c][i].val.sym \in Members(c)
    BY ChoiceAssumption DEF Applying
  <2> QED
    BY <2>1
<1>4. sym_choice_default(c, t) = sym_choice_default(c, u)
  BY <1>1, <1>2, <1>3 DEF sym_choice_default
<1>5. t.defsym[c] # "none" => t.defsym[c] \in Members(c)
  BY TableFacts DEF Proper
<1> QED
  BY <1>4, <1>5 DEF Pick

\* The value of a boolean without what selects it, and what selects it.
Base(s, t) == IF t.vis[s] # 0 /\ s \in t.has THEN Lower(t.def[s], t.vis[s]) ELSE DefaultValue(s, t)
Low(s, t) == {t.rev[s]} \cup {calc_value(ValDep[s][i].val, t.curr) : i \in Chosen(s, t)}

\* The default of a boolean or tristate is a tristate value; a choice has none.
LEMMA DefaultValueTri ==
  ASSUME NEW s \in Symbols, NEW t \in Table, IsTri(s)
  PROVE  DefaultValue(s, t) \in Tri /\ (IsChoice(s) => DefaultValue(s, t) = 0)
<1>1. CASE Applying(s, t) = {} \/ IsChoice(s)
  BY <1>1 DEF DefaultValue, Tri
<1>2. CASE ~(Applying(s, t) = {} \/ IsChoice(s))
  <2> DEFINE d == Defaults[s][Min(Applying(s, t))]
  <2>1. d.val \in Exprs(s) /\ d.cond \in Exprs(s)
    BY <1>2, ApplyingFacts, ExprsFacts
  <2>2. calc_value(d.val, t.curr) \in Tri /\ calc_value(d.cond, t.curr) \in Tri
    BY <2>1, ValFacts, TableFacts
  <2>3. DefaultValue(s, t) = Lower(calc_value(d.val, t.curr), calc_value(d.cond, t.curr))
    BY <1>2 DEF DefaultValue
  <2> QED
    BY <2>2, <2>3, <1>2 DEF Lower
<1> QED
  BY <1>1, <1>2

\* The value of a boolean or tristate is its base or what selects it, the largest of them.
LEMMA TriFacts ==
  ASSUME NEW s \in Symbols, NEW t \in Table, IsTri(s)
  PROVE  /\ Base(s, t) \in Tri /\ Low(s, t) \subseteq Tri /\ Low(s, t) # {}
         /\ TriValue(s, t) = Promote(Max({Base(s, t)} \cup Low(s, t)), Bool(s, t.curr))
         /\ TriValue(s, t) \in Tri /\ (Bool(s, t.curr) => TriValue(s, t) \in {0, 2})
         /\ Max({Base(s, t)} \cup Low(s, t)) \in {Base(s, t)} \cup Low(s, t)
         /\ \A y \in {Base(s, t)} \cup Low(s, t) : y <= Max({Base(s, t)} \cup Low(s, t))
<1>1. t.vis[s] \in Tri /\ t.def[s] \in Tri /\ t.rev[s] \in Tri
  BY TableFacts DEF Proper
<1>2. Base(s, t) \in Tri
  BY <1>1, DefaultValueTri DEF Base, Lower
<1>3. Low(s, t) \subseteq Tri
  BY <1>1, ExprsFacts, ValFacts, TableFacts DEF Low, Chosen
<1>4. Low(s, t) # {}
  BY DEF Low
<1> DEFINE S == {Base(s, t)} \cup Low(s, t)
<1>5. S \subseteq Tri /\ S # {}
  BY <1>2, <1>3
<1>6. Max(S) \in S /\ \A y \in S : y <= Max(S)
  <2> HIDE DEF S
  <2> QED
    BY <1>5, MaxTri
<1>7. TriValue(s, t) = Promote(Max(S), Bool(s, t.curr))
  <2>1. (sym_get_type(s, t) = "BOOLEAN") <=> Bool(s, t.curr)
    BY GetType
  <2>2. TriValue(s, t) = Promote(Max(S), sym_get_type(s, t) = "BOOLEAN")
    BY DEF TriValue, Base, Low
  <2> QED
    BY <2>1, <2>2 DEF Promote
<1>8. Max(S) \in Tri /\ Bool(s, t.curr) \in BOOLEAN
  BY <1>5, <1>6 DEF Bool
<1>9. TriValue(s, t) \in Tri /\ (Bool(s, t.curr) => TriValue(s, t) \in {0, 2})
  <2> HIDE DEF S
  <2> QED
    BY <1>7, <1>8, PromoteTri
<1> QED
  BY <1>2, <1>3, <1>4, <1>6, <1>7, <1>9

-----------------------------------------------------------------------------
(* Two tables that agree on what a symbol depends on.                      *)

\* They give it the same visibility, selections and defaults.
Alike(s, t, u) ==
  /\ \A r \in Symbols : r \in Before(s) => t.curr[r] = u.curr[r]
  /\ SameAt(s, t, u)

\* The user set the same.
SameUser(s, t, u) == (s \in t.has <=> s \in u.has) /\ (s \in t.has => t.def[s] = u.def[s])

\* Tables alike on what a symbol depends on give it the same defaults and selectors.
LEMMA AlikeFacts ==
  ASSUME NEW s \in Symbols, NEW t \in Table, NEW u \in Table, Alike(s, t, u)
  PROVE  /\ \A e \in Exprs(s) : calc_value(e, t.curr) = calc_value(e, u.curr)
         /\ Bool(s, t.curr) <=> Bool(s, u.curr)
         /\ Applying(s, t) = Applying(s, u) /\ Chosen(s, t) = Chosen(s, u)
         /\ IsTri(s) => DefaultValue(s, t) = DefaultValue(s, u) /\ Low(s, t) = Low(s, u)
<1>1. t.curr \in Assignments /\ u.curr \in Assignments
  BY TableFacts
<1>2. /\ \A e \in Exprs(s) : calc_value(e, t.curr) = calc_value(e, u.curr)
      /\ Bool(s, t.curr) <=> Bool(s, u.curr)
  BY <1>1, Local DEF Alike
<1>3. Applying(s, t) = Applying(s, u)
  BY <1>2, ExprsFacts DEF Applying
<1>4. Chosen(s, t) = Chosen(s, u)
  BY DEF Chosen, Alike, SameAt
<1>5. ASSUME IsTri(s)
      PROVE  DefaultValue(s, t) = DefaultValue(s, u)
  <2>1. CASE Applying(s, t) = {} \/ IsChoice(s)
    BY <1>3, <2>1 DEF DefaultValue
  <2>2. CASE ~(Applying(s, t) = {} \/ IsChoice(s))
    <3> DEFINE d == Defaults[s][Min(Applying(s, t))]
    <3>1. d.val \in Exprs(s) /\ d.cond \in Exprs(s)
      BY <1>5, <2>2, ApplyingFacts, ExprsFacts
    <3>2. /\ calc_value(d.val, t.curr) = calc_value(d.val, u.curr)
          /\ calc_value(d.cond, t.curr) = calc_value(d.cond, u.curr)
      BY <3>1, <1>2
    <3> QED
      BY <3>2, <2>2, <1>3 DEF DefaultValue
  <2> QED
    BY <2>1, <2>2
<1>6. ASSUME IsTri(s)
      PROVE  Low(s, t) = Low(s, u)
  <2>1. \A i \in Chosen(s, t) : ValDep[s][i].val \in Exprs(s)
    BY <1>6, ExprsFacts DEF Chosen
  <2>2. \A i \in Chosen(s, t) : calc_value(ValDep[s][i].val, t.curr) = calc_value(ValDep[s][i].val, u.curr)
    BY <2>1, <1>2
  <2>3. t.rev[s] = u.rev[s]
    BY DEF Alike, SameAt
  <2> QED
    BY <2>2, <2>3, <1>4 DEF Low
<1> QED
  BY <1>2, <1>3, <1>4, <1>5, <1>6

\* The user set the same, or the symbol is hidden.
LEMMA TriSame ==
  ASSUME NEW s \in Symbols, NEW t \in Table, NEW u \in Table, Alike(s, t, u), IsTri(s),
         t.vis[s] = 0 \/ SameUser(s, t, u)
  PROVE  TriValue(s, t) = TriValue(s, u)
<1>1. t.vis[s] = u.vis[s]
  BY DEF Alike, SameAt
<1>2. Base(s, t) = Base(s, u)
  BY <1>1, AlikeFacts DEF Base, SameUser
<1>3. Low(s, t) = Low(s, u) /\ (Bool(s, t.curr) <=> Bool(s, u.curr))
  BY AlikeFacts
<1>4. /\ TriValue(s, t) = Promote(Max({Base(s, t)} \cup Low(s, t)), Bool(s, t.curr))
      /\ TriValue(s, u) = Promote(Max({Base(s, u)} \cup Low(s, u)), Bool(s, u.curr))
  BY TriFacts
<1> QED
  BY <1>2, <1>3, <1>4 DEF Promote

\* A choice that is visible is y, whatever the user set.
LEMMA TriChoice ==
  ASSUME NEW c \in ChoiceSyms, NEW t \in Table, SeenAt(c, t, t.curr), t.vis[c] # 0
  PROVE  TriValue(c, t) = 2
<1>1. c \in Symbols /\ TypeOf[c] = "BOOLEAN"
  BY MemberFacts
<1>2. IsTri(c) /\ Bool(c, t.curr) /\ t.curr \in Assignments
  BY <1>1, TableFacts DEF IsTri, Bool
<1>3. calc_value(Prompt[c], t.curr) # 0
  BY <1>1, <1>2, VisibleFacts DEF SeenAt
<1>4. calc_value(RevDep[c], t.curr) # 0
  BY <1>2, <1>3, ChoiceAssumption
<1>5. t.rev[c] # 0
  BY <1>1, <1>2, <1>4, ValFacts, ExprsFacts DEF SeenAt
<1>6. t.rev[c] \in Low(c, t)
  BY DEF Low
<1> DEFINE S == {Base(c, t)} \cup Low(c, t)
<1>7. Max(S) \in S /\ S \subseteq Tri /\ t.rev[c] <= Max(S)
  BY <1>1, <1>2, <1>6, TriFacts
<1>8. Max(S) \in Tri /\ Max(S) # 0
  <2>1. t.rev[c] \in Tri
    BY <1>1, TableFacts
  <2>2. Max(S) \in Tri
    BY <1>7
  <2> DEFINE m == Max(S)
             r == t.rev[c]
  <2>3. m \in Tri /\ r \in Tri /\ r <= m /\ r # 0
    BY <1>5, <1>7, <2>1, <2>2
  <2> HIDE DEF m, r
  <2>4. m # 0
    BY <2>3 DEF Tri
  <2> QED
    BY <2>2, <2>4 DEF m
<1>9. TriValue(c, t) = Promote(Max(S), Bool(c, t.curr)) /\ TriValue(c, t) \in {0, 2}
  BY <1>1, <1>2, TriFacts
<1> HIDE DEF S
<1> QED
  BY <1>8, <1>9 DEF Promote, Tri

\* Tables alike on what a choice depends on give it the same value.
LEMMA TriChoiceSame ==
  ASSUME NEW c \in ChoiceSyms, NEW t \in Table, NEW u \in Table, Alike(c, t, u),
         SeenAt(c, t, t.curr), SeenAt(c, u, u.curr)
  PROVE  TriValue(c, t) = TriValue(c, u)
<1>1. t.vis[c] = u.vis[c]
  BY DEF Alike, SameAt
<1>2. CASE t.vis[c] # 0
  BY <1>1, <1>2, TriChoice
<1>3. CASE t.vis[c] = 0
  <2>1. c \in Symbols /\ IsTri(c)
    BY MemberFacts DEF IsTri
  <2> QED
    BY <1>3, <2>1, TriSame
<1> QED
  BY <1>2, <1>3

\* The user set what the symbol is anyway.
LEMMA TriGiven ==
  ASSUME NEW s \in Symbols, NEW t \in Table, NEW u \in Table, Alike(s, t, u), IsTri(s),
         SeenAt(s, t, t.curr), s \in u.has, u.def[s] = TriValue(s, t)
  PROVE  TriValue(s, t) = TriValue(s, u)
<1>1. /\ u.vis[s] = t.vis[s] /\ t.vis[s] \in Tri /\ t.curr \in Assignments
      /\ t.vis[s] = Visible(s, t.curr)
  BY TableFacts DEF Alike, SameAt, SeenAt
<1>2. Low(s, t) = Low(s, u) /\ (Bool(s, t.curr) <=> Bool(s, u.curr))
  BY AlikeFacts
<1>3. CASE t.vis[s] = 0
  BY <1>3, TriSame
<1>4. CASE t.vis[s] # 0
  <2> DEFINE b == Base(s, t)
             L == Low(s, t)
             m == Max({b} \cup L)
             w == Lower(TriValue(s, t), t.vis[s])
             n == Max({w} \cup L)
             bool == Bool(s, t.curr)
  <2>1. /\ b \in Tri /\ L \subseteq Tri /\ m \in {b} \cup L /\ \A y \in {b} \cup L : y <= m
        /\ TriValue(s, t) = Promote(m, bool) /\ TriValue(s, t) \in Tri /\ bool \in BOOLEAN
    BY TriFacts DEF Bool
  <2>2. Base(s, u) = w
    BY <1>1, <1>4 DEF Base
  <2>3. /\ n \in {w} \cup L /\ \A y \in {w} \cup L : y <= n
        /\ TriValue(s, u) = Promote(n, bool) /\ w \in Tri
    BY <1>2, <2>2, TriFacts DEF Promote
  <2>4. bool => t.vis[s] = 2
    BY <1>1, <1>4, VisibleFacts
  <2>5. ~bool => b <= t.vis[s] \/ b = DefaultValue(s, t)
    BY <1>1, <2>1, TableFacts DEF Base, Lower, Tri, Proper
  <2>6. ~bool => DefaultValue(s, t) <= t.vis[s]
    <3> SUFFICES ASSUME ~bool PROVE DefaultValue(s, t) <= t.vis[s]
      OBVIOUS
    <3>1. TypeOf[s] = "TRISTATE"
      BY DEF Bool, IsTri
    <3>2. CASE Applying(s, t) = {} \/ IsChoice(s)
      BY <3>2, <1>1 DEF DefaultValue, Tri
    <3>3. CASE ~(Applying(s, t) = {} \/ IsChoice(s))
      <4> DEFINE d == Defaults[s][Min(Applying(s, t))]
      <4>1. d \in ToSet(Defaults[s])
        BY <3>3, ApplyingFacts DEF ToSet
      <4>2. s \in OfType("TRISTATE")
        BY <3>1 DEF OfType
      <4>3. Lower(calc_value(d.val, t.curr), calc_value(d.cond, t.curr)) <= Visible(s, t.curr)
        BY <4>1, <4>2, <1>1, <1>4, DefaultAssumption
      <4>4. DefaultValue(s, t) = Lower(calc_value(d.val, t.curr), calc_value(d.cond, t.curr))
        BY <3>3 DEF DefaultValue
      <4> QED
        BY <4>3, <4>4, <1>1
    <3> QED
      BY <3>2, <3>3
  <2> HIDE DEF b, L, m, n, bool
  <2>9. m \in Tri /\ n \in Tri
    <3>1. {b} \cup L \subseteq Tri /\ {w} \cup L \subseteq Tri
      BY <2>1, <2>3
    <3>2. m \in {b} \cup L /\ n \in {w} \cup L
      BY <2>1, <2>3
    <3> QED
      BY <3>1, <3>2
  <2>7. CASE bool
    <3>1. m \in Tri /\ n \in Tri /\ w = TriValue(s, t)
      <4>1. m \in Tri /\ n \in Tri
        BY <2>9
      <4>2. w = TriValue(s, t)
        <5> DEFINE v == TriValue(s, t)
        <5>1. v \in Tri /\ t.vis[s] = 2 /\ w = Lower(v, t.vis[s])
          BY <2>1, <2>4, <2>7
        <5> HIDE DEF v, w
        <5> QED
          BY <5>1 DEF Lower, Tri, v
      <4> QED
        BY <4>1, <4>2
    <3>2. TriValue(s, t) = IF m = 1 THEN 2 ELSE m
      BY <2>1, <2>7 DEF Promote
    <3>3. m \in L \/ m <= w
      BY <3>1, <3>2 DEF Tri
    <3>4. \A y \in L : y <= w
      BY <3>1, <3>2, <2>1 DEF Tri
    <3>5. n = w
      BY <3>1, <3>4, <2>3 DEF Tri
    <3> QED
      BY <3>1, <3>2, <3>5, <2>3, <2>7 DEF Promote, Tri
  <2>8. CASE ~bool
    <3>1. TriValue(s, t) = m /\ TriValue(s, u) = n
      BY <2>1, <2>3, <2>8 DEF Promote
    <3>2. b <= t.vis[s] /\ m \in Tri /\ n \in Tri
      BY <2>5, <2>6, <2>8, <2>9
    <3>3. w = IF m < t.vis[s] THEN m ELSE t.vis[s]
      BY <3>1 DEF Lower
    <3>4. m <= t.vis[s] \/ m \in L
      BY <3>2, <2>1
    <3>5. w <= m /\ (m <= t.vis[s] => w = m)
      BY <3>2, <3>3, <1>1 DEF Tri
    <3>6. n <= m
      BY <3>2, <3>5, <2>1, <2>3 DEF Tri
    <3>7. m <= n
      BY <3>2, <3>4, <3>5, <2>3 DEF Tri
    <3> QED
      BY <3>1, <3>2, <3>6, <3>7 DEF Tri
  <2> QED
    BY <2>7, <2>8
<1> QED
  BY <1>3, <1>4

-----------------------------------------------------------------------------
(* The value of one symbol.                                                *)

\* The symbols that are calculated.
Known == {s \in Symbols : TypeOf[s] # "UNKNOWN"}

InRange(s, v) == Number[RangeOf[s][1]] <= v /\ v <= Number[RangeOf[s][2]]

\* sym_validate_range moves a number into its range and keeps one that is in it.
LEMMA RangeFacts ==
  ASSUME NEW s \in Symbols, TypeOf[s] = "INT", NEW t \in Table
  PROVE  /\ t.curr[RangeOf[s][1]] = Number[RangeOf[s][1]]
         /\ t.curr[RangeOf[s][2]] = Number[RangeOf[s][2]]
         /\ Number[RangeOf[s][1]] \in Numbers /\ Number[RangeOf[s][2]] \in Numbers
         /\ \A v : sym_string_within_range(s, v, t) <=> InRange(s, v)
         /\ \A v \in Numbers : /\ sym_validate_range(s, v, t) \in Numbers
                               /\ InRange(s, sym_validate_range(s, v, t))
                               /\ InRange(s, v) => sym_validate_range(s, v, t) = v
<1>1. s \in OfType("INT")
  BY DEF OfType
<1>2. PICK lo \in OfType("UNKNOWN"), hi \in OfType("UNKNOWN") :
        RangeOf[s] = <<lo, hi>> /\ Number[lo] <= Number[hi]
  BY <1>1, NumberAssumption
<1>3. RangeOf[s][1] = lo /\ RangeOf[s][2] = hi
  BY <1>2
<1>4. /\ lo \in Symbols /\ hi \in Symbols /\ TypeOf[lo] = "UNKNOWN" /\ TypeOf[hi] = "UNKNOWN"
      /\ Number[lo] \in Numbers /\ Number[hi] \in Numbers /\ Numbers \subseteq Int
  BY NumberAssumption DEF OfType
<1>5. t.curr[lo] = Number[lo] /\ t.curr[hi] = Number[hi]
  BY <1>4, TableFacts DEF Proper, Typed
<1>6. \A v : sym_string_within_range(s, v, t) <=> InRange(s, v)
  BY <1>3, <1>5 DEF sym_string_within_range, InRange
<1>7. ASSUME NEW v \in Numbers
      PROVE  /\ sym_validate_range(s, v, t) \in Numbers /\ InRange(s, sym_validate_range(s, v, t))
             /\ InRange(s, v) => sym_validate_range(s, v, t) = v
  <2>1. sym_validate_range(s, v, t) =
          IF v < Number[lo] THEN Number[lo] ELSE IF v > Number[hi] THEN Number[hi] ELSE v
    BY <1>3, <1>5 DEF sym_validate_range
  <2> DEFINE a == Number[lo]
             b == Number[hi]
             r == sym_validate_range(s, v, t)
  <2>2. a \in Int /\ b \in Int /\ v \in Int /\ a <= b /\ a \in Numbers /\ b \in Numbers
    BY <1>2, <1>4
  <2>3. \A x : InRange(s, x) <=> a <= x /\ x <= b
    BY <1>3 DEF InRange
  <2>4. r = IF v < a THEN a ELSE IF v > b THEN b ELSE v
    BY <2>1
  <2> HIDE DEF a, b, r
  <2>5. r \in Numbers /\ a <= r /\ r <= b /\ (a <= v /\ v <= b => r = v)
    BY <2>2, <2>4
  <2> QED
    BY <2>3, <2>5 DEF r
<1> QED
  BY <1>3, <1>4, <1>5, <1>6, <1>7

\* A number always gets a value: its defaults and selects are numbers before it.
LEMMA NumberFacts ==
  ASSUME NEW s \in Symbols, TypeOf[s] = "INT", NEW t \in Table
  PROVE  /\ NumberValue(s, t) \in Numbers
         /\ Applying(s, t) # {}
         /\ Chosen(s, t) # {} => ValDep[s][Min(Chosen(s, t))].val.sym \in Earlier(s)
         /\ Defaults[s][Min(Applying(s, t))].val.sym \in Earlier(s)
<1>1. s \in OfType("INT") /\ t.curr \in Assignments
  BY TableFacts DEF OfType
<1>2. Applying(s, t) # {}
  BY <1>1, NumberAssumption DEF Applying
<1>3. \A r \in Symbols : ~IsTri(r) => t.curr[r] \in Numbers
  <2> SUFFICES ASSUME NEW r \in Symbols, ~IsTri(r) PROVE t.curr[r] \in Numbers
    OBVIOUS
  <2>1. TypeOf[r] \in {"INT", "UNKNOWN"}
    BY ExprAssumption DEF IsTri
  <2>2. TypeOf[r] = "UNKNOWN" => Number[r] \in Numbers
    BY NumberAssumption DEF OfType
  <2>3. Typed(t.curr)
    BY TableFacts DEF Proper
  <2> QED
    BY <2>1, <2>2, <2>3 DEF Typed
<1> DEFINE d == Defaults[s][Min(Applying(s, t))]
           e == ValDep[s][Min(Chosen(s, t))]
<1>4. d.val.sym \in Earlier(s) /\ ~IsTri(d.val.sym)
  <2>1. d \in ToSet(Defaults[s])
    BY <1>2, ApplyingFacts DEF ToSet
  <2> QED
    BY <1>1, <2>1, NumberAssumption
<1>5. Chosen(s, t) # {} => e.val.sym \in Earlier(s) /\ ~IsTri(e.val.sym)
  <2>1. Chosen(s, t) # {} => e \in ToSet(ValDep[s])
    BY ChosenFacts DEF ToSet
  <2> QED
    BY <1>1, <2>1, NumberAssumption
<1>6. Earlier(s) \subseteq Symbols
  BY DEF Earlier
<1>7. t.def[s] \in Numbers
  BY TableFacts DEF Proper
<1>8. t.curr[d.val.sym] \in Numbers /\ (Chosen(s, t) # {} => t.curr[e.val.sym] \in Numbers)
  BY <1>3, <1>4, <1>5, <1>6
<1>9. NumberValue(s, t) \in Numbers
  BY <1>7, <1>8 DEF NumberValue
<1> QED
  BY <1>2, <1>4, <1>5, <1>9

\* The visibility of the symbol is calculated first.
Prepared(s, t) ==
  sym_calc_visibility({s}, [t EXCEPT !.valid = t.valid \cup {s},
                                     !.write = IF IsMember(s) THEN t.write ELSE t.write \ {s}])

IsFlagged(t, V, W, u) ==
  /\ u \in Table /\ u.valid = V /\ u.write = W
  /\ u.has = t.has /\ u.def = t.def /\ u.defsym = t.defsym /\ u.pick = t.pick
  /\ u.curr = t.curr /\ u.vis = t.vis /\ u.rev = t.rev /\ u.sel = t.sel

\* A table with other flags is a table.
LEMMA TableFlags ==
  ASSUME NEW t \in Table, NEW V, V \subseteq Known, NEW W, W \subseteq Known,
         NEW u, u = [t EXCEPT !.valid = V, !.write = W]
  PROVE  IsFlagged(t, V, W, u)
<1>1. t \in Shape /\ Proper(t) /\ V \subseteq Symbols /\ W \subseteq Symbols
  BY TableFacts DEF Known
<1>2. u \in Shape
  BY <1>1 DEF Shape
<1>3. /\ u.has = t.has /\ u.def = t.def /\ u.defsym = t.defsym /\ u.pick = t.pick
      /\ u.curr = t.curr /\ u.vis = t.vis /\ u.rev = t.rev /\ u.sel = t.sel
      /\ u.valid = V /\ u.write = W
  BY <1>1 DEF Shape
<1>4. Proper(u)
  BY <1>1, <1>3 DEF Proper, Known
<1> QED
  BY <1>2, <1>3, <1>4 DEF Table, IsFlagged

\* Constant symbols are never valid, written or set.
LEMMA KnownFlags ==
  ASSUME NEW t \in Table
  PROVE  t.valid \subseteq Known /\ t.write \subseteq Known /\ t.has \subseteq Symbols
BY TableFacts DEF Shape, Proper, Known

IsPrepared(s, t, u) ==
  /\ u \in Table /\ u.valid = t.valid \cup {s}
  /\ u.write = IF IsMember(s) THEN t.write ELSE t.write \ {s}
  /\ u.has = t.has /\ u.def = t.def /\ u.defsym = t.defsym /\ u.pick = t.pick
  /\ u.curr = t.curr /\ SeenAt(s, u, t.curr)
  /\ \A q \in Symbols : q # s => SameAt(q, u, t)

\* What sym_calc_value does before it gives the value: flags and visibility.
LEMMA PreparedFacts == \A s \in Known : \A t \in Table : IsPrepared(s, t, Prepared(s, t))
<1> SUFFICES ASSUME NEW s \in Known, NEW t \in Table
             PROVE  IsPrepared(s, t, Prepared(s, t))
  OBVIOUS
<1> DEFINE V == t.valid \cup {s}
           W == IF IsMember(s) THEN t.write ELSE t.write \ {s}
           w == [t EXCEPT !.valid = V, !.write = W]
           u == Prepared(s, t)
           S == {s}
<1>1. V \subseteq Known /\ W \subseteq Known
  BY KnownFlags
<1> HIDE DEF V, W
<1>2. w = [t EXCEPT !.valid = V, !.write = W]
  OBVIOUS
<1>3. u = sym_calc_visibility(S, w)
  BY DEF Prepared, V, W
<1> HIDE DEF w, u, S
<1>4. IsFlagged(t, V, W, w)
  BY <1>1, <1>2, TableFlags
<1>5. w \in Table
  BY <1>4 DEF IsFlagged
<1>6. /\ u \in Table
      /\ u.has = w.has /\ u.def = w.def /\ u.defsym = w.defsym /\ u.valid = w.valid
      /\ u.write = w.write /\ u.pick = w.pick /\ u.curr = w.curr
      /\ \A q \in Symbols : IF q \in S THEN SeenAt(q, u, w.curr) ELSE SameAt(q, u, w)
  BY <1>3, <1>5, VisibilityFacts
<1>7. s \in Symbols /\ \A q \in Symbols : q \in S <=> q = s
  BY DEF Known, S
<1>8. SeenAt(s, u, w.curr) /\ \A q \in Symbols : q # s => SameAt(q, u, t)
  BY <1>4, <1>6, <1>7 DEF IsFlagged, SameAt
<1> QED
  BY <1>4, <1>6, <1>8 DEF IsFlagged, IsPrepared, V, W, u

\* sym_calc_value of a symbol that is not valid.
LEMMA Unfold ==
  ASSUME NEW s \in Known, NEW t \in Table, s \notin t.valid
  PROVE  sym_calc_value(s, t) = Valued(s, Prepared(s, t))
BY DEF sym_calc_value, Prepared, Known

\* What calculating a symbol leaves alone.
Frame(s, t, r) ==
  /\ r \in Table /\ r.valid = t.valid \cup {s} /\ r.def = t.def /\ r.defsym = t.defsym
  /\ r.has \subseteq t.has /\ t.has \subseteq r.has \cup ChoiceSyms
  /\ t.write \subseteq r.write \cup {s} /\ (IsMember(s) => t.write \subseteq r.write)
  /\ \A q \in Symbols : q # s =>
       r.curr[q] = t.curr[q] /\ (q \notin Members(s) => SameAt(q, r, t))
  /\ \A c \in ChoiceSyms : c # s => r.pick[c] = t.pick[c]
  /\ SeenAt(s, r, t.curr)

\* A table with another value of a symbol.
IsValued(s, x, W, t, u) ==
  /\ u \in Table /\ u.write = W
  /\ u.has = t.has /\ u.def = t.def /\ u.defsym = t.defsym /\ u.valid = t.valid
  /\ u.pick = t.pick /\ u.vis = t.vis /\ u.rev = t.rev /\ u.sel = t.sel
  /\ \A q \in Symbols : u.curr[q] = IF q = s THEN x ELSE t.curr[q]

Fits(s, x) ==
  /\ TypeOf[s] = "BOOLEAN" => x \in {0, 2}
  /\ TypeOf[s] = "TRISTATE" => x \in Tri
  /\ TypeOf[s] = "INT" => x \in Numbers

\* A table with another value, that fits, is a table.
LEMMA CurrFacts ==
  ASSUME NEW t \in Table, NEW s \in Known, NEW x, NEW W, W \subseteq Known, Fits(s, x),
         NEW u, u = [t EXCEPT !.curr[s] = x, !.write = W]
  PROVE  IsValued(s, x, W, t, u)
<1>1. t \in Shape /\ Proper(t) /\ s \in Symbols /\ TypeOf[s] # "UNKNOWN" /\ W \subseteq Symbols
  BY TableFacts DEF Known
<1>2. TypeOf[s] \in {"BOOLEAN", "TRISTATE", "INT"}
  BY <1>1, ExprAssumption
<1>3. x \in Int
  BY <1>2, NumberAssumption DEF Tri, Fits
<1>4. /\ u.has = t.has /\ u.def = t.def /\ u.defsym = t.defsym /\ u.valid = t.valid
      /\ u.pick = t.pick /\ u.vis = t.vis /\ u.rev = t.rev /\ u.sel = t.sel /\ u.write = W
      /\ u.curr = [t.curr EXCEPT ![s] = x]
  BY <1>1 DEF Shape
<1>5. t.curr \in [Symbols -> Int]
  BY TableFacts
<1>6. u \in Shape
  <2>1. [t.curr EXCEPT ![s] = x] \in [Symbols -> Int]
    BY <1>3, <1>5
  <2> DEFINE f == [t.curr EXCEPT ![s] = x]
  <2>2. u = [t EXCEPT !.curr = f, !.write = W]
    BY <1>1 DEF Shape
  <2> HIDE DEF f
  <2> QED
    BY <1>1, <2>1, <2>2 DEF Shape, f
<1>7. \A q \in Symbols : u.curr[q] = IF q = s THEN x ELSE t.curr[q]
  BY <1>4, <1>5
<1>8. Typed(u.curr)
  <2>1. Typed(t.curr)
    BY <1>1 DEF Proper
  <2> HIDE DEF Known
  <2> QED
    BY <2>1, <1>1, <1>7 DEF Typed, Fits
<1>9. Proper(u)
  BY <1>1, <1>4, <1>8 DEF Proper, Known
<1> QED
  BY <1>4, <1>6, <1>7, <1>9 DEF Table, IsValued

\* A symbol with the value x and the flags W after its visibility.
LEMMA FrameValued ==
  ASSUME NEW s \in Known, NEW t \in Table, NEW u, IsPrepared(s, t, u),
         NEW x, NEW W, NEW r, IsValued(s, x, W, u, r), t.write \subseteq W \cup {s},
         IsMember(s) => t.write \subseteq W
  PROVE  Frame(s, t, r) /\ r.curr[s] = x /\ r.write = W /\ r.pick = t.pick /\ r.has = t.has
         /\ \A q \in Symbols : q # s => SameAt(q, r, t)
<1>1. s \in Symbols
  BY DEF Known
<1>2. SeenAt(s, r, t.curr)
  BY <1>1 DEF SeenAt, IsPrepared, IsValued
<1>3. \A q \in Symbols : q # s => SameAt(q, r, t)
  BY DEF SameAt, IsPrepared, IsValued
<1>4. \A q \in Symbols : q # s => r.curr[q] = t.curr[q]
  BY DEF IsPrepared, IsValued
<1>5. /\ r \in Table /\ r.valid = t.valid \cup {s} /\ r.def = t.def /\ r.defsym = t.defsym
      /\ r.has = t.has /\ r.write = W /\ r.pick = t.pick /\ r.curr[s] = x
  BY <1>1 DEF IsPrepared, IsValued
<1>6. Frame(s, t, r)
  BY <1>2, <1>3, <1>4, <1>5 DEF Frame
<1> QED
  BY <1>3, <1>5, <1>6

\* A member of a choice that can be chosen follows the choice.
LEMMA StepMember ==
  ASSUME NEW s \in Known, NEW t \in Table, s \notin t.valid, IsMember(s), Visible(s, t.curr) = 2,
         NEW r, r = sym_calc_value(s, t)
  PROVE  Frame(s, t, r) /\ r.curr[s] = (IF t.pick[ChoiceOf[s]] = s THEN 2 ELSE 0) /\ r.write = t.write
<1> DEFINE u == Prepared(s, t)
           x == IF u.pick[ChoiceOf[s]] = s THEN 2 ELSE 0
<1>1. IsPrepared(s, t, u)
  BY PreparedFacts
<1>2. r = Valued(s, u)
  BY Unfold
<1> HIDE DEF u
<1>3. u \in Table /\ u.write = t.write /\ u.vis[s] = 2 /\ u.pick = t.pick
  BY <1>1 DEF IsPrepared, SeenAt
<1>4. r = [u EXCEPT !.curr[s] = x]
  <2>1. TypeOf[s] = "BOOLEAN" /\ ~IsChoice(s)
    BY MemberFacts DEF Known, ChoiceSyms
  <2>2. r = WithMember(s, u)
    BY <1>2, <1>3, <2>1 DEF Valued, WithPick
  <2> QED
    BY <2>2 DEF WithMember
<1>5. u \in Shape
  BY <1>3, TableFacts
<1>6. r = [u EXCEPT !.curr[s] = x, !.write = u.write]
  BY <1>4, <1>5 DEF Shape
<1>7. TypeOf[s] = "BOOLEAN" /\ x \in {0, 2} /\ u.write \subseteq Known
  BY <1>3, MemberFacts, KnownFlags DEF Known
<1> HIDE DEF x
<1>8. Fits(s, x)
  BY <1>7 DEF Fits
<1>9. IsValued(s, x, u.write, u, r)
  BY <1>3, <1>6, <1>7, <1>8, CurrFacts
<1>10. t.write \subseteq u.write \cup {s} /\ t.write \subseteq u.write
  BY <1>3
<1> QED
  BY <1>1, <1>3, <1>9, <1>10, FrameValued DEF x

\* A number.
LEMMA StepNumber ==
  ASSUME NEW s \in Known, NEW t \in Table, s \notin t.valid, TypeOf[s] = "INT",
         NEW r, r = sym_calc_value(s, t)
  PROVE  LET u == Prepared(s, t)
         IN Frame(s, t, r) /\ r.curr[s] = sym_validate_range(s, NumberValue(s, u), u) /\ s \in r.write
<1> DEFINE u == Prepared(s, t)
           x == sym_validate_range(s, NumberValue(s, u), u)
           W == u.write \cup {s}
<1>1. IsPrepared(s, t, u)
  BY PreparedFacts
<1>2. r = Valued(s, u)
  BY Unfold
<1> HIDE DEF u
<1>3. u \in Table /\ s \in Symbols /\ ~IsMember(s) /\ s \notin ChoiceSyms
  BY <1>1, MemberFacts DEF IsPrepared, Known
<1>4. r = [u EXCEPT !.curr[s] = x, !.write = W]
  <2>1. ~IsChoice(s)
    BY <1>3 DEF ChoiceSyms
  <2>2. r = WithNumber(s, u)
    BY <1>2, <1>3, <2>1 DEF Valued, WithPick
  <2> QED
    BY <2>2 DEF WithNumber
<1>5. x \in Numbers /\ W \subseteq Known
  BY <1>3, NumberFacts, RangeFacts, KnownFlags
<1> HIDE DEF x, W
<1>6. Fits(s, x)
  BY <1>5 DEF Fits
<1>7. IsValued(s, x, W, u, r)
  BY <1>3, <1>4, <1>5, <1>6, CurrFacts
<1>8. t.write \subseteq W \cup {s} /\ s \in W /\ ~IsMember(s)
  BY <1>1, <1>3 DEF IsPrepared, W
<1> QED
  BY <1>1, <1>7, <1>8, FrameValued DEF x, u

\* The table after the value of a boolean or tristate.
LEMMA WithTriFacts ==
  ASSUME NEW s \in Known, NEW u \in Table, IsTri(s)
  PROVE  LET W == IF TriWritten(s, u) THEN u.write \cup {s} ELSE u.write
         IN IsValued(s, TriValue(s, u), W, u, WithTri(s, u)) /\ W \subseteq Known
<1> DEFINE x == TriValue(s, u)
           W == IF TriWritten(s, u) THEN u.write \cup {s} ELSE u.write
           r == WithTri(s, u)
<1>1. r = [u EXCEPT !.curr[s] = x, !.write = W]
  BY DEF WithTri
<1>2. W \subseteq Known /\ s \in Symbols
  BY KnownFlags DEF Known
<1>3. Fits(s, x)
  BY <1>2, TriFacts DEF Fits, IsTri, Bool
<1> HIDE DEF r, x, W
<1> QED
  BY <1>1, <1>2, <1>3, CurrFacts DEF x, W, r

\* A boolean or tristate that no choice decides.
LEMMA StepTri ==
  ASSUME NEW s \in Known, NEW t \in Table, s \notin t.valid, IsTri(s), s \notin ChoiceSyms,
         ~(IsMember(s) /\ Visible(s, t.curr) = 2), NEW r, r = sym_calc_value(s, t)
  PROVE  LET u == Prepared(s, t)
         IN Frame(s, t, r) /\ r.curr[s] = TriValue(s, u) /\ (TriWritten(s, u) => s \in r.write)
<1> DEFINE u == Prepared(s, t)
           x == TriValue(s, u)
           W == IF TriWritten(s, u) THEN u.write \cup {s} ELSE u.write
<1>1. IsPrepared(s, t, u)
  BY PreparedFacts
<1>2. r = Valued(s, u)
  BY Unfold
<1> HIDE DEF u
<1>3. u \in Table /\ s \in Symbols /\ u.vis[s] = Visible(s, t.curr)
  BY <1>1 DEF IsPrepared, Known, SeenAt
<1>4. ~IsChoice(s) /\ TypeOf[s] # "INT"
  BY <1>3 DEF ChoiceSyms, IsTri
<1>5. r = WithTri(s, u)
  BY <1>2, <1>3, <1>4 DEF Valued, WithPick
<1>6. IsValued(s, x, W, u, r)
  BY <1>3, <1>5, WithTriFacts
<1>7. /\ t.write \subseteq W \cup {s} /\ (TriWritten(s, u) => s \in W)
      /\ IsMember(s) => t.write \subseteq W
  BY <1>1 DEF IsPrepared
<1> HIDE DEF x, W
<1> QED
  BY <1>1, <1>6, <1>7, FrameValued DEF x, u

-----------------------------------------------------------------------------
(* The value of a choice.                                                  *)

\* A member in effect, and the choice n when there is none.
IsPicked(c, v, member, y) ==
  /\ y \in Table /\ y.has \subseteq v.has /\ v.has \subseteq y.has \cup {c}
  /\ y.def = v.def /\ y.defsym = v.defsym /\ y.valid = v.valid /\ y.write = v.write
  /\ y.vis = v.vis /\ y.rev = v.rev /\ y.sel = v.sel /\ y.pick[c] = member
  /\ \A d \in ChoiceSyms : d # c => y.pick[d] = v.pick[d]
  /\ \A q \in Symbols : q # c => y.curr[q] = v.curr[q]
  /\ y.curr[c] = IF member = "none" THEN 0 ELSE v.curr[c]

\* A table with another member in effect.
IsPickedIn(c, p, H, x, t, u) ==
  /\ u \in Table /\ u.has = H /\ u.def = t.def /\ u.defsym = t.defsym
  /\ u.valid = t.valid /\ u.write = t.write
  /\ u.vis = t.vis /\ u.rev = t.rev /\ u.sel = t.sel /\ u.pick[c] = p
  /\ \A d \in ChoiceSyms : d # c => u.pick[d] = t.pick[d]
  /\ \A q \in Symbols : q # c => u.curr[q] = t.curr[q]
  /\ u.curr[c] = x

\* A table with another member picked is a table.
LEMMA TablePick ==
  ASSUME NEW t \in Table, NEW c \in ChoiceSyms, NEW p \in Members(c) \cup {"none"},
         NEW H, H \subseteq Symbols, NEW x \in {0, 2},
         NEW u, u = [t EXCEPT !.has = H, !.pick[c] = p, !.curr[c] = x]
  PROVE  IsPickedIn(c, p, H, x, t, u)
<1>1. t \in Shape /\ Proper(t) /\ c \in Symbols /\ TypeOf[c] = "BOOLEAN" /\ p \in Symbols \cup {"none"}
  BY TableFacts, MemberFacts
<1> DEFINE P == [t.pick EXCEPT ![c] = p]
           C == [t.curr EXCEPT ![c] = x]
<1>2. t.pick \in [ChoiceSyms -> Symbols \cup {"none"}] /\ t.curr \in [Symbols -> Int]
  BY <1>1 DEF Shape
<1>3. /\ P \in [ChoiceSyms -> Symbols \cup {"none"}] /\ C \in [Symbols -> Int]
      /\ P[c] = p /\ C[c] = x /\ \A d \in ChoiceSyms : d # c => P[d] = t.pick[d]
      /\ \A q \in Symbols : q # c => C[q] = t.curr[q]
  BY <1>1, <1>2
<1>4. u = [t EXCEPT !.has = H, !.pick = P, !.curr = C]
  BY <1>1 DEF Shape
<1> HIDE DEF P, C
<1>5. u \in Shape
  BY <1>1, <1>3, <1>4 DEF Shape
<1>6. /\ u.has = H /\ u.def = t.def /\ u.defsym = t.defsym /\ u.valid = t.valid
      /\ u.write = t.write /\ u.vis = t.vis /\ u.rev = t.rev /\ u.sel = t.sel
      /\ u.pick = P /\ u.curr = C
  BY <1>1, <1>4 DEF Shape
<1>7. Typed(u.curr)
  <2>1. Typed(t.curr)
    BY <1>1 DEF Proper
  <2>2. \A q \in Symbols : u.curr[q] = IF q = c THEN x ELSE t.curr[q]
    BY <1>3, <1>6
  <2> QED
    BY <1>1, <2>1, <2>2 DEF Typed
<1>8. \A d \in ChoiceSyms : {u.defsym[d], u.pick[d]} \subseteq Members(d) \cup {"none"}
  BY <1>1, <1>3, <1>6 DEF Proper
<1>9. Proper(u)
  BY <1>1, <1>6, <1>7, <1>8 DEF Proper
<1> QED
  BY <1>3, <1>5, <1>6, <1>9 DEF Table, IsPickedIn

\* What Picked changes: the choice only.
LEMMA PickedFacts ==
  ASSUME NEW c \in ChoiceSyms, NEW v \in Table, NEW member \in Members(c) \cup {"none"}
  PROVE  IsPicked(c, v, member, Picked(c, v, member))
<1> DEFINE new == \E s \in Members(c) : v.vis[s] # 0 /\ s \notin v.has
           H == IF new THEN v.has \ {c} ELSE v.has
           x == IF member = "none" THEN 0 ELSE v.curr[c]
           y == Picked(c, v, member)
<1>1. y = [v EXCEPT !.has = H, !.pick[c] = member, !.curr[c] = x]
  BY DEF Picked
<1>2. v.has \subseteq Symbols /\ c \in Symbols /\ TypeOf[c] = "BOOLEAN"
  BY KnownFlags, MemberFacts
<1>3. x \in {0, 2}
  <2>1. Typed(v.curr)
    BY TableFacts DEF Proper
  <2> QED
    BY <1>2, <2>1 DEF Typed
<1>4. H \subseteq Symbols /\ H \subseteq v.has /\ v.has \subseteq H \cup {c}
  BY <1>2
<1> HIDE DEF H, x, y
<1>5. IsPickedIn(c, member, H, x, v, y)
  BY <1>1, <1>3, <1>4, TablePick
<1> QED
  BY <1>4, <1>5 DEF IsPicked, IsPickedIn, x, y

\* The choice, its value y, gives its members what they need.
StepChoiceOn(c, t, v, r) ==
  /\ v \in Table /\ v.defsym = t.defsym /\ v.curr[c] = 2
  /\ \A q \in Symbols : q # c => v.curr[q] = t.curr[q]
  /\ r.pick[c] = Pick(c, v) /\ r.curr[c] = IF Pick(c, v) = "none" THEN 0 ELSE 2
  /\ \A m \in Members(c) : SeenAt(m, v, v.curr) /\ SameAt(m, r, v) /\ (v.vis[m] # 0 => m \in r.write)

StepChoiceOff(c, t, r) ==
  /\ r.pick[c] = "none" /\ r.curr[c] = 0
  /\ \A m \in Members(c) : SameAt(m, r, t)

\* Passed gives SYMBOL_WRITE to the visible members of a written choice.
LEMMA PassedFacts ==
  ASSUME NEW c \in ChoiceSyms, NEW y \in Table
  PROVE  LET W == y.write \cup {m \in Members(c) : c \in y.write /\ y.vis[m] # 0}
         IN IsFlagged(y, y.valid, W, Passed(c, y)) /\ W \subseteq Known
<1> DEFINE W == y.write \cup {m \in Members(c) : c \in y.write /\ y.vis[m] # 0}
           z == Passed(c, y)
<1>1. z = [y EXCEPT !.write = W]
  BY DEF Passed
<1>2. y \in Shape
  BY TableFacts
<1>3. z = [y EXCEPT !.valid = y.valid, !.write = W]
  BY <1>1, <1>2 DEF Shape
<1>4. Members(c) \subseteq Known
  BY MemberFacts DEF Known
<1>5. W \subseteq Known /\ y.valid \subseteq Known
  BY <1>4, KnownFlags
<1> HIDE DEF W, z
<1> QED
  BY <1>3, <1>5, TableFlags DEF W, z

\* Calculating a choice, when it becomes y and when it does not.
LEMMA StepChoice ==
  ASSUME NEW c \in ChoiceSyms, NEW t \in Table, c \notin t.valid, NEW r, r = sym_calc_value(c, t)
  PROVE  LET u == Prepared(c, t)
             v == sym_calc_visibility(Members(c), WithTri(c, u))
         IN /\ Frame(c, t, r)
            /\ TriValue(c, u) = 2 => StepChoiceOn(c, t, v, r)
            /\ TriValue(c, u) # 2 => StepChoiceOff(c, t, r)
<1> DEFINE u == Prepared(c, t)
           x == TriValue(c, u)
           w == WithTri(c, u)
           v == sym_calc_visibility(Members(c), w)
           y == IF x = 2 THEN Picked(c, v, Pick(c, v)) ELSE [w EXCEPT !.pick[c] = "none"]
           W1 == IF TriWritten(c, u) THEN u.write \cup {c} ELSE u.write
           W2 == y.write \cup {m \in Members(c) : c \in y.write /\ y.vis[m] # 0}
<1>1. /\ c \in Symbols /\ c \in Known /\ TypeOf[c] = "BOOLEAN" /\ IsTri(c) /\ IsChoice(c)
      /\ ~IsMember(c)
      /\ \A m \in Members(c) : m \in Symbols /\ m # c
  BY MemberFacts DEF Known, IsTri, ChoiceSyms
<1>2. IsPrepared(c, t, u)
  BY <1>1, PreparedFacts
<1>3. r = Valued(c, u)
  BY <1>1, Unfold
<1> HIDE DEF u
<1>4. u \in Table
  BY <1>2 DEF IsPrepared
<1>5. IsValued(c, x, W1, u, w) /\ W1 \subseteq Known
  BY <1>1, <1>4, WithTriFacts
<1>6. x \in {0, 2}
  BY <1>1, <1>4, TriFacts DEF Bool
<1>7. w \in Table /\ w.curr[c] = x
  BY <1>1, <1>5 DEF IsValued
<1>8. r = Passed(c, y)
  <2>1. r = ChoiceValue(c, w)
    BY <1>1, <1>3 DEF Valued, WithPick
  <2>2. ChoiceValue(c, w) = Passed(c, IF w.curr[c] = 2 THEN sym_calc_choice(c, w)
                                      ELSE [w EXCEPT !.pick[c] = "none"])
    BY DEF ChoiceValue
  <2>3. sym_calc_choice(c, w) = Picked(c, v, Pick(c, v))
    BY DEF sym_calc_choice
  <2> QED
    BY <1>7, <2>1, <2>2, <2>3
<1> HIDE DEF w, x, W1, v
<1>9. /\ v \in Table
      /\ v.has = w.has /\ v.def = w.def /\ v.defsym = w.defsym /\ v.valid = w.valid
      /\ v.write = w.write /\ v.pick = w.pick /\ v.curr = w.curr
      /\ \A q \in Symbols : IF q \in Members(c) THEN SeenAt(q, v, w.curr) ELSE SameAt(q, v, w)
  BY <1>7, VisibilityFacts DEF v
<1>10. Pick(c, v) \in Members(c) \cup {"none"}
  BY <1>9, PickFacts
<1>11. CASE x = 2
  <2> HIDE DEF y
  <2>1. IsPicked(c, v, Pick(c, v), y)
    BY <1>9, <1>10, <1>11, PickedFacts DEF y
  <2>2. y \in Table
    BY <2>1 DEF IsPicked
  <2>3. IsFlagged(y, y.valid, W2, r) /\ W2 \subseteq Known
    BY <1>8, <2>2, PassedFacts
  <2>4. r \in Table /\ r.valid = t.valid \cup {c} /\ r.def = t.def /\ r.defsym = t.defsym
    BY <1>2, <1>5, <1>9, <2>1, <2>3 DEF IsPrepared, IsValued, IsPicked, IsFlagged
  <2>5. r.has \subseteq t.has /\ t.has \subseteq r.has \cup {c}
    BY <1>2, <1>5, <1>9, <2>1, <2>3 DEF IsPrepared, IsValued, IsPicked, IsFlagged
  <2>6. t.write \subseteq r.write \cup {c}
    BY <1>1, <1>2, <1>5, <1>9, <2>1, <2>3 DEF IsPrepared, IsValued, IsPicked, IsFlagged, W1
  <2>7. \A q \in Symbols : q # c => r.curr[q] = t.curr[q] /\ v.curr[q] = t.curr[q]
    BY <1>2, <1>5, <1>9, <2>1, <2>3 DEF IsPrepared, IsValued, IsPicked, IsFlagged
  <2>8. \A q \in Symbols : q # c /\ q \notin Members(c) => SameAt(q, r, t)
    BY <1>2, <1>5, <1>9, <2>1, <2>3 DEF IsPrepared, IsValued, IsPicked, IsFlagged, SameAt
  <2>9. SeenAt(c, r, t.curr)
    BY <1>1, <1>2, <1>5, <1>9, <2>1, <2>3 DEF IsPrepared, IsValued, IsPicked, IsFlagged, SameAt, SeenAt
  <2>10. \A d \in ChoiceSyms : d # c => r.pick[d] = t.pick[d]
    BY <1>2, <1>5, <1>9, <2>1, <2>3 DEF IsPrepared, IsValued, IsPicked, IsFlagged
  <2>11. Frame(c, t, r)
    BY <1>1, <2>4, <2>5, <2>6, <2>7, <2>8, <2>9, <2>10 DEF Frame
  <2>12. v.defsym = t.defsym /\ v.curr[c] = 2
    BY <1>2, <1>5, <1>7, <1>9, <1>11 DEF IsPrepared, IsValued
  <2>13. r.pick[c] = Pick(c, v) /\ r.curr[c] = IF Pick(c, v) = "none" THEN 0 ELSE 2
    BY <2>1, <2>3, <2>12 DEF IsPicked, IsFlagged
  <2>14. \A m \in Members(c) : SeenAt(m, v, v.curr) /\ SameAt(m, r, v)
    BY <1>1, <1>9, <2>1, <2>3 DEF IsPicked, IsFlagged, SameAt
  <2>15. ASSUME NEW m \in Members(c), v.vis[m] # 0
         PROVE  m \in r.write
    <3>1. TriWritten(c, u)
      <4>1. u.vis[c] # 0 \/ u.rev[c] # 0 \/ Chosen(c, u) # {}
        <5> SUFFICES ASSUME u.vis[c] = 0, u.rev[c] = 0, Chosen(c, u) = {} PROVE FALSE
          OBVIOUS
        <5>1. Base(c, u) = 0
          BY <1>1, <1>4, DefaultValueTri DEF Base
        <5>2. Low(c, u) = {0}
          BY DEF Low
        <5>3. Max({Base(c, u)} \cup Low(c, u)) = 0
          BY <1>1, <1>4, <5>1, <5>2, TriFacts
        <5>4. x = Promote(0, Bool(c, u.curr))
          BY <1>1, <1>4, <5>3, TriFacts DEF x
        <5> QED
          BY <5>4, <1>11 DEF Promote
      <4> QED
        BY <4>1 DEF TriWritten
    <3>2. c \in y.write
      BY <1>5, <1>9, <2>1, <3>1 DEF W1, IsValued, IsPicked
    <3>3. y.vis[m] # 0
      BY <2>1, <2>15 DEF IsPicked
    <3> QED
      BY <2>3, <3>2, <3>3 DEF IsFlagged
  <2>16. StepChoiceOn(c, t, v, r)
    BY <1>9, <2>7, <2>12, <2>13, <2>14, <2>15 DEF StepChoiceOn
  <2> QED
    BY <1>11, <2>11, <2>16 DEF u, x, w, v
<1>12. CASE x = 0
  <2> DEFINE none == "none"
  <2>1. y = [w EXCEPT !.pick[c] = none]
    BY <1>12
  <2>2. w \in Shape /\ w.has \subseteq Symbols /\ none \in Members(c) \cup {"none"}
    BY <1>7, TableFacts, KnownFlags
  <2>3. y = [w EXCEPT !.has = w.has, !.pick[c] = none, !.curr[c] = x]
    BY <1>1, <1>7, <2>1, <2>2 DEF Shape
  <2> HIDE DEF y, none
  <2>4. IsPickedIn(c, none, w.has, x, w, y)
    BY <1>6, <1>7, <2>2, <2>3, TablePick
  <2>5. IsFlagged(y, y.valid, W2, r) /\ W2 \subseteq Known
    BY <1>8, <2>4, PassedFacts DEF IsPickedIn
  <2>6. r \in Table /\ r.valid = t.valid \cup {c} /\ r.def = t.def /\ r.defsym = t.defsym
        /\ r.has = t.has
    BY <1>2, <1>5, <2>4, <2>5 DEF IsPickedIn, IsPrepared, IsValued, IsFlagged
  <2>7. t.write \subseteq r.write \cup {c}
    BY <1>1, <1>2, <1>5, <2>4, <2>5 DEF IsPickedIn, IsPrepared, IsValued, IsFlagged, W1
  <2>8. \A q \in Symbols : q # c => r.curr[q] = t.curr[q] /\ SameAt(q, r, t)
    BY <1>2, <1>5, <2>4, <2>5 DEF IsPickedIn, IsPrepared, IsValued, IsFlagged, SameAt
  <2>9. SeenAt(c, r, t.curr)
    BY <1>1, <1>2, <1>5, <2>4, <2>5 DEF IsPickedIn, IsPrepared, IsValued, IsFlagged, SeenAt
  <2>10. \A d \in ChoiceSyms : d # c => r.pick[d] = t.pick[d]
    BY <1>2, <1>5, <2>4, <2>5 DEF IsPickedIn, IsPrepared, IsValued, IsFlagged
  <2>11. Frame(c, t, r)
    BY <1>1, <2>6, <2>7, <2>8, <2>9, <2>10 DEF Frame
  <2>12. StepChoiceOff(c, t, r)
    BY <1>1, <1>12, <2>4, <2>5, <2>8 DEF StepChoiceOff, IsFlagged, IsPickedIn, none
  <2> QED
    BY <1>12, <2>11, <2>12 DEF u, x, w, v
<1> QED
  BY <1>6, <1>11, <1>12 DEF u, x, w, v

-----------------------------------------------------------------------------
(* Calculation along the order.                                            *)

Folded(n, x, F, g) == g[0] = x /\ \A i \in 1 .. n : g[i] = F[<<i, g[i - 1]>>]

\* The recursive functions of the model exist: they are folds over 1 .. n.
LEMMA FoldExists ==
  ASSUME NEW n \in Nat, NEW V, NEW x \in V, NEW F \in [(1 .. n) \X V -> V]
  PROVE  \E g \in [0 .. n -> V] : Folded(n, x, F, g)
<1> DEFINE D(k, g) == g \in [0 .. k -> V] /\ g[0] = x /\ \A i \in 1 .. k : g[i] = F[<<i, g[i - 1]>>]
           S == {k \in 0 .. n : \E g : D(k, g)}
<1>1. 0 \in S
  <2> DEFINE g == [i \in 0 .. 0 |-> x]
  <2>1. D(0, g)
    OBVIOUS
  <2> HIDE DEF D, g
  <2> QED
    BY <2>1
<1>2. ASSUME NEW k \in 0 .. n, k < n, k \in S
      PROVE  k + 1 \in S
  <2>1. PICK g : D(k, g)
    BY <1>2
  <2>2. k \in Nat /\ k + 1 \in 1 .. n
    BY <1>2
  <2>3. g[k] \in V /\ <<k + 1, g[k]>> \in (1 .. n) \X V
    BY <2>1, <2>2
  <2> DEFINE y == F[<<k + 1, g[k]>>]
             h == [i \in 0 .. k + 1 |-> IF i = k + 1 THEN y ELSE g[i]]
  <2>4. y \in V
    BY <2>3
  <2> HIDE DEF y
  <2>5. h \in [0 .. k + 1 -> V]
    BY <2>1, <2>2, <2>4
  <2>6. h[0] = x
    BY <2>1, <2>2
  <2>7. ASSUME NEW i \in 1 .. k + 1
        PROVE  h[i] = F[<<i, h[i - 1]>>]
    <3>1. CASE i = k + 1
      <4>1. h[i] = y /\ h[i - 1] = g[k]
        BY <2>2, <3>1
      <4> QED
        BY <4>1, <3>1 DEF y
    <3>2. CASE i # k + 1
      <4>1. i \in 1 .. k /\ i - 1 \in 0 .. k /\ i - 1 # k + 1
        BY <2>2, <3>2
      <4>2. h[i] = g[i] /\ h[i - 1] = g[i - 1]
        BY <2>2, <3>2, <4>1
      <4> QED
        BY <4>1, <4>2, <2>1
    <3> QED
      BY <3>1, <3>2
  <2> HIDE DEF h
  <2>8. D(k + 1, h)
    BY <2>5, <2>6, <2>7
  <2> HIDE DEF D
  <2> QED
    BY <2>2, <2>8
<1> HIDE DEF S
<1>3. \A i \in 0 .. n : i \in S
  BY <1>1, <1>2, Climb
<1>4. n \in S
  BY <1>3
<1>5. PICK g : D(n, g)
  BY <1>4 DEF S
<1> QED
  BY <1>5 DEF Folded

\* sym_calc_value keeps tables tables, and touches the symbol and, of a choice, its members.
LEMMA StepTable ==
  ASSUME NEW s \in Symbols, NEW t \in Table
  PROVE  /\ s \in t.valid \/ s \notin Known => sym_calc_value(s, t) = t
         /\ s \notin t.valid /\ s \in Known => Frame(s, t, sym_calc_value(s, t))
         /\ sym_calc_value(s, t) \in Table
<1>1. s \in t.valid \/ s \notin Known => sym_calc_value(s, t) = t
  BY DEF sym_calc_value, Known
<1>2. ASSUME s \notin t.valid, s \in Known
      PROVE  Frame(s, t, sym_calc_value(s, t))
  <2>1. TypeOf[s] \in {"BOOLEAN", "TRISTATE", "INT"}
    BY <1>2, ExprAssumption DEF Known
  <2>2. CASE TypeOf[s] = "INT"
    BY <1>2, <2>2, StepNumber
  <2>3. CASE s \in ChoiceSyms
    BY <1>2, <2>3, StepChoice
  <2>4. CASE s \notin ChoiceSyms /\ TypeOf[s] # "INT"
    <3>1. IsTri(s)
      BY <2>1, <2>4 DEF IsTri
    <3> QED
      BY <1>2, <2>4, <3>1, StepMember, StepTri
  <2> QED
    BY <2>2, <2>3, <2>4
<1> QED
  BY <1>1, <1>2 DEF Frame

\* The tables after each symbol.
Run(t, n, g) ==
  /\ g \in [0 .. n -> Table] /\ g[0] = t
  /\ \A i \in 1 .. n : g[i] = sym_calc_value(Order[i], g[i - 1])

\* Calc(t, n) is the last of n calculations, one for each symbol of Order.
LEMMA CalcRun ==
  ASSUME NEW t \in Table, NEW n \in 0 .. Len(Order)
  PROVE  \E g : Run(t, n, g) /\ Calc(t, n) = g[n]
<1> DEFINE D(g) == g = [i \in 0 .. n |-> IF i = 0 THEN t ELSE sym_calc_value(Order[i], g[i - 1])]
           f == CHOOSE g : D(g)
           F == [p \in (1 .. n) \X Table |-> sym_calc_value(Order[p[1]], p[2])]
<1>1. n \in Nat /\ \A i \in 1 .. n : i \in DOMAIN Order /\ Order[i] \in Symbols
  BY OrderFacts
<1>2. F \in [(1 .. n) \X Table -> Table]
  BY <1>1, StepTable
<1>3. \A i \in 1 .. n : \A u \in Table : F[<<i, u>>] = sym_calc_value(Order[i], u)
  <2> SUFFICES ASSUME NEW i \in 1 .. n, NEW u \in Table
               PROVE  F[<<i, u>>] = sym_calc_value(Order[i], u)
    OBVIOUS
  <2> DEFINE p == <<i, u>>
  <2>1. p \in (1 .. n) \X Table /\ p[1] = i /\ p[2] = u
    OBVIOUS
  <2> HIDE DEF p
  <2>2. F[p] = sym_calc_value(Order[p[1]], p[2])
    BY <2>1
  <2> QED
    BY <2>1, <2>2 DEF p
<1> HIDE DEF F
<1>4. PICK g \in [0 .. n -> Table] : Folded(n, t, F, g)
  BY <1>1, <1>2, FoldExists
<1>5. ASSUME NEW i \in 1 .. n
      PROVE  g[i] = sym_calc_value(Order[i], g[i - 1])
  <2>1. i - 1 \in 0 .. n
    BY <1>1
  <2> QED
    BY <1>3, <1>4, <2>1 DEF Folded
<1>6. D(g)
  <2>1. \A i \in 0 .. n : g[i] = IF i = 0 THEN t ELSE sym_calc_value(Order[i], g[i - 1])
    BY <1>1, <1>4, <1>5 DEF Folded
  <2> QED
    BY <1>4, <2>1
<1>7. D(f)
  <2> HIDE DEF D
  <2> QED
    BY <1>6
<1>8. Calc(t, n) = f[n]
  BY DEF Calc
<1>9. DOMAIN f = 0 .. n /\ \A i \in 0 .. n : f[i] = IF i = 0 THEN t ELSE sym_calc_value(Order[i], f[i - 1])
  <2> HIDE DEF f
  <2> QED
    BY <1>7
<1> HIDE DEF f
<1> DEFINE S == {i \in 0 .. n : f[i] = g[i]}
<1>10. \A i \in 0 .. n : i \in S
  <2>1. 0 \in S
    BY <1>1, <1>4, <1>9 DEF Folded
  <2>2. ASSUME NEW i \in 0 .. n, i < n, i \in S
        PROVE  i + 1 \in S
    <3>1. i + 1 \in 1 .. n /\ i + 1 \in 0 .. n /\ i + 1 # 0 /\ (i + 1) - 1 = i
      BY <1>1, <2>2
    <3>2. f[i + 1] = sym_calc_value(Order[i + 1], f[i])
      BY <1>9, <3>1
    <3>3. g[i + 1] = sym_calc_value(Order[i + 1], g[i])
      BY <1>5, <3>1
    <3> QED
      BY <2>2, <3>1, <3>2, <3>3
  <2> HIDE DEF S
  <2> QED
    BY <1>1, <2>1, <2>2, Climb
<1>11. f[n] = g[n]
  BY <1>1, <1>10
<1>12. Run(t, n, g)
  BY <1>4, <1>5 DEF Run, Folded
<1> QED
  BY <1>8, <1>11, <1>12

-----------------------------------------------------------------------------
(* A calculation from the start.                                           *)

\* The symbols among the first i.
Done(i) == {s \in Known : \E j \in 1 .. i : Order[j] = s}

\* The i-th symbol is not among those before it, nor in what they depend on.
LEMMA DoneFacts ==
  ASSUME NEW i \in 0 .. Len(Order), i < Len(Order), NEW q, q = Order[i + 1]
  PROVE  /\ q \in Symbols /\ q \notin Done(i) /\ Done(0) = {}
         /\ q \in Known => Done(i + 1) = Done(i) \cup {q}
         /\ q \notin Known => Done(i + 1) = Done(i)
         /\ \A r \in Earlier(q) : r \in Symbols /\ (r \in Known => r \in Done(i))
         /\ \A s \in Done(i) : /\ s \in Known /\ s \in Symbols /\ s # q /\ q \notin Earlier(s)
                               /\ s \notin Members(q)
<1>1. i \in Nat /\ i + 1 \in DOMAIN Order /\ i + 1 \in 1 .. Len(Order)
  BY OrderFacts
<1>2. q \in Symbols /\ \A j \in 1 .. i : j \in DOMAIN Order /\ j # i + 1
  BY <1>1, OrderFacts
<1>3. \A j \in 1 .. i : Order[j] # q
  BY <1>1, <1>2, OrderFacts
<1>4. q \notin Done(i)
  BY <1>3 DEF Done
<1>5. \A j : j \in 1 .. i + 1 <=> j \in 1 .. i \/ j = i + 1
  BY <1>1
<1>6. /\ q \in Known => Done(i + 1) = Done(i) \cup {q}
      /\ q \notin Known => Done(i + 1) = Done(i)
  BY <1>5 DEF Done
<1>7. ASSUME NEW r \in Earlier(q)
      PROVE  r \in Symbols /\ (r \in Known => r \in Done(i))
  <2>1. PICK j \in DOMAIN Order : j < i + 1 /\ Order[j] = r
    BY <1>1, EarlierFacts
  <2>2. j \in 1 .. i
    BY <1>1, <2>1, OrderFacts
  <2> QED
    BY <1>1, <2>1, <2>2, OrderFacts DEF Done
<1>8. ASSUME NEW s \in Done(i)
      PROVE  /\ s \in Known /\ s \in Symbols /\ s # q /\ q \notin Earlier(s)
             /\ s \notin Members(q)
  <2>1. s \in Known /\ s \in Symbols /\ s # q
    BY <1>4 DEF Done, Known
  <2>2. PICK j \in 1 .. i : Order[j] = s
    BY DEF Done
  <2>3. q \notin Earlier(s)
    <3> SUFFICES ASSUME q \in Earlier(s) PROVE FALSE
      OBVIOUS
    <3>1. PICK k \in DOMAIN Order : k < j /\ Order[k] = q
      BY <1>2, <2>2, EarlierFacts
    <3>2. k = i + 1
      BY <1>1, <3>1, OrderFacts
    <3> QED
      BY <1>1, <3>1, <3>2
  <2>4. s \notin Members(q)
    <3> SUFFICES ASSUME s \in Members(q) PROVE FALSE
      OBVIOUS
    <3>1. q \in ChoiceSyms
      BY <1>2 DEF ChoiceSyms, IsChoice
    <3> QED
      BY <3>1, <2>3, MemberFacts
  <2> QED
    BY <2>1, <2>3, <2>4
<1>9. Done(0) = {}
  BY DEF Done
<1> QED
  BY <1>2, <1>4, <1>6, <1>7, <1>8, <1>9

\* After all of Order every symbol is calculated.
LEMMA DoneAll == Done(Len(Order)) = Known
BY OrderFacts DEF Done, Known

\* A member that a choice can pick by itself.
Offered(m, a) == Visible(m, a) # 0 \/ calc_value(RevDep[m], a) # 0

\* A symbol that is calculated, seen from the table as it is.
Sound(s, t) ==
  /\ SeenAt(s, t, t.curr)
  /\ s \notin ChoiceSyms => s \in t.write \/ (t.curr[s] = 0 /\ t.vis[s] = 0)
  /\ TypeOf[s] = "INT" => InRange(s, t.curr[s])
  /\ s \in ChoiceSyms /\ t.curr[s] = 2 =>
       /\ t.pick[s] \in Members(s) /\ Offered(t.pick[s], t.curr)
       /\ \A m \in Members(s) : Visible(m, t.curr) # 0 => m \in t.write
  /\ s \in ChoiceSyms /\ t.curr[s] # 2 => t.pick[s] = "none"
  /\ IsMember(s) /\ Visible(s, t.curr) = 2 =>
       t.curr[s] = IF t.pick[ChoiceOf[s]] = s THEN 2 ELSE 0
  /\ IsMember(s) /\ Visible(s, t.curr) # 2 /\ t.curr[s] # 0 => calc_value(RevDep[s], t.curr) # 0

\* What a symbol depends on is not its own value.
LEMMA SeenFacts ==
  ASSUME NEW s \in Symbols, NEW t, NEW a \in Assignments, NEW b \in Assignments,
         \A r \in Symbols : r \in Before(s) => a[r] = b[r]
  PROVE  SeenAt(s, t, a) <=> SeenAt(s, t, b)
<1>1. Visible(s, a) = Visible(s, b) /\ Val(s, RevDep[s], a) = Val(s, RevDep[s], b)
  BY Local, ExprsFacts
<1>2. \A i \in DOMAIN ValDep[s] : Val(s, ValDep[s][i].cond, a) = Val(s, ValDep[s][i].cond, b)
  BY Local, ExprsFacts
<1>3. SelOf(s, a) = SelOf(s, b)
  BY <1>2 DEF SelOf
<1> QED
  BY <1>1, <1>3 DEF SeenAt

\* Of the symbols a symbol depends on none is itself.
LEMMA BeforeFacts ==
  /\ \A s \in Symbols : s \notin Before(s) /\ Before(s) \subseteq Earlier(s)
  /\ \A c \in ChoiceSyms : /\ Before(c) = Earlier(c)
                           /\ \A m \in Members(c) : Before(m) = Earlier(c) \cup {c}
  /\ \A s \in Symbols : Before(s) \subseteq Symbols
<1>1. \A s \in Symbols : Before(s) \subseteq Earlier(s) /\ s \notin Earlier(s) /\ Earlier(s) \subseteq Symbols
  BY BeforeEarlier, EarlierFacts DEF Earlier
<1> QED
  BY <1>1, MemberFacts DEF Before

\* What is not written is hidden and n.
LEMMA WrittenOrNo ==
  ASSUME NEW s \in Symbols, NEW u \in Table, IsTri(s)
  PROVE  TriWritten(s, u) \/ (TriValue(s, u) = 0 /\ u.vis[s] = 0)
<1> SUFFICES ASSUME ~TriWritten(s, u) PROVE TriValue(s, u) = 0 /\ u.vis[s] = 0
  OBVIOUS
<1>1. u.vis[s] = 0 /\ u.rev[s] = 0 /\ Chosen(s, u) = {} /\ (IsChoice(s) \/ Applying(s, u) = {})
  BY DEF TriWritten
<1>2. Base(s, u) = 0 /\ Low(s, u) = {0}
  BY <1>1 DEF Base, Low, DefaultValue
<1>3. Max({Base(s, u)} \cup Low(s, u)) = 0
  BY <1>2, TriFacts
<1>4. TriValue(s, u) = Promote(0, Bool(s, u.curr))
  BY <1>3, TriFacts
<1> QED
  BY <1>1, <1>4 DEF Promote

\* A hidden member of a choice is n unless it is selected.
LEMMA HiddenMember ==
  ASSUME NEW s \in Symbols, NEW u \in Table, IsMember(s), u.vis[s] = 0, u.rev[s] = 0
  PROVE  TriValue(s, u) = 0
<1>1. Defaults[s] = <<>> /\ ValDep[s] = <<>> /\ IsTri(s)
  BY ChoiceAssumption DEF IsTri
<1>2. Applying(s, u) = {} /\ Chosen(s, u) = {}
  BY <1>1 DEF Applying, Chosen
<1>3. Base(s, u) = 0 /\ Low(s, u) = {0}
  BY <1>2 DEF Base, Low, DefaultValue
<1>4. Max({Base(s, u)} \cup Low(s, u)) = 0
  BY <1>1, <1>3, TriFacts
<1>5. TriValue(s, u) = Promote(0, Bool(s, u.curr))
  BY <1>1, <1>4, TriFacts
<1> QED
  BY <1>5 DEF Promote

\* A symbol stays so when a later one is calculated.
LEMMA SoundKept ==
  ASSUME NEW i \in 0 .. Len(Order), i < Len(Order), NEW q, q = Order[i + 1], q \in Known,
         NEW t \in Table, NEW r, Frame(q, t, r), NEW s \in Done(i), Sound(s, t)
  PROVE  Sound(s, r)
<1>1. /\ s \in Symbols /\ s # q /\ q \notin Earlier(s) /\ s \notin Members(q)
      /\ q \in Symbols
  BY DoneFacts
<1>2. r \in Table /\ t.curr \in Assignments /\ r.curr \in Assignments
  BY TableFacts DEF Frame
<1>3. r.curr[s] = t.curr[s] /\ SameAt(s, r, t)
  BY <1>1 DEF Frame
<1>4. \A p \in Symbols : p \in Before(s) => t.curr[p] = r.curr[p]
  BY <1>1, BeforeFacts DEF Frame
<1>5. SeenAt(s, r, t.curr)
  BY <1>3 DEF SeenAt, SameAt, Sound
<1>6. SeenAt(s, r, r.curr)
  BY <1>1, <1>2, <1>4, <1>5, SeenFacts
<1>7. s \notin ChoiceSyms => s \in r.write \/ (r.curr[s] = 0 /\ r.vis[s] = 0)
  BY <1>1, <1>3 DEF Sound, Frame, SameAt
<1>8. TypeOf[s] = "INT" => InRange(s, r.curr[s])
  BY <1>3 DEF Sound
<1>9. s \in ChoiceSyms => r.pick[s] = t.pick[s]
  BY <1>1 DEF Frame
<1>10. ASSUME s \in ChoiceSyms, r.curr[s] = 2, NEW m \in Members(s), Visible(m, r.curr) # 0
       PROVE  m \in r.write
  <2>1. m \in Symbols /\ Before(m) = Earlier(s) \cup {s} /\ IsMember(m)
    BY <1>10, BeforeFacts, MemberFacts
  <2>2. \A p \in Symbols : p \in Before(m) => t.curr[p] = r.curr[p]
    BY <1>1, <2>1 DEF Frame
  <2>3. Visible(m, t.curr) # 0
    BY <1>2, <1>10, <2>1, <2>2, Local
  <2>4. m \in t.write
    BY <1>3, <1>10, <2>3 DEF Sound
  <2> QED
    BY <2>1, <2>4 DEF Frame
<1>11. /\ Visible(s, r.curr) = Visible(s, t.curr)
       /\ calc_value(RevDep[s], r.curr) = calc_value(RevDep[s], t.curr)
  BY <1>1, <1>2, <1>4, Local, ExprsFacts
<1>12. IsMember(s) => r.pick[ChoiceOf[s]] = t.pick[ChoiceOf[s]]
  BY <1>1, MemberFacts DEF Frame
<1>13. ASSUME s \in ChoiceSyms, r.curr[s] = 2
       PROVE  Offered(r.pick[s], r.curr)
  <2> DEFINE m == r.pick[s]
  <2>1. m \in Members(s) /\ Offered(m, t.curr)
    BY <1>3, <1>9, <1>13 DEF Sound
  <2>2. m \in Symbols /\ Before(m) = Earlier(s) \cup {s} /\ IsMember(m)
    BY <1>13, <2>1, BeforeFacts, MemberFacts
  <2> HIDE DEF m
  <2>3. \A p \in Symbols : p \in Before(m) => t.curr[p] = r.curr[p]
    BY <1>1, <2>2 DEF Frame
  <2>4. /\ Visible(m, t.curr) = Visible(m, r.curr)
        /\ calc_value(RevDep[m], t.curr) = calc_value(RevDep[m], r.curr)
    BY <1>2, <2>2, <2>3, Local, ExprsFacts
  <2> QED
    BY <2>1, <2>4 DEF Offered, m
<1> QED
  BY <1>3, <1>6, <1>7, <1>8, <1>9, <1>10, <1>11, <1>12, <1>13 DEF Sound

\* A symbol is so when it is calculated.
LEMMA SoundNew ==
  ASSUME NEW i \in 0 .. Len(Order), i < Len(Order), NEW q, q = Order[i + 1], q \in Known,
         NEW t \in Table, t.valid = Done(i), \A s \in Done(i) : Sound(s, t),
         NEW r, r = sym_calc_value(q, t)
  PROVE  Sound(q, r)
<1>1. q \in Symbols /\ q \notin t.valid
  BY DoneFacts
<1>2. Frame(q, t, r)
  BY <1>1, StepTable
<1>3. r \in Table /\ t.curr \in Assignments /\ r.curr \in Assignments
  BY <1>2, TableFacts DEF Frame
<1>4. \A p \in Symbols : p \in Before(q) => t.curr[p] = r.curr[p]
  BY <1>1, <1>2, BeforeFacts DEF Frame
<1>5. /\ SeenAt(q, r, r.curr) /\ Visible(q, r.curr) = Visible(q, t.curr)
      /\ calc_value(RevDep[q], r.curr) = calc_value(RevDep[q], t.curr)
  BY <1>1, <1>2, <1>3, <1>4, SeenFacts, Local, ExprsFacts DEF Frame
<1> DEFINE u == Prepared(q, t)
<1>6. IsPrepared(q, t, u)
  BY PreparedFacts
<1> HIDE DEF u
<1>7. u \in Table
  BY <1>6 DEF IsPrepared
<1>8. CASE TypeOf[q] = "INT"
  <2>1. r.curr[q] = sym_validate_range(q, NumberValue(q, u), u) /\ q \in r.write
    BY <1>1, <1>8, StepNumber DEF u
  <2>2. InRange(q, r.curr[q])
    BY <1>1, <1>7, <1>8, <2>1, NumberFacts, RangeFacts
  <2>3. q \notin ChoiceSyms /\ ~IsMember(q)
    BY <1>1, <1>8, MemberFacts
  <2> QED
    BY <1>5, <2>1, <2>2, <2>3 DEF Sound
<1>9. CASE q \in ChoiceSyms
  <2> DEFINE v == sym_calc_visibility(Members(q), WithTri(q, u))
  <2>1. /\ TriValue(q, u) = 2 => StepChoiceOn(q, t, v, r)
        /\ TriValue(q, u) # 2 => StepChoiceOff(q, t, r)
    BY <1>1, <1>9, StepChoice DEF u
  <2> HIDE DEF v
  <2>2. TypeOf[q] = "BOOLEAN" /\ ~IsMember(q)
    BY <1>9, MemberFacts
  <2>3. CASE StepChoiceOff(q, t, r)
    BY <1>5, <1>9, <2>2, <2>3 DEF StepChoiceOff, Sound
  <2>4. CASE StepChoiceOn(q, t, v, r)
    <3>1. v \in Table /\ v.curr \in Assignments
      BY <2>4, TableFacts DEF StepChoiceOn
    <3>2. /\ r.pick[q] = Pick(q, v) /\ r.curr[q] = (IF Pick(q, v) = "none" THEN 0 ELSE 2)
          /\ v.curr[q] = 2 /\ \A p \in Symbols : p # q => v.curr[p] = t.curr[p]
          /\ \A m \in Members(q) : SeenAt(m, v, v.curr) /\ (v.vis[m] # 0 => m \in r.write)
      BY <2>4 DEF StepChoiceOn
    <3>3. r.curr[q] = 2 => r.pick[q] \in Members(q)
      BY <1>9, <3>1, <3>2, PickFacts
    <3>4. ASSUME r.curr[q] = 2, NEW m \in Members(q), Visible(m, r.curr) # 0
          PROVE  m \in r.write
      <4>1. \A p \in Symbols : v.curr[p] = r.curr[p]
        BY <1>2, <3>2, <3>4 DEF Frame
      <4>2. m \in Symbols
        BY <1>9, MemberFacts
      <4>3. Visible(m, v.curr) = Visible(m, r.curr)
        BY <1>3, <3>1, <4>1, <4>2, Local
      <4>4. v.vis[m] # 0
        BY <3>2, <3>4, <4>3 DEF SeenAt
      <4> QED
        BY <3>2, <4>4
    <3>5. r.curr[q] # 2 => r.pick[q] = "none"
      BY <3>2
    <3>6. ASSUME r.curr[q] = 2
          PROVE  Offered(r.pick[q], r.curr)
      <4> DEFINE m == r.pick[q]
      <4>1. m \in Members(q) /\ m = Pick(q, v) /\ m # "none"
        BY <3>2, <3>3, <3>6
      <4>2. m \in Symbols /\ SeenAt(m, v, v.curr) /\ (v.vis[m] # 0 \/ v.rev[m] # 0)
        BY <1>9, <3>1, <3>2, <4>1, PickFacts, MemberFacts
      <4> HIDE DEF m
      <4>3. \A p \in Symbols : v.curr[p] = r.curr[p]
        BY <1>2, <3>2, <3>6 DEF Frame
      <4>4. /\ Visible(m, v.curr) = Visible(m, r.curr)
            /\ Val(m, RevDep[m], v.curr) = 0 <=> calc_value(RevDep[m], v.curr) = 0
            /\ calc_value(RevDep[m], v.curr) = calc_value(RevDep[m], r.curr)
        BY <1>3, <3>1, <4>2, <4>3, Local, ValFacts, ExprsFacts
      <4> QED
        BY <4>2, <4>4 DEF SeenAt, Offered, m
    <3> QED
      BY <1>5, <1>9, <2>2, <3>3, <3>4, <3>5, <3>6 DEF Sound
  <2> QED
    BY <2>1, <2>3, <2>4
<1>10. CASE IsMember(q) /\ Visible(q, t.curr) = 2
  <2>1. r.curr[q] = (IF t.pick[ChoiceOf[q]] = q THEN 2 ELSE 0) /\ r.write = t.write
    BY <1>1, <1>10, StepMember
  <2> DEFINE c == ChoiceOf[q]
  <2>2. /\ c \in ChoiceSyms /\ c \in Earlier(q) /\ q \in Members(c) /\ TypeOf[q] = "BOOLEAN"
        /\ q \notin ChoiceSyms /\ c \in Known /\ c # q /\ q # "none"
    BY <1>1, <1>10, MemberFacts, OrderAssumption DEF Known
  <2> HIDE DEF c
  <2>3. Sound(c, t)
    BY <2>2, DoneFacts
  <2>4. r.pick[c] = t.pick[c]
    BY <1>2, <2>2 DEF Frame
  <2>5. t.curr[c] = 2
    <3>1. t.curr[c] \in {0, 2}
      BY <2>2, TableFacts, MemberFacts DEF Proper, Typed
    <3>2. calc_value(Prompt[q], t.curr) # 0
      BY <1>1, <1>3, <1>10, VisibleFacts
    <3> QED
      BY <1>1, <1>3, <1>10, <3>1, <3>2, ChoiceAssumption DEF c
  <2>6. q \in r.write
    BY <1>10, <2>1, <2>2, <2>3, <2>5 DEF Sound
  <2>7. r.curr[q] = IF r.pick[c] = q THEN 2 ELSE 0
    BY <2>1, <2>4 DEF c
  <2>8. Visible(q, r.curr) = 2
    BY <1>5, <1>10
  <2> QED
    BY <1>5, <2>2, <2>6, <2>7, <2>8 DEF Sound, c
<1>11. CASE TypeOf[q] # "INT" /\ q \notin ChoiceSyms /\ ~(IsMember(q) /\ Visible(q, t.curr) = 2)
  <2>1. IsTri(q)
    BY <1>1, <1>11, ExprAssumption DEF Known, IsTri
  <2>2. r.curr[q] = TriValue(q, u) /\ (TriWritten(q, u) => q \in r.write)
    BY <1>1, <1>11, <2>1, StepTri DEF u
  <2>3. u.vis[q] = r.vis[q] /\ u.rev[q] = r.rev[q]
    BY <1>2, <1>6 DEF Frame, IsPrepared, SeenAt
  <2>4. q \in r.write \/ (r.curr[q] = 0 /\ r.vis[q] = 0)
    BY <1>1, <1>7, <2>1, <2>2, <2>3, WrittenOrNo
  <2>5. ASSUME IsMember(q), r.curr[q] # 0
        PROVE  calc_value(RevDep[q], r.curr) # 0
    <3>1. TypeOf[q] = "BOOLEAN"
      BY <1>1, <2>5, MemberFacts
    <3>2. Visible(q, t.curr) = 0
      BY <1>1, <1>3, <1>11, <2>5, <3>1, VisibleFacts DEF Bool
    <3>3. u.vis[q] = 0
      BY <1>5, <2>3, <3>2 DEF SeenAt
    <3>4. r.rev[q] # 0
      BY <1>1, <1>7, <2>2, <2>3, <2>5, <3>3, HiddenMember
    <3> QED
      BY <1>1, <1>3, <1>5, <3>4, ValFacts, ExprsFacts DEF SeenAt
  <2> QED
    BY <1>5, <1>11, <2>4, <2>5 DEF Sound
<1> QED
  BY <1>8, <1>9, <1>10, <1>11

\* After i symbols of a calculation from the table x, in which none is valid.
Stage(i, x, t) ==
  /\ t \in Table /\ t.valid = Done(i) /\ t.def = x.def /\ t.defsym = x.defsym
  /\ t.has \subseteq x.has /\ x.has \subseteq t.has \cup ChoiceSyms
  /\ \A s \in Done(i) : Sound(s, t)

\* One more symbol of Order is calculated, from a table where none was valid.
LEMMA StageStep ==
  ASSUME NEW i \in 0 .. Len(Order), i < Len(Order), NEW x \in Table, NEW t, Stage(i, x, t)
  PROVE  Stage(i + 1, x, sym_calc_value(Order[i + 1], t))
<1> DEFINE q == Order[i + 1]
           r == sym_calc_value(q, t)
<1>1. t \in Table /\ q \in Symbols /\ q \notin Done(i) /\ t.valid = Done(i)
  BY DoneFacts DEF Stage
<1> HIDE DEF r
<1>2. CASE q \notin Known
  <2>1. r = t /\ Done(i + 1) = Done(i)
    BY <1>1, <1>2, StepTable, DoneFacts DEF r
  <2> QED
    BY <2>1 DEF Stage, r
<1>3. CASE q \in Known
  <2>1. Frame(q, t, r) /\ Done(i + 1) = Done(i) \cup {q}
    BY <1>1, <1>3, StepTable, DoneFacts DEF r
  <2>2. \A s \in Done(i) : Sound(s, r)
    BY <1>1, <1>3, <2>1, SoundKept DEF Stage
  <2>3. Sound(q, r)
    BY <1>1, <1>3, SoundNew DEF Stage, r
  <2>4. \A s \in Done(i + 1) : Sound(s, r)
    BY <2>1, <2>2, <2>3
  <2>5. /\ r \in Table /\ r.valid = Done(i + 1) /\ r.def = x.def /\ r.defsym = x.defsym
        /\ r.has \subseteq x.has /\ x.has \subseteq r.has \cup ChoiceSyms
    BY <2>1 DEF Frame, Stage
  <2> QED
    BY <2>4, <2>5 DEF Stage, r
<1> QED
  BY <1>2, <1>3

\* By induction along Order: after i steps the first i symbols are sound.
LEMMA RunStage ==
  ASSUME NEW x \in Table, x.valid = {}, NEW g, Run(x, Len(Order), g)
  PROVE  \A i \in 0 .. Len(Order) : Stage(i, x, g[i])
<1> DEFINE n == Len(Order)
           S == {i \in 0 .. n : Stage(i, x, g[i])}
<1>1. n \in Nat
  BY OrderFacts
<1>2. 0 \in S
  <2>1. g[0] = x /\ Done(0) = {}
    BY DEF Run, Done
  <2>2. Stage(0, x, x)
    BY <2>1 DEF Stage
  <2> QED
    BY <1>1, <2>1, <2>2
<1>3. ASSUME NEW i \in 0 .. n, i < n, i \in S
      PROVE  i + 1 \in S
  <2>1. i + 1 \in 1 .. n /\ i + 1 \in 0 .. n /\ (i + 1) - 1 = i
    BY <1>1, <1>3
  <2>2. g[i + 1] = sym_calc_value(Order[i + 1], g[i])
    BY <2>1 DEF Run
  <2>3. Stage(i, x, g[i])
    BY <1>3
  <2> QED
    BY <1>3, <2>1, <2>2, <2>3, StageStep
<1>4. \A i \in 0 .. n : i \in S
  <2> HIDE DEF S
  <2> QED
    BY <1>1, <1>2, <1>3, Climb
<1> QED
  BY <1>4

\* What was calculated stays until the end.
Same(s, t, u) ==
  /\ t.curr[s] = u.curr[s] /\ SameAt(s, t, u)
  /\ s \in ChoiceSyms => t.pick[s] = u.pick[s]

\* What a calculation gave a symbol stays until its end.
LEMMA RunKeeps ==
  ASSUME NEW x \in Table, NEW g, Run(x, Len(Order), g),
         NEW i \in 0 .. Len(Order), NEW s \in Done(i)
  PROVE  Same(s, g[Len(Order)], g[i])
<1> DEFINE n == Len(Order)
           S == {k \in i .. n : Same(s, g[k], g[i])}
<1>1. n \in Nat /\ i \in Nat /\ i <= n
  BY OrderFacts
<1>2. i \in S
  BY <1>1 DEF Same, SameAt
<1>3. ASSUME NEW k \in i .. n, k < n, k \in S
      PROVE  k + 1 \in S
  <2> DEFINE q == Order[k + 1]
  <2>1. k + 1 \in 1 .. n /\ k + 1 \in i .. n /\ (k + 1) - 1 = k /\ k \in 0 .. n
    BY <1>1, <1>3
  <2>2. g[k + 1] = sym_calc_value(q, g[k]) /\ g[k] \in Table
    BY <2>1 DEF Run
  <2>3. s \in Done(k)
    <3>1. \A j \in 1 .. i : j \in 1 .. k
      BY <1>1, <2>1
    <3> QED
      BY <3>1 DEF Done
  <2>4. s # q /\ s \notin Members(q) /\ q \in Symbols /\ s \in Symbols
    BY <1>3, <2>1, <2>3, DoneFacts
  <2> HIDE DEF q
  <2>5. g[k + 1] = g[k] \/ Frame(q, g[k], g[k + 1])
    BY <2>2, <2>4, StepTable
  <2>6. Same(s, g[k], g[i])
    BY <1>3
  <2>7. Same(s, g[k + 1], g[i])
    BY <2>4, <2>5, <2>6 DEF Same, SameAt, Frame
  <2> QED
    BY <2>1, <2>7
<1>4. \A k \in i .. n : k \in S
  <2> HIDE DEF S
  <2> QED
    BY <1>1, <1>2, <1>3, Climb
<1> QED
  BY <1>1, <1>4

-----------------------------------------------------------------------------
(* Two calculations from the start.                                        *)

\* What the user set in y makes no difference to the calculated table t.
HarmlessAt(s, t, y) ==
  /\ s \notin ChoiceSyms /\ ~IsMember(s) =>
       \/ SameUser(s, t, y)
       \/ t.vis[s] = 0
       \/ s \in y.has /\ y.def[s] = t.curr[s]
  /\ s \in ChoiceSyms =>
       \/ y.defsym[s] = t.defsym[s]
       \/ /\ t.curr[s] = 2 /\ y.defsym[s] = t.pick[s]
          /\ t.pick[s] \in Members(s) /\ t.vis[t.pick[s]] # 0
       \/ t.curr[s] # 2

Harmless(t, y) == \A s \in Known : HarmlessAt(s, t, y)

Agree(t, u) == \A s \in Known : Same(s, t, u)

\* The tables agree on the symbols before q, so on its visibility.
LEMMA PreparedAlike ==
  ASSUME NEW q \in Known, NEW t \in Table, NEW u \in Table,
         \A p \in Earlier(q) : t.curr[p] = u.curr[p]
  PROVE  Alike(q, Prepared(q, t), Prepared(q, u))
<1>1. IsPrepared(q, t, Prepared(q, t)) /\ IsPrepared(q, u, Prepared(q, u))
  BY PreparedFacts
<1> DEFINE v == Prepared(q, t)
           w == Prepared(q, u)
<1> HIDE DEF v, w
<1>2. /\ v.curr = t.curr /\ w.curr = u.curr /\ q \in Symbols
      /\ SeenAt(q, v, t.curr) /\ SeenAt(q, w, u.curr)
  BY <1>1 DEF IsPrepared, v, w, Known
<1>3. \A p \in Symbols : p \in Before(q) => t.curr[p] = u.curr[p]
  BY <1>2, BeforeFacts
<1>4. t.curr \in Assignments /\ u.curr \in Assignments
  BY TableFacts
<1>5. SeenAt(q, w, t.curr)
  BY <1>2, <1>3, <1>4, SeenFacts
<1>6. SameAt(q, v, w)
  BY <1>2, <1>5 DEF SeenAt, SameAt
<1> QED
  BY <1>2, <1>3, <1>6 DEF Alike, v, w

\* A choice gives its members the same.
LEMMA ChoiceAgrees ==
  ASSUME NEW c \in ChoiceSyms, NEW v \in Table, NEW w \in Table,
         \A p \in Earlier(c) : v.curr[p] = w.curr[p], v.curr[c] = w.curr[c],
         \A m \in Members(c) : SeenAt(m, v, v.curr) /\ SeenAt(m, w, w.curr)
  PROVE  /\ \A m \in Members(c) : SameAt(m, v, w)
         /\ v.defsym[c] = w.defsym[c] => Pick(c, v) = Pick(c, w)
<1>1. v.curr \in Assignments /\ w.curr \in Assignments /\ c \in Symbols
  BY TableFacts, MemberFacts
<1>2. ASSUME NEW m \in Members(c)
      PROVE  SameAt(m, v, w)
  <2>1. m \in Symbols /\ \A p \in Symbols : p \in Before(m) => v.curr[p] = w.curr[p]
    BY BeforeFacts, MemberFacts
  <2>2. SeenAt(m, v, w.curr)
    BY <1>1, <2>1, SeenFacts
  <2> QED
    BY <2>2 DEF SeenAt, SameAt
<1>3. \A p \in Symbols : p \in Before(c) => v.curr[p] = w.curr[p]
  BY BeforeFacts
<1>4. \A e \in Exprs(c) : calc_value(e, v.curr) = calc_value(e, w.curr)
  BY <1>1, <1>3, Local
<1>5. Applying(c, v) = Applying(c, w)
  BY <1>1, <1>4, ExprsFacts DEF Applying
<1>6. v.defsym[c] = w.defsym[c] => Pick(c, v) = Pick(c, w)
  BY <1>2, <1>5, PickLocal DEF SameAt
<1> QED
  BY <1>2, <1>6

\* One more symbol, q; X is what the first calculation ends with.
LEMMA AgreeStep ==
  ASSUME NEW i \in 0 .. Len(Order), i < Len(Order), NEW q, q = Order[i + 1], q \in Known,
         NEW x \in Table, NEW y \in Table, NEW X \in Table,
         NEW t, Stage(i, x, t), NEW u, Stage(i, y, u), \A s \in Done(i) : Same(s, t, u),
         NEW r, r = sym_calc_value(q, t), NEW w, w = sym_calc_value(q, u),
         Same(q, X, r), X.def = x.def, X.defsym = x.defsym,
         X.has \subseteq x.has, x.has \subseteq X.has \cup ChoiceSyms,
         \A p \in Earlier(q) : X.curr[p] = t.curr[p],
         \A m \in Members(q) : SeenAt(m, X, X.curr),
         HarmlessAt(q, X, y)
  PROVE  Same(q, r, w)
<1>1. /\ t \in Table /\ u \in Table /\ q \in Symbols /\ q \notin t.valid /\ q \notin u.valid
  BY DoneFacts DEF Stage
<1>2. \A p \in Earlier(q) : t.curr[p] = u.curr[p]
  <2> SUFFICES ASSUME NEW p \in Earlier(q) PROVE t.curr[p] = u.curr[p]
    OBVIOUS
  <2>1. p \in Symbols /\ (p \in Known => p \in Done(i))
    BY DoneFacts
  <2>2. CASE p \in Known
    BY <2>1, <2>2 DEF Same
  <2>3. CASE p \notin Known
    <3>1. TypeOf[p] = "UNKNOWN"
      BY <2>1, <2>3 DEF Known
    <3>2. Typed(t.curr) /\ Typed(u.curr)
      BY <1>1, TableFacts DEF Proper
    <3> QED
      BY <2>1, <3>1, <3>2 DEF Typed
  <2> QED
    BY <2>2, <2>3
<1> DEFINE v == Prepared(q, t)
           z == Prepared(q, u)
<1>3. Alike(q, v, z) /\ IsPrepared(q, t, v) /\ IsPrepared(q, u, z)
  BY <1>1, <1>2, PreparedAlike, PreparedFacts
<1> HIDE DEF v, z
<1>4. /\ v \in Table /\ z \in Table /\ v.curr = t.curr /\ z.curr = u.curr
      /\ v.has = t.has /\ z.has = u.has /\ v.def = t.def /\ z.def = u.def
      /\ v.pick = t.pick /\ z.pick = u.pick
      /\ SeenAt(q, v, t.curr) /\ SeenAt(q, z, u.curr)
  BY <1>3 DEF IsPrepared
<1>5. Frame(q, t, r) /\ Frame(q, u, w)
  BY <1>1, StepTable
<1>6. SameAt(q, r, v) /\ SameAt(q, w, z) /\ SameAt(q, r, w)
  <2>1. SeenAt(q, r, t.curr) /\ SeenAt(q, w, u.curr)
    BY <1>5 DEF Frame
  <2>2. SameAt(q, r, v) /\ SameAt(q, w, z)
    BY <1>4, <2>1 DEF SeenAt, SameAt
  <2>3. SameAt(q, v, z)
    BY <1>3 DEF Alike
  <2> QED
    BY <2>2, <2>3 DEF SameAt
<1>7. X.vis[q] = v.vis[q] /\ X.curr[q] = r.curr[q]
  BY <1>6 DEF Same, SameAt
<1>8. ASSUME q \notin ChoiceSyms
      PROVE  SameUser(q, X, v) /\ (SameUser(q, X, y) => SameUser(q, v, z))
             /\ (q \in y.has => q \in z.has) /\ y.def = z.def
  BY <1>4, <1>8 DEF Stage, SameUser
<1>9. CASE TypeOf[q] = "INT"
  <2>1. r.curr[q] = sym_validate_range(q, NumberValue(q, v), v)
    BY <1>1, <1>9, StepNumber DEF v
  <2>2. w.curr[q] = sym_validate_range(q, NumberValue(q, z), z)
    BY <1>1, <1>9, StepNumber DEF z
  <2>3. \A n : sym_validate_range(q, n, v) = sym_validate_range(q, n, z)
    BY <1>1, <1>4, <1>9, RangeFacts DEF sym_validate_range
  <2>4. q \notin ChoiceSyms /\ ~IsMember(q)
    BY <1>1, <1>9, MemberFacts
  <2>5. Applying(q, v) = Applying(q, z) /\ Chosen(q, v) = Chosen(q, z) /\ v.vis[q] = z.vis[q]
    BY <1>1, <1>3, <1>4, AlikeFacts DEF Alike, SameAt
  <2>6. /\ Chosen(q, v) # {} => v.curr[ValDep[q][Min(Chosen(q, v))].val.sym]
                                 = z.curr[ValDep[q][Min(Chosen(q, v))].val.sym]
        /\ v.curr[Defaults[q][Min(Applying(q, v))].val.sym]
             = z.curr[Defaults[q][Min(Applying(q, v))].val.sym]
    BY <1>1, <1>2, <1>4, <1>9, NumberFacts
  <2>7. CASE v.vis[q] = 0 \/ SameUser(q, X, y)
    <3>1. v.vis[q] = 0 \/ SameUser(q, v, z)
      BY <1>8, <2>4, <2>7
    <3>2. NumberValue(q, v) = NumberValue(q, z)
      BY <2>5, <2>6, <3>1 DEF NumberValue, SameUser
    <3> QED
      BY <1>6, <2>1, <2>2, <2>3, <2>4, <3>2 DEF Same
  <2>8. CASE v.vis[q] # 0 /\ q \in y.has /\ y.def[q] = X.curr[q]
    <3>1. NumberValue(q, z) = r.curr[q]
      BY <1>7, <1>8, <2>4, <2>5, <2>8 DEF NumberValue
    <3>2. NumberValue(q, v) \in Numbers
      BY <1>1, <1>4, <1>9, NumberFacts
    <3>3. r.curr[q] \in Numbers /\ InRange(q, r.curr[q])
      BY <1>1, <1>4, <1>9, <2>1, <3>2, RangeFacts
    <3>4. w.curr[q] = r.curr[q]
      BY <1>1, <1>4, <1>9, <2>2, <3>1, <3>3, RangeFacts
    <3> QED
      BY <1>6, <2>4, <3>4 DEF Same
  <2> QED
    BY <1>7, <2>4, <2>7, <2>8 DEF HarmlessAt
<1>10. CASE IsMember(q) /\ Visible(q, t.curr) = 2
  <2>1. Visible(q, u.curr) = 2
    BY <1>4, <1>3, <1>10 DEF Alike, SameAt, SeenAt
  <2>2. /\ r.curr[q] = IF t.pick[ChoiceOf[q]] = q THEN 2 ELSE 0
        /\ w.curr[q] = IF u.pick[ChoiceOf[q]] = q THEN 2 ELSE 0
    BY <1>1, <1>10, <2>1, StepMember
  <2>3. ChoiceOf[q] \in ChoiceSyms /\ ChoiceOf[q] \in Done(i) /\ q \notin ChoiceSyms
    BY <1>1, <1>10, MemberFacts, DoneFacts DEF Known
  <2>4. t.pick[ChoiceOf[q]] = u.pick[ChoiceOf[q]]
    BY <2>3 DEF Same
  <2> QED
    BY <1>6, <2>2, <2>3, <2>4 DEF Same
<1>11. CASE q \in ChoiceSyms
  <2>1. TriValue(q, v) = TriValue(q, z)
    BY <1>3, <1>4, <1>11, TriChoiceSame
  <2> DEFINE a == sym_calc_visibility(Members(q), WithTri(q, v))
             b == sym_calc_visibility(Members(q), WithTri(q, z))
  <2>2. /\ TriValue(q, v) = 2 => StepChoiceOn(q, t, a, r)
        /\ TriValue(q, v) # 2 => StepChoiceOff(q, t, r)
    BY <1>1, <1>11, StepChoice DEF v
  <2>3. /\ TriValue(q, z) = 2 => StepChoiceOn(q, u, b, w)
        /\ TriValue(q, z) # 2 => StepChoiceOff(q, u, w)
    BY <1>1, <1>11, StepChoice DEF z
  <2> HIDE DEF a, b
  <2>4. CASE TriValue(q, v) # 2
    BY <1>6, <2>1, <2>2, <2>3, <2>4 DEF StepChoiceOff, Same
  <2>5. CASE TriValue(q, v) = 2
    <3>1. StepChoiceOn(q, t, a, r) /\ StepChoiceOn(q, u, b, w)
      BY <2>1, <2>2, <2>3, <2>5
    <3>2. /\ a \in Table /\ b \in Table /\ a.curr[q] = 2 /\ b.curr[q] = 2
          /\ a.defsym = t.defsym /\ b.defsym = u.defsym
          /\ r.pick[q] = Pick(q, a) /\ r.curr[q] = (IF Pick(q, a) = "none" THEN 0 ELSE 2)
          /\ w.pick[q] = Pick(q, b) /\ w.curr[q] = (IF Pick(q, b) = "none" THEN 0 ELSE 2)
          /\ \A m \in Members(q) : SeenAt(m, a, a.curr) /\ SeenAt(m, b, b.curr)
      BY <3>1 DEF StepChoiceOn
    <3>3. \A p \in Symbols : p # q => a.curr[p] = t.curr[p] /\ b.curr[p] = u.curr[p]
      BY <3>1 DEF StepChoiceOn
    <3>4. \A p \in Earlier(q) : p \in Symbols /\ p # q
      BY <1>1, EarlierFacts DEF Earlier
    <3>5. \A p \in Earlier(q) : a.curr[p] = b.curr[p] /\ a.curr[p] = X.curr[p]
      BY <1>2, <3>3, <3>4
    <3>6. /\ \A m \in Members(q) : SameAt(m, a, b)
          /\ a.defsym[q] = b.defsym[q] => Pick(q, a) = Pick(q, b)
      <4>1. a.curr[q] = b.curr[q] /\ \A p \in Earlier(q) : a.curr[p] = b.curr[p]
        BY <3>2, <3>5
      <4>2. \A m \in Members(q) : SeenAt(m, a, a.curr) /\ SeenAt(m, b, b.curr)
        BY <3>2
      <4>3. a \in Table /\ b \in Table
        BY <3>2
      <4> QED
        BY <1>11, <4>1, <4>2, <4>3, ChoiceAgrees
    <3>7. Pick(q, a) = Pick(q, b)
      <4>1. a.defsym[q] = X.defsym[q] /\ b.defsym[q] = y.defsym[q]
        BY <3>2 DEF Stage
      <4>2. CASE y.defsym[q] = X.defsym[q]
        BY <3>6, <4>1, <4>2
      <4>3. CASE /\ X.curr[q] = 2 /\ y.defsym[q] = X.pick[q]
                 /\ X.pick[q] \in Members(q) /\ X.vis[X.pick[q]] # 0
        <5> DEFINE m == X.pick[q]
        <5>1. /\ SeenAt(m, X, X.curr) /\ SeenAt(m, a, a.curr) /\ m \in Symbols
              /\ X.curr \in Assignments /\ a.curr \in Assignments
          BY <1>11, <3>2, <4>3, MemberFacts, TableFacts
        <5>2. \A p \in Symbols : p \in Before(m) => a.curr[p] = X.curr[p]
          BY <1>11, <3>2, <3>5, <4>3, BeforeFacts
        <5>3. Visible(m, a.curr) = Visible(m, X.curr)
          BY <5>1, <5>2, Local
        <5>4. b.vis[m] # 0
          BY <3>6, <4>3, <5>1, <5>3 DEF SeenAt, SameAt
        <5>5. m # "none"
          BY <5>1, OrderAssumption
        <5>6. Pick(q, b) = m
          BY <4>1, <4>3, <5>4, <5>5 DEF Pick
        <5>7. Pick(q, a) = m
          BY <1>11, <3>2 DEF Same
        <5> QED
          BY <5>6, <5>7
      <4>4. CASE X.curr[q] # 2
        <5>1. Pick(q, a) = "none"
          BY <3>2, <4>4 DEF Same
        <5>2. \A m \in Members(q) : a.vis[m] = 0 /\ a.rev[m] = 0
          BY <1>11, <3>2, <5>1, PickFacts
        <5>3. \A m \in Members(q) : b.vis[m] = 0 /\ b.rev[m] = 0
          BY <3>6, <5>2 DEF SameAt
        <5>4. Pick(q, b) = "none"
          BY <1>11, <3>2, <5>3, PickFacts
        <5> QED
          BY <5>1, <5>4
      <4> QED
        BY <1>11, <4>2, <4>3, <4>4 DEF HarmlessAt
    <3> QED
      BY <1>6, <3>2, <3>7 DEF Same
  <2> QED
    BY <2>4, <2>5
<1>12. CASE TypeOf[q] # "INT" /\ q \notin ChoiceSyms /\ ~(IsMember(q) /\ Visible(q, t.curr) = 2)
  <2>1. IsTri(q)
    BY <1>1, <1>12, ExprAssumption DEF Known, IsTri
  <2>2. Visible(q, t.curr) = Visible(q, u.curr)
    BY <1>3, <1>4 DEF Alike, SameAt, SeenAt
  <2>3. r.curr[q] = TriValue(q, v)
    BY <1>1, <1>12, <2>1, StepTri DEF v
  <2>4. w.curr[q] = TriValue(q, z)
    BY <1>1, <1>12, <2>1, <2>2, StepTri DEF z
  <2>5. CASE IsMember(q)
    <3>1. Visible(q, t.curr) = 0
      <4>1. TypeOf[q] = "BOOLEAN" /\ t.curr \in Assignments
        BY <1>1, <2>5, MemberFacts, TableFacts
      <4>2. Visible(q, t.curr) \in {0, 2}
        BY <1>1, <4>1, VisibleFacts DEF Bool
      <4> QED
        BY <1>12, <2>5, <4>2
    <3>2. TriValue(q, v) = TriValue(q, z)
      BY <1>1, <1>3, <1>4, <2>1, <3>1, TriSame DEF SeenAt
    <3> QED
      BY <1>6, <1>12, <2>3, <2>4, <3>2 DEF Same
  <2>6. CASE ~IsMember(q)
    <3>1. CASE v.vis[q] = 0 \/ SameUser(q, X, y)
      <4>1. v.vis[q] = 0 \/ SameUser(q, v, z)
        BY <1>8, <1>12, <3>1
      <4>2. TriValue(q, v) = TriValue(q, z)
        BY <1>1, <1>3, <1>4, <2>1, <4>1, TriSame
      <4> QED
        BY <1>6, <1>12, <2>3, <2>4, <4>2 DEF Same
    <3>2. CASE q \in y.has /\ y.def[q] = X.curr[q]
      <4>1. q \in z.has /\ z.def[q] = TriValue(q, v)
        BY <1>7, <1>8, <1>12, <2>3, <3>2
      <4>2. TriValue(q, v) = TriValue(q, z)
        BY <1>1, <1>3, <1>4, <2>1, <4>1, TriGiven
      <4> QED
        BY <1>6, <1>12, <2>3, <2>4, <4>2 DEF Same
    <3> QED
      BY <1>7, <1>12, <2>6, <3>1, <3>2 DEF HarmlessAt
  <2> QED
    BY <2>5, <2>6
<1> QED
  BY <1>9, <1>10, <1>11, <1>12

\* The i-th calculation agrees so far with one that began with x; so does the next
\* symbol, unless the user set it otherwise.
LEMMA AgreeNext ==
  ASSUME NEW i \in 0 .. Len(Order), i < Len(Order), NEW q, q = Order[i + 1],
         NEW x \in Table, x.valid = {}, NEW g, Run(x, Len(Order), g), NEW X, X = g[Len(Order)],
         NEW y \in Table, NEW u, Stage(i, y, u), \A s \in Done(i) : Same(s, g[i], u),
         NEW w, w = sym_calc_value(q, u), q \in Known => HarmlessAt(q, X, y)
  PROVE  Stage(i + 1, y, w) /\ \A s \in Done(i + 1) : Same(s, g[i + 1], w)
<1> DEFINE n == Len(Order)
           t == g[i]
<1>1. /\ n \in Nat /\ n \in 0 .. n /\ i + 1 \in 1 .. n /\ i + 1 \in 0 .. n /\ (i + 1) - 1 = i
  BY OrderFacts
<1>2. g[i + 1] = sym_calc_value(q, t)
  BY <1>1 DEF Run
<1>3. Stage(i, x, t) /\ Stage(n, x, X) /\ t \in Table /\ u \in Table /\ X \in Table
  BY <1>1, RunStage DEF Stage
<1>4. Stage(i + 1, y, w)
  BY StageStep
<1>5. /\ \A s \in Done(i) : Same(s, X, t)
      /\ \A s \in Done(i + 1) : Same(s, X, g[i + 1])
  BY <1>1, RunKeeps
<1> HIDE DEF t
<1>6. CASE q \in Known
  <2>1. q \in Symbols /\ Done(i + 1) = Done(i) \cup {q} /\ q \notin u.valid
    BY <1>6, DoneFacts DEF Stage
  <2>2. \A p \in Earlier(q) : X.curr[p] = t.curr[p]
    <3> SUFFICES ASSUME NEW p \in Earlier(q) PROVE X.curr[p] = t.curr[p]
      OBVIOUS
    <3>1. p \in Symbols /\ (p \in Known => p \in Done(i))
      BY DoneFacts
    <3>2. CASE p \in Known
      BY <1>5, <3>1, <3>2 DEF Same
    <3>3. CASE p \notin Known
      <4>1. TypeOf[p] = "UNKNOWN"
        BY <3>1, <3>3 DEF Known
      <4>2. Typed(t.curr) /\ Typed(X.curr)
        BY <1>3, TableFacts DEF Proper
      <4> QED
        BY <3>1, <4>1, <4>2 DEF Typed
    <3> QED
      BY <3>2, <3>3
  <2>3. \A m \in Members(q) : SeenAt(m, X, X.curr)
    <3>1. \A s \in Known : Sound(s, X)
      BY <1>3, DoneAll DEF Stage
    <3>2. \A m \in Members(q) : m \in Known
      <4> SUFFICES ASSUME NEW m \in Members(q) PROVE m \in Known
        OBVIOUS
      <4>1. q \in ChoiceSyms
        BY <2>1 DEF ChoiceSyms, IsChoice
      <4>2. TypeOf[m] = "BOOLEAN" /\ m \in Symbols
        BY <4>1, MemberFacts
      <4> QED
        BY <4>2 DEF Known
    <3> QED
      BY <3>1, <3>2 DEF Sound
  <2>4. X.def = x.def /\ X.defsym = x.defsym /\ X.has \subseteq x.has
        /\ x.has \subseteq X.has \cup ChoiceSyms
    BY <1>3 DEF Stage
  <2>5. Same(q, X, g[i + 1])
    BY <1>5, <2>1
  <2>6. \A s \in Done(i) : Same(s, t, u)
    BY DEF t
  <2>7. Same(q, g[i + 1], w)
    BY <1>2, <1>3, <1>6, <2>2, <2>3, <2>4, <2>5, <2>6, AgreeStep
  <2>8. Frame(q, u, w)
    BY <1>3, <1>6, <2>1, StepTable
  <2>9. ASSUME NEW s \in Done(i)
        PROVE  Same(s, g[i + 1], w)
    <3>1. s \in Symbols /\ s # q /\ s \notin Members(q) /\ s \in Done(i + 1)
      BY <2>1, DoneFacts
    <3>2. Same(s, u, w)
      BY <2>8, <3>1 DEF Frame, Same, SameAt
    <3>3. Same(s, X, t) /\ Same(s, X, g[i + 1]) /\ Same(s, t, u)
      BY <1>5, <2>6, <3>1
    <3> DEFINE z == g[i + 1]
    <3> HIDE DEF z
    <3>4. Same(s, X, t) /\ Same(s, X, z) /\ Same(s, t, u) /\ Same(s, u, w)
      BY <3>2, <3>3 DEF z
    <3>5. Same(s, z, w)
      BY ONLY <3>4 DEF Same, SameAt
    <3> QED
      BY <3>5 DEF z
  <2> QED
    BY <1>4, <2>1, <2>7, <2>9
<1>7. CASE q \notin Known
  <2>1. q \in Symbols /\ Done(i + 1) = Done(i)
    BY <1>7, DoneFacts
  <2>2. g[i + 1] = t /\ w = u
    BY <1>2, <1>3, <1>7, <2>1, StepTable
  <2> QED
    BY <1>4, <2>1, <2>2 DEF t
<1> QED
  BY <1>6, <1>7

\* The main lemma: when all values are calculated from x, and what the user set
\* for the first k symbols in y does no harm, a calculation from y gives these
\* symbols the same values.
LEMMA RecalculationUpTo ==
  ASSUME NEW x \in Table, x.valid = {}, NEW y \in Table, y.valid = {},
         NEW X, X = CalcAll(x), NEW k \in 0 .. Len(Order),
         \A s \in Done(k) : HarmlessAt(s, X, y)
  PROVE  \A s \in Done(k) : Same(s, X, CalcAll(y))
<1> DEFINE n == Len(Order)
<1>1. n \in Nat /\ n \in 0 .. n /\ k \in Nat /\ k \in 0 .. n /\ k \in 0 .. k /\ 0 .. k \subseteq 0 .. n
  BY OrderFacts
<1>2. PICK g : Run(x, n, g) /\ Calc(x, n) = g[n]
  BY <1>1, CalcRun
<1>3. PICK h : Run(y, n, h) /\ Calc(y, n) = h[n]
  BY <1>1, CalcRun
<1>4. X = g[n] /\ CalcAll(y) = h[n]
  BY <1>2, <1>3 DEF CalcAll
<1>5. \A i \in 0 .. n : Stage(i, x, g[i]) /\ Stage(i, y, h[i])
  BY <1>2, <1>3, RunStage
<1> DEFINE S == {i \in 0 .. k : \A s \in Done(i) : Same(s, g[i], h[i])}
<1>6. 0 \in S
  <2>1. Done(0) = {}
    BY DEF Done
  <2> QED
    BY <1>1, <2>1
<1>7. ASSUME NEW i \in 0 .. k, i < k, i \in S
      PROVE  i + 1 \in S
  <2>1. /\ i + 1 \in 1 .. n /\ i + 1 \in 0 .. n /\ (i + 1) - 1 = i
        /\ i \in 0 .. n /\ i < n /\ i + 1 \in 0 .. k
    BY <1>1, <1>7
  <2>2. h[i + 1] = sym_calc_value(Order[i + 1], h[i]) /\ Stage(i, y, h[i])
    BY <1>3, <1>5, <2>1 DEF Run
  <2>3. Order[i + 1] \in Known => HarmlessAt(Order[i + 1], X, y)
    BY <2>1 DEF Done
  <2>4. \A s \in Done(i) : Same(s, g[i], h[i])
    BY <1>7
  <2>5. \A s \in Done(i + 1) : Same(s, g[i + 1], h[i + 1])
    BY <1>2, <1>4, <2>1, <2>2, <2>3, <2>4, AgreeNext
  <2> QED
    BY <2>1, <2>5
<1>8. k \in S
  <2>1. \A i \in 0 .. k : i \in S
    <3> HIDE DEF S
    <3> QED
      BY <1>1, <1>6, <1>7, Climb
  <2> QED
    BY <1>1, <2>1
<1> SUFFICES ASSUME NEW s \in Done(k) PROVE Same(s, X, CalcAll(y))
  OBVIOUS
<1>9. Same(s, g[n], g[k]) /\ Same(s, h[n], h[k]) /\ Same(s, g[k], h[k])
  BY <1>1, <1>2, <1>3, <1>8, RunKeeps
<1> QED
  BY <1>4, <1>9 DEF Same, SameAt

\* The same for all symbols.
LEMMA Recalculation ==
  ASSUME NEW x \in Table, x.valid = {}, NEW y \in Table, y.valid = {},
         NEW X, X = CalcAll(x), Harmless(X, y)
  PROVE  Agree(X, CalcAll(y))
<1>1. Len(Order) \in 0 .. Len(Order)
  BY OrderFacts
<1>2. \A s \in Done(Len(Order)) : HarmlessAt(s, X, y)
  BY DoneAll DEF Harmless
<1> QED
  BY <1>1, <1>2, RecalculationUpTo, DoneAll DEF Agree

\* A calculation from the start: all symbols are sound.
LEMMA FromScratch ==
  ASSUME NEW x \in Table, x.valid = {}
  PROVE  Stage(Len(Order), x, CalcAll(x)) /\ \A s \in Known : Sound(s, CalcAll(x))
<1> DEFINE n == Len(Order)
<1>1. n \in Nat /\ n \in 0 .. n
  BY OrderFacts
<1>2. PICK g : Run(x, n, g) /\ Calc(x, n) = g[n]
  BY <1>1, CalcRun
<1>3. Stage(n, x, g[n])
  BY <1>1, <1>2, RunStage
<1> QED
  BY <1>2, <1>3, DoneAll DEF CalcAll, Stage

\* Dropping all calculated values.
Scratch(t) == [t EXCEPT !.valid = {}]

\* Scratch drops SYMBOL_VALID only.
LEMMA ScratchFacts ==
  ASSUME NEW t \in Table
  PROVE  IsFlagged(t, {}, t.write, Scratch(t))
<1>1. t.write \subseteq Known /\ {} \subseteq Known
  BY KnownFlags
<1> DEFINE u == [t EXCEPT !.valid = {}, !.write = t.write]
<1>2. u = Scratch(t)
  BY TableFacts DEF Shape, Scratch
<1> HIDE DEF u
<1>3. IsFlagged(t, {}, t.write, u)
  BY <1>1, TableFlags DEF u
<1> QED
  BY <1>2, <1>3

\* What is calculated is in range.
Ranged(t) == \A s \in t.valid : TypeOf[s] = "INT" => InRange(s, t.curr[s])

\* A calculation keeps valid numbers within their ranges.
LEMMA RangedStep ==
  ASSUME NEW s \in Symbols, NEW t \in Table, Ranged(t), NEW r, r = sym_calc_value(s, t)
  PROVE  r \in Table /\ Ranged(r) /\ r.valid = t.valid \cup ({s} \cap Known)
<1>1. CASE s \in t.valid \/ s \notin Known
  <2>1. r = t
    BY <1>1, StepTable
  <2> QED
    BY <1>1, <2>1, KnownFlags
<1>2. CASE s \notin t.valid /\ s \in Known
  <2>1. Frame(s, t, r)
    BY <1>2, StepTable
  <2>2. /\ r \in Table /\ r.valid = t.valid \cup {s}
        /\ \A q \in Symbols : q # s => r.curr[q] = t.curr[q]
    BY <2>1 DEF Frame
  <2>3. TypeOf[s] = "INT" => InRange(s, r.curr[s])
    <3> SUFFICES ASSUME TypeOf[s] = "INT" PROVE InRange(s, r.curr[s])
      OBVIOUS
    <3> DEFINE u == Prepared(s, t)
    <3>1. u \in Table
      BY <1>2, PreparedFacts DEF IsPrepared
    <3>2. r.curr[s] = sym_validate_range(s, NumberValue(s, u), u)
      BY <1>2, StepNumber
    <3> HIDE DEF u
    <3>3. NumberValue(s, u) \in Numbers
      BY <3>1, NumberFacts
    <3> QED
      BY <3>1, <3>2, <3>3, RangeFacts
  <2>4. \A q \in t.valid : q \in Symbols /\ q # s
    BY <1>2, KnownFlags DEF Known
  <2>5. Ranged(r)
    BY <2>2, <2>3, <2>4 DEF Ranged
  <2> QED
    BY <1>2, <2>2, <2>5
<1> QED
  BY <1>1, <1>2

\* All symbols are calculated.
Complete(t) ==
  /\ t \in Table /\ t.valid = Known
  /\ \A s \in Symbols : TypeOf[s] = "INT" => InRange(s, t.curr[s])

\* After calculating, all symbols are valid and all numbers within their ranges.
LEMMA CalcComplete ==
  ASSUME NEW t \in Table, Ranged(t)
  PROVE  Complete(CalcAll(t))
<1> DEFINE n == Len(Order)
<1>1. n \in Nat /\ n \in 0 .. n
  BY OrderFacts
<1>2. PICK g : Run(t, n, g) /\ Calc(t, n) = g[n]
  BY <1>1, CalcRun
<1> DEFINE S == {i \in 0 .. n : Ranged(g[i]) /\ g[i].valid = t.valid \cup Done(i)}
<1>3. 0 \in S
  <2>1. g[0] = t /\ Done(0) = {}
    BY <1>2 DEF Run, Done
  <2> QED
    BY <1>1, <2>1
<1>4. ASSUME NEW i \in 0 .. n, i < n, i \in S
      PROVE  i + 1 \in S
  <2> DEFINE q == Order[i + 1]
             u == g[i]
             r == g[i + 1]
  <2>1. i + 1 \in 1 .. n /\ i + 1 \in 0 .. n /\ (i + 1) - 1 = i
    BY <1>1, <1>4
  <2>2. r = sym_calc_value(q, u) /\ u \in Table /\ Ranged(u) /\ u.valid = t.valid \cup Done(i)
    BY <1>2, <1>4, <2>1 DEF Run
  <2>3. q \in Symbols /\ Done(i + 1) = Done(i) \cup ({q} \cap Known)
    BY <1>4, DoneFacts
  <2>4. Ranged(r) /\ r.valid = u.valid \cup ({q} \cap Known)
    <3> HIDE DEF q, r, u
    <3> QED
      BY <2>2, <2>3, RangedStep
  <2> QED
    BY <2>1, <2>2, <2>3, <2>4
<1>5. n \in S
  <2>1. \A i \in 0 .. n : i \in S
    <3> HIDE DEF S
    <3> QED
      BY <1>1, <1>3, <1>4, Climb
  <2> QED
    BY <1>1, <2>1
<1>6. g[n] \in Table /\ g[n].valid = Known /\ Ranged(g[n])
  <2>1. g[n] \in Table
    BY <1>1, <1>2 DEF Run
  <2> QED
    BY <1>5, <2>1, DoneAll, KnownFlags
<1>7. \A s \in Symbols : TypeOf[s] = "INT" => s \in Known
  BY DEF Known
<1> QED
  BY <1>2, <1>6, <1>7 DEF CalcAll, Complete, Ranged

\* Calculating again what is calculated changes nothing.
LEMMA CalcDone ==
  ASSUME NEW t \in Table, t.valid = Known
  PROVE  CalcAll(t) = t
<1> DEFINE n == Len(Order)
<1>1. n \in Nat /\ n \in 0 .. n
  BY OrderFacts
<1>2. PICK g : Run(t, n, g) /\ Calc(t, n) = g[n]
  BY <1>1, CalcRun
<1> DEFINE S == {i \in 0 .. n : g[i] = t}
<1>3. 0 \in S
  BY <1>1, <1>2 DEF Run
<1>4. ASSUME NEW i \in 0 .. n, i < n, i \in S
      PROVE  i + 1 \in S
  <2>1. i + 1 \in 1 .. n /\ i + 1 \in 0 .. n /\ (i + 1) - 1 = i /\ i + 1 \in DOMAIN Order
    BY <1>1, <1>4, OrderFacts
  <2>2. g[i + 1] = sym_calc_value(Order[i + 1], t) /\ Order[i + 1] \in Symbols
    BY <1>2, <1>4, <2>1, OrderFacts DEF Run
  <2>3. g[i + 1] = t
    BY <2>2, StepTable
  <2> QED
    BY <2>1, <2>3
<1>5. \A i \in 0 .. n : i \in S
  <2> HIDE DEF S
  <2> QED
    BY <1>1, <1>3, <1>4, Climb
<1> QED
  BY <1>1, <1>2, <1>5 DEF CalcAll

\* sym_clear_all_valid calculates modules_sym, which a calculation does first anyway.
LEMMA ClearFacts ==
  ASSUME NEW t \in Table, NEW u, u = sym_clear_all_valid(t)
  PROVE  /\ u \in Table /\ Ranged(u) /\ u.valid # Known
         /\ CalcAll(u) = CalcAll(Scratch(t))
<1> DEFINE x == Scratch(t)
           n == Len(Order)
<1>1. x \in Table /\ x.valid = {} /\ Ranged(x)
  BY ScratchFacts DEF IsFlagged, Ranged
<1>2. u = sym_calc_value(modules_sym, x)
  BY DEF sym_clear_all_valid, Scratch
<1>3. modules_sym \in Symbols /\ Order[1] = modules_sym
  BY OrderFacts
<1> HIDE DEF x
<1>4. u \in Table /\ Ranged(u) /\ u.valid = {modules_sym} \cap Known
  BY <1>1, <1>2, <1>3, RangedStep
<1>5. u.valid # Known
  <2>1. PICK s \in Symbols : s # modules_sym /\ TypeOf[s] # "UNKNOWN"
    BY OrderAssumption
  <2> QED
    BY <1>4, <2>1 DEF Known
<1>6. n \in Nat /\ n \in 0 .. n /\ 1 \in 1 .. n /\ 1 <= n
  BY OrderFacts
<1>7. PICK g : Run(u, n, g) /\ Calc(u, n) = g[n]
  BY <1>4, <1>6, CalcRun
<1>8. PICK h : Run(x, n, h) /\ Calc(x, n) = h[n]
  BY <1>1, <1>6, CalcRun
<1> DEFINE S == {i \in 1 .. n : g[i] = h[i]}
<1>9. 1 \in S
  <2>1. g[1] = sym_calc_value(modules_sym, u) /\ h[1] = u
    <3>1. 1 - 1 = 0
      OBVIOUS
    <3> QED
      BY <1>2, <1>3, <1>6, <1>7, <1>8, <3>1 DEF Run
  <2>2. sym_calc_value(modules_sym, u) = u
    BY <1>3, <1>4, StepTable
  <2> QED
    BY <1>6, <2>1, <2>2
<1>10. ASSUME NEW i \in 1 .. n, i < n, i \in S
       PROVE  i + 1 \in S
  <2>1. i + 1 \in 1 .. n /\ (i + 1) - 1 = i
    BY <1>6, <1>10
  <2> QED
    BY <1>7, <1>8, <1>10, <2>1 DEF Run
<1>11. \A i \in 1 .. n : i \in S
  <2> HIDE DEF S
  <2> QED
    BY <1>6, <1>9, <1>10, Climb
<1>12. g[n] = h[n]
  BY <1>6, <1>11
<1> QED
  BY <1>4, <1>5, <1>7, <1>8, <1>12 DEF CalcAll, x

\* The table shows what a calculation from the start gives.
Current(t) == Agree(CalcAll(Scratch(t)), t)

\* What is visible or has a value other than n is marked for the file.
Plain == {s \in Symbols : ~IsChoice(s) /\ TypeOf[s] # "UNKNOWN"}
Written(t) == \A s \in Plain : s \in t.write \/ (t.curr[s] = 0 /\ t.vis[s] = 0)

\* The tables show the same.
SameView(t, u) ==
  /\ u.curr = t.curr /\ u.vis = t.vis /\ u.rev = t.rev /\ u.sel = t.sel /\ u.pick = t.pick

\* The symbols of a file are no choices and no constants.
LEMMA PlainFacts ==
  \A s \in Plain : s \in Known /\ s \notin ChoiceSyms /\ s \in Symbols
<1> QED
  BY DEF Plain, Known, ChoiceSyms

\* A table that shows what a calculation from the start gave is current as long as
\* what differs from it does no harm.
LEMMA Stays ==
  ASSUME NEW x \in Table, x.valid = {}, NEW X, X = CalcAll(x),
         NEW u \in Table, Agree(X, u), Harmless(X, u)
  PROVE  Current(u)
<1> DEFINE y == Scratch(u)
<1>1. /\ y \in Table /\ y.valid = {} /\ y.has = u.has /\ y.def = u.def /\ y.defsym = u.defsym
  BY ScratchFacts DEF IsFlagged
<1> HIDE DEF y
<1>2. Harmless(X, y)
  BY <1>1 DEF Harmless, HarmlessAt, SameUser
<1>3. Agree(X, CalcAll(y))
  BY <1>1, <1>2, Recalculation
<1>4. Agree(CalcAll(y), u)
  BY <1>3 DEF Agree, Same, SameAt
<1> QED
  BY <1>4 DEF Current, y

\* What a calculation from the start gives is complete, current and written.
LEMMA CurrentScratch ==
  ASSUME NEW x \in Table, x.valid = {}, NEW X, X = CalcAll(x)
  PROVE  Complete(X) /\ Current(X) /\ Written(X) /\ (\A s \in Known : Sound(s, X))
<1>1. Stage(Len(Order), x, X) /\ \A s \in Known : Sound(s, X)
  BY FromScratch
<1>2. X \in Table
  BY <1>1 DEF Stage
<1>3. Agree(X, X) /\ Harmless(X, X)
  BY DEF Agree, Same, SameAt, Harmless, HarmlessAt, SameUser
<1>4. Current(X)
  BY <1>2, <1>3, Stays
<1>5. Written(X)
  BY <1>1, PlainFacts DEF Written, Sound
<1>6. Complete(X)
  BY CalcComplete DEF Ranged
<1> QED
  BY <1>1, <1>4, <1>5, <1>6

\* A current table stays current when the user's values change without harm.
LEMMA CurrentKept ==
  ASSUME NEW t \in Table, Current(t), NEW u \in Table, SameView(t, u), Harmless(t, u)
  PROVE  Current(u)
<1> DEFINE x == Scratch(t)
           X == CalcAll(x)
<1>1. x \in Table /\ x.valid = {} /\ x.has = t.has /\ x.def = t.def /\ x.defsym = t.defsym
  BY ScratchFacts DEF IsFlagged
<1>2. Agree(X, t)
  BY DEF Current
<1>3. Stage(Len(Order), x, X)
  BY <1>1, FromScratch
<1> HIDE DEF x, X
<1>4. /\ X.def = t.def /\ X.defsym = t.defsym
      /\ X.has \subseteq t.has /\ t.has \subseteq X.has \cup ChoiceSyms
  BY <1>1, <1>3 DEF Stage
<1>5. Agree(X, u)
  BY <1>2 DEF Agree, Same, SameAt, SameView
<1>6. \A s \in Known : s \notin ChoiceSyms =>
        (SameUser(s, t, u) => SameUser(s, X, u)) /\ X.vis[s] = t.vis[s] /\ X.curr[s] = t.curr[s]
  BY <1>2, <1>4 DEF SameUser, Agree, Same, SameAt
<1>7. \A c \in ChoiceSyms : /\ c \in Known /\ X.curr[c] = t.curr[c] /\ X.pick[c] = t.pick[c]
                            /\ \A m \in Members(c) : m \in Known /\ X.vis[m] = t.vis[m]
  <2>1. \A c \in ChoiceSyms : c \in Known /\ \A m \in Members(c) : m \in Known
    BY MemberFacts DEF Known
  <2> QED
    BY <1>2, <2>1 DEF Agree, Same, SameAt
<1>8. Harmless(X, u)
  <2>1. \A s \in Known : s \notin ChoiceSyms /\ ~IsMember(s) =>
          SameUser(s, X, u) \/ X.vis[s] = 0 \/ (s \in u.has /\ u.def[s] = X.curr[s])
    BY <1>6 DEF Harmless, HarmlessAt
  <2>2. ASSUME NEW c \in ChoiceSyms
        PROVE  \/ u.defsym[c] = X.defsym[c]
               \/ /\ X.curr[c] = 2 /\ u.defsym[c] = X.pick[c]
                  /\ X.pick[c] \in Members(c) /\ X.vis[X.pick[c]] # 0
               \/ X.curr[c] # 2
    BY <1>4, <1>7 DEF Harmless, HarmlessAt
  <2> QED
    BY <2>1, <2>2 DEF Harmless, HarmlessAt
<1>9. u \in Table
  OBVIOUS
<1> QED
  BY <1>1, <1>5, <1>8, <1>9, Stays DEF X

\* The value of a visible member of a choice.
LEMMA CurrentMember ==
  ASSUME NEW t \in Table, Current(t), NEW m \in Symbols, IsMember(m), t.vis[m] # 0, t.curr[m] = 2
  PROVE  t.curr[ChoiceOf[m]] = 2 /\ t.pick[ChoiceOf[m]] = m
<1> DEFINE x == Scratch(t)
           X == CalcAll(x)
           c == ChoiceOf[m]
<1>1. x \in Table /\ x.valid = {}
  BY ScratchFacts DEF IsFlagged
<1>2. c \in ChoiceSyms /\ c \in Known /\ m \in Known /\ TypeOf[m] = "BOOLEAN" /\ TypeOf[c] = "BOOLEAN"
      /\ c \in Symbols
  BY MemberFacts DEF Known
<1>3. Complete(X) /\ Sound(m, X) /\ Sound(c, X)
  BY <1>1, <1>2, CurrentScratch
<1>4. Agree(X, t)
  BY DEF Current
<1> HIDE DEF x, X
<1>5. X.vis[m] # 0 /\ X.curr[m] = 2 /\ X.curr[c] = t.curr[c] /\ X.pick[c] = t.pick[c]
  BY <1>2, <1>4 DEF Agree, Same, SameAt
<1>6. X \in Table /\ X.curr \in Assignments /\ X.curr[c] \in {0, 2}
  BY <1>2, <1>3, TableFacts DEF Complete, Proper, Typed
<1>7. Visible(m, X.curr) = 2
  <2>1. Visible(m, X.curr) # 0
    BY <1>3, <1>5 DEF Sound, SeenAt
  <2> QED
    BY <1>2, <1>6, <2>1, VisibleFacts DEF Bool
<1>8. X.curr[c] # 0
  <2>1. calc_value(Prompt[m], X.curr) # 0
    BY <1>6, <1>7, VisibleFacts
  <2> QED
    BY <1>6, <2>1, ChoiceAssumption
<1>9. X.pick[c] = m
  BY <1>3, <1>5, <1>7 DEF Sound
<1> QED
  BY <1>5, <1>6, <1>8, <1>9

\* Values a user or a file can give, and a table with others.
GoodDef(D) ==
  D \in [Symbols -> Int]
  /\ \A s \in Symbols : (TypeOf[s] = "INT" => D[s] \in Numbers) /\ (IsTri(s) => D[s] \in Tri)

GoodSym(Y) ==
  Y \in [ChoiceSyms -> Symbols \cup {"none"}]
  /\ \A c \in ChoiceSyms : Y[c] \in Members(c) \cup {"none"}

IsSet(t, H, D, Y, V, u) ==
  /\ u \in Table /\ u.has = H /\ u.def = D /\ u.defsym = Y /\ u.valid = V /\ u.write = t.write
  /\ SameView(t, u)

\* The user's values in a table fit the symbols.
LEMMA GoodFacts ==
  ASSUME NEW t \in Table
  PROVE  GoodDef(t.def) /\ GoodSym(t.defsym) /\ t.has \subseteq Symbols /\ t.valid \subseteq Known
<1>1. t \in Shape /\ Proper(t)
  BY TableFacts
<1>2. GoodDef(t.def)
  BY <1>1 DEF Shape, Proper, GoodDef
<1>3. GoodSym(t.defsym)
  BY <1>1 DEF Shape, Proper, GoodSym
<1> QED
  BY <1>2, <1>3, KnownFlags

\* A table with other values of the user that fit is a table.
LEMMA TableUser ==
  ASSUME NEW t \in Table, NEW H, H \subseteq Symbols, NEW D, GoodDef(D), NEW Y, GoodSym(Y),
         NEW V, V \subseteq Known,
         NEW u, u = [t EXCEPT !.has = H, !.def = D, !.defsym = Y, !.valid = V]
  PROVE  IsSet(t, H, D, Y, V, u)
<1>1. t \in Shape /\ Proper(t) /\ V \subseteq Symbols
  BY TableFacts DEF Known
<1>2. D \in [Symbols -> Int] /\ Y \in [ChoiceSyms -> Symbols \cup {"none"}]
  BY DEF GoodDef, GoodSym
<1>3. u \in Shape
  BY <1>1, <1>2 DEF Shape
<1>4. /\ u.has = H /\ u.def = D /\ u.defsym = Y /\ u.valid = V /\ u.write = t.write
      /\ u.curr = t.curr /\ u.vis = t.vis /\ u.rev = t.rev /\ u.sel = t.sel /\ u.pick = t.pick
  BY <1>1 DEF Shape
<1>5. \A c \in ChoiceSyms : {u.defsym[c], u.pick[c]} \subseteq Members(c) \cup {"none"}
  BY <1>1, <1>4 DEF Proper, GoodSym
<1>6. \A s \in Symbols : (TypeOf[s] = "INT" => u.def[s] \in Numbers) /\ (IsTri(s) => u.def[s] \in Tri)
  BY <1>4 DEF GoodDef
<1>7. Proper(u)
  BY <1>1, <1>4, <1>5, <1>6 DEF Proper, Known
<1> QED
  BY <1>3, <1>4, <1>7 DEF Table, IsSet, SameView

\* Drawing the menus: entries that are hidden but shown pass for set.
Marked(t, w) ==
  /\ w \in Table /\ w.def = t.def /\ w.defsym = t.defsym /\ w.valid = t.valid
  /\ w.write = t.write /\ SameView(t, w) /\ t.has \subseteq w.has
  /\ \A s \in Symbols : s \in w.has /\ s \notin t.has => t.vis[s] = 0

\* menu_is_visible only marks entries as set by the user.
LEMMA MarkedFacts ==
  ASSUME NEW t \in Table, NEW X, X = CalcAll(t), X \in Table
  PROVE  Marked(X, Shown(t))
<1> DEFINE G == {s \in Symbols : X.vis[s] = 0 /\ menu_is_visible(s, X)}
           H == X.has \cup G
           w == [X EXCEPT !.has = H]
<1>1. Shown(t) = w
  BY DEF Shown
<1>2. H \subseteq Symbols /\ GoodDef(X.def) /\ GoodSym(X.defsym) /\ X.valid \subseteq Known
  BY GoodFacts
<1>3. G \subseteq Symbols /\ \A s \in G : X.vis[s] = 0
  OBVIOUS
<1>4. w = [X EXCEPT !.has = H, !.def = X.def, !.defsym = X.defsym, !.valid = X.valid]
  BY TableFacts DEF Shape
<1> HIDE DEF G, w
<1>5. IsSet(X, H, X.def, X.defsym, X.valid, w)
  <2> HIDE DEF H
  <2> QED
    BY <1>2, <1>4, TableUser
<1>6. Marked(X, w)
  BY <1>3, <1>5 DEF IsSet, Marked
<1> QED
  BY <1>1, <1>6

\* Drawing the menus keeps what a table shows.
LEMMA MarkedKeeps ==
  ASSUME NEW X \in Table, NEW w, Marked(X, w)
  PROVE  /\ Complete(X) => Complete(w)
         /\ Current(X) => Current(w)
         /\ Written(X) => Written(w)
         /\ w.curr = X.curr
<1>1. /\ w \in Table /\ SameView(X, w) /\ w.curr = X.curr /\ w.vis = X.vis
      /\ w.write = X.write /\ w.valid = X.valid
  BY DEF Marked, SameView
<1>2. Harmless(X, w)
  BY DEF Harmless, HarmlessAt, Marked, SameUser, Known
<1>3. Current(X) => Current(w)
  BY <1>1, <1>2, CurrentKept
<1> QED
  BY <1>1, <1>3 DEF Complete, Written

\* A value of the user: only has, def and of a choice defsym change.
IsAssigned(s, val, t, u) ==
  /\ u \in Table /\ SameView(t, u) /\ u.valid = t.valid /\ u.write = t.write
  /\ s \in u.has /\ u.def[s] = val
  /\ \A q \in Known : q \notin ChoiceSyms /\ ~IsMember(q) /\ q # s => SameUser(q, t, u)
  /\ \A c \in ChoiceSyms :
       u.defsym[c] = t.defsym[c] \/ (IsMember(s) /\ ChoiceOf[s] = c /\ val = 2 /\ u.defsym[c] = s)

GoodValue(s, val) == (IsTri(s) /\ val \in Tri) \/ (TypeOf[s] = "INT" /\ val \in Numbers)

\* The user's values with one more.
LEMMA DefFacts ==
  ASSUME NEW D, GoodDef(D), NEW s \in Symbols, NEW val, GoodValue(s, val)
  PROVE  /\ GoodDef([D EXCEPT ![s] = val])
         /\ \A q \in Symbols : [D EXCEPT ![s] = val][q] = IF q = s THEN val ELSE D[q]
<1>1. D \in [Symbols -> Int]
  BY DEF GoodDef
<1>2. val \in Int
  <2>1. \A n \in Numbers : n \in Int
    BY NumberAssumption
  <2>2. \A n \in Tri : n \in Int
    BY DEF Tri
  <2> QED
    BY <2>1, <2>2 DEF GoodValue
<1> DEFINE E == [D EXCEPT ![s] = val]
<1>3. E \in [Symbols -> Int] /\ \A q \in Symbols : E[q] = IF q = s THEN val ELSE D[q]
  BY <1>1, <1>2
<1> HIDE DEF E
<1>4. \A q \in Symbols : (TypeOf[q] = "INT" => E[q] \in Numbers) /\ (IsTri(q) => E[q] \in Tri)
  BY <1>3 DEF GoodDef, GoodValue, IsTri
<1> QED
  BY <1>3, <1>4 DEF GoodDef, E

\* Setting one symbol, and what Settled adds, is an assignment.
LEMMA AssignedOne ==
  ASSUME NEW t \in Table, NEW s \in Known, NEW val, GoodValue(s, val), NEW G, G \subseteq Symbols,
         s \in G, \A q \in G : q = s \/ q \in ChoiceSyms \/ IsMember(q),
         NEW Y, GoodSym(Y),
         \A c \in ChoiceSyms :
           Y[c] = t.defsym[c] \/ (IsMember(s) /\ ChoiceOf[s] = c /\ val = 2 /\ Y[c] = s),
         NEW u, u = [t EXCEPT !.has = t.has \cup G, !.def = [t.def EXCEPT ![s] = val],
                              !.defsym = Y, !.valid = t.valid]
  PROVE  IsAssigned(s, val, t, u)
<1> DEFINE D == [t.def EXCEPT ![s] = val]
           H == t.has \cup G
<1>1. s \in Symbols /\ GoodDef(t.def) /\ t.has \subseteq Symbols /\ t.valid \subseteq Known
  BY GoodFacts DEF Known
<1>2. GoodDef(D) /\ \A q \in Symbols : D[q] = IF q = s THEN val ELSE t.def[q]
  BY <1>1, DefFacts
<1>3. H \subseteq Symbols
  BY <1>1
<1> HIDE DEF D
<1>4. IsSet(t, H, D, Y, t.valid, u)
  <2>1. u = [t EXCEPT !.has = H, !.def = D, !.defsym = Y, !.valid = t.valid]
    BY DEF D
  <2> HIDE DEF H
  <2> QED
    BY <1>1, <1>2, <1>3, <2>1, TableUser
<1>5. \A q \in Known : q \notin ChoiceSyms /\ ~IsMember(q) /\ q # s => SameUser(q, t, u)
  BY <1>2, <1>4 DEF IsSet, SameUser, Known
<1> QED
  BY <1>1, <1>2, <1>4, <1>5 DEF IsSet, IsAssigned

\* sym_set_string_value assigns one number.
LEMMA AssignedNumber ==
  ASSUME NEW t \in Table, NEW s \in Known, NEW val, GoodValue(s, val),
         NEW u, u = [t EXCEPT !.has = t.has \cup {s}, !.def[s] = val]
  PROVE  IsAssigned(s, val, t, u)
<1>1. u = [t EXCEPT !.has = t.has \cup {s}, !.def = [t.def EXCEPT ![s] = val],
                    !.defsym = t.defsym, !.valid = t.valid]
  BY TableFacts DEF Shape
<1>2. GoodSym(t.defsym) /\ s \in Symbols
  BY GoodFacts DEF Known
<1> QED
  BY <1>1, <1>2, AssignedOne

\* Assigned sets one symbol; a member that becomes y also settles its choice.
LEMMA AssignedFacts ==
  ASSUME NEW t \in Table, NEW s \in Known, IsTri(s), NEW val \in Tri
  PROVE  IsAssigned(s, val, t, Assigned(s, val, t))
<1>1. GoodValue(s, val) /\ s \in Symbols
  BY DEF GoodValue, Known
<1> DEFINE u == [t EXCEPT !.has = t.has \cup {s}, !.def[s] = val]
<1>2. CASE ~(IsMember(s) /\ val = 2)
  <2>1. Assigned(s, val, t) = u
    BY <1>2 DEF Assigned
  <2> HIDE DEF u
  <2>2. IsAssigned(s, val, t, u)
    BY <1>1, AssignedNumber DEF u
  <2> QED
    BY <2>1, <2>2
<1>3. CASE IsMember(s) /\ val = 2
  <2> DEFINE c == ChoiceOf[s]
             G == {s} \cup Settled(s, t)
             Y == [t.defsym EXCEPT ![c] = s]
             w == [t EXCEPT !.has = t.has \cup G, !.def = [t.def EXCEPT ![s] = val],
                            !.defsym = Y, !.valid = t.valid]
  <2>1. Assigned(s, val, t) = [u EXCEPT !.defsym[c] = s, !.has = u.has \cup Settled(s, t)]
    BY <1>3 DEF Assigned
  <2>2. t \in Shape
    BY TableFacts
  <2>3. u.has = t.has \cup {s}
    BY <2>2 DEF Shape
  <2>4. t.has \cup G = (t.has \cup {s}) \cup Settled(s, t)
    OBVIOUS
  <2>5. Assigned(s, val, t) = w
    BY <2>1, <2>2, <2>3, <2>4 DEF Shape
  <2>6. c \in ChoiceSyms /\ c \in Symbols /\ s \in Members(c)
    BY <1>1, <1>3, MemberFacts
  <2>7. GoodSym(Y) /\ \A d \in ChoiceSyms : Y[d] = IF d = c THEN s ELSE t.defsym[d]
    BY <1>1, <2>6, GoodFacts DEF GoodSym
  <2>8. G \subseteq Symbols /\ s \in G /\ \A q \in G : q = s \/ q \in ChoiceSyms \/ IsMember(q)
    BY <1>1, <2>6, MemberFacts DEF Settled
  <2> HIDE DEF G, Y
  <2>9. IsAssigned(s, val, t, w)
    BY <1>1, <1>3, <2>7, <2>8, AssignedOne
  <2> QED
    BY <2>5, <2>9
<1> QED
  BY <1>2, <1>3

\* Giving a symbol the value it has does no harm.
LEMMA AssignedCurrent ==
  ASSUME NEW t \in Table, NEW s \in Known, NEW val, val = t.curr[s], NEW u, IsAssigned(s, val, t, u),
         IsMember(s) /\ val = 2 => t.vis[s] # 0, Current(t)
  PROVE  Current(u)
<1>1. u \in Table /\ SameView(t, u)
  BY DEF IsAssigned
<1>2. ASSUME NEW c \in ChoiceSyms
      PROVE  \/ u.defsym[c] = t.defsym[c]
             \/ /\ t.curr[c] = 2 /\ u.defsym[c] = t.pick[c]
                /\ t.pick[c] \in Members(c) /\ t.vis[t.pick[c]] # 0
  <2>1. CASE u.defsym[c] = t.defsym[c]
    BY <2>1
  <2>2. CASE IsMember(s) /\ ChoiceOf[s] = c /\ val = 2 /\ u.defsym[c] = s
    <3>1. s \in Symbols /\ t.vis[s] # 0 /\ t.curr[s] = 2
      BY <2>2 DEF Known
    <3>2. t.curr[c] = 2 /\ t.pick[c] = s
      BY <2>2, <3>1, CurrentMember
    <3> QED
      BY <2>2, <3>1, <3>2, MemberFacts
  <2> QED
    BY <2>1, <2>2 DEF IsAssigned
<1>3. \A q \in Known : q \notin ChoiceSyms /\ ~IsMember(q) =>
        SameUser(q, t, u) \/ (q \in u.has /\ u.def[q] = t.curr[q])
  BY DEF IsAssigned
<1>4. Harmless(t, u)
  BY <1>2, <1>3 DEF Harmless, HarmlessAt
<1> QED
  BY <1>1, <1>4, CurrentKept

\* What an edit leaves: everything to be calculated again, or the same values.
FromStart(u) ==
  u \in Table /\ Ranged(u) /\ \E x \in Table : x.valid = {} /\ CalcAll(u) = CalcAll(x)

\* An edit drops all calculated values, or it does no harm.
GoodEdit(t, u, ignored) ==
  \/ FromStart(u) /\ u.valid # Known
  \/ /\ u \in Table /\ SameView(t, u) /\ u.valid = t.valid /\ u.write = t.write
     /\ Current(t) /\ ~ignored => Current(u)

\* After sym_clear_all_valid a calculation starts from the beginning.
LEMMA ClearStart ==
  ASSUME NEW t \in Table
  PROVE  FromStart(sym_clear_all_valid(t)) /\ sym_clear_all_valid(t).valid # Known
<1> DEFINE u == sym_clear_all_valid(t)
           x == Scratch(t)
<1>1. u \in Table /\ Ranged(u) /\ u.valid # Known /\ CalcAll(u) = CalcAll(x)
  BY ClearFacts
<1>2. x \in Table /\ x.valid = {}
  BY ScratchFacts DEF IsFlagged
<1> HIDE DEF u, x
<1>3. FromStart(u)
  BY <1>1, <1>2 DEF FromStart
<1> QED
  BY <1>1, <1>3 DEF u

\* A refused entry changes nothing.
LEMMA NoEdit ==
  ASSUME NEW t \in Table, NEW ignored
  PROVE  GoodEdit(t, t, ignored)
BY DEF GoodEdit, SameView

\* sym_set_tristate_value either drops all values or does no harm.
LEMMA TriEdit ==
  ASSUME NEW t \in Table, NEW s \in Known, IsTri(s), NEW val \in Tri,
         IsMember(s) /\ val = 2 /\ t.curr[s] = 2 => t.vis[s] # 0
  PROVE  GoodEdit(t, sym_set_tristate_value(s, val, t), FALSE)
<1> DEFINE u == sym_set_tristate_value(s, val, t)
           y == Assigned(s, val, t)
<1>1. IsAssigned(s, val, t, y)
  BY AssignedFacts
<1>2. y \in Table /\ SameView(t, y) /\ y.valid = t.valid /\ y.write = t.write
  BY <1>1 DEF IsAssigned
<1>3. CASE ~Accepted(s, val, t)
  <2>1. u = t
    BY <1>3 DEF sym_set_tristate_value
  <2> QED
    BY <2>1, NoEdit
<1>4. CASE Accepted(s, val, t) /\ t.curr[s] # val
  <2>1. u = sym_clear_all_valid(y)
    BY <1>4 DEF sym_set_tristate_value
  <2> HIDE DEF u, y
  <2> QED
    BY <1>2, <2>1, ClearStart DEF GoodEdit, u
<1>5. CASE Accepted(s, val, t) /\ t.curr[s] = val
  <2>1. u = y
    BY <1>5 DEF sym_set_tristate_value
  <2> HIDE DEF u, y
  <2>2. Current(t) => Current(y)
    BY <1>1, <1>5, AssignedCurrent
  <2> QED
    BY <1>2, <2>1, <2>2 DEF GoodEdit, u
<1> QED
  BY <1>3, <1>4, <1>5

\* So does sym_toggle_tristate_value.
LEMMA ToggleEdit ==
  ASSUME NEW t \in Table, NEW s \in Known, IsTri(s), ~(IsMember(s) /\ t.curr[s] = 2)
  PROVE  GoodEdit(t, sym_toggle_tristate_value(s, t), FALSE)
<1> DEFINE next(i) == (t.curr[s] + i) % 3
           S == {i \in 1 .. 3 : Accepted(s, next(i), t)}
<1>1. t.curr[s] \in Tri
  BY TableFacts DEF Proper, Typed, Known, IsTri, Tri
<1>2. next(3) = t.curr[s] /\ \A i \in 1 .. 3 : next(i) \in Tri
  BY <1>1 DEF Tri
<1>3. 3 \in S
  BY <1>2 DEF Accepted
<1>4. S \subseteq Nat /\ S # {}
  BY <1>3
<1> HIDE DEF S
<1>5. Min(S) \in S
  BY <1>4, MinNat
<1>6. Min(S) \in 1 .. 3
  BY <1>5 DEF S
<1> DEFINE v == next(Min(S))
<1>7. v \in Tri
  BY <1>2, <1>6
<1>8. sym_toggle_tristate_value(s, t) = sym_set_tristate_value(s, v, t)
  BY DEF sym_toggle_tristate_value, S
<1> HIDE DEF v
<1> QED
  BY <1>7, <1>8, TriEdit

\* So does sym_set_string_value, unless the entry is ignored.
LEMMA StringEdit ==
  ASSUME NEW t \in Table, NEW s \in Known, TypeOf[s] = "INT", NEW v \in Numbers,
         NEW ignored,
         sym_string_within_range(s, v, t) /\ t.def[s] = v /\ t.curr[s] # v => ignored
  PROVE  GoodEdit(t, sym_set_string_value(s, v, t), ignored)
<1> DEFINE u == sym_set_string_value(s, v, t)
           y == [t EXCEPT !.has = t.has \cup {s}, !.def[s] = v]
<1>1. IsAssigned(s, v, t, y) /\ ~IsMember(s)
  <2>1. GoodValue(s, v) /\ s \in Symbols
    BY DEF GoodValue, Known
  <2> QED
    BY <2>1, AssignedNumber, MemberFacts
<1>2. y \in Table /\ SameView(t, y) /\ y.valid = t.valid /\ y.write = t.write
  BY <1>1 DEF IsAssigned
<1>3. CASE ~sym_string_within_range(s, v, t)
  <2>1. u = t
    BY <1>3 DEF sym_set_string_value
  <2> QED
    BY <2>1, NoEdit
<1>4. CASE sym_string_within_range(s, v, t) /\ t.def[s] # v
  <2>1. u = sym_clear_all_valid(y)
    BY <1>4 DEF sym_set_string_value
  <2> HIDE DEF u, y
  <2> QED
    BY <1>2, <2>1, ClearStart DEF GoodEdit, u
<1>5. CASE sym_string_within_range(s, v, t) /\ t.def[s] = v
  <2>1. u = y
    BY <1>5 DEF sym_set_string_value
  <2> HIDE DEF u, y
  <2>2. Current(t) /\ ~ignored => Current(y)
    BY <1>1, <1>5, AssignedCurrent
  <2> QED
    BY <1>2, <2>1, <2>2 DEF GoodEdit, u
<1> QED
  BY <1>3, <1>4, <1>5

\* The table after an edit and drawing the menus.
LEMMA ShownEdit ==
  ASSUME NEW t, Complete(t), NEW u, NEW ignored, GoodEdit(t, u, ignored), NEW w, w = Shown(u)
  PROVE  /\ Complete(w)
         /\ u.valid # t.valid => Current(w) /\ Written(w)
         /\ u.valid = t.valid =>
              /\ w.curr = t.curr
              /\ Written(t) => Written(w)
              /\ Current(t) /\ ~ignored => Current(w)
<1>1. t \in Table /\ t.valid = Known
  BY DEF Complete
<1> DEFINE X == CalcAll(u)
<1>2. CASE FromStart(u) /\ u.valid # Known
  <2>1. PICK x \in Table : x.valid = {} /\ X = CalcAll(x)
    BY <1>2 DEF FromStart
  <2> HIDE DEF X
  <2>2. Complete(X) /\ Current(X) /\ Written(X)
    BY <2>1, CurrentScratch
  <2>3. X \in Table
    BY <2>2 DEF Complete
  <2>4. X = CalcAll(u) /\ u \in Table
    BY <1>2 DEF X, FromStart
  <2>5. Marked(X, w)
    BY <2>3, <2>4, MarkedFacts
  <2>6. Complete(w) /\ Current(w) /\ Written(w)
    BY <2>2, <2>3, <2>5, MarkedKeeps
  <2> QED
    BY <1>1, <1>2, <2>6
<1>3. CASE /\ u \in Table /\ SameView(t, u) /\ u.valid = t.valid /\ u.write = t.write
           /\ Current(t) /\ ~ignored => Current(u)
  <2>1. X = u
    BY <1>1, <1>3, CalcDone
  <2>2. u.curr = t.curr /\ Complete(u)
    BY <1>3 DEF Complete, SameView
  <2> HIDE DEF X
  <2>3. Marked(u, w)
    BY <1>3, <2>1, MarkedFacts DEF X
  <2>4. Complete(w) /\ (Current(u) => Current(w)) /\ (Written(u) => Written(w)) /\ w.curr = u.curr
    BY <1>3, <2>2, <2>3, MarkedKeeps
  <2>5. Written(t) => Written(u)
    BY <1>3, <2>2 DEF Written, SameView
  <2> QED
    BY <1>3, <2>2, <2>4, <2>5
<1> QED
  BY <1>2, <1>3 DEF GoodEdit

\* menu_is_visible of an entry with none below it.  The function it recurses to
\* exists: it is the least set of entries that is closed under the two rules.
LEMMA ShownMember ==
  ASSUME NEW t, NEW m \in Symbols, IsMember(m), menu_is_visible(m, t)
  PROVE  t.vis[m] # 0
<1> DEFINE D(f) == f = [e \in Symbols |->
                     \/ t.vis[e] # 0
                     \/ Prompt[e] # No /\ IsTri(e) /\ t.curr[e] # 0 /\ \E k \in Children[e] : f[k]]
           shown == CHOOSE f : D(f)
           G(e, S) == \/ t.vis[e] # 0
                      \/ Prompt[e] # No /\ IsTri(e) /\ t.curr[e] # 0 /\ \E k \in Children[e] : k \in S
           Closed == {S \in SUBSET Symbols : \A e \in Symbols : G(e, S) => e \in S}
           L == {e \in Symbols : \A S \in Closed : e \in S}
           M == {e \in Symbols : G(e, L)}
           f == [e \in Symbols |-> e \in L]
<1>1. Children[m] = {} /\ \A e \in Symbols : Children[e] \subseteq Symbols
  BY ChoiceAssumption
<1>2. \A e \in Symbols : G(e, L) => e \in L
  BY Zenon
<1>3. M \in Closed
  BY <1>2, Zenon
<1>4. \A e \in Symbols : e \in L <=> G(e, L)
  BY <1>2, <1>3, Zenon
<1>5. D(f)
  <2> HIDE DEF L
  <2> DEFINE H(e, g) == \/ t.vis[e] # 0
                        \/ Prompt[e] # No /\ IsTri(e) /\ t.curr[e] # 0 /\ \E k \in Children[e] : g[k]
  <2>1. \A k \in Symbols : f[k] = (k \in L)
    OBVIOUS
  <2> HIDE DEF f
  <2>2. ASSUME NEW e \in Symbols
        PROVE  e \in L <=> H(e, f)
    <3>1. (\E k \in Children[e] : k \in L) <=> \E k \in Children[e] : f[k]
      BY <1>1, <2>1
    <3>2. (e \in L) <=> G(e, L)
      BY <1>4
    <3> QED
      BY <3>1, <3>2
  <2> DEFINE g == [e \in Symbols |-> H(e, f)]
  <2>3. f \in [Symbols -> BOOLEAN]
    BY DEF f
  <2>4. g \in [Symbols -> BOOLEAN] /\ \A e \in Symbols : g[e] <=> H(e, f)
    OBVIOUS
  <2> HIDE DEF g, H
  <2>5. \A e \in Symbols : f[e] = g[e]
    BY <2>1, <2>2, <2>3, <2>4
  <2>6. f = g
    BY <2>3, <2>4, <2>5
  <2> QED
    BY <2>6 DEF g, H
<1>6. D(shown)
  <2> HIDE DEF D
  <2> QED
    BY <1>5
<1>7. menu_is_visible(m, t) = shown[m]
  BY Zenon DEF menu_is_visible
<1>8. shown[m] = \/ t.vis[m] # 0
                 \/ Prompt[m] # No /\ IsTri(m) /\ t.curr[m] # 0 /\ \E k \in Children[m] : shown[k]
  <2> HIDE DEF shown
  <2> QED
    BY <1>6, Zenon
<1> HIDE DEF shown
<1> QED
  BY <1>1, <1>7, <1>8, Zenon

\* The lines of a file conf_write writes.
FileOK(f) == Len(f) \in Nat /\ DOMAIN f = 1 .. Len(f) /\ \A i \in DOMAIN f : Readable(f[i])

Entries(S, t) == {<<s, t.curr[s]>> : s \in S}

\* conf_write's lines are the values of the symbols to be written.
LEMMA LinesElements ==
  ASSUME NEW S, S \subseteq Symbols, NEW t
  PROVE  LinesOf(S, t) \in Seq(Entries(S, t)) /\ ToSet(LinesOf(S, t)) = Entries(S, t)
<1> DEFINE T == Entries(S, t)
           line(s) == <<s, t.curr[s]>>
           n == Len(Order)
           q == [i \in DOMAIN Order |-> IF Order[i] \in S THEN << line(Order[i]) >> ELSE <<>>]
<1>1. n \in Nat /\ DOMAIN Order = 1 .. n /\ \A s \in Symbols : \E i \in DOMAIN Order : Order[i] = s
  BY OrderFacts
<1>2. \A s \in S : line(s) \in T
  BY DEF Entries
<1>3. LinesOf(S, t) = FlattenSeq(q)
  BY DEF LinesOf
<1>4. \A l \in T : \E s \in S : l = line(s)
  BY DEF Entries
<1> HIDE DEF T, line
<1>5. \A l \in T : <<l>> \in Seq(T) /\ ToSet(<<l>>) = {l}
  BY DEF ToSet
<1>6. <<>> \in Seq(T) /\ ToSet(<<>>) = {}
  BY DEF ToSet
<1>7. q \in [1 .. n -> Seq(T)]
  BY <1>1, <1>2, <1>5, <1>6
<1>8. FlattenSeq(q) \in Seq(T) /\ ToSet(FlattenSeq(q)) = UNION {ToSet(q[i]) : i \in 1 .. n}
  <2> HIDE DEF q, n
  <2> QED
    BY <1>1, <1>7, FlattenElements
<1>9. \A i \in 1 .. n : ToSet(q[i]) = IF Order[i] \in S THEN {line(Order[i])} ELSE {}
  BY <1>1, <1>2, <1>5, <1>6
<1>10. UNION {ToSet(q[i]) : i \in 1 .. n} = T
  <2> HIDE DEF q, n
  <2>1. \A l \in T : \E i \in 1 .. n : l \in ToSet(q[i])
    <3> SUFFICES ASSUME NEW l \in T PROVE \E i \in 1 .. n : l \in ToSet(q[i])
      OBVIOUS
    <3>1. PICK s \in S : l = line(s)
      BY <1>4
    <3>2. PICK i \in 1 .. n : Order[i] = s
      BY <1>1, <3>1
    <3> QED
      BY <1>9, <3>1, <3>2
  <2>2. \A i \in 1 .. n : ToSet(q[i]) \subseteq T
    BY <1>2, <1>9
  <2> QED
    BY <2>1, <2>2
<1> QED
  BY <1>3, <1>8, <1>10 DEF T

\* What the programs write can be read again.
LEMMA LinesFile ==
  ASSUME NEW t \in Table, NEW S, S \subseteq Plain
  PROVE  FileOK(LinesOf(S, t))
<1> DEFINE T == Entries(S, t)
           f == LinesOf(S, t)
<1>1. S \subseteq Symbols
  BY DEF Plain
<1>2. f \in Seq(T)
  BY <1>1, LinesElements
<1>3. ASSUME NEW l \in T
      PROVE  Readable(l)
  <2>1. PICK s \in S : l = <<s, t.curr[s]>>
    BY <1>3 DEF Entries
  <2> DEFINE v == t.curr[s]
  <2>2. s \in Symbols /\ ~IsChoice(s) /\ TypeOf[s] # "UNKNOWN"
    BY DEF Plain
  <2>3. TypeOf[s] \in {"BOOLEAN", "TRISTATE", "INT"}
    BY <2>2, ExprAssumption
  <2>4. Typed(t.curr)
    BY TableFacts DEF Proper
  <2>5. (IsTri(s) /\ v \in Tri) \/ (TypeOf[s] = "INT" /\ v \in Numbers)
    BY <2>2, <2>3, <2>4 DEF Typed, IsTri, Tri
  <2>6. l[1] = s /\ l[2] = v
    BY <2>1
  <2> HIDE DEF v
  <2> QED
    BY <2>1, <2>2, <2>5, <2>6 DEF Readable, v
<1> HIDE DEF T, f
<1>4. Len(f) \in Nat /\ DOMAIN f = 1 .. Len(f) /\ \A i \in DOMAIN f : f[i] \in T
  BY <1>2
<1> QED
  BY <1>3, <1>4 DEF FileOK, f

\* What a file says is what the table shows.
Shows(f, t) == Values(f) = [s \in Plain |-> t.curr[s]]

\* A file shows the table it was written from when all values other than n are marked.
LEMMA LinesFacts ==
  ASSUME NEW t \in Table
  PROVE  FileOK(Lines(t)) /\ (Written(t) => Shows(Lines(t), t))
<1> DEFINE S == t.write \ ChoiceSyms
           T == Entries(S, t)
           f == Lines(t)
<1>1. S \subseteq Plain /\ S \subseteq Symbols
  BY KnownFlags DEF Known, Plain, ChoiceSyms
<1>2. f = LinesOf(S, t)
  BY DEF Lines
<1>3. FileOK(f)
  <2> HIDE DEF S, f
  <2> QED
    BY <1>1, <1>2, LinesFile
<1>4. ToSet(f) = T
  <2> HIDE DEF S, f
  <2> QED
    BY <1>1, <1>2, LinesElements
<1>5. ASSUME Written(t)
      PROVE  Shows(f, t)
  <2> DEFINE value(s) == IF \E l \in ToSet(f) : l[1] = s
                         THEN (CHOOSE l \in ToSet(f) : l[1] = s)[2] ELSE 0
  <2>1. ASSUME NEW s \in Plain
        PROVE  value(s) = t.curr[s]
    <3>1. CASE s \in S
      <4> DEFINE l == CHOOSE k \in ToSet(f) : k[1] = s
      <4>1. <<s, t.curr[s]>> \in ToSet(f) /\ <<s, t.curr[s]>>[1] = s
        BY <1>4, <3>1 DEF Entries
      <4>2. l \in ToSet(f) /\ l[1] = s
        BY <4>1
      <4>3. \A k \in ToSet(f) : k[1] = s => k[2] = t.curr[s]
        BY <1>4 DEF Entries
      <4> HIDE DEF l
      <4>4. l[2] = t.curr[s]
        BY <4>2, <4>3
      <4> QED
        BY <4>1, <4>4 DEF l
    <3>2. CASE s \notin S
      <4>1. t.curr[s] = 0
        BY <1>5, <2>1, <3>2, PlainFacts DEF Written
      <4>2. \A k \in ToSet(f) : k[1] # s
        BY <1>4, <3>2 DEF Entries
      <4> QED
        BY <4>1, <4>2
    <3> QED
      BY <3>1, <3>2
  <2>2. Values(f) = [s \in Plain |-> value(s)]
    BY DEF Values, Plain
  <2> HIDE DEF value, f
  <2> QED
    BY <2>1, <2>2 DEF Shows
<1> QED
  BY <1>3, <1>5

-----------------------------------------------------------------------------
(* Reading a file. *)

Acc == [t : Table, warn : BOOLEAN]

\* What a line sets.
Takes(a, l, r) ==
  /\ \A s \in Plain : /\ s \in r.t.has <=> s \in a.t.has \/ s = l[1]
                      /\ r.t.def[s] = IF s = l[1] THEN l[2] ELSE a.t.def[s]
  /\ \A c \in ChoiceSyms :
       r.t.defsym[c] = IF ChoiceOf[l[1]] = c /\ l[2] = 2 THEN l[1] ELSE a.t.defsym[c]

\* A line that is read without a warning is the first of its symbol.
IsRead(a, l, r) ==
  /\ r \in Acc /\ r.t.valid = a.t.valid
  /\ l[1] \in Plain /\ ~(TypeOf[l[1]] = "BOOLEAN" /\ l[2] = 1) => Takes(a, l, r)
  /\ ~r.warn => ~a.warn /\ l[1] \in Plain /\ l[1] \notin a.t.has /\ Takes(a, l, r)

\* A line sets one symbol, or the member of a choice.
LEMMA ReadLineFacts ==
  ASSUME NEW a \in Acc, NEW l, Readable(l)
  PROVE  IsRead(a, l, ReadLine(a, l))
<1> DEFINE s == l[1]
           v == l[2]
           c == ChoiceOf[s]
           t == [a.t EXCEPT !.has = a.t.has \cup {s}, !.def[s] = v]
           clash == (v = 1 /\ t.def[c] = 2) \/ (v = 2 /\ t.def[c] # 0)
           u == [t EXCEPT !.has = IF v = 1 /\ t.def[c] = 2 THEN t.has \ {c} ELSE t.has,
                          !.defsym[c] = IF v = 2 THEN s ELSE t.defsym[c],
                          !.def[c] = Higher(t.def[c], v)]
           r == ReadLine(a, l)
           again == a.warn \/ s \in a.t.has
<1>1. a.t \in Table /\ a.warn \in BOOLEAN
  BY DEF Acc
<1>2. CASE s \notin Symbols \/ (TypeOf[s] = "BOOLEAN" /\ v = 1)
  <2>1. r = [a EXCEPT !.warn = TRUE]
    BY <1>2 DEF ReadLine
  <2>2. r \in Acc /\ r.warn = TRUE /\ r.t = a.t
    BY <2>1 DEF Acc
  <2> HIDE DEF r
  <2> QED
    BY <1>2, <2>2 DEF IsRead, r, Plain
<1>3. ASSUME s \in Symbols, ~(TypeOf[s] = "BOOLEAN" /\ v = 1)
      PROVE  /\ s \in Plain /\ s \in Known /\ GoodValue(s, v)
             /\ r = IF ~IsMember(s) THEN [t |-> t, warn |-> again]
                    ELSE [t |-> u, warn |-> again \/ clash]
  <2>1. \/ IsTri(s) /\ ~IsChoice(s) /\ v \in Tri
        \/ TypeOf[s] = "INT" /\ v \in Numbers
    BY <1>3 DEF Readable
  <2>2. TypeOf[s] = "INT" => ~IsChoice(s)
    BY <1>3, MemberFacts DEF ChoiceSyms
  <2>3. s \in Plain /\ s \in Known /\ GoodValue(s, v)
    BY <1>3, <2>1, <2>2 DEF Plain, Known, GoodValue, IsTri
  <2>4. r = IF ~IsMember(s) THEN [t |-> t, warn |-> a.warn \/ s \in a.t.has]
            ELSE [t |-> u, warn |-> a.warn \/ s \in a.t.has \/ clash]
    BY <1>3 DEF ReadLine
  <2> HIDE DEF t, u, r, clash, s, v, c
  <2>5. (a.warn \/ s \in a.t.has \/ clash) = (again \/ clash)
    OBVIOUS
  <2> QED
    BY <2>3, <2>4, <2>5
<1> DEFINE D == [a.t.def EXCEPT ![s] = v]
           H == a.t.has \cup {s}
<1>4. ASSUME s \in Symbols, ~(TypeOf[s] = "BOOLEAN" /\ v = 1)
      PROVE  /\ GoodDef(D) /\ H \subseteq Symbols /\ GoodSym(a.t.defsym)
             /\ a.t.valid \subseteq Known /\ GoodDef(a.t.def)
             /\ \A q \in Symbols : D[q] = IF q = s THEN v ELSE a.t.def[q]
  <2>1. GoodValue(s, v)
    BY <1>3, <1>4
  <2> HIDE DEF s, v, r, t, u
  <2> QED
    BY <1>1, <1>4, <2>1, GoodFacts, DefFacts
<1>5. t = [a.t EXCEPT !.has = H, !.def = D, !.defsym = a.t.defsym, !.valid = a.t.valid]
  BY <1>1, TableFacts DEF Shape
<1>6. CASE /\ s \in Symbols /\ ~(TypeOf[s] = "BOOLEAN" /\ v = 1)
           /\ ~IsMember(s)
  <2> HIDE DEF s, v, r, t, u, D, H
  <2>1. IsSet(a.t, H, D, a.t.defsym, a.t.valid, t)
    BY <1>1, <1>4, <1>5, <1>6, TableUser
  <2>2. t \in Table /\ t.has = H /\ t.def = D /\ t.valid = a.t.valid /\ t.defsym = a.t.defsym
    BY <2>1 DEF IsSet
  <2>3. r.t = t /\ r.warn = again /\ r = [t |-> t, warn |-> again]
    BY <1>3, <1>6
  <2>4. r \in Acc
    BY <2>2, <2>3 DEF Acc
  <2>5. \A d \in ChoiceSyms : ChoiceOf[s] # d
    <3>1. \A d \in ChoiceSyms : d # "none"
      BY MemberFacts, OrderAssumption
    <3> QED
      BY <1>6, <3>1 DEF IsMember
  <2>6. Takes(a, l, r)
    BY <1>3, <1>4, <1>6, <2>2, <2>3, <2>5 DEF Takes, H, s, v, Plain
  <2> QED
    BY <1>3, <1>6, <2>2, <2>3, <2>4, <2>6 DEF IsRead, s, v, r
<1>7. CASE /\ s \in Symbols /\ ~(TypeOf[s] = "BOOLEAN" /\ v = 1)
           /\ IsMember(s)
  <2> DEFINE Y == [a.t.defsym EXCEPT ![c] = IF v = 2 THEN s ELSE a.t.defsym[c]]
             h == Higher(D[c], v)
             E == [D EXCEPT ![c] = h]
  <2>1. /\ c \in ChoiceSyms /\ c \in Symbols /\ s \in Members(c) /\ IsTri(c)
        /\ TypeOf[s] = "BOOLEAN" /\ v # 1 /\ s # c /\ c \notin Plain /\ IsTri(s)
    BY <1>7, MemberFacts, PlainFacts DEF IsTri
  <2>2. v \in Tri
    BY <1>3, <1>7, <2>1 DEF GoodValue, IsTri
  <2>3. D[c] \in Tri
    BY <1>4, <1>7, <2>1 DEF GoodDef
  <2>4. h \in Tri
    BY <2>2, <2>3 DEF Higher, Tri
  <2>5. GoodDef(E) /\ \A q \in Symbols : E[q] = IF q = c THEN h ELSE D[q]
    <3>1. GoodValue(c, h)
      BY <2>1, <2>4 DEF GoodValue
    <3> HIDE DEF h, D, s, v, c
    <3> QED
      BY <1>4, <1>7, <2>1, <3>1, DefFacts
  <2>6. GoodSym(Y) /\ \A d \in ChoiceSyms : Y[d] = IF c = d /\ v = 2 THEN s ELSE a.t.defsym[d]
    BY <1>4, <1>7, <2>1 DEF GoodSym
  <2>7. u = [a.t EXCEPT !.has = H, !.def = E, !.defsym = Y, !.valid = a.t.valid]
    <3>1. a.t \in Shape
      BY <1>1, TableFacts
    <3>2. /\ t.has = H /\ t.def = D /\ t.defsym = a.t.defsym
      BY <1>5, <3>1 DEF Shape
    <3>3. u = [t EXCEPT !.has = H, !.defsym = Y, !.def = E]
      <4>1. u = [t EXCEPT !.has = H, !.defsym[c] = IF v = 2 THEN s ELSE a.t.defsym[c],
                          !.def[c] = h]
        BY <2>1, <3>2
      <4> HIDE DEF u, D, H, h, s, v, c
      <4> QED
        BY <1>5, <3>1, <3>2, <4>1 DEF Shape
    <3> HIDE DEF u, t, Y, E, D, H
    <3> QED
      BY <1>5, <3>1, <3>3 DEF Shape
  <2> HIDE DEF s, v, c, r, t, u, D, H, Y, E, h, clash
  <2>8. IsSet(a.t, H, E, Y, a.t.valid, u)
    BY <1>1, <1>4, <1>7, <2>5, <2>6, <2>7, TableUser
  <2>9. u \in Table /\ u.has = H /\ u.def = E /\ u.valid = a.t.valid /\ u.defsym = Y
    BY <2>8 DEF IsSet
  <2>10. r.t = u /\ (~r.warn => ~again) /\ r.warn \in BOOLEAN /\ r = [t |-> u, warn |-> again \/ clash]
    <3>1. r = [t |-> u, warn |-> again \/ clash]
      BY <1>3, <1>7
    <3> HIDE DEF again
    <3>2. r.t = u /\ r.warn = (again \/ clash)
      BY <3>1
    <3> QED
      BY <3>1, <3>2
  <2>11. r \in Acc
    BY <2>9, <2>10 DEF Acc
  <2>12. \A q \in Plain : /\ q \in r.t.has <=> q \in a.t.has \/ q = s
                          /\ r.t.def[q] = IF q = s THEN v ELSE a.t.def[q]
    <3>1. \A q \in Plain : q \in Symbols /\ q # c
      BY <2>1 DEF Plain
    <3> QED
      BY <1>4, <1>7, <2>5, <2>9, <2>10, <3>1 DEF H
  <2>13. Takes(a, l, r)
    BY <2>6, <2>9, <2>10, <2>12 DEF Takes, s, v, c
  <2> QED
    BY <1>3, <1>7, <2>9, <2>10, <2>11, <2>13 DEF IsRead, s, v, r
<1> QED
  BY <1>2, <1>6, <1>7

\* What the first i lines of a file have told, without a warning.
Told(f, i, a) ==
  a.t.valid = {} /\
  (~a.warn => \A s \in Plain :
     /\ s \in a.t.has <=> \E j \in 1 .. i : f[j][1] = s
     /\ \A j \in 1 .. i : f[j][1] = s => a.t.def[s] = f[j][2])

StartTable(t) ==
  [t EXCEPT !.has = ChoiceSyms, !.valid = {}, !.def = [s \in Symbols |-> 0],
            !.defsym = [c \in ChoiceSyms |-> "none"]]

\* conf_read_simple first forgets all that was set.
LEMMA StartFacts ==
  ASSUME NEW t \in Table
  PROVE  StartTable(t) \in Table /\ StartTable(t).valid = {} /\ StartTable(t).has = ChoiceSyms
<1> DEFINE D == [s \in Symbols |-> 0]
           Y == [c \in ChoiceSyms |-> "none"]
           u == StartTable(t)
<1>1. GoodDef(D)
  BY NumberAssumption DEF GoodDef, Tri
<1>2. GoodSym(Y)
  BY DEF GoodSym
<1>3. ChoiceSyms \subseteq Symbols /\ {} \subseteq Known
  BY DEF ChoiceSyms
<1>4. u = [t EXCEPT !.has = ChoiceSyms, !.def = D, !.defsym = Y, !.valid = {}]
  BY TableFacts DEF Shape, StartTable
<1> HIDE DEF D, Y, u
<1>5. IsSet(t, ChoiceSyms, D, Y, {}, u)
  BY <1>1, <1>2, <1>3, <1>4, TableUser
<1> QED
  BY <1>5 DEF IsSet, u

ReadRun(f, t, g) ==
  /\ g \in [0 .. Len(f) -> Acc] /\ g[0] = [t |-> StartTable(t), warn |-> FALSE]
  /\ \A i \in 1 .. Len(f) : g[i] = ReadLine(g[i - 1], f[i])

\* conf_read_simple is a fold over the lines.
LEMMA ReadExists ==
  ASSUME NEW f, FileOK(f), NEW t \in Table
  PROVE  \E g : ReadRun(f, t, g) /\ conf_read_simple(f, t) = g[Len(f)]
<1> DEFINE n == Len(f)
           x == [t |-> StartTable(t), warn |-> FALSE]
           D(g) == g = [i \in 0 .. n |-> IF i = 0 THEN x ELSE ReadLine(g[i - 1], f[i])]
           read == CHOOSE g : D(g)
           F == [p \in (1 .. n) \X Acc |-> ReadLine(p[2], f[p[1]])]
<1>1. n \in Nat /\ \A i \in 1 .. n : Readable(f[i])
  BY DEF FileOK
<1>2. x \in Acc
  BY StartFacts DEF Acc
<1>3. \A i \in 1 .. n : \A a \in Acc : ReadLine(a, f[i]) \in Acc
  BY <1>1, ReadLineFacts DEF IsRead
<1> HIDE DEF x
<1>4. F \in [(1 .. n) \X Acc -> Acc]
  BY <1>3
<1>5. \A i \in 1 .. n : \A a \in Acc : F[<<i, a>>] = ReadLine(a, f[i])
  <2> SUFFICES ASSUME NEW i \in 1 .. n, NEW a \in Acc
               PROVE  F[<<i, a>>] = ReadLine(a, f[i])
    OBVIOUS
  <2> DEFINE p == <<i, a>>
  <2>1. p \in (1 .. n) \X Acc /\ p[1] = i /\ p[2] = a
    OBVIOUS
  <2> HIDE DEF p
  <2>2. F[p] = ReadLine(p[2], f[p[1]])
    BY <2>1
  <2> QED
    BY <2>1, <2>2 DEF p
<1> HIDE DEF F, n
<1>6. PICK g \in [0 .. n -> Acc] : Folded(n, x, F, g)
  BY <1>1, <1>2, <1>4, FoldExists
<1>7. ASSUME NEW i \in 1 .. n
      PROVE  g[i] = ReadLine(g[i - 1], f[i])
  <2>1. i - 1 \in 0 .. n
    BY <1>1
  <2> QED
    BY <1>5, <1>6, <2>1 DEF Folded
<1>8. D(g)
  <2>1. \A i \in 0 .. n : g[i] = IF i = 0 THEN x ELSE ReadLine(g[i - 1], f[i])
    BY <1>1, <1>6, <1>7 DEF Folded
  <2> QED
    BY <1>6, <2>1
<1>9. D(read)
  <2> HIDE DEF D
  <2> QED
    BY <1>8
<1>10. conf_read_simple(f, t) = read[n]
  BY DEF conf_read_simple, StartTable, x, n
<1> HIDE DEF D
<1>11. g[0] = x
  BY <1>6 DEF Folded
<1>12. DOMAIN read = 0 .. n /\ \A i \in 0 .. n : read[i] = IF i = 0 THEN x ELSE ReadLine(read[i - 1], f[i])
  <2> HIDE DEF read
  <2> QED
    BY <1>9 DEF D
<1> HIDE DEF read
<1> DEFINE S == {i \in 0 .. n : read[i] = g[i]}
<1>13. \A i \in 0 .. n : i \in S
  <2>1. 0 \in S
    BY <1>1, <1>11, <1>12
  <2>2. ASSUME NEW i \in 0 .. n, i < n, i \in S
        PROVE  i + 1 \in S
    <3>1. i + 1 \in 1 .. n /\ i + 1 \in 0 .. n /\ i + 1 # 0 /\ (i + 1) - 1 = i
      BY <1>1, <2>2
    <3> QED
      BY <1>7, <1>12, <2>2, <3>1
  <2> HIDE DEF S
  <2> QED
    BY <1>1, <2>1, <2>2, Climb
<1>14. ReadRun(f, t, g)
  BY <1>6, <1>7, <1>11 DEF ReadRun, n, x
<1> QED
  BY <1>1, <1>10, <1>13, <1>14 DEF n

\* Without a warning the table holds what the lines read so far say.
LEMMA ToldStep ==
  ASSUME NEW f, NEW i \in Nat, NEW a \in Acc, Told(f, i, a), NEW r, IsRead(a, f[i + 1], r)
  PROVE  Told(f, i + 1, r)
<1>1. 1 .. i + 1 = (1 .. i) \cup {i + 1}
  OBVIOUS
<1>2. r.t.valid = {}
  BY DEF Told, IsRead
<1>3. ASSUME ~r.warn, NEW s \in Plain
      PROVE  /\ s \in r.t.has <=> \E j \in 1 .. i + 1 : f[j][1] = s
             /\ \A j \in 1 .. i + 1 : f[j][1] = s => r.t.def[s] = f[j][2]
  <2> DEFINE l == f[i + 1]
  <2>1. /\ ~a.warn /\ l[1] \notin a.t.has
        /\ s \in r.t.has <=> s \in a.t.has \/ s = l[1]
        /\ r.t.def[s] = IF s = l[1] THEN l[2] ELSE a.t.def[s]
    BY <1>3 DEF IsRead, Takes
  <2>2. /\ s \in a.t.has <=> \E j \in 1 .. i : f[j][1] = s
        /\ \A j \in 1 .. i : f[j][1] = s => a.t.def[s] = f[j][2]
    BY <1>3, <2>1 DEF Told
  <2> QED
    BY <1>1, <2>1, <2>2
<1> QED
  BY <1>2, <1>3 DEF Told

\* Without a warning the table holds what the whole file says.
LEMMA ReadSimpleFacts ==
  ASSUME NEW f, FileOK(f), NEW t \in Table, NEW r, r = conf_read_simple(f, t)
  PROVE  /\ r \in Acc /\ r.t.valid = {}
         /\ ~r.warn => \A s \in Plain : Values(f)[s] = IF s \in r.t.has THEN r.t.def[s] ELSE 0
<1> DEFINE n == Len(f)
<1>1. PICK g : ReadRun(f, t, g) /\ r = g[n]
  BY ReadExists
<1>2. n \in Nat /\ DOMAIN f = 1 .. n /\ \A i \in 1 .. n : Readable(f[i])
  BY DEF FileOK
<1> DEFINE S == {i \in 0 .. n : Told(f, i, g[i])}
<1>3. 0 \in S
  <2>1. g[0].t.valid = {} /\ g[0].t.has = ChoiceSyms
    BY <1>1, StartFacts DEF ReadRun
  <2>2. Told(f, 0, g[0])
    BY <2>1, PlainFacts DEF Told
  <2> QED
    BY <1>2, <2>2
<1>4. ASSUME NEW i \in 0 .. n, i < n, i \in S
      PROVE  i + 1 \in S
  <2>1. i \in Nat /\ i + 1 \in 1 .. n /\ i + 1 \in 0 .. n /\ (i + 1) - 1 = i
    BY <1>2, <1>4
  <2>2. g[i] \in Acc /\ g[i + 1] = ReadLine(g[i], f[i + 1])
    BY <1>1, <2>1 DEF ReadRun
  <2>3. Told(f, i, g[i])
    BY <1>4
  <2>4. IsRead(g[i], f[i + 1], g[i + 1])
    BY <1>2, <2>1, <2>2, ReadLineFacts
  <2>5. Told(f, i + 1, g[i + 1])
    BY <2>1, <2>2, <2>3, <2>4, ToldStep
  <2> QED
    BY <2>1, <2>5
<1>5. \A i \in 0 .. n : i \in S
  <2> HIDE DEF S
  <2> QED
    BY <1>2, <1>3, <1>4, Climb
<1>6. r \in Acc /\ Told(f, n, r)
  BY <1>1, <1>2, <1>5 DEF ReadRun
<1>7. ASSUME ~r.warn, NEW s \in Plain
      PROVE  Values(f)[s] = IF s \in r.t.has THEN r.t.def[s] ELSE 0
  <2>1. /\ s \in r.t.has <=> \E j \in 1 .. n : f[j][1] = s
        /\ \A j \in 1 .. n : f[j][1] = s => r.t.def[s] = f[j][2]
    BY <1>6, <1>7 DEF Told
  <2>2. ToSet(f) = {f[j] : j \in 1 .. n}
    BY <1>2 DEF ToSet
  <2>3. Values(f)[s] = IF \E l \in ToSet(f) : l[1] = s
                       THEN (CHOOSE l \in ToSet(f) : l[1] = s)[2] ELSE 0
    BY DEF Values, Plain
  <2>4. CASE s \in r.t.has
    <3> DEFINE l == CHOOSE k \in ToSet(f) : k[1] = s
    <3>1. \E k \in ToSet(f) : k[1] = s
      BY <2>1, <2>2, <2>4
    <3>2. l \in ToSet(f) /\ l[1] = s
      BY <3>1
    <3> HIDE DEF l
    <3>3. l[2] = r.t.def[s]
      BY <2>1, <2>2, <3>2
    <3> QED
      BY <2>3, <2>4, <3>1, <3>3 DEF l
  <2>5. CASE s \notin r.t.has
    BY <2>1, <2>2, <2>3, <2>5
  <2> QED
    BY <2>4, <2>5
<1> QED
  BY <1>6, <1>7 DEF Told

-----------------------------------------------------------------------------
(* conf_read compares what was read with what is calculated. *)

Checks == [t : Table, unsaved : BOOLEAN, reset : BOOLEAN]

\* X is calculated; a is what the check has made of it so far.
Forgot(X, a) ==
  /\ a \in Checks /\ SameView(X, a.t) /\ a.t.valid \subseteq X.valid /\ a.t.write = X.write
  /\ a.t.def = X.def /\ a.t.defsym = X.defsym /\ a.t.has \subseteq X.has
  /\ ~a.reset => a.t.valid = X.valid /\ \A q \in X.has : q \in a.t.has \/ X.vis[q] = 0
  /\ ~a.unsaved => \A s \in Symbols : ~Unsaved(s, X)
  /\ (\A s \in X.has : TypeOf[s] = "INT" => InRange(s, X.def[s])) => ~a.reset

\* conf_read takes a hidden symbol's value for one of the user's no more.
LEMMA ForgetStep ==
  ASSUME NEW X \in Table, NEW a, Forgot(X, a), NEW s \in Symbols, NEW r, r = Forget(a, s)
  PROVE  Forgot(X, r)
<1> DEFINE hidden == a.t.vis[s] = 0 /\ ~a.unsaved
           out == TypeOf[s] = "INT" /\ ~sym_string_within_range(s, a.t.def[s], a.t)
           H == IF hidden \/ out THEN a.t.has \ {s} ELSE a.t.has
           V == IF out THEN a.t.valid \ {s} ELSE a.t.valid
           u == [a.t EXCEPT !.has = H, !.valid = V]
           b == [t |-> u, unsaved |-> a.unsaved \/ out, reset |-> a.reset \/ out]
<1>1. CASE s \notin a.t.has \/ IsMember(s)
  BY <1>1 DEF Forget
<1>2. CASE ~(s \notin a.t.has \/ IsMember(s))
  <2>1. r = b
    BY <1>2 DEF Forget
  <2>2. a.t \in Table /\ a.unsaved \in BOOLEAN /\ a.reset \in BOOLEAN
    BY DEF Forgot, Checks
  <2>3. a.t.has \subseteq Symbols /\ a.t.valid \subseteq Known /\ GoodDef(a.t.def) /\ GoodSym(a.t.defsym)
    BY <2>2, GoodFacts
  <2>4. H \subseteq a.t.has /\ V \subseteq a.t.valid /\ (~out => V = a.t.valid)
    OBVIOUS
  <2>5. \A q \in a.t.has : q \in H \/ out \/ (q = s /\ hidden)
    OBVIOUS
  <2>6. u = [a.t EXCEPT !.has = H, !.def = a.t.def, !.defsym = a.t.defsym, !.valid = V]
    BY <2>2, TableFacts DEF Shape
  <2> HIDE DEF H, V, u, out
  <2>7. IsSet(a.t, H, a.t.def, a.t.defsym, V, u)
    BY <2>2, <2>3, <2>4, <2>6, TableUser
  <2>8. /\ u \in Table /\ u.has = H /\ u.def = a.t.def /\ u.defsym = a.t.defsym /\ u.valid = V
        /\ u.write = a.t.write /\ SameView(a.t, u)
    BY <2>7 DEF IsSet
  <2>9. r.t = u /\ r.unsaved = (a.unsaved \/ out) /\ r.reset = (a.reset \/ out)
    BY <2>1
  <2>10. r \in Checks
    BY <2>1, <2>8 DEF Checks
  <2>11. SameView(X, u)
    BY <2>8 DEF Forgot, SameView
  <2>12. X.vis = a.t.vis
    BY DEF Forgot, SameView
  <2>13. ~r.reset => u.valid = X.valid /\ \A q \in X.has : q \in u.has \/ X.vis[q] = 0
    BY <2>4, <2>5, <2>8, <2>9, <2>12 DEF Forgot
  <2>14. ~r.unsaved => \A q \in Symbols : ~Unsaved(q, X)
    BY <2>9 DEF Forgot
  <2>15. /\ u.valid \subseteq X.valid /\ u.write = X.write /\ u.def = X.def
         /\ u.defsym = X.defsym /\ u.has \subseteq X.has
    BY <2>4, <2>8 DEF Forgot
  <2>16. (\A q \in X.has : TypeOf[q] = "INT" => InRange(q, X.def[q])) => ~r.reset
    <3>1. s \in X.has /\ a.t.def = X.def
      BY <1>2 DEF Forgot
    <3>2. TypeOf[s] = "INT" => (sym_string_within_range(s, a.t.def[s], a.t) <=> InRange(s, X.def[s]))
      BY <2>2, <3>1, RangeFacts
    <3> QED
      BY <2>9, <3>1, <3>2 DEF Forgot, out
  <2> QED
    BY <2>9, <2>10, <2>11, <2>13, <2>14, <2>15, <2>16 DEF Forgot
<1> QED
  BY <1>1, <1>2

\* The check at the end of conf_read: if it neither warns nor resets a value,
\* the calculated values are those of the file.
LEMMA CheckedFacts ==
  ASSUME NEW X \in Table
  PROVE  Forgot(X, Checked(X))
<1> DEFINE n == Len(Order)
           x == [t |-> X, unsaved |-> \E s \in Symbols : Unsaved(s, X), reset |-> FALSE]
           A == {a \in Checks : Forgot(X, a)}
           D(g) == g = [i \in 0 .. n |-> IF i = 0 THEN x ELSE Forget(g[i - 1], Order[i])]
           after == CHOOSE g : D(g)
           F == [p \in (1 .. n) \X A |-> Forget(p[2], Order[p[1]])]
<1>1. n \in Nat /\ \A i \in 1 .. n : Order[i] \in Symbols
  BY OrderFacts
<1>2. x \in A
  <2>1. x.t = X /\ x.reset = FALSE /\ (~x.unsaved => \A s \in Symbols : ~Unsaved(s, X)) /\ x \in Checks
    BY DEF Checks
  <2> HIDE DEF x
  <2>2. Forgot(X, x)
    BY <2>1 DEF Forgot, SameView
  <2> QED
    BY <2>1, <2>2
<1>3. \A a : Forgot(X, a) => a \in Checks
  BY DEF Forgot
<1>4. \A i \in 1 .. n : \A a \in A : Forget(a, Order[i]) \in A
  <2> SUFFICES ASSUME NEW i \in 1 .. n, NEW a \in A PROVE Forget(a, Order[i]) \in A
    OBVIOUS
  <2>1. Order[i] \in Symbols /\ Forgot(X, a)
    BY <1>1
  <2>2. Forgot(X, Forget(a, Order[i]))
    BY <2>1, ForgetStep
  <2> QED
    BY <1>3, <2>2
<1> HIDE DEF x, A
<1>5. F \in [(1 .. n) \X A -> A]
  BY <1>4
<1>6. \A i \in 1 .. n : \A a \in A : F[<<i, a>>] = Forget(a, Order[i])
  <2> SUFFICES ASSUME NEW i \in 1 .. n, NEW a \in A
               PROVE  F[<<i, a>>] = Forget(a, Order[i])
    OBVIOUS
  <2> DEFINE p == <<i, a>>
  <2>1. p \in (1 .. n) \X A /\ p[1] = i /\ p[2] = a
    OBVIOUS
  <2> HIDE DEF p
  <2>2. F[p] = Forget(p[2], Order[p[1]])
    BY <2>1
  <2> QED
    BY <2>1, <2>2 DEF p
<1> HIDE DEF F, n
<1>7. PICK g \in [0 .. n -> A] : Folded(n, x, F, g)
  BY <1>1, <1>2, <1>5, FoldExists
<1>8. D(g)
  <2>1. ASSUME NEW i \in 1 .. n
        PROVE  g[i] = Forget(g[i - 1], Order[i])
    <3>1. i - 1 \in 0 .. n
      BY <1>1
    <3> QED
      BY <1>6, <1>7, <3>1 DEF Folded
  <2>2. \A i \in 0 .. n : g[i] = IF i = 0 THEN x ELSE Forget(g[i - 1], Order[i])
    BY <1>1, <1>7, <2>1 DEF Folded
  <2> QED
    BY <1>7, <2>2
<1>9. D(after)
  <2> HIDE DEF D
  <2> QED
    BY <1>8
<1>10. Checked(X) = after[n]
  BY DEF Checked, x, n
<1>11. \A i \in 0 .. n : after[i] = IF i = 0 THEN x ELSE Forget(after[i - 1], Order[i])
  <2> HIDE DEF after
  <2> QED
    BY <1>9
<1> HIDE DEF D, after
<1> DEFINE S == {i \in 0 .. n : after[i] \in A}
<1>12. \A i \in 0 .. n : i \in S
  <2>1. 0 \in S
    BY <1>1, <1>2, <1>11
  <2>2. ASSUME NEW i \in 0 .. n, i < n, i \in S
        PROVE  i + 1 \in S
    <3>1. i + 1 \in 1 .. n /\ i + 1 \in 0 .. n /\ i + 1 # 0 /\ (i + 1) - 1 = i
      BY <1>1, <2>2
    <3> QED
      BY <1>4, <1>11, <2>2, <3>1
  <2> HIDE DEF S
  <2> QED
    BY <1>1, <2>1, <2>2, Climb
<1>13. after[n] \in A
  BY <1>1, <1>12
<1> QED
  BY <1>10, <1>13 DEF A

\* conf_read and drawing the menus.
GoodRead(f, r, w) ==
  /\ r.t \in Table /\ r.changed \in BOOLEAN /\ r.reset \in BOOLEAN /\ Complete(w)
  /\ ~r.reset => Current(w) /\ Written(w)
  /\ ~r.reset /\ ~r.changed => Shows(f, w)

\* Without a file, conf_read leaves a table from which all is calculated.
LEMMA StartRead ==
  ASSUME NEW t \in Table, t.valid = {}, NEW f
  PROVE  GoodRead(f, conf_read(NoFile, t), Shown(conf_read(NoFile, t).t))
<1> DEFINE r == conf_read(NoFile, t)
           u == sym_calc_value(modules_sym, t)
           w == Shown(u)
           X == CalcAll(u)
<1>1. r = [t |-> u, changed |-> TRUE, reset |-> FALSE]
  BY DEF conf_read
<1>2. t = Scratch(t)
  BY TableFacts DEF Shape, Scratch
<1>3. u = sym_clear_all_valid(t)
  BY <1>2 DEF sym_clear_all_valid, Scratch
<1>4. FromStart(u)
  BY <1>3, ClearStart
<1> HIDE DEF u
<1>5. PICK x \in Table : x.valid = {} /\ X = CalcAll(x)
  BY <1>4 DEF FromStart
<1>6. u \in Table /\ X = CalcAll(u)
  BY <1>4 DEF FromStart
<1> HIDE DEF X
<1>7. Complete(X) /\ Current(X) /\ Written(X)
  BY <1>5, CurrentScratch
<1>8. X \in Table
  BY <1>7 DEF Complete
<1>9. Marked(X, w)
  BY <1>6, <1>8, MarkedFacts
<1>10. Complete(w) /\ Current(w) /\ Written(w)
  BY <1>7, <1>8, <1>9, MarkedKeeps
<1>11. r.t = u /\ r.changed = TRUE /\ r.reset = FALSE
  BY <1>1
<1> HIDE DEF r
<1> QED
  BY <1>6, <1>10, <1>11 DEF GoodRead, r

\* What conf_read makes of a file, when the menus are drawn.
LEMMA FileRead ==
  ASSUME NEW f, FileOK(f), f # NoFile, NEW t \in Table
  PROVE  GoodRead(f, conf_read(f, t), Shown(conf_read(f, t).t))
<1> DEFINE a == conf_read_simple(f, t)
           X == CalcAll(a.t)
           b == Checked(X)
           r == conf_read(f, t)
           Y == CalcAll(b.t)
           w == Shown(b.t)
<1>1. r = ReadResult(b, a.warn)
  BY DEF conf_read, ReadAndChecked
<1>2. r.t = b.t /\ r.changed = (a.warn \/ b.unsaved) /\ r.reset = b.reset
  BY <1>1 DEF ReadResult
<1>3. /\ a \in Acc /\ a.t.valid = {}
      /\ ~a.warn => \A s \in Plain : Values(f)[s] = IF s \in a.t.has THEN a.t.def[s] ELSE 0
  BY ReadSimpleFacts
<1>4. a.t \in Table /\ a.warn \in BOOLEAN
  BY <1>3 DEF Acc
<1> HIDE DEF a, r
<1>5. Complete(X) /\ Current(X) /\ Written(X) /\ Stage(Len(Order), a.t, X)
  BY <1>3, <1>4, CurrentScratch, FromScratch
<1>6. X \in Table /\ X.valid = Known
  BY <1>5 DEF Complete
<1>7. Forgot(X, b)
  BY <1>6, CheckedFacts
<1>8. /\ b.t \in Table /\ b.unsaved \in BOOLEAN /\ b.reset \in BOOLEAN
      /\ SameView(X, b.t) /\ b.t.valid \subseteq Known
  BY <1>6, <1>7 DEF Forgot, Checks
<1> HIDE DEF X, b
<1>9. Ranged(b.t)
  BY <1>5, <1>8 DEF Ranged, Complete, SameView, Known
<1>10. Complete(Y)
  BY <1>8, <1>9, CalcComplete
<1>11. Marked(Y, w)
  BY <1>8, <1>10, MarkedFacts DEF Complete
<1>12. Complete(w) /\ (Current(Y) => Current(w)) /\ (Written(Y) => Written(w)) /\ w.curr = Y.curr
  BY <1>10, <1>11, MarkedKeeps DEF Complete
<1>13. ASSUME ~b.reset
       PROVE  Y = b.t /\ Current(b.t) /\ Written(b.t)
  <2>1. b.t.valid = Known /\ \A q \in X.has : q \in b.t.has \/ X.vis[q] = 0
    BY <1>6, <1>7, <1>13 DEF Forgot
  <2>2. b.t.has \subseteq X.has /\ b.t.def = X.def /\ b.t.defsym = X.defsym /\ b.t.write = X.write
    BY <1>7 DEF Forgot
  <2>3. Harmless(X, b.t)
    BY <2>1, <2>2 DEF Harmless, HarmlessAt, SameUser
  <2>4. Current(b.t)
    BY <1>5, <1>6, <1>8, <2>3, CurrentKept
  <2>5. Written(b.t)
    BY <1>5, <1>8, <2>2 DEF Written, SameView
  <2> QED
    BY <1>8, <2>1, <2>4, <2>5, CalcDone
<1>14. ASSUME ~b.reset, ~a.warn, ~b.unsaved
       PROVE  Shows(f, w)
  <2>1. w.curr = X.curr
    BY <1>8, <1>12, <1>13, <1>14 DEF SameView
  <2>2. \A s \in Symbols : ~Unsaved(s, X)
    BY <1>7, <1>14 DEF Forgot
  <2>3. /\ X.def = a.t.def /\ X.has \subseteq a.t.has /\ a.t.has \subseteq X.has \cup ChoiceSyms
    BY <1>5 DEF Stage
  <2>4. ASSUME NEW s \in Plain
        PROVE  Values(f)[s] = X.curr[s]
    <3>1. s \in Symbols /\ ~IsChoice(s) /\ TypeOf[s] # "UNKNOWN" /\ s \notin ChoiceSyms
      BY PlainFacts DEF Plain
    <3>2. IF s \in X.has /\ s \in X.write THEN X.def[s] = X.curr[s]
          ELSE s \notin X.has /\ s \notin X.write
      BY <2>2, <3>1 DEF Unsaved
    <3>3. s \in X.has <=> s \in a.t.has
      BY <2>3, <3>1
    <3>4. Values(f)[s] = IF s \in a.t.has THEN a.t.def[s] ELSE 0
      BY <1>3, <1>14
    <3>5. s \in X.write \/ X.curr[s] = 0
      BY <1>5 DEF Written
    <3> QED
      BY <2>3, <3>2, <3>3, <3>4, <3>5
  <2> DEFINE v == Values(f)
  <2>5. v = [s \in Plain |-> v[s]]
    BY DEF Values, Plain
  <2> HIDE DEF v, w
  <2> QED
    BY <2>1, <2>4, <2>5 DEF Shows, v
<1> QED
  <2>1. ~b.reset => Current(w) /\ Written(w)
    BY <1>12, <1>13
  <2> HIDE DEF w, Y
  <2> QED
    BY <1>2, <1>4, <1>8, <1>12, <1>14, <2>1 DEF GoodRead, r, w

\* After conf_read the table is complete; it is current unless a value was reset;
\* and it shows the file unless it says something changed.
LEMMA ReadFacts ==
  ASSUME NEW f, FileOK(f), NEW t \in Table, f = NoFile => t.valid = {}
  PROVE  GoodRead(f, conf_read(f, t), Shown(conf_read(f, t).t))
BY StartRead, FileRead

-----------------------------------------------------------------------------
(* The modes of conf, and what is written. *)

\* Calculating gives a table.
LEMMA CalcTable ==
  ASSUME NEW t \in Table, NEW n \in 0 .. Len(Order)
  PROVE  Calc(t, n) \in Table /\ CalcAll(t) \in Table
<1>1. Len(Order) \in 0 .. Len(Order) /\ \A i \in 0 .. Len(Order) : i \in 0 .. i /\ i \in Nat
  BY OrderFacts
<1>2. \A i \in 0 .. Len(Order) : Calc(t, i) \in Table
  <2> SUFFICES ASSUME NEW i \in 0 .. Len(Order) PROVE Calc(t, i) \in Table
    OBVIOUS
  <2>1. PICK g : Run(t, i, g) /\ Calc(t, i) = g[i]
    BY CalcRun
  <2> QED
    BY <1>1, <2>1 DEF Run
<1> QED
  BY <1>1, <1>2 DEF CalcAll

\* The user set the same in both tables, except that choices may be new again.
LEMMA UserSame ==
  ASSUME NEW X \in Table, NEW y \in Table, y.def = X.def, y.defsym = X.defsym,
         X.has \subseteq y.has, y.has \subseteq X.has \cup ChoiceSyms
  PROVE  Harmless(X, y)
<1> QED
  BY DEF Harmless, HarmlessAt, SameUser

\* The first k symbols are calculated, and have what a calculation from the
\* start gives them.
Partly(k, t) ==
  Stage(k, Scratch(t), t) /\ \A s \in Done(k) : Same(s, CalcAll(Scratch(t)), t)

\* A calculation that stopped at the k-th symbol goes on as if it had not.
LEMMA Continued ==
  ASSUME NEW k \in 0 .. Len(Order), NEW t \in Table, Partly(k, t), NEW j \in k .. Len(Order)
  PROVE  Partly(j, Calc(t, j))
<1> DEFINE n == Len(Order)
           y == Scratch(t)
           X == CalcAll(y)
<1>1. /\ n \in Nat /\ n \in 0 .. n /\ k \in Nat /\ j \in Nat /\ j \in 0 .. n /\ j \in k .. j /\ j \in 0 .. j
      /\ k \in k .. j /\ 0 \in 0 .. k /\ k \in 0 .. k /\ 0 .. k \subseteq 0 .. j /\ k .. j \subseteq 0 .. n
  BY OrderFacts
<1>2. y \in Table /\ y.valid = {}
  BY ScratchFacts DEF IsFlagged
<1>3. Stage(k, y, t) /\ \A s \in Done(k) : Same(s, X, t)
  BY DEF Partly
<1> HIDE DEF y
<1>4. PICK g : Run(y, n, g) /\ Calc(y, n) = g[n]
  BY <1>1, <1>2, CalcRun
<1>5. PICK h : Run(t, j, h) /\ Calc(t, j) = h[j]
  BY <1>1, CalcRun
<1>6. X = g[n] /\ Stage(n, y, X) /\ X \in Table
  BY <1>1, <1>2, <1>4, RunStage DEF CalcAll, Stage
<1> HIDE DEF X
<1>7. Harmless(X, y)
  BY <1>2, <1>6, UserSame DEF Stage
<1> DEFINE S == {i \in 0 .. k : h[i] = t}
<1>8. h[k] = t
  <2>1. 0 \in S
    BY <1>1, <1>5 DEF Run
  <2>2. ASSUME NEW i \in 0 .. k, i < k, i \in S
        PROVE  i + 1 \in S
    <3>1. i + 1 \in 0 .. k /\ i + 1 \in 1 .. j /\ (i + 1) - 1 = i /\ i \in 0 .. n /\ i < n /\ i + 1 \in 1 .. k
      BY <1>1, <2>2
    <3> DEFINE q == Order[i + 1]
    <3>2. h[i + 1] = sym_calc_value(q, t) /\ q \in Symbols
      BY <1>5, <2>2, <3>1, DoneFacts DEF Run
    <3>3. q \in Known => q \in t.valid
      BY <1>3, <3>1 DEF Stage, Done
    <3> HIDE DEF q
    <3>4. h[i + 1] = t
      BY <3>2, <3>3, StepTable
    <3> QED
      BY <3>1, <3>4
  <2> HIDE DEF S
  <2>3. \A i \in 0 .. k : i \in S
    BY <1>1, <2>1, <2>2, Climb
  <2> QED
    BY <1>1, <2>3 DEF S
<1> DEFINE R == {i \in k .. j : Stage(i, y, h[i]) /\ \A s \in Done(i) : Same(s, g[i], h[i])}
<1>9. \A i \in k .. j : i \in R
  <2>1. k \in R
    <3>1. \A s \in Done(k) : Same(s, X, g[k]) /\ Same(s, X, t)
      BY <1>1, <1>2, <1>3, <1>4, <1>6, RunKeeps
    <3>2. \A s \in Done(k) : Same(s, g[k], t)
      BY <3>1 DEF Same, SameAt
    <3> QED
      BY <1>1, <1>3, <1>8, <3>2
  <2>2. ASSUME NEW i \in k .. j, i < j, i \in R
        PROVE  i + 1 \in R
    <3>1. /\ i + 1 \in k .. j /\ i + 1 \in 1 .. j /\ (i + 1) - 1 = i /\ i \in 0 .. n /\ i < n
      BY <1>1, <2>2
    <3>2. h[i + 1] = sym_calc_value(Order[i + 1], h[i])
      BY <1>5, <3>1 DEF Run
    <3>3. Stage(i, y, h[i]) /\ \A s \in Done(i) : Same(s, g[i], h[i])
      BY <2>2
    <3>4. Order[i + 1] \in Known => HarmlessAt(Order[i + 1], X, y)
      BY <1>7 DEF Harmless
    <3>5. Stage(i + 1, y, h[i + 1]) /\ \A s \in Done(i + 1) : Same(s, g[i + 1], h[i + 1])
      BY <1>2, <1>4, <1>6, <3>1, <3>2, <3>3, <3>4, AgreeNext
    <3> QED
      BY <3>1, <3>5
  <2> HIDE DEF R
  <2> QED
    BY <1>1, <2>1, <2>2, Climb
<1> DEFINE u == h[j]
           z == Scratch(u)
<1>10. Stage(j, y, u) /\ u \in Table /\ \A s \in Done(j) : Same(s, X, u)
  <2>1. Stage(j, y, u) /\ \A s \in Done(j) : Same(s, g[j], u)
    BY <1>1, <1>9
  <2>2. \A s \in Done(j) : Same(s, X, g[j])
    BY <1>1, <1>2, <1>4, <1>6, RunKeeps
  <2> QED
    BY <2>1, <2>2 DEF Same, SameAt, Stage
<1> HIDE DEF u
<1>11. z \in Table /\ z.valid = {} /\ z.def = u.def /\ z.defsym = u.defsym /\ z.has = u.has
  BY <1>10, ScratchFacts DEF IsFlagged
<1> HIDE DEF z
<1>12. Harmless(X, z)
  <2>1. z.def = X.def /\ z.defsym = X.defsym
    BY <1>6, <1>10, <1>11 DEF Stage
  <2> QED
    BY <1>6, <1>10, <1>11, <2>1 DEF Stage, Harmless, HarmlessAt, SameUser
<1>13. Agree(X, CalcAll(z))
  BY <1>2, <1>11, <1>12, Recalculation DEF X
<1>14. \A s \in Done(j) : Same(s, CalcAll(z), u)
  <2>1. \A s \in Done(j) : s \in Known
    BY DEF Done
  <2> QED
    BY <1>10, <1>13, <2>1 DEF Agree, Same, SameAt
<1>15. Stage(j, z, u)
  BY <1>10, <1>11 DEF Stage
<1> QED
  BY <1>5, <1>14, <1>15 DEF Partly, u, z

\* What a complete calculation gives is as if it had begun at the start.
LEMMA PartlyAll ==
  ASSUME NEW k \in 0 .. Len(Order), NEW t \in Table, Partly(k, t), NEW X, X = CalcAll(t)
  PROVE  Complete(X) /\ Current(X) /\ Written(X)
<1>1. Len(Order) \in k .. Len(Order) /\ Len(Order) \in Nat
  BY OrderFacts
<1>2. Partly(Len(Order), X)
  BY <1>1, Continued DEF CalcAll
<1>3. X \in Table /\ X.valid = Known /\ \A s \in Known : Sound(s, X) /\ Same(s, CalcAll(Scratch(X)), X)
  BY <1>2, DoneAll DEF Partly, Stage
<1>4. \A s \in Symbols : TypeOf[s] = "INT" => s \in Known
  BY DEF Known
<1> QED
  BY <1>3, <1>4, PlainFacts DEF Complete, Current, Agree, Written, Sound

\* set_all_choice_values calculates up to the choice, which is then calculated
\* again, and sets the choice and the members that were not set.
LEMMA ChoiceValuesFacts ==
  ASSUME NEW t \in Table, NEW i \in DOMAIN Order, NEW c, c = Order[i], c \in ChoiceSyms, c \notin t.has,
         NEW u, u = Calc(t, i), NEW w, w = set_all_choice_values(t, c)
  PROVE  /\ u \in Table /\ w \in Table /\ SameView(u, w) /\ w.write = u.write /\ w.defsym = u.defsym
         /\ w.valid = u.valid \ {c} /\ w.has = u.has \cup {c}
         /\ \A s \in Symbols : ChoiceOf[s] # c => w.def[s] = u.def[s]
<1> DEFINE D == [s \in Symbols |-> IF ChoiceOf[s] = c /\ s \notin u.has THEN 0 ELSE u.def[s]]
           H == u.has \cup {c}
           V == u.valid \ {c}
<1>1. c \in Symbols
  BY MemberFacts
<1>2. i = CHOOSE j \in DOMAIN Order : Order[j] = c
  BY OrderFacts
<1>3. i \in 0 .. Len(Order)
  BY OrderFacts
<1>4. u \in Table
  BY <1>3, CalcTable
<1>5. w = [u EXCEPT !.def = D, !.has = H, !.valid = V]
  BY <1>2 DEF set_all_choice_values
<1>6. GoodDef(u.def) /\ GoodSym(u.defsym) /\ u.has \subseteq Symbols /\ u.valid \subseteq Known
  BY <1>4, GoodFacts
<1>7. GoodDef(D)
  <2>1. u.def \in [Symbols -> Int] /\ 0 \in Tri /\ 0 \in Numbers /\ 0 \in Int
    BY <1>6, NumberAssumption DEF GoodDef, Tri
  <2> QED
    BY <1>6, <2>1 DEF GoodDef
<1>8. H \subseteq Symbols /\ V \subseteq Known
  BY <1>1, <1>6
<1>9. \A s \in Symbols : ChoiceOf[s] # c => D[s] = u.def[s]
  OBVIOUS
<1> HIDE DEF D, H, V
<1>10. w = [u EXCEPT !.has = H, !.def = D, !.defsym = u.defsym, !.valid = V]
  BY <1>4, <1>5, TableFacts DEF Shape
<1>11. IsSet(u, H, D, u.defsym, V, w)
  BY <1>4, <1>6, <1>7, <1>8, <1>10, TableUser
<1> QED
  BY <1>4, <1>9, <1>11 DEF IsSet, H, V

\* So it gives a table,
LEMMA ChoiceValuesTable ==
  ASSUME NEW t \in Table, NEW c \in ChoiceSyms
  PROVE  set_all_choice_values(t, c) \in Table
<1>1. CASE c \in t.has
  BY <1>1 DEF set_all_choice_values
<1>2. CASE c \notin t.has
  <2>1. PICK i \in DOMAIN Order : Order[i] = c
    BY MemberFacts, OrderFacts
  <2> QED
    BY <1>2, <2>1, ChoiceValuesFacts
<1> QED
  BY <1>1, <1>2

\* in which what is calculated is what a calculation from the start gives.
LEMMA ChoiceValuesPartly ==
  ASSUME NEW i \in DOMAIN Order, Order[i] \in ChoiceSyms, NEW k \in 0 .. i - 1, NEW t \in Table,
         Partly(k, t), NEW w, w = set_all_choice_values(t, Order[i])
  PROVE  \E j \in 0 .. i : Partly(j, w)
<1> DEFINE c == Order[i]
           u == Calc(t, i)
<1>1. /\ i \in Nat /\ k \in Nat /\ k \in 0 .. i /\ k \in 0 .. Len(Order) /\ i \in k .. Len(Order)
      /\ i - 1 \in 0 .. Len(Order) /\ i - 1 < Len(Order) /\ (i - 1) + 1 = i /\ i - 1 \in 0 .. i
  BY OrderFacts
<1>2. CASE c \in t.has
  <2>1. w = t
    BY <1>2 DEF set_all_choice_values
  <2> QED
    BY <1>1, <2>1
<1>3. CASE c \notin t.has
  <2>1. Partly(i, u)
    BY <1>1, Continued
  <2>2. /\ u \in Table /\ w \in Table /\ SameView(u, w) /\ w.write = u.write /\ w.defsym = u.defsym
        /\ w.valid = u.valid \ {c} /\ w.has = u.has \cup {c}
        /\ \A s \in Symbols : ChoiceOf[s] # c => w.def[s] = u.def[s]
    BY <1>3, ChoiceValuesFacts
  <2> DEFINE x == Scratch(u)
             y == Scratch(w)
             X == CalcAll(x)
  <2>3. /\ x \in Table /\ x.valid = {} /\ x.def = u.def /\ x.defsym = u.defsym /\ x.has = u.has
        /\ y \in Table /\ y.valid = {} /\ y.def = w.def /\ y.defsym = w.defsym /\ y.has = w.has
    BY <2>2, ScratchFacts DEF IsFlagged
  <2>4. Stage(i, x, u) /\ \A s \in Done(i) : Same(s, X, u)
    BY <2>1 DEF Partly
  <2> HIDE DEF u, x, y
  <2>5. Stage(Len(Order), x, X) /\ X \in Table
    BY <2>3, FromScratch DEF Stage
  <2>6. Harmless(X, y)
    <3>1. \A s \in Known : s \notin ChoiceSyms /\ ~IsMember(s) => SameUser(s, X, y)
      <4> SUFFICES ASSUME NEW s \in Known, s \notin ChoiceSyms, ~IsMember(s) PROVE SameUser(s, X, y)
        OBVIOUS
      <4>1. s \in Symbols /\ ChoiceOf[s] # c /\ s # c
        <5>1. c \in Symbols /\ c # "none"
          BY MemberFacts, OrderAssumption
        <5> QED
          BY <5>1 DEF Known, IsMember
      <4>2. (s \in X.has <=> s \in u.has) /\ X.def = u.def
        BY <2>3, <2>5 DEF Stage
      <4> QED
        BY <2>2, <2>3, <4>1, <4>2 DEF SameUser
    <3>2. y.defsym = X.defsym
      BY <2>2, <2>3, <2>5 DEF Stage
    <3> QED
      BY <3>1, <3>2 DEF Harmless, HarmlessAt
  <2> DEFINE Y == CalcAll(y)
  <2>7. Agree(X, Y)
    BY <2>3, <2>6, Recalculation
  <2> HIDE DEF X, Y
  <2>8. Done(i - 1) \subseteq Done(i) /\ c \notin Done(i - 1) /\ (c \in Known => Done(i) = Done(i - 1) \cup {c})
    BY <1>1, DoneFacts
  <2>9. c \in Known
    BY MemberFacts DEF Known
  <2>10. ASSUME NEW s \in Done(i - 1)
         PROVE  Sound(s, w) /\ Same(s, Y, w)
    <3>1. s \in Known /\ s \in Done(i)
      BY <2>8 DEF Done
    <3>2. Sound(s, u) /\ Same(s, X, u) /\ Same(s, X, Y)
      BY <2>4, <2>7, <3>1 DEF Stage, Agree
    <3>3. Sound(s, w)
      BY <2>2, <3>2 DEF Sound, SeenAt, SameView
    <3>4. Same(s, u, w)
      BY <2>2 DEF Same, SameAt, SameView
    <3> QED
      BY <3>2, <3>3, <3>4 DEF Same, SameAt
  <2>11. w.valid = Done(i - 1)
    BY <2>2, <2>4, <2>8, <2>9 DEF Stage
  <2>12. Stage(i - 1, y, w)
    BY <2>2, <2>3, <2>10, <2>11 DEF Stage
  <2>13. Partly(i - 1, w)
    BY <2>10, <2>12 DEF Partly, y, Y
  <2> QED
    BY <1>1, <2>13
<1> QED
  BY <1>2, <1>3

\* sym_clear_all_valid leaves the first symbol calculated.
LEMMA ClearPartly ==
  ASSUME NEW u \in Table
  PROVE  Partly(1, sym_clear_all_valid(u))
<1> DEFINE x == Scratch(u)
           y == Scratch(x)
<1>1. x \in Table /\ x.valid = {} /\ 0 \in 0 .. Len(Order) /\ 1 \in 0 .. Len(Order)
      /\ 1 \in 1 .. 1 /\ 1 - 1 = 0 /\ Order[1] = modules_sym
  BY ScratchFacts, OrderFacts DEF IsFlagged
<1>2. sym_clear_all_valid(u) = sym_calc_value(Order[1], x)
  BY <1>1 DEF sym_clear_all_valid, Scratch
<1> HIDE DEF x
<1>3. y.def = x.def /\ y.defsym = x.defsym /\ y.has = x.has
  BY <1>1, ScratchFacts DEF IsFlagged
<1>4. Partly(0, x)
  <2>1. Done(0) = {}
    BY DEF Done
  <2> HIDE DEF y
  <2>2. Stage(0, y, x)
    BY <1>1, <1>3, <2>1 DEF Stage
  <2> QED
    BY <2>1, <2>2 DEF Partly, y
<1>5. PICK g : Run(x, 1, g) /\ Calc(x, 1) = g[1]
  BY <1>1, CalcRun
<1>6. Calc(x, 1) = sym_calc_value(Order[1], x)
  BY <1>1, <1>5 DEF Run
<1> QED
  BY <1>1, <1>2, <1>4, <1>6, Continued

\* So does conf_set_all_new_symbols, whose values are those of a calculation from
\* the start as far as they are calculated.
LEMMA NewSymbolsPartly ==
  ASSUME NEW t \in Table, NEW mode \in Tri \cup {def_default}
  PROVE  \E k \in 0 .. Len(Order) : Partly(k, conf_set_all_new_symbols(mode, t))
<1> DEFINE n == Len(Order)
           new == {s \in Symbols \ (t.has \cup t.valid) : IsTri(s) /\ mode # def_default}
           D0 == [s \in Symbols |-> IF s \in new THEN mode ELSE t.def[s]]
           H0 == t.has \cup new
           u == [t EXCEPT !.def = D0, !.has = H0]
           x == sym_clear_all_valid(u)
           next(i, a) == IF IsChoice(Order[i]) THEN set_all_choice_values(a, Order[i]) ELSE a
           D(g) == g = [i \in 0 .. n |-> IF i = 0 THEN x ELSE next(i, g[i - 1])]
           after == CHOOSE g : D(g)
           F == [p \in (1 .. n) \X Table |-> next(p[1], p[2])]
<1>1. n \in Nat /\ \A i \in 1 .. n : Order[i] \in Symbols
  BY OrderFacts
<1>2. x \in Table /\ Partly(1, x)
  <2>1. GoodDef(t.def) /\ GoodSym(t.defsym) /\ t.has \subseteq Symbols /\ t.valid \subseteq Known
    BY GoodFacts
  <2>2. GoodDef(D0)
    <3>1. t.def \in [Symbols -> Int] /\ \A k \in Tri : k \in Int
      BY <2>1 DEF GoodDef, Tri
    <3>2. \A s \in new : s \in Symbols /\ IsTri(s) /\ mode \in Tri /\ TypeOf[s] # "INT"
      BY DEF IsTri
    <3> HIDE DEF new
    <3> QED
      BY <2>1, <3>1, <3>2 DEF GoodDef
  <2>3. H0 \subseteq Symbols
    BY <2>1
  <2>4. u = [t EXCEPT !.has = H0, !.def = D0, !.defsym = t.defsym, !.valid = t.valid]
    BY TableFacts DEF Shape
  <2> HIDE DEF D0, H0, u
  <2>5. IsSet(t, H0, D0, t.defsym, t.valid, u)
    BY <2>1, <2>2, <2>3, <2>4, TableUser
  <2>6. u \in Table
    BY <2>5 DEF IsSet
  <2> QED
    BY <2>6, ClearFacts, ClearPartly
<1>3. \A i \in 1 .. n : \A a \in Table : next(i, a) \in Table
  BY <1>1, ChoiceValuesTable DEF ChoiceSyms
<1>4. conf_set_all_new_symbols(mode, t) = after[n]
  BY DEF conf_set_all_new_symbols
<1> HIDE DEF x, next
<1>5. F \in [(1 .. n) \X Table -> Table]
  BY <1>3
<1>6. \A i \in 1 .. n : \A a \in Table : F[<<i, a>>] = next(i, a)
  <2> SUFFICES ASSUME NEW i \in 1 .. n, NEW a \in Table PROVE F[<<i, a>>] = next(i, a)
    OBVIOUS
  <2> DEFINE p == <<i, a>>
  <2>1. p \in (1 .. n) \X Table /\ p[1] = i /\ p[2] = a
    OBVIOUS
  <2> HIDE DEF p
  <2>2. F[p] = next(p[1], p[2])
    BY <2>1
  <2> QED
    BY <2>1, <2>2 DEF p
<1> HIDE DEF F, n
<1>7. PICK g \in [0 .. n -> Table] : Folded(n, x, F, g)
  BY <1>1, <1>2, <1>5, FoldExists
<1>8. D(g)
  <2>1. ASSUME NEW i \in 1 .. n
        PROVE  g[i] = next(i, g[i - 1])
    <3>1. i - 1 \in 0 .. n
      BY <1>1
    <3> QED
      BY <1>6, <1>7, <3>1 DEF Folded
  <2>2. \A i \in 0 .. n : g[i] = IF i = 0 THEN x ELSE next(i, g[i - 1])
    BY <1>1, <1>7, <2>1 DEF Folded
  <2> QED
    BY <1>7, <2>2
<1>9. D(after)
  <2> HIDE DEF D
  <2> QED
    BY <1>8
<1>10. \A i \in 0 .. n : after[i] = IF i = 0 THEN x ELSE next(i, after[i - 1])
  <2> HIDE DEF after
  <2> QED
    BY <1>9
<1> HIDE DEF D, after
<1> DEFINE S == {i \in 0 .. n : \E k \in 0 .. n : (k <= i \/ k = 1) /\ Partly(k, after[i])}
<1>11. \A i \in 0 .. n : i \in S
  <2>1. 0 \in S
    <3>1. 1 \in 0 .. n
      BY OrderFacts DEF n
    <3> QED
      BY <1>1, <1>2, <1>10, <3>1
  <2>2. ASSUME NEW i \in 0 .. n, i < n, i \in S
        PROVE  i + 1 \in S
    <3>1. /\ i + 1 \in 1 .. n /\ i + 1 \in 0 .. n /\ i + 1 # 0 /\ (i + 1) - 1 = i /\ i + 1 \in DOMAIN Order
          /\ i \in Nat
      BY <1>1, <2>2, OrderFacts DEF n
    <3>2. PICK k \in 0 .. n : (k <= i \/ k = 1) /\ Partly(k, after[i])
      BY <2>2
    <3>3. after[i + 1] = next(i + 1, after[i])
      BY <1>10, <3>1
    <3>4. CASE Order[i + 1] \notin ChoiceSyms
      <4>1. after[i + 1] = after[i]
        BY <1>1, <3>1, <3>3, <3>4 DEF next, ChoiceSyms
      <4>2. k <= i + 1 \/ k = 1
        BY <3>1, <3>2
      <4> QED
        BY <3>1, <3>2, <4>1, <4>2
    <3>5. CASE Order[i + 1] \in ChoiceSyms
      <4>1. i + 1 # 1
        BY <3>5, MemberFacts, OrderFacts
      <4>2. k \in 0 .. (i + 1) - 1
        BY <3>1, <3>2, <4>1
      <4>3. after[i + 1] = set_all_choice_values(after[i], Order[i + 1])
        BY <3>3, <3>5 DEF next, ChoiceSyms
      <4>4. after[i] \in Table
        BY <3>2 DEF Partly, Stage
      <4>5. \E j \in 0 .. i + 1 : Partly(j, after[i + 1])
        BY <3>1, <3>2, <3>5, <4>2, <4>3, <4>4, ChoiceValuesPartly
      <4>6. \A j \in 0 .. i + 1 : j \in 0 .. n /\ j <= i + 1
        BY <1>1, <3>1
      <4> QED
        BY <3>1, <4>5, <4>6
    <3> QED
      BY <3>4, <3>5
  <2> HIDE DEF S
  <2> QED
    BY <1>1, <2>1, <2>2, Climb
<1>12. n \in 0 .. n
  BY <1>1
<1> QED
  BY <1>4, <1>11, <1>12 DEF n

\* So the modes that answer for the user end with a table.
LEMMA NewSymbolsTable ==
  ASSUME NEW t \in Table, NEW mode \in Tri \cup {def_default}
  PROVE  conf_set_all_new_symbols(mode, t) \in Table
BY NewSymbolsPartly DEF Partly, Stage

\* The file conf_write_defconfig writes can be read again.
LEMMA DefconfigFile ==
  ASSUME NEW t \in Table
  PROVE  FileOK(conf_write_defconfig(t))
<1> DEFINE u == CalcAll(sym_clear_all_valid(t))
           kept == {s \in u.write \ ChoiceSyms :
                     /\ sym_is_changable(s, u)
                     /\ u.curr[s] # sym_get_string_default(s, u)
                     /\ ~ChosenAnyway(s, u)}
<1>1. conf_write_defconfig(t) = LinesOf(kept, u)
  BY DEF conf_write_defconfig
<1>2. u \in Table
  BY ClearFacts, CalcTable, OrderFacts
<1> HIDE DEF u
<1>3. kept \subseteq Plain
  BY <1>2, KnownFlags DEF Known, Plain, ChoiceSyms
<1> HIDE DEF kept
<1> QED
  BY <1>1, <1>2, <1>3, LinesFile

\* The symbol table a program starts with.
LEMMA NewTableFacts ==
  NewTable \in Table /\ NewTable.valid = {}
<1> DEFINE t == NewTable
           D == [s \in Symbols |-> 0]
           Y == [c \in ChoiceSyms |-> "none"]
           Z == [s \in Symbols |-> [i \in DOMAIN ValDep[s] |-> 0]]
<1>1. /\ t.has = {} /\ t.def = D /\ t.defsym = Y /\ t.valid = {} /\ t.write = {} /\ t.pick = Y
      /\ t.curr = Blank /\ t.vis = D /\ t.rev = D /\ t.sel = Z
  BY DEF NewTable
<1>2. D \in [Symbols -> Int] /\ D \in [Symbols -> Tri] /\ \A s \in Symbols : D[s] = 0
  BY DEF Tri
<1>3. Y \in [ChoiceSyms -> Symbols \cup {"none"}] /\ \A c \in ChoiceSyms : Y[c] = "none"
  OBVIOUS
<1>4. Z \in [Symbols -> Selections] /\ \A s \in Symbols : Z[s] \in [DOMAIN ValDep[s] -> Tri]
  <2>1. \A s \in Symbols : Z[s] \in [DOMAIN ValDep[s] -> Tri]
    BY DEF Tri
  <2>2. \A s \in Symbols : Z[s] \in Selections
    BY <2>1 DEF Selections
  <2> QED
    BY <2>1, <2>2
<1>5. 0 \in Numbers /\ 0 \in Tri /\ \A s \in Symbols : TypeOf[s] = "UNKNOWN" => Number[s] \in Numbers
  BY NumberAssumption DEF OfType, Tri
<1>6. \A k \in Numbers : k \in Int
  BY NumberAssumption
<1>7. Blank \in [Symbols -> Int] /\ \A s \in Symbols :
        Blank[s] = IF TypeOf[s] = "UNKNOWN" THEN Number[s] ELSE 0
  BY <1>5, <1>6 DEF Blank
<1>8. Typed(Blank)
  BY <1>5, <1>7 DEF Typed
<1> HIDE DEF D, Y, Z
<1>9. t \in Shape
  <2>1. t = [has |-> {}, def |-> D, defsym |-> Y, valid |-> {}, write |-> {}, pick |-> Y,
             curr |-> Blank, vis |-> D, rev |-> D, sel |-> Z]
    BY DEF NewTable, D, Y, Z
  <2> HIDE DEF t
  <2> QED
    BY <1>2, <1>3, <1>4, <1>7, <2>1 DEF Shape
<1>10. Proper(t)
  <2> HIDE DEF t
  <2> QED
    BY <1>1, <1>2, <1>3, <1>4, <1>5, <1>8 DEF Proper
<1> QED
  BY <1>1, <1>9, <1>10 DEF Table

-----------------------------------------------------------------------------
(* The invariant of the programs. *)

\* The inductive invariant: the control state and the files;
Control ==
  /\ pc \in {"shell", "mconf", "oldconfig"} /\ own \subseteq Names /\ filename \in Names
  /\ at \in 1 .. Len(Order) + 1 /\ visit \in 0 .. Len(Order) + 1 /\ steps \in 0 .. MaxSteps
  /\ {changed, asked, stale, uncounted} \subseteq BOOLEAN
  /\ pc = "shell" => filename = ".config"
  /\ files = [n \in Names |-> files[n]] /\ \A n \in Names : FileOK(files[n])

\* the table of a program that waits for the user; old when a number was ignored,
\* count when the changes are counted;
GoodSession(t, old, count) ==
  Complete(t) /\ (~old => Current(t)) /\ (count /\ ~old => Written(t))

Session == pc # "shell" => GoodSession(table, stale, changed)

\* and the file mconf would save under.
Kept == pc = "mconf" /\ ~changed /\ ~uncounted /\ ~stale => Shows(files[filename], table)

Inv == Control /\ Session /\ Kept

\* conf_write calculates a table, and what it writes can be read again.
LEMMA CalculatedTable ==
  ASSUME NEW t \in Table, NEW count
  PROVE  Calculated(t, count) \in Table /\ FileOK(Lines(Calculated(t, count)))
<1>1. Calculated(t, count) \in Table
  <2>1. sym_clear_all_valid(t) \in Table /\ t \in Table
    BY ClearFacts
  <2>2. CASE count
    BY <2>2, CalcTable, OrderFacts DEF Calculated
  <2>3. CASE ~count
    BY <2>1, <2>3, CalcTable, OrderFacts DEF Calculated
  <2> QED
    BY <2>2, <2>3
<1> QED
  BY <1>1, LinesFacts

\* When conf_write calculates from the start what it writes is current; when it
\* trusts the change count the table is what it was.
LEMMA CalculatedFacts ==
  ASSUME NEW t, Complete(t), NEW count, NEW u, u = Calculated(t, count)
  PROVE  /\ Complete(u) /\ (count => u = t)
         /\ ~count => Current(u) /\ Written(u)
<1>1. t \in Table /\ t.valid = Known
  BY DEF Complete
<1>2. CASE count
  <2>1. u = CalcAll(t)
    BY <1>2 DEF Calculated
  <2>2. u = t
    BY <1>1, <2>1, CalcDone
  <2> QED
    BY <1>2, <2>2
<1>3. CASE ~count
  <2>1. u = CalcAll(sym_clear_all_valid(t))
    BY <1>3 DEF Calculated
  <2>2. FromStart(sym_clear_all_valid(t))
    BY <1>1, ClearStart
  <2>3. PICK x \in Table : x.valid = {} /\ u = CalcAll(x)
    BY <2>1, <2>2 DEF FromStart
  <2> QED
    BY <1>3, <2>3, CurrentScratch
<1> QED
  BY <1>2, <1>3

\* conf_write takes SYMBOL_WRITE away and leaves values alone.
LEMMA AfterWriteFacts ==
  ASSUME NEW t, Complete(t)
  PROVE  /\ Complete(AfterWrite(t)) /\ AfterWrite(t).curr = t.curr
         /\ Current(t) => Current(AfterWrite(t))
<1> DEFINE W == t.write \cap ChoiceSyms
           u == AfterWrite(t)
<1>1. t \in Table /\ t.valid = Known
  BY DEF Complete
<1>2. W \subseteq Known /\ t.valid \subseteq Known
  BY <1>1, KnownFlags
<1>3. u = [t EXCEPT !.valid = t.valid, !.write = W]
  BY <1>1, TableFacts DEF AfterWrite, Shape
<1> HIDE DEF u, W
<1>4. IsFlagged(t, t.valid, W, u)
  BY <1>1, <1>2, <1>3, TableFlags
<1>5. u \in Table /\ SameView(t, u) /\ Harmless(t, u)
  BY <1>4 DEF IsFlagged, SameView, Harmless, HarmlessAt, SameUser
<1>6. Complete(u)
  BY <1>1, <1>4 DEF IsFlagged, Complete
<1>7. Current(t) => Current(u)
  BY <1>1, <1>5, CurrentKept
<1> QED
  BY <1>5, <1>6, <1>7 DEF SameView, u

\* What a current table amounts to is what it shows.
LEMMA FreshFacts ==
  ASSUME NEW t \in Table, Current(t)
  PROVE  Fresh(t) = [s \in Plain |-> t.curr[s]]
<1> DEFINE x == Scratch(t)
           X == CalcAll(x)
<1>1. x \in Table /\ x.valid = {}
  BY ScratchFacts DEF IsFlagged
<1>2. CalcAll(sym_clear_all_valid(t)) = X
  BY ClearFacts
<1>3. Agree(X, t)
  BY DEF Current
<1> HIDE DEF x
<1>4. Complete(X) /\ Written(X)
  BY <1>1, CurrentScratch
<1>5. Fresh(t) = Values(Lines(X))
  BY <1>2 DEF Fresh
<1> HIDE DEF X
<1>6. Shows(Lines(X), X)
  BY <1>4, LinesFacts DEF Complete
<1>7. \A s \in Plain : X.curr[s] = t.curr[s]
  BY <1>3, PlainFacts DEF Agree, Same
<1> QED
  BY <1>5, <1>6, <1>7 DEF Shows

\* The invariant holds at the start: all programs are to be started yet.
LEMMA InitInv == Init => Inv
<1> SUFFICES ASSUME Init PROVE Inv
  OBVIOUS
<1>1. PICK n \in Names, f \in Given : files = [m \in Names |-> IF m = n THEN f ELSE NoFile]
  BY DEF Init
<1>2. FileOK(f)
  BY FileAssumption DEF FileOK
<1>3. FileOK(NoFile)
  <2>1. "missing" \notin Symbols
    BY OrderAssumption
  <2>2. Readable(<<"missing", 0>>)
    BY <2>1 DEF Readable
  <2> DEFINE l == <<"missing", 0>>
  <2>3. NoFile = <<l>> /\ Readable(l)
    BY <2>2 DEF NoFile
  <2> HIDE DEF l
  <2>4. Len(<<l>>) = 1 /\ DOMAIN <<l>> = 1 .. 1 /\ <<l>>[1] = l
    OBVIOUS
  <2> QED
    BY <2>3, <2>4 DEF FileOK
<1>4. files = [m \in Names |-> files[m]] /\ \A m \in Names : FileOK(files[m])
  BY <1>1, <1>2, <1>3
<1>5. Len(Order) \in Nat /\ MaxSteps \in Nat
  BY OrderFacts, BoundAssumption
<1>6. Control
  <2>1. /\ pc = "shell" /\ filename = ".config" /\ at = 1 /\ visit = 0 /\ steps = 0 /\ own = {}
        /\ changed = FALSE /\ asked = FALSE /\ stale = FALSE /\ uncounted = FALSE
    BY DEF Init
  <2>2. 1 \in 1 .. Len(Order) + 1 /\ 0 \in 0 .. Len(Order) + 1 /\ 0 \in 0 .. MaxSteps
    BY <1>5
  <2>3. {changed, asked, stale, uncounted} \subseteq BOOLEAN
    BY <2>1
  <2> QED
    BY <1>4, <2>1, <2>2, <2>3 DEF Control, Names
<1> QED
  BY <1>6 DEF Init, Inv, Session, Kept

\* conf_read and the drawing of the menus, as a step.
LEMMA ReadSession ==
  ASSUME NEW n \in Names, FileOK(files[n]), NEW t \in Table, files[n] = NoFile => t.valid = {},
         NEW count \in BOOLEAN, Read(n, t, count)
  PROVE  /\ GoodSession(table', stale', changed')
         /\ changed' \in BOOLEAN /\ stale' \in BOOLEAN /\ (count => changed')
         /\ ~changed' /\ ~stale' => Shows(files[n], table')
<1> DEFINE f == files[n]
           r == conf_read(f, t)
           w == Shown(r.t)
<1>1. table' = w /\ changed' = (count \/ r.changed) /\ stale' = r.reset
  BY DEF Read
<1>2. GoodRead(f, r, w)
  BY ReadFacts
<1> HIDE DEF r, w, f
<1>3. /\ r.changed \in BOOLEAN /\ r.reset \in BOOLEAN /\ Complete(w)
      /\ ~r.reset => Current(w) /\ Written(w)
      /\ ~r.reset /\ ~r.changed => Shows(f, w)
  BY <1>2 DEF GoodRead
<1> QED
  BY <1>1, <1>3 DEF GoodSession, f

\* An edit, as a step.
LEMMA EditSession ==
  ASSUME GoodSession(table, stale, changed), NEW u, NEW ignored, GoodEdit(table, u, ignored),
         Edit(u, ignored)
  PROVE  /\ GoodSession(table', stale', changed')
         /\ changed' \in BOOLEAN /\ stale' \in BOOLEAN
         /\ ~changed' /\ ~stale' => ~changed /\ ~stale /\ table'.curr = table.curr
<1> DEFINE w == Shown(u)
<1>1. /\ table' = w
      /\ changed' = (changed \/ u.valid # table.valid)
      /\ stale' = (ignored \/ (stale /\ ~(u.valid # table.valid)))
  BY DEF Edit
<1>2. Complete(table)
  BY DEF GoodSession
<1>3. /\ Complete(w)
      /\ u.valid # table.valid => Current(w) /\ Written(w)
      /\ u.valid = table.valid =>
           /\ w.curr = table.curr
           /\ Written(table) => Written(w)
           /\ Current(table) /\ ~ignored => Current(w)
  BY <1>2, ShownEdit
<1> HIDE DEF w
<1> QED
  BY <1>1, <1>3 DEF GoodSession

IsEdit == \E u, ignored : GoodEdit(table, u, ignored) /\ Edit(u, ignored)

\* What has a type is no constant.
LEMMA KnownFacts ==
  \A s \in Symbols : (IsTri(s) => s \in Known) /\ (TypeOf[s] = "INT" => s \in Known)
BY DEF Known, IsTri

\* The tristate values.
LEMMA TriElements == 0 \in Tri /\ 1 \in Tri /\ 2 \in Tri
BY DEF Tri

\* A key of mconf is an edit.
LEMMA KeyEdit ==
  ASSUME Complete(table), NEW s \in Symbols, NEW key \in {"y", "m", "n", " "}, Key(s, key)
  PROVE  IsEdit
<1>1. /\ IsTri(s) /\ s \in Known /\ table \in Table
      /\ IsMember(s) => table.curr[s] # 2
  BY KnownFacts DEF Key, Entry, Complete
<1>2. Edit(IF key = " " THEN sym_toggle_tristate_value(s, table)
           ELSE sym_set_tristate_value(s, KeyValue(s, key), table), FALSE)
  BY DEF Key
<1>3. CASE key = " "
  <2>1. GoodEdit(table, sym_toggle_tristate_value(s, table), FALSE)
    BY <1>1, ToggleEdit
  <2> QED
    BY <1>2, <1>3, <2>1 DEF IsEdit
<1>4. CASE key # " "
  <2>1. KeyValue(s, key) \in Tri
    <3>1. key = "y" \/ key = "m" \/ key = "n"
      BY <1>4
    <3>2. 0 \in Tri /\ 1 \in Tri /\ 2 \in Tri
      BY TriElements
    <3>3. CASE key = "y"
      <4>1. KeyValue(s, key) = IF Accepted(s, 2, table) THEN 2 ELSE 1
        BY <3>3, Zenon DEF KeyValue
      <4> QED
        BY <3>2, <4>1
    <3>4. CASE key = "m"
      <4>1. KeyValue(s, key) = 1
        BY <3>4 DEF KeyValue
      <4> QED
        BY <3>2, <4>1
    <3>5. CASE key = "n"
      <4>1. KeyValue(s, key) = 0
        BY <3>5 DEF KeyValue
      <4> QED
        BY <3>2, <4>1
    <3> QED
      BY <3>1, <3>3, <3>4, <3>5
  <2>2. GoodEdit(table, sym_set_tristate_value(s, KeyValue(s, key), table), FALSE)
    BY <1>1, <2>1, TriEdit
  <2> QED
    BY <1>2, <1>4, <2>2 DEF IsEdit
<1> QED
  BY <1>3, <1>4

\* Choosing a member of a choice is an edit.
LEMMA MemberEdit ==
  ASSUME Complete(table), NEW m \in Symbols, IsMember(m), menu_is_visible(m, table),
         Edit(sym_set_tristate_value(m, 2, table), FALSE)
  PROVE  IsEdit
<1>1. m \in Known /\ IsTri(m) /\ table \in Table /\ table.vis[m] # 0 /\ 2 \in Tri
  BY MemberFacts, ShownMember DEF Known, IsTri, Complete, Tri
<1>2. GoodEdit(table, sym_set_tristate_value(m, 2, table), FALSE)
  BY <1>1, TriEdit
<1> QED
  BY <1>2 DEF IsEdit

\* Entering a number is an edit.
LEMMA NumberEdit ==
  ASSUME Complete(table), NEW s \in Symbols, TypeOf[s] = "INT", NEW v \in Numbers,
         Edit(sym_set_string_value(s, v, table), Ignored(s, v))
  PROVE  IsEdit
<1>1. s \in Known /\ table \in Table
  BY KnownFacts DEF Complete
<1>2. sym_string_within_range(s, v, table) /\ table.def[s] = v /\ table.curr[s] # v => Ignored(s, v)
  BY DEF Ignored
<1>3. GoodEdit(table, sym_set_string_value(s, v, table), Ignored(s, v))
  BY <1>1, <1>2, StringEdit
<1> QED
  BY <1>3 DEF IsEdit

\* An answer to oldconfig is an edit.
LEMMA AnswerEdit ==
  ASSUME Complete(table), NEW s \in Symbols, Answer(s), ~IsMember(s)
  PROVE  IsEdit
<1>1. table \in Table
  BY DEF Complete
<1>2. CASE /\ IsChoice(s)
           /\ \E m \in Takable(s) : Edit(sym_set_tristate_value(m, 2, table), FALSE)
  <2>1. PICK m \in Members(s) :
          menu_is_visible(m, table) /\ Edit(sym_set_tristate_value(m, 2, table), FALSE)
    BY <1>2 DEF Takable
  <2>2. m \in Symbols /\ IsMember(m)
    BY <1>2, MemberFacts DEF ChoiceSyms
  <2> QED
    BY <2>1, <2>2, MemberEdit
<1>3. CASE /\ TypeOf[s] = "INT"
           /\ \E v \in Inputs \cup {table.curr[s]} :
                /\ sym_string_within_range(s, v, table)
                /\ Edit(sym_set_string_value(s, v, table), Ignored(s, v))
  <2>1. PICK v \in Inputs \cup {table.curr[s]} :
          Edit(sym_set_string_value(s, v, table), Ignored(s, v))
    BY <1>3
  <2>2. table.curr[s] \in Numbers
    BY <1>1, <1>3, TableFacts DEF Proper, Typed
  <2>3. v \in Numbers
    BY <2>1, <2>2, NumberAssumption
  <2> QED
    BY <1>3, <2>1, <2>3, NumberEdit
<1>4. CASE /\ IsTri(s) /\ ~IsChoice(s)
           /\ \E v \in Tri :
                Accepted(s, v, table) /\ Edit(sym_set_tristate_value(s, v, table), FALSE)
  <2>1. PICK v \in Tri : Edit(sym_set_tristate_value(s, v, table), FALSE)
    BY <1>4
  <2>2. s \in Known
    BY <1>4, KnownFacts
  <2>3. GoodEdit(table, sym_set_tristate_value(s, v, table), FALSE)
    BY <1>1, <1>4, <2>1, <2>2, TriEdit
  <2> QED
    BY <2>1, <2>3 DEF IsEdit
<1> QED
  BY <1>2, <1>3, <1>4 DEF Answer

\* Steps that edit the table.
LEMMA EditInv ==
  ASSUME Inv, pc # "shell", IsEdit, at' \in 1 .. Len(Order) + 1, asked' \in BOOLEAN,
         visit' \in 0 .. Len(Order) + 1, steps' \in 0 .. MaxSteps
  PROVE  Inv'
<1>1. PICK u, ignored : GoodEdit(table, u, ignored) /\ Edit(u, ignored)
  BY DEF IsEdit
<1>2. GoodSession(table, stale, changed)
  BY DEF Inv, Session
<1>3. /\ GoodSession(table', stale', changed')
      /\ changed' \in BOOLEAN /\ stale' \in BOOLEAN
      /\ ~changed' /\ ~stale' => ~changed /\ ~stale /\ table'.curr = table.curr
  BY <1>1, <1>2, EditSession
<1>4. UNCHANGED <<files, pc, filename, uncounted, own>>
  BY <1>1 DEF Edit
<1>5. Control'
  BY <1>3, <1>4 DEF Inv, Control
<1>6. Kept'
  BY <1>3, <1>4 DEF Inv, Kept, Shows
<1> QED
  BY <1>3, <1>5, <1>6 DEF Inv, Session

\* What conf_write does to the files.
LEMMA WriteFiles ==
  ASSUME Inv, NEW n \in Names, NEW t \in Table, NEW count, NEW old, conf_write(n, t, count, old)
  PROVE  /\ own' \subseteq Names /\ files' = [m \in Names |-> files'[m]]
         /\ \A m \in Names : FileOK(files'[m])
         /\ files'[n] = Lines(Calculated(t, count))
         /\ \A m \in Names : m # n => files'[m] = files[m]
<1> DEFINE f == Lines(Calculated(t, count))
<1>1. FileOK(f)
  BY CalculatedTable
<1>2. files' = [files EXCEPT ![n] = f] /\ own' \subseteq own \cup {n}
  BY DEF conf_write
<1>3. /\ own \subseteq Names /\ files = [m \in Names |-> files[m]]
      /\ \A m \in Names : FileOK(files[m])
  BY DEF Inv, Control
<1> HIDE DEF f
<1>4. files' = [m \in Names |-> IF m = n THEN f ELSE files[m]]
  BY <1>2, <1>3
<1> QED
  BY <1>1, <1>2, <1>3, <1>4 DEF f

\* The bound on the steps of the user.
LEMMA StepCount ==
  ASSUME Inv
  PROVE  /\ Step => steps' \in 0 .. MaxSteps
         /\ steps' = steps => steps' \in 0 .. MaxSteps
BY BoundAssumption DEF Inv, Control, Step

\* A program that ends leaves nothing but the files.
LEMMA EndInv ==
  ASSUME Inv, EndSession, steps' \in 0 .. MaxSteps, own' \subseteq Names,
         files' = [n \in Names |-> files'[n]], \A n \in Names : FileOK(files'[n])
  PROVE  Inv'
<1>1. /\ pc' = "shell" /\ changed' = FALSE /\ filename' = ".config" /\ at' = 1 /\ visit' = 0
      /\ asked' = FALSE /\ stale' = FALSE /\ uncounted' = FALSE
  BY DEF EndSession
<1>2. 1 \in 1 .. Len(Order) + 1 /\ 0 \in 0 .. Len(Order) + 1
  BY OrderFacts
<1>3. {changed', asked', stale', uncounted'} \subseteq BOOLEAN
  BY <1>1
<1>4. Control'
  BY <1>1, <1>2, <1>3 DEF Control, Names
<1> QED
  BY <1>1, <1>4 DEF Inv, Session, Kept

\* A program that starts reads .config.
LEMMA StartInv ==
  ASSUME Inv, pc = "shell", Step, Read(".config", NewTable, FALSE), pc' \in {"mconf", "oldconfig"},
         UNCHANGED <<files, filename, at, asked, visit, uncounted, own>>
  PROVE  Inv'
<1>1. ".config" \in Names /\ FileOK(files[".config"]) /\ filename = ".config"
  BY DEF Inv, Control, Names
<1>2. NewTable \in Table /\ NewTable.valid = {}
  BY NewTableFacts
<1>3. /\ GoodSession(table', stale', changed') /\ changed' \in BOOLEAN /\ stale' \in BOOLEAN
      /\ ~changed' /\ ~stale' => Shows(files[".config"], table')
  BY <1>1, <1>2, ReadSession
<1>4. steps' \in 0 .. MaxSteps
  BY StepCount
<1>5. Control'
  BY <1>3, <1>4 DEF Inv, Control
<1>6. Kept'
  BY <1>1, <1>3 DEF Kept
<1> QED
  BY <1>3, <1>5, <1>6 DEF Inv, Session

\* Saving in mconf.
LEMMA SaveInv ==
  ASSUME Inv, NEW n \in Names, Save(n)
  PROVE  Inv'
<1> DEFINE u == Calculated(table, changed)
           w == AfterWrite(u)
<1>1. /\ pc = "mconf" /\ Step /\ UNCHANGED <<at, asked, visit>> /\ conf_write(n, table, changed, stale)
      /\ table' = w /\ changed' = FALSE /\ stale' = (stale /\ changed) /\ uncounted' = FALSE
      /\ filename' = n /\ pc' = pc
  BY DEF Save, Mconf
<1>2. GoodSession(table, stale, changed) /\ Complete(table) /\ table \in Table
  BY <1>1 DEF Inv, Session, GoodSession, Complete
<1>3. /\ Complete(u) /\ (changed => u = table)
      /\ ~changed => Current(u) /\ Written(u)
  BY <1>2, CalculatedFacts
<1>4. /\ own' \subseteq Names /\ files' = [m \in Names |-> files'[m]]
      /\ \A m \in Names : FileOK(files'[m])
      /\ files'[n] = Lines(u)
  BY <1>1, <1>2, WriteFiles
<1> HIDE DEF u
<1>5. Complete(w) /\ w.curr = u.curr /\ (Current(u) => Current(w))
  BY <1>3, AfterWriteFacts
<1>6. ASSUME ~(stale /\ changed)
      PROVE  Current(u) /\ Written(u)
  BY <1>2, <1>3, <1>6 DEF GoodSession, Inv, Control
<1>7. stale' \in BOOLEAN /\ (~stale' => ~(stale /\ changed))
  BY <1>1
<1> HIDE DEF w
<1>8. GoodSession(table', stale', changed')
  BY <1>1, <1>5, <1>6, <1>7 DEF GoodSession
<1>9. Kept'
  <2>1. ~stale' => Shows(Lines(u), u)
    BY <1>3, <1>6, <1>7, LinesFacts DEF Complete
  <2> QED
    BY <1>1, <1>4, <1>5, <2>1 DEF Kept, Shows
<1>10. steps' \in 0 .. MaxSteps
  BY <1>1, StepCount
<1>11. Control'
  BY <1>1, <1>4, <1>7, <1>10 DEF Inv, Control
<1> QED
  BY <1>8, <1>9, <1>11 DEF Inv, Session

\* Loading in mconf, from a file that exists or not.
LEMMA LoadInv ==
  ASSUME Inv, NEW n \in Names, Load(n)
  PROVE  Inv'
<1>1. /\ pc = "mconf" /\ Step /\ UNCHANGED <<at, asked, visit, files, pc, own>>
  BY DEF Load, Mconf
<1>2. GoodSession(table, stale, changed) /\ table \in Table
  BY <1>1 DEF Inv, Session, GoodSession, Complete
<1>3. steps' \in 0 .. MaxSteps
  BY <1>1, StepCount
<1>4. CASE files[n] # NoFile
  <2>1. Read(n, table, TRUE) /\ filename' = n /\ uncounted' = FALSE
    BY <1>4 DEF Load
  <2>2. FileOK(files[n])
    BY DEF Inv, Control
  <2>3. /\ GoodSession(table', stale', changed')
        /\ changed' \in BOOLEAN /\ stale' \in BOOLEAN /\ changed'
    BY <1>2, <1>4, <2>1, <2>2, ReadSession
  <2>4. Control'
    BY <1>1, <1>3, <2>1, <2>3 DEF Inv, Control
  <2> QED
    BY <2>3, <2>4 DEF Inv, Session, Kept
<1>5. CASE files[n] = NoFile
  <2>1. changed' = FALSE /\ uncounted' = TRUE /\ UNCHANGED <<table, filename, stale>>
    BY <1>5 DEF Load
  <2>2. Control'
    BY <1>1, <1>3, <2>1 DEF Inv, Control
  <2>3. GoodSession(table', stale', changed')
    BY <1>2, <2>1 DEF GoodSession
  <2> QED
    BY <2>1, <2>2, <2>3 DEF Inv, Session, Kept
<1> QED
  BY <1>4, <1>5

\* An answer to conf --oldconfig.
LEMMA ConfInv ==
  ASSUME Inv, conf
  PROVE  Inv'
<1> DEFINE i == Min(ToVisit)
<1>1. /\ pc = "oldconfig" /\ visit # 0 /\ ToVisit # {} /\ Answer(Order[i]) /\ visit' = i + 1
      /\ at' = at /\ asked' = asked /\ steps' = steps
  BY DEF conf
<1>2. visit \in Nat /\ Len(Order) \in Nat /\ visit >= 1
  BY <1>1, OrderFacts DEF Inv, Control
<1>3. ToVisit \subseteq Nat
  BY <1>2 DEF ToVisit
<1>4. i \in ToVisit
  BY <1>1, <1>3, MinNat
<1>5. i \in visit .. Len(Order) /\ Stops(Order[i])
  BY <1>4 DEF ToVisit
<1> HIDE DEF i
<1>6. i \in 1 .. Len(Order) /\ i + 1 \in 0 .. Len(Order) + 1
  BY <1>2, <1>5
<1>7. Order[i] \in Symbols /\ ~IsMember(Order[i])
  BY <1>5, <1>6, OrderFacts DEF Stops
<1>8. Complete(table)
  BY <1>1 DEF Inv, Session, GoodSession
<1>9. IsEdit
  BY <1>1, <1>7, <1>8, AnswerEdit
<1>10. steps' \in 0 .. MaxSteps
  BY <1>1, StepCount
<1>11. at' \in 1 .. Len(Order) + 1 /\ asked' \in BOOLEAN
  BY <1>1 DEF Inv, Control
<1> QED
  BY <1>1, <1>6, <1>9, <1>10, <1>11, EditInv

\* Steps of conf --oldconfig between two answers.
LEMMA OldconfigInv ==
  ASSUME Inv, Oldconfig, at' \in 1 .. Len(Order) + 1, asked' \in BOOLEAN,
         visit' \in 0 .. Len(Order) + 1
  PROVE  Inv'
<1>1. UNCHANGED <<files, pc, table, changed, filename, stale, uncounted, steps, own>>
  BY DEF Oldconfig
<1> QED
  BY <1>1 DEF Inv, Control, Session, Kept

\* check_conf finds a new entry.
LEMMA CheckInv ==
  ASSUME Inv, check_conf
  PROVE  Inv'
<1> DEFINE i == Min(Ahead)
<1>1. Oldconfig /\ Ahead # {} /\ at' = i + 1 /\ asked' = TRUE /\ visit' = 1
  BY DEF check_conf
<1>2. at \in Nat /\ Len(Order) \in Nat /\ at >= 1
  BY OrderFacts DEF Inv, Control
<1>3. Ahead \subseteq Nat
  BY <1>2 DEF Ahead
<1>4. i \in Ahead
  BY <1>1, <1>3, MinNat
<1>5. i \in at .. Len(Order)
  BY <1>4 DEF Ahead
<1> HIDE DEF i
<1>6. i + 1 \in 1 .. Len(Order) + 1 /\ 1 \in 0 .. Len(Order) + 1
  BY <1>2, <1>5
<1> QED
  BY <1>1, <1>6, OldconfigInv

\* Leaving mconf or oldconfig, with or without saving.
LEMMA QuitInv ==
  ASSUME Inv, pc # "shell", EndSession, steps' \in 0 .. MaxSteps,
         \/ \E n \in Names : conf_write(n, table, changed, stale)
         \/ UNCHANGED <<files, own>>
  PROVE  Inv'
<1>1. table \in Table
  BY DEF Inv, Session, GoodSession, Complete
<1>2. /\ own' \subseteq Names /\ files' = [m \in Names |-> files'[m]]
      /\ \A m \in Names : FileOK(files'[m])
  <2>1. CASE \E n \in Names : conf_write(n, table, changed, stale)
    BY <1>1, <2>1, WriteFiles
  <2>2. CASE UNCHANGED <<files, own>>
    BY <2>2 DEF Inv, Control
  <2> QED
    BY <2>1, <2>2
<1> QED
  BY <1>2, EndInv

\* A mode of conf that asks nothing changes the files only.
LEMMA CommandInv ==
  ASSUME Inv, Command, own' \subseteq Names, files' = [m \in Names |-> files'[m]],
         \A m \in Names : FileOK(files'[m])
  PROVE  Inv'
<1>1. pc = "shell" /\ UNCHANGED <<session, pc>> /\ steps' \in 0 .. MaxSteps
  BY StepCount DEF Command
<1>2. Control'
  BY <1>1 DEF Inv, Control, session
<1> QED
  BY <1>1, <1>2 DEF Inv, Session, Kept

\* What a mode of conf reads is a table.
LEMMA ReadTable ==
  ASSUME Inv, NEW n \in Names
  PROVE  conf_read(files[n], NewTable).t \in Table
<1>1. FileOK(files[n])
  BY DEF Inv, Control
<1> QED
  BY <1>1, NewTableFacts, ReadFacts DEF GoodRead

\* The modes of conf that ask nothing.
LEMMA CommandsInv ==
  ASSUME Inv, olddefconfig \/ defconfig \/ savedefconfig \/ \E mode \in Tri : allconfig(mode)
  PROVE  Inv'
<1>1. ".config" \in Names /\ "alt" \in Names
  BY DEF Names
<1> DEFINE r == conf_read(files[".config"], NewTable)
           d == conf_read(files["alt"], NewTable)
<1>2. r.t \in Table /\ d.t \in Table /\ NewTable \in Table
  BY <1>1, ReadTable, NewTableFacts
<1> HIDE DEF r, d
<1>3. CASE olddefconfig
  <2>1. Command /\ conf_write(".config", Shown(r.t), r.changed, r.reset)
    BY <1>3 DEF olddefconfig, r
  <2>2. CalcAll(r.t) \in Table
    BY <1>2, CalcTable, OrderFacts
  <2>3. Shown(r.t) \in Table
    BY <2>2, <1>2, MarkedFacts DEF Marked
  <2> QED
    BY <1>1, <2>1, <2>3, WriteFiles, CommandInv
<1>4. CASE defconfig
  <2>1. Command /\ conf_write(".config", conf_set_all_new_symbols(def_default, d.t), TRUE, FALSE)
    BY <1>4 DEF defconfig, d
  <2>2. conf_set_all_new_symbols(def_default, d.t) \in Table
    BY <1>2, NewSymbolsTable
  <2> QED
    BY <1>1, <2>1, <2>2, WriteFiles, CommandInv
<1>5. CASE savedefconfig
  <2> DEFINE f == conf_write_defconfig(r.t)
  <2>1. Command /\ files' = [files EXCEPT !["alt"] = f] /\ own' = own \ {"alt"}
    BY <1>5 DEF savedefconfig, r
  <2>2. FileOK(f)
    BY <1>2, DefconfigFile
  <2> HIDE DEF f
  <2>3. /\ own \subseteq Names /\ files = [m \in Names |-> files[m]]
        /\ \A m \in Names : FileOK(files[m])
    BY DEF Inv, Control
  <2>4. files' = [m \in Names |-> IF m = "alt" THEN f ELSE files[m]]
    BY <2>1, <2>3
  <2> QED
    BY <2>1, <2>2, <2>3, <2>4, CommandInv
<1>6. CASE \E mode \in Tri : allconfig(mode)
  <2>1. PICK mode \in Tri : allconfig(mode)
    BY <1>6
  <2>2. Command /\ conf_write(".config", conf_set_all_new_symbols(mode, NewTable), TRUE, FALSE)
    BY <2>1 DEF allconfig
  <2>3. conf_set_all_new_symbols(mode, NewTable) \in Table
    BY <1>2, <2>1, NewSymbolsTable
  <2> QED
    BY <1>1, <2>2, <2>3, WriteFiles, CommandInv
<1> QED
  BY <1>3, <1>4, <1>5, <1>6

\* Every step of a user or a program keeps the invariant.
LEMMA NextInv == Inv /\ [Next]_vars => Inv'
<1> SUFFICES ASSUME Inv, [Next]_vars PROVE Inv'
  OBVIOUS
<1>1. ".config" \in Names /\ filename \in Names
  BY DEF Names, Inv, Control
<1>2. CASE StartMconf
  BY <1>2, StartInv DEF StartMconf
<1>3. CASE Quit
  <2>1. /\ pc # "shell" /\ EndSession
        /\ \/ \E n \in Names : conf_write(n, table, changed, stale)
           \/ UNCHANGED <<files, own>>
    BY <1>1, <1>3 DEF Quit
  <2>2. steps' \in 0 .. MaxSteps
    BY <1>3, StepCount DEF Quit
  <2> QED
    BY <2>1, <2>2, QuitInv
<1>4. ASSUME pc = "mconf", UNCHANGED <<at, asked, visit>>, Step, IsEdit
      PROVE  Inv'
  <2>1. /\ at' \in 1 .. Len(Order) + 1 /\ asked' \in BOOLEAN /\ steps' \in 0 .. MaxSteps
        /\ visit' \in 0 .. Len(Order) + 1
    BY <1>4, StepCount DEF Inv, Control
  <2> QED
    BY <1>4, <2>1, EditInv
<1>5. pc = "mconf" => Complete(table)
  BY DEF Inv, Session, GoodSession
<1>6. CASE \E s \in Symbols, key \in {"y", "m", "n", " "} : Key(s, key)
  <2>1. PICK s \in Symbols, key \in {"y", "m", "n", " "} : Key(s, key)
    BY <1>6
  <2>2. pc = "mconf" /\ UNCHANGED <<at, asked, visit>> /\ Step
    BY <2>1 DEF Key, Mconf
  <2>3. IsEdit
    BY <1>5, <2>1, <2>2, KeyEdit
  <2> QED
    BY <1>4, <2>2, <2>3
<1>7. CASE \E s \in Symbols : Choose(s)
  <2>1. PICK s \in Symbols : Choose(s)
    BY <1>7
  <2>2. /\ pc = "mconf" /\ UNCHANGED <<at, asked, visit>> /\ Step /\ IsMember(s)
        /\ menu_is_visible(s, table) /\ Edit(sym_set_tristate_value(s, 2, table), FALSE)
    BY <2>1 DEF Choose, Mconf
  <2>3. IsEdit
    BY <1>5, <2>2, MemberEdit
  <2> QED
    BY <1>4, <2>2, <2>3
<1>8. CASE \E s \in Symbols, v \in Inputs : Enter(s, v)
  <2>1. PICK s \in Symbols, v \in Inputs : Enter(s, v)
    BY <1>8
  <2>2. /\ pc = "mconf" /\ UNCHANGED <<at, asked, visit>> /\ Step /\ TypeOf[s] = "INT"
        /\ Edit(sym_set_string_value(s, v, table), Ignored(s, v))
    BY <2>1 DEF Enter, Mconf
  <2>3. v \in Numbers
    BY NumberAssumption
  <2>4. IsEdit
    BY <1>5, <2>2, <2>3, NumberEdit
  <2> QED
    BY <1>4, <2>2, <2>4
<1>9. CASE \E n \in Names : Save(n) \/ Load(n)
  BY <1>9, SaveInv, LoadInv
<1>10. CASE StartOldconfig
  BY <1>10, StartInv DEF StartOldconfig
<1>11. CASE check_conf
  BY <1>11, CheckInv
<1>12. CASE PassAgain \/ ReturnFromConf
  <2>1. /\ Oldconfig /\ visit' = 0
        /\ \/ at' = 1 /\ asked' = FALSE
           \/ at' = at /\ asked' = asked
    BY <1>12 DEF PassAgain, ReturnFromConf
  <2>2. at \in 1 .. Len(Order) + 1 /\ asked \in BOOLEAN /\ Len(Order) \in Nat
    BY OrderFacts DEF Inv, Control
  <2>3. asked' \in BOOLEAN
    BY <2>1, <2>2, Zenon
  <2>4. at' = at \/ at' = 1
    BY <2>1, Zenon
  <2>5. at' \in 1 .. Len(Order) + 1 /\ visit' \in 0 .. Len(Order) + 1
    BY <2>1, <2>2, <2>4
  <2> QED
    BY <2>1, <2>3, <2>5, OldconfigInv
<1>13. CASE FinishOldconfig
  <2>1. /\ pc # "shell" /\ EndSession /\ conf_write(".config", table, changed, stale)
        /\ steps' = steps
    BY <1>13 DEF FinishOldconfig
  <2>2. steps' \in 0 .. MaxSteps
    BY <2>1, StepCount
  <2> QED
    BY <1>1, <2>1, <2>2, QuitInv
<1>14. CASE olddefconfig \/ defconfig \/ savedefconfig \/ \E mode \in Tri : allconfig(mode)
  BY <1>14, CommandsInv
<1>15. CASE UNCHANGED vars
  BY <1>15 DEF vars, session, Inv, Control, Session, Kept
<1>16. CASE conf
  BY <1>16, ConfInv
<1> QED
  BY <1>2, <1>3, <1>6, <1>7, <1>8, <1>9, <1>10, <1>11, <1>12, <1>13, <1>14, <1>15, <1>16
  DEF Next, Menuconfig

\* The invariant of the programs, for all menus: while mconf or oldconfig waits for
\* the user the table is complete, unless a number was ignored it is what a
\* calculation from the start would give, and when mconf has counted no change
\* (sym_change_count, confdata.c) the file it would save under shows the table.
THEOREM KconfigInvariant == Spec => []Inv
BY InitInv, NextInv, PTL DEF Spec

\* A complete table is one whose values fit their types and ranges.
LEMMA InvTypes == Inv => TypeOK
<1> SUFFICES ASSUME Inv PROVE TypeOK
  OBVIOUS
<1>1. ASSUME pc # "shell", NEW s \in Symbols, TypeOf[s] # "UNKNOWN"
      PROVE  /\ s \in table.valid
             /\ CASE TypeOf[s] = "BOOLEAN" -> table.curr[s] \in {0, 2}
                  [] TypeOf[s] = "TRISTATE" -> table.curr[s] \in Tri
                  [] TypeOf[s] = "INT" -> sym_string_within_range(s, table.curr[s], table)
  <2>1. Complete(table)
    BY <1>1 DEF Inv, Session, GoodSession
  <2>2. table \in Table /\ s \in table.valid /\ (TypeOf[s] = "INT" => InRange(s, table.curr[s]))
    BY <1>1, <2>1 DEF Complete, Known
  <2>3. Typed(table.curr)
    BY <2>2, TableFacts DEF Proper
  <2>4. TypeOf[s] \in {"BOOLEAN", "TRISTATE", "INT"}
    BY <1>1, ExprAssumption
  <2>5. CASE TypeOf[s] = "INT"
    BY <2>2, <2>5, RangeFacts
  <2>6. CASE TypeOf[s] # "INT"
    BY <2>2, <2>3, <2>4, <2>6 DEF Typed
  <2> QED
    BY <2>5, <2>6
<1> QED
  BY <1>1 DEF Inv, Control, TypeOK

\* The state is well formed, for all menus: while a program waits for the user every
\* symbol is valid and its value one that sym_calc_value (symbol.c) may give its
\* type, a number within its range.
THEOREM KconfigTypeCorrect == Spec => []TypeOK
BY KconfigInvariant, InvTypes, PTL

\* A step that writes a file of current values writes what a calculation from
\* the start gives.
LEMMA SavedStep ==
  ASSUME Inv, [Next]_vars
  PROVE  \A n \in Names : n \in own' /\ files'[n] # files[n] /\ pc # "shell" =>
           Values(files'[n]) = Fresh(table)
<1> SUFFICES ASSUME NEW n \in Names, n \in own', files'[n] # files[n], pc # "shell"
             PROVE  Values(files'[n]) = Fresh(table)
  OBVIOUS
<1>1. \E m \in Names : conf_write(m, table, changed, stale)
  <2>1. CASE \E m \in Names : Save(m)
    BY <2>1 DEF Save
  <2>2. CASE Quit \/ FinishOldconfig
    BY <2>2 DEF Quit, FinishOldconfig, Inv, Control, Names
  <2>3. files' # files
    OBVIOUS
  <2> QED
    BY <2>1, <2>2, <2>3
    DEF Next, Menuconfig, StartMconf, Key, Choose, Enter, Edit, Load, StartOldconfig, check_conf,
        conf, Answer, Oldconfig, ReturnFromConf, PassAgain, olddefconfig, defconfig, savedefconfig, allconfig, Command, vars
<1>2. PICK m \in Names : conf_write(m, table, changed, stale)
  BY <1>1
<1>3. GoodSession(table, stale, changed) /\ Complete(table) /\ table \in Table
  BY DEF Inv, Session, GoodSession, Complete
<1> DEFINE u == Calculated(table, changed)
<1>4. m = n /\ files'[n] = Lines(u)
  BY <1>2, <1>3, WriteFiles
<1>5. CASE ~changed
  <2>1. u = CalcAll(sym_clear_all_valid(table))
    BY <1>5 DEF Calculated
  <2> QED
    BY <1>4, <2>1 DEF Fresh
<1>6. CASE changed
  <2>1. ~stale
    BY <1>2, <1>4, <1>6 DEF conf_write
  <2>2. u = table
    BY <1>3, <1>6, CalculatedFacts
  <2>3. Current(table) /\ Written(table)
    BY <1>3, <1>6, <2>1 DEF GoodSession
  <2>4. Shows(Lines(table), table)
    BY <1>3, <2>3, LinesFacts
  <2> HIDE DEF u
  <2> QED
    BY <1>3, <1>4, <2>2, <2>3, <2>4, FreshFacts DEF Shows
<1> QED
  BY <1>5, <1>6

\* What conf_write (confdata.c) writes is what a calculation from the start gives,
\* for all menus and whatever was edited, loaded and saved before, although it
\* calculates from the start only when the change count is zero.
THEOREM KconfigSavedCurrent == Spec => SavedCurrent
<1>1. Inv /\ [Next]_vars =>
        [\A n \in Names : n \in own' /\ files'[n] # files[n] /\ pc # "shell" =>
           Values(files'[n]) = Fresh(table)]_vars
  BY SavedStep
<1> QED
  BY <1>1, KconfigInvariant, PTL DEF Spec, SavedCurrent

\* mconf leaves without a question (handle_exit, mconf.c), for all menus, only when
\* the file it would save under holds the configuration on the screen.
THEOREM KconfigQuitKeeps == Spec => QuitKeeps
<1>1. Inv /\ [Next]_vars =>
        [pc = "mconf" /\ pc' = "shell" /\ ~changed /\ ~uncounted /\ ~stale =>
           Values(files[filename]) = Fresh(table)]_vars
  <2> SUFFICES ASSUME Inv, pc = "mconf", ~changed, ~uncounted, ~stale
               PROVE  Values(files[filename]) = Fresh(table)
    OBVIOUS
  <2>1. Shows(files[filename], table)
    BY DEF Inv, Kept
  <2>2. GoodSession(table, stale, changed)
    BY DEF Inv, Session
  <2>3. Current(table) /\ table \in Table
    BY <2>2 DEF GoodSession, Complete
  <2> QED
    BY <2>1, <2>3, FreshFacts DEF Shows
<1> QED
  BY <1>1, KconfigInvariant, PTL DEF Spec, QuitKeeps

-----------------------------------------------------------------------------
(* Entries take effect.                                                    *)

\* A current table shows what its own values give.
LEMMA CurrentFacts ==
  ASSUME NEW t \in Table, Current(t), NEW X, X = CalcAll(Scratch(t))
  PROVE  /\ X.curr = t.curr
         /\ \A s \in Known : Same(s, X, t) /\ SeenAt(s, t, t.curr)
<1> DEFINE x == Scratch(t)
<1>1. x \in Table /\ x.valid = {} /\ X = CalcAll(x)
  BY ScratchFacts DEF IsFlagged
<1> HIDE DEF x
<1>2. X \in Table /\ \A s \in Known : Sound(s, X)
  BY <1>1, CurrentScratch DEF Complete
<1>3. \A s \in Known : Same(s, X, t)
  BY DEF Current, Agree
<1>4. \A s \in Symbols : X.curr[s] = t.curr[s]
  <2> SUFFICES ASSUME NEW s \in Symbols PROVE X.curr[s] = t.curr[s]
    OBVIOUS
  <2>1. CASE s \in Known
    BY <1>3, <2>1 DEF Same
  <2>2. CASE s \notin Known
    <3>1. TypeOf[s] = "UNKNOWN" /\ Typed(X.curr) /\ Typed(t.curr)
      BY <1>2, <2>2, TableFacts DEF Known, Proper
    <3> QED
      BY <3>1 DEF Typed
  <2> QED
    BY <2>1, <2>2
<1>5. X.curr = t.curr
  <2>1. X.curr \in [Symbols -> Int] /\ t.curr \in [Symbols -> Int]
    BY <1>2, TableFacts
  <2> QED
    BY <1>4, <2>1
<1>6. \A s \in Known : SeenAt(s, t, t.curr)
  BY <1>2, <1>3, <1>5 DEF Sound, Same, SameAt, SeenAt
<1> QED
  BY <1>3, <1>5, <1>6

\* What symbols have when the first k agree.
LEMMA EarlierSame ==
  ASSUME NEW k \in 0 .. Len(Order), k < Len(Order), NEW q, q = Order[k + 1],
         NEW t \in Table, NEW u \in Table, \A s \in Done(k) : Same(s, t, u)
  PROVE  \A p \in Earlier(q) : t.curr[p] = u.curr[p]
<1> SUFFICES ASSUME NEW p \in Earlier(q) PROVE t.curr[p] = u.curr[p]
  OBVIOUS
<1>1. p \in Symbols /\ (p \in Known => p \in Done(k))
  BY DoneFacts
<1>2. CASE p \in Known
  BY <1>1, <1>2 DEF Same
<1>3. CASE p \notin Known
  <2>1. TypeOf[p] = "UNKNOWN" /\ Typed(t.curr) /\ Typed(u.curr)
    BY <1>1, <1>3, TableFacts DEF Known, Proper
  <2> QED
    BY <1>1, <2>1 DEF Typed
<1> QED
  BY <1>2, <1>3

\* A calculation from the start as it gets to the symbol q.
Reached(y, k, q, u) ==
  /\ Stage(k, y, u) /\ Same(q, CalcAll(y), sym_calc_value(q, u))
  /\ \A p \in Done(k) : Same(p, CalcAll(y), u)

\* Every known symbol is reached.
LEMMA Reaches ==
  ASSUME NEW y \in Table, y.valid = {}, NEW k \in 0 .. Len(Order), k < Len(Order),
         NEW q, q = Order[k + 1], q \in Known
  PROVE  \E u : Reached(y, k, q, u)
<1> DEFINE n == Len(Order)
<1>1. n \in Nat /\ n \in 0 .. n /\ k + 1 \in 1 .. n /\ k + 1 \in 0 .. n /\ (k + 1) - 1 = k
  BY OrderFacts
<1>2. PICK h : Run(y, n, h) /\ Calc(y, n) = h[n]
  BY <1>1, CalcRun
<1>3. CalcAll(y) = h[n]
  BY <1>2 DEF CalcAll
<1>4. Stage(k, y, h[k])
  BY <1>2, RunStage
<1>5. h[k + 1] = sym_calc_value(q, h[k])
  BY <1>1, <1>2 DEF Run
<1>6. q \in Done(k + 1)
  BY DoneFacts
<1>7. Same(q, h[n], h[k + 1]) /\ \A p \in Done(k) : Same(p, h[n], h[k])
  BY <1>1, <1>2, <1>6, RunKeeps
<1> QED
  BY <1>3, <1>4, <1>5, <1>7 DEF Reached

\* An entry does no harm to the symbols before its own.
LEMMA HarmlessBefore ==
  ASSUME NEW t \in Table, NEW s \in Known, NEW val, NEW u, IsAssigned(s, val, t, u),
         NEW q \in Known, q # s, ~(IsMember(s) /\ ChoiceOf[s] = q),
         NEW X, X = CalcAll(Scratch(t)), NEW y, y = Scratch(u)
  PROVE  HarmlessAt(q, X, y)
<1> DEFINE x == Scratch(t)
<1>1. x \in Table /\ x.valid = {} /\ x.has = t.has /\ x.def = t.def /\ x.defsym = t.defsym
  BY ScratchFacts DEF IsFlagged
<1>2. u \in Table
  BY DEF IsAssigned
<1>3. y.has = u.has /\ y.def = u.def /\ y.defsym = u.defsym
  BY <1>2, ScratchFacts DEF IsFlagged
<1>4. Stage(Len(Order), x, X)
  BY <1>1, FromScratch
<1> HIDE DEF x
<1>5. /\ X.def = t.def /\ X.defsym = t.defsym
      /\ X.has \subseteq t.has /\ t.has \subseteq X.has \cup ChoiceSyms
  BY <1>1, <1>4 DEF Stage
<1>6. q \notin ChoiceSyms /\ ~IsMember(q) => SameUser(q, X, y)
  BY <1>3, <1>5 DEF IsAssigned, SameUser
<1>7. q \in ChoiceSyms => y.defsym[q] = X.defsym[q]
  BY <1>3, <1>5 DEF IsAssigned
<1> QED
  BY <1>6, <1>7 DEF HarmlessAt

\* The symbols before an entry, or before its choice, keep their values.
IsBefore(k, q, t, Y) ==
  /\ k \in 0 .. Len(Order) /\ k < Len(Order) /\ q = Order[k + 1]
  /\ \A p \in Done(k) : Same(p, t, Y)

\* So what an entry's own calculation looks at is what it was.
LEMMA EarlierKept ==
  ASSUME NEW t \in Table, Current(t), NEW s \in Known, NEW val, NEW u, IsAssigned(s, val, t, u),
         NEW q, q = (IF IsMember(s) THEN ChoiceOf[s] ELSE s)
  PROVE  \E k : IsBefore(k, q, t, CalcAll(Scratch(u)))
<1> DEFINE x == Scratch(t)
           X == CalcAll(x)
           y == Scratch(u)
<1>1. x \in Table /\ x.valid = {}
  BY ScratchFacts DEF IsFlagged
<1>2. u \in Table
  BY DEF IsAssigned
<1>3. y \in Table /\ y.valid = {}
  BY <1>2, ScratchFacts DEF IsFlagged
<1>4. s \in Symbols /\ q \in Symbols
  BY MemberFacts DEF Known
<1>5. PICK j \in DOMAIN Order : Order[j] = q
  BY <1>4, OrderFacts
<1> DEFINE k == j - 1
<1>6. k \in 0 .. Len(Order) /\ k < Len(Order) /\ q = Order[k + 1]
  BY <1>5, OrderFacts
<1>7. \A p \in Done(k) : p \in Known /\ p # q /\ p \notin Members(q)
  <2> HIDE DEF k
  <2> QED
    BY <1>6, DoneFacts
<1>8. \A p \in Done(k) : p # s /\ ~(IsMember(s) /\ ChoiceOf[s] = p)
  BY <1>4, <1>7, MemberFacts
<1>9. \A p \in Known : Same(p, X, t)
  BY CurrentFacts
<1> HIDE DEF k
<1>10. \A p \in Done(k) : HarmlessAt(p, X, y)
  BY <1>7, <1>8, HarmlessBefore
<1> HIDE DEF x, X, y
<1>11. \A p \in Done(k) : Same(p, X, CalcAll(y))
  BY <1>1, <1>3, <1>6, <1>10, RecalculationUpTo DEF X
<1>12. \A p \in Done(k) : Same(p, t, CalcAll(y))
  BY <1>7, <1>9, <1>11 DEF Same, SameAt
<1> QED
  BY <1>6, <1>12 DEF IsBefore, y

\* What sym_tristate_within_range asks.
LEMMA WithinFacts ==
  ASSUME NEW t \in Table, NEW s \in Symbols, NEW v \in Tri, sym_tristate_within_range(s, v, t)
  PROVE  /\ t.vis[s] # 0 /\ t.rev[s] < t.vis[s] /\ IsTri(s) /\ (Bool(s, t.curr) => v # 1)
         /\ IsMember(s) /\ t.vis[s] = 2 => v = 2
         /\ ~(IsMember(s) /\ t.vis[s] = 2) =>
              /\ v <= t.vis[s] /\ t.rev[s] <= v
              /\ \A i \in DOMAIN ValDep[s] : t.sel[s][i] <= v
<1> DEFINE L == {t.rev[s]} \cup ToSet(t.sel[s])
<1>1. t.rev[s] \in Tri /\ t.vis[s] \in Tri /\ t.sel[s] \in [DOMAIN ValDep[s] -> Tri]
  BY TableFacts
<1>2. ToSet(t.sel[s]) = {t.sel[s][i] : i \in DOMAIN ValDep[s]}
  BY <1>1 DEF ToSet
<1>3. L \subseteq Tri /\ L # {}
  BY <1>1, <1>2
<1>4. Max(L) \in Tri /\ \A y \in L : y <= Max(L)
  <2> HIDE DEF L
  <2> QED
    BY <1>3, MaxTri
<1>5. t.rev[s] <= Max(L) /\ \A i \in DOMAIN ValDep[s] : t.sel[s][i] <= Max(L)
  BY <1>2, <1>4
<1>6. /\ t.vis[s] # 0 /\ IsTri(s) /\ t.vis[s] > Max(L)
      /\ ~(sym_get_type(s, t) = "BOOLEAN" /\ v = 1)
      /\ IF IsMember(s) /\ t.vis[s] = 2 THEN v = 2 ELSE Max(L) <= v /\ v <= t.vis[s]
  BY DEF sym_tristate_within_range
<1>7. Bool(s, t.curr) => v # 1
  BY <1>6, GetType
<1> HIDE DEF L
<1>8. t.rev[s] < t.vis[s]
  BY <1>1, <1>4, <1>5, <1>6 DEF Tri
<1>9. ~(IsMember(s) /\ t.vis[s] = 2) =>
        t.rev[s] <= v /\ \A i \in DOMAIN ValDep[s] : t.sel[s][i] <= v
  <2> SUFFICES ASSUME ~(IsMember(s) /\ t.vis[s] = 2)
               PROVE  t.rev[s] <= v /\ \A i \in DOMAIN ValDep[s] : t.sel[s][i] <= v
    OBVIOUS
  <2>1. Max(L) <= v
    BY <1>6
  <2> QED
    BY <1>1, <1>4, <1>5, <2>1 DEF Tri
<1> QED
  BY <1>6, <1>7, <1>8, <1>9

\* A choice is forced wherever it is shown.
LEMMA WithinChoice ==
  ASSUME NEW t \in Table, Current(t), NEW s \in Symbols, NEW v \in Tri,
         sym_tristate_within_range(s, v, t)
  PROVE  s \notin ChoiceSyms
<1> SUFFICES ASSUME s \in ChoiceSyms PROVE FALSE
  OBVIOUS
<1>1. TypeOf[s] = "BOOLEAN" /\ s \in Known /\ t.curr \in Assignments
  BY MemberFacts, TableFacts DEF Known
<1>2. t.vis[s] # 0 /\ t.rev[s] < t.vis[s] /\ t.vis[s] \in Tri
  BY WithinFacts, TableFacts
<1>3. t.vis[s] = Visible(s, t.curr) /\ t.rev[s] = Val(s, RevDep[s], t.curr)
  BY <1>1, CurrentFacts DEF SeenAt
<1>4. calc_value(RevDep[s], t.curr) # 0
  BY <1>1, <1>2, <1>3, VisibleFacts, ChoiceAssumption
<1>5. calc_value(RevDep[s], t.curr) \in Tri
  BY <1>1, ExprsFacts, ValFacts
<1>6. t.rev[s] = 2
  BY <1>1, <1>3, <1>4, <1>5 DEF Val, Promote, Bool, Tri
<1> QED
  BY <1>2, <1>6 DEF Tri

\* What a symbol finds when it is calculated again from u: before it, nothing
\* has changed.
Found(q, t, u, w) ==
  /\ w \in Table /\ q \notin w.valid /\ w.def = u.def /\ w.defsym = u.defsym
  /\ u.has \subseteq w.has \cup ChoiceSyms
  /\ \A p \in Earlier(q) : t.curr[p] = w.curr[p]
  /\ Alike(q, t, Prepared(q, w)) /\ IsPrepared(q, w, Prepared(q, w))
  /\ Same(q, CalcAll(Scratch(u)), sym_calc_value(q, w))

\* After an entry, its symbol is calculated with what is found now.
LEMMA FoundAgain ==
  ASSUME NEW t \in Table, Current(t), NEW s \in Known, NEW val, NEW u, IsAssigned(s, val, t, u),
         NEW q, q = (IF IsMember(s) THEN ChoiceOf[s] ELSE s), ~IsMember(q)
  PROVE  \E w : Found(q, t, u, w)
<1> DEFINE y == Scratch(u)
           Y == CalcAll(y)
<1>1. u \in Table /\ q \in Known
  BY MemberFacts DEF IsAssigned, Known
<1>2. y \in Table /\ y.valid = {} /\ y.has = u.has /\ y.def = u.def /\ y.defsym = u.defsym
  BY <1>1, ScratchFacts DEF IsFlagged
<1>3. PICK k : IsBefore(k, q, t, Y)
  BY EarlierKept
<1> HIDE DEF y
<1>4. PICK w : Reached(y, k, q, w)
  BY <1>1, <1>2, <1>3, Reaches DEF IsBefore
<1>5. /\ w \in Table /\ q \notin w.valid /\ w.def = u.def /\ w.defsym = u.defsym
      /\ u.has \subseteq w.has \cup ChoiceSyms
  BY <1>1, <1>2, <1>3, <1>4, DoneFacts DEF Reached, Stage, IsBefore
<1>6. \A p \in Done(k) : Same(p, t, w)
  BY <1>3, <1>4 DEF IsBefore, Reached, Same, SameAt
<1>7. \A p \in Earlier(q) : t.curr[p] = w.curr[p]
  BY <1>3, <1>5, <1>6, EarlierSame DEF IsBefore
<1> DEFINE z == Prepared(q, w)
<1>8. IsPrepared(q, w, z)
  BY <1>1, <1>5, PreparedFacts
<1> HIDE DEF z
<1>9. q \in Symbols /\ \A r \in Symbols : r \in Before(q) => t.curr[r] = w.curr[r]
  BY <1>1, <1>7, BeforeFacts DEF Known
<1>10. t.curr \in Assignments /\ w.curr \in Assignments /\ SeenAt(q, t, t.curr)
  BY <1>1, <1>5, CurrentFacts, TableFacts
<1>11. SeenAt(q, t, w.curr)
  BY <1>1, <1>9, <1>10, SeenFacts
<1>12. Alike(q, t, z)
  BY <1>8, <1>9, <1>11 DEF Alike, SeenAt, SameAt, IsPrepared
<1> QED
  BY <1>4, <1>5, <1>7, <1>8, <1>12 DEF Found, Reached, y, z

\* Nothing that selects a symbol passes the value its user gave it.
LEMMA WithinLow ==
  ASSUME SelectsBounded, NEW t \in Table, NEW s \in Symbols, NEW v \in Tri, ~IsMember(s),
         sym_tristate_within_range(s, v, t), SeenAt(s, t, t.curr)
  PROVE  \A y \in Low(s, t) : y <= v
<1>1. t.curr \in Assignments /\ IsTri(s) /\ t.rev[s] <= v
      /\ \A i \in DOMAIN ValDep[s] : t.sel[s][i] <= v
  BY TableFacts, WithinFacts
<1>2. ASSUME NEW i \in Chosen(s, t)
      PROVE  calc_value(ValDep[s][i].val, t.curr) <= v
  <2>1. i \in DOMAIN ValDep[s] /\ t.sel[s][i] # 0
    BY <1>2 DEF Chosen
  <2>2. ValDep[s][i].cond \in Exprs(s) /\ ValDep[s][i].val \in Exprs(s)
    BY <1>1, <2>1, ExprsFacts
  <2> DEFINE c == calc_value(ValDep[s][i].cond, t.curr)
             x == calc_value(ValDep[s][i].val, t.curr)
  <2>3. c \in Tri /\ x \in Tri /\ (Val(s, ValDep[s][i].cond, t.curr) = 0 <=> c = 0)
    BY <1>1, <2>2, ValFacts
  <2>4. t.sel[s][i] = Val(s, ValDep[s][i].cond, t.curr)
    BY <2>1 DEF SeenAt, SelOf
  <2>5. c <= t.sel[s][i]
    BY <2>3, <2>4 DEF Val, Promote, Tri
  <2>6. x <= c
    <3>1. ValDep[s][i] \in ToSet(ValDep[s])
      BY <2>1 DEF ToSet
    <3> QED
      BY <1>1, <2>1, <2>3, <2>4, <3>1 DEF SelectsBounded
  <2>7. t.sel[s][i] <= v /\ t.sel[s][i] \in Tri
    BY <1>1, <2>1, TableFacts
  <2> HIDE DEF c
  <2> QED
    BY <2>3, <2>5, <2>6, <2>7 DEF Tri
<1> QED
  BY <1>1, <1>2 DEF Low

\* A boolean or a tristate gets the value that was accepted.
LEMMA EffectTri ==
  ASSUME SelectsBounded, NEW t \in Table, Current(t), NEW s \in Symbols, NEW v \in Tri, ~IsMember(s),
         sym_tristate_within_range(s, v, t)
  PROVE  CalcAll(Scratch(Assigned(s, v, t))).curr[s] = v
<1> DEFINE u == Assigned(s, v, t)
           Y == CalcAll(Scratch(u))
<1>1. IsTri(s) /\ s \notin ChoiceSyms /\ t.vis[s] # 0 /\ v <= t.vis[s] /\ (Bool(s, t.curr) => v # 1)
  BY WithinFacts, WithinChoice
<1>2. s \in Known
  BY <1>1 DEF Known, IsTri
<1>3. IsAssigned(s, v, t, u)
  BY <1>1, <1>2, AssignedFacts
<1> HIDE DEF u
<1>4. PICK w : Found(s, t, u, w)
  BY <1>2, <1>3, FoundAgain
<1> DEFINE z == Prepared(s, w)
           r == sym_calc_value(s, w)
<1>5. /\ w \in Table /\ s \notin w.valid /\ Alike(s, t, z) /\ IsPrepared(s, w, z)
      /\ Same(s, Y, r) /\ w.def = u.def /\ u.has \subseteq w.has \cup ChoiceSyms
  BY <1>4 DEF Found
<1>6. s \in u.has /\ u.def[s] = v
  BY <1>3 DEF IsAssigned
<1>7. r.curr[s] = TriValue(s, z)
  BY <1>1, <1>2, <1>5, StepTri
<1> HIDE DEF Y, z, r
<1>8. z \in Table /\ s \in z.has /\ z.def[s] = v /\ z.vis[s] = t.vis[s]
  BY <1>1, <1>5, <1>6 DEF IsPrepared, Alike, SameAt
<1>9. (Bool(s, t.curr) <=> Bool(s, z.curr)) /\ Low(s, z) = Low(s, t)
  BY <1>1, <1>5, <1>8, AlikeFacts
<1>10. Base(s, z) = v
  BY <1>1, <1>8, TableFacts DEF Base, Lower, Tri
<1>11. \A y \in Low(s, t) : y <= v
  BY <1>2, CurrentFacts, WithinLow
<1> DEFINE S == {Base(s, z)} \cup Low(s, z)
<1>12. TriValue(s, z) = Promote(Max(S), Bool(s, z.curr)) /\ Max(S) \in S /\ \A y \in S : y <= Max(S)
  BY <1>1, <1>8, TriFacts
<1>13. S \subseteq Tri
  BY <1>1, <1>8, TriFacts
<1>14. v \in S /\ \A y \in S : y <= v
  BY <1>9, <1>10, <1>11 DEF Tri
<1> HIDE DEF S
<1>15. Max(S) = v
  <2>1. Max(S) <= v /\ v <= Max(S) /\ Max(S) \in Tri
    BY <1>12, <1>13, <1>14
  <2> QED
    BY <2>1 DEF Tri
<1>16. TriValue(s, z) = v
  BY <1>1, <1>9, <1>12, <1>15 DEF Promote
<1> QED
  BY <1>5, <1>7, <1>16 DEF Same, Y, u

\* A member that was accepted is the one in effect.
LEMMA EffectMember ==
  ASSUME NEW t \in Table, Current(t), NEW s \in Symbols, NEW v \in Tri, IsMember(s),
         sym_tristate_within_range(s, v, t)
  PROVE  CalcAll(Scratch(Assigned(s, v, t))).curr[s] = v
<1> DEFINE c == ChoiceOf[s]
           u == Assigned(s, v, t)
           y == Scratch(u)
           Y == CalcAll(y)
           x == Scratch(t)
           X == CalcAll(x)
<1>1. /\ s \in Known /\ IsTri(s) /\ TypeOf[s] = "BOOLEAN" /\ s # "none"
      /\ c \in ChoiceSyms /\ c \in Symbols /\ c \in Known /\ s \in Members(c) /\ ~IsMember(c) /\ s # c
  BY MemberFacts, OrderAssumption DEF Known, IsTri
<1>2. t.curr \in Assignments /\ t.curr[c] \in {0, 2} /\ SeenAt(s, t, t.curr) /\ X.curr = t.curr
  BY <1>1, CurrentFacts, TableFacts, MemberFacts DEF Proper, Typed
<1>3. Visible(s, t.curr) = 2 /\ t.vis[s] = 2
  <2>1. t.vis[s] # 0
    BY WithinFacts
  <2> QED
    BY <1>1, <1>2, <2>1, VisibleFacts DEF SeenAt, Bool
<1>4. v = 2
  BY <1>3, WithinFacts
<1>5. t.curr[c] = 2
  <2>1. calc_value(Prompt[s], t.curr) # 0
    BY <1>2, <1>3, VisibleFacts
  <2> QED
    BY <1>2, <2>1, ChoiceAssumption
<1>6. IsAssigned(s, v, t, u) /\ u.defsym[c] = s
  <2>1. IsAssigned(s, v, t, u)
    BY <1>1, AssignedFacts
  <2>2. u.defsym[c] = s
    BY <1>1, <1>4, TableFacts DEF Assigned, Shape
  <2> QED
    BY <2>1, <2>2
<1>7. IsAssigned(s, v, t, u) /\ u \in Table
  BY <1>6 DEF IsAssigned
<1>8. y \in Table /\ y.valid = {}
  BY <1>7, ScratchFacts DEF IsFlagged
<1> HIDE DEF u, y
<1>9. PICK w : Found(c, t, u, w)
  BY <1>1, <1>6, FoundAgain
<1> DEFINE z == Prepared(c, w)
           r == sym_calc_value(c, w)
           b == sym_calc_visibility(Members(c), WithTri(c, z))
<1>10. /\ w \in Table /\ c \notin w.valid /\ Alike(c, t, z) /\ IsPrepared(c, w, z)
       /\ Same(c, Y, r) /\ w.defsym = u.defsym /\ \A p \in Earlier(c) : t.curr[p] = w.curr[p]
  BY <1>9 DEF Found, y
<1>11. /\ TriValue(c, z) = 2 => StepChoiceOn(c, w, b, r)
       /\ TriValue(c, z) # 2 => StepChoiceOff(c, w, r)
  BY <1>1, <1>10, StepChoice
<1>12. TriValue(c, z) = 2
  <2>1. x \in Table /\ x.valid = {}
    BY ScratchFacts DEF IsFlagged
  <2>2. IsAssigned(s, v, t, u)
    BY <1>6
  <2> PICK j \in DOMAIN Order : Order[j] = c
    BY <1>1, OrderFacts
  <2> DEFINE k == j - 1
  <2>3. k \in 0 .. Len(Order) /\ k < Len(Order) /\ c = Order[k + 1]
    BY OrderFacts
  <2> HIDE DEF k, x
  <2>4. PICK e : Reached(x, k, c, e)
    BY <1>1, <2>1, <2>3, Reaches
  <2>5. /\ e \in Table /\ c \notin e.valid /\ Same(c, X, sym_calc_value(c, e))
        /\ \A p \in Done(k) : Same(p, X, e)
    BY <2>3, <2>4, DoneFacts DEF Reached, Stage
  <2>6. X \in Table
    BY <2>1, CurrentScratch DEF Complete
  <2>7. \A p \in Earlier(c) : e.curr[p] = w.curr[p]
    BY <1>2, <1>10, <2>3, <2>5, <2>6, EarlierSame
  <2> DEFINE f == Prepared(c, e)
  <2>8. Alike(c, f, z) /\ IsPrepared(c, e, f)
    BY <1>1, <1>10, <2>5, <2>7, PreparedAlike, PreparedFacts
  <2>9. TriValue(c, f) # 2 => StepChoiceOff(c, e, sym_calc_value(c, e))
    BY <1>1, <2>5, StepChoice
  <2> HIDE DEF f, z, X
  <2>10. TriValue(c, f) = 2
    BY <1>2, <1>5, <2>5, <2>9 DEF StepChoiceOff, Same
  <2>11. SeenAt(c, f, f.curr) /\ SeenAt(c, z, z.curr) /\ f \in Table /\ z \in Table
    BY <1>10, <2>8 DEF IsPrepared
  <2> QED
    BY <1>1, <2>8, <2>10, <2>11, TriChoiceSame
<1> HIDE DEF z, r, b, x, X
<1>13. /\ b \in Table /\ b.defsym = w.defsym /\ b.curr[c] = 2
       /\ \A p \in Symbols : p # c => b.curr[p] = w.curr[p]
       /\ r.pick[c] = Pick(c, b) /\ r.curr[c] = (IF Pick(c, b) = "none" THEN 0 ELSE 2)
       /\ SeenAt(s, b, b.curr)
  BY <1>1, <1>11, <1>12 DEF StepChoiceOn
<1>14. \A p \in Symbols : p \in Before(s) => p = c \/ p \in Earlier(c)
  BY <1>1, BeforeFacts
<1>15. \A p \in Symbols : p \in Before(s) => b.curr[p] = t.curr[p]
  BY <1>1, <1>5, <1>10, <1>13, <1>14, EarlierFacts
<1>16. b.vis[s] = 2
  <2>1. b.curr \in Assignments
    BY <1>13, TableFacts
  <2>2. Visible(s, b.curr) = Visible(s, t.curr)
    BY <1>2, <1>15, <2>1, Local
  <2> QED
    BY <1>3, <1>13, <2>2 DEF SeenAt
<1>17. Pick(c, b) = s
  BY <1>1, <1>6, <1>10, <1>13, <1>16 DEF Pick
<1>18. Y.pick[c] = s /\ Y.curr[c] = 2
  BY <1>1, <1>10, <1>13, <1>17 DEF Same
<1>19. Y \in Table /\ Sound(s, Y)
  BY <1>1, <1>8, CurrentScratch DEF Complete
<1>20. \A p \in Earlier(c) : Y.curr[p] = t.curr[p]
  <2>1. PICK k : IsBefore(k, c, t, Y)
    BY <1>1, <1>6, EarlierKept DEF y
  <2> QED
    BY <1>19, <2>1, EarlierSame DEF IsBefore
<1> HIDE DEF Y
<1>21. Visible(s, Y.curr) = 2
  <2>1. Y.curr \in Assignments
    BY <1>19, TableFacts
  <2>2. \A p \in Symbols : p \in Before(s) => Y.curr[p] = t.curr[p]
    BY <1>5, <1>14, <1>18, <1>20
  <2> QED
    BY <1>2, <1>3, <2>1, <2>2, Local
<1>22. Y.curr[s] = 2
  BY <1>18, <1>19, <1>21 DEF Sound
<1> QED
  BY <1>4, <1>22 DEF Y, y, u

\* The table in which a number was entered.
Entered(s, v, t) == [t EXCEPT !.has = @ \cup {s}, !.def[s] = v]

\* A number within its range is the one that is calculated.
LEMMA EffectNumber ==
  ASSUME NEW t \in Table, Current(t), NEW s \in Symbols, TypeOf[s] = "INT", t.vis[s] # 0,
         NEW v \in Numbers, sym_string_within_range(s, v, t), NEW u, u = Entered(s, v, t)
  PROVE  u \in Table /\ SameView(t, u) /\ u.valid = t.valid
         /\ CalcAll(Scratch(u)).curr[s] = v
<1> DEFINE Y == CalcAll(Scratch(u))
<1>1. s \in Known /\ s \notin ChoiceSyms /\ ~IsMember(s) /\ InRange(s, v)
  BY MemberFacts, RangeFacts DEF Known
<1>2. IsAssigned(s, v, t, u)
  <2>1. u = [t EXCEPT !.has = t.has \cup {s}, !.def[s] = v]
    BY DEF Entered
  <2> QED
    BY <1>1, <2>1, AssignedNumber DEF GoodValue
<1>3. u \in Table /\ SameView(t, u) /\ u.valid = t.valid /\ s \in u.has /\ u.def[s] = v
  BY <1>2 DEF IsAssigned
<1>4. PICK w : Found(s, t, u, w)
  BY <1>1, <1>2, FoundAgain
<1> DEFINE z == Prepared(s, w)
           r == sym_calc_value(s, w)
<1>5. /\ w \in Table /\ s \notin w.valid /\ Alike(s, t, z) /\ IsPrepared(s, w, z)
      /\ Same(s, Y, r) /\ w.def = u.def /\ u.has \subseteq w.has \cup ChoiceSyms
  BY <1>4 DEF Found
<1>6. r.curr[s] = sym_validate_range(s, NumberValue(s, z), z)
  BY <1>1, <1>5, StepNumber
<1> HIDE DEF Y, z, r
<1>7. z \in Table /\ s \in z.has /\ z.def[s] = v /\ z.vis[s] = t.vis[s]
  BY <1>1, <1>3, <1>5 DEF IsPrepared, Alike, SameAt
<1>8. NumberValue(s, z) = v
  BY <1>7 DEF NumberValue
<1>9. sym_validate_range(s, v, z) = v
  BY <1>1, <1>7, RangeFacts
<1> QED
  BY <1>3, <1>5, <1>6, <1>8, <1>9 DEF Same, Y

\* What mconf accepts takes effect, for a table whose values are current.
LEMMA InvEffect ==
  ASSUME SelectsBounded, Inv, ~stale
  PROVE  EntryTakesEffect
<1> SUFFICES ASSUME pc = "mconf", NEW s \in Symbols
             PROVE  /\ IsTri(s) => \A v \in Tri :
                         table.curr[s] # v /\ Accepted(s, v, table) =>
                           CalcAll(sym_set_tristate_value(s, v, table)).curr[s] = v
                    /\ TypeOf[s] = "INT" /\ table.vis[s] # 0 => \A v \in Inputs :
                         sym_string_within_range(s, v, table) /\ ~Ignored(s, v) =>
                           CalcAll(sym_set_string_value(s, v, table)).curr[s] = v
  BY DEF EntryTakesEffect
<1>1. table \in Table /\ table.valid = Known /\ Current(table)
  BY DEF Inv, Session, GoodSession, Complete
<1>2. ASSUME IsTri(s), NEW v \in Tri, table.curr[s] # v, Accepted(s, v, table)
      PROVE  CalcAll(sym_set_tristate_value(s, v, table)).curr[s] = v
  <2> DEFINE u == Assigned(s, v, table)
  <2>1. sym_tristate_within_range(s, v, table)
    BY <1>2 DEF Accepted
  <2>2. sym_set_tristate_value(s, v, table) = sym_clear_all_valid(u)
    BY <1>2 DEF sym_set_tristate_value
  <2>3. u \in Table
    BY <1>1, <1>2, AssignedFacts DEF IsAssigned, Known, IsTri
  <2>4. CalcAll(Scratch(u)).curr[s] = v
    <3>1. CASE IsMember(s)
      BY <1>1, <2>1, <3>1, EffectMember
    <3>2. CASE ~IsMember(s)
      BY <1>1, <2>1, <3>2, EffectTri
    <3> QED
      BY <3>1, <3>2
  <2> HIDE DEF u
  <2> QED
    BY <2>2, <2>3, <2>4, ClearFacts
<1>3. ASSUME TypeOf[s] = "INT", table.vis[s] # 0, NEW v \in Inputs,
             sym_string_within_range(s, v, table), ~Ignored(s, v)
      PROVE  CalcAll(sym_set_string_value(s, v, table)).curr[s] = v
  <2> DEFINE u == Entered(s, v, table)
  <2>1. v \in Numbers
    BY <1>3, NumberAssumption
  <2>2. /\ u \in Table /\ SameView(table, u) /\ u.valid = table.valid
        /\ CalcAll(Scratch(u)).curr[s] = v
    BY <1>1, <1>3, <2>1, EffectNumber
  <2>3. sym_set_string_value(s, v, table) = IF table.def[s] = v THEN u ELSE sym_clear_all_valid(u)
    BY <1>3 DEF sym_set_string_value, Entered
  <2> HIDE DEF u
  <2>4. CASE table.def[s] = v
    <3>1. table.curr[s] = v
      BY <1>3, <2>4 DEF Ignored
    <3>2. CalcAll(u) = u /\ u.curr = table.curr
      BY <1>1, <2>2, CalcDone DEF SameView
    <3> QED
      BY <2>3, <2>4, <3>1, <3>2
  <2>5. CASE table.def[s] # v
    BY <2>2, <2>3, <2>5, ClearFacts
  <2> QED
    BY <2>4, <2>5
<1> QED
  BY <1>2, <1>3

\* What sym_tristate_within_range and sym_string_within_range let pass is what
\* sym_calc_value then gives, whatever the menus and whatever was edited, loaded
\* and saved before: unless a number was entered that sym_set_string_value took
\* for the present one, since then earlier values may change as well.
THEOREM KconfigEntryTakesEffect ==
  ASSUME SelectsBounded
  PROVE  Spec => [](~stale => EntryTakesEffect)
<1>1. Inv => (~stale => EntryTakesEffect)
  BY InvEffect
<1> QED
  BY <1>1, KconfigInvariant, PTL

-----------------------------------------------------------------------------
(* Files that the programs wrote.                                          *)

\* A choice that is y has one member that is y, its pick, and shows it.
LEMMA OnlyPick ==
  ASSUME SelectedShown, NEW X \in Table, \A s \in Known : Sound(s, X),
         NEW c \in ChoiceSyms, X.curr[c] = 2
  PROVE  /\ X.pick[c] \in Members(c) /\ X.vis[X.pick[c]] # 0
         /\ \A m \in Members(c) : X.curr[m] = 2 <=> m = X.pick[c]
<1>1. /\ c \in Known /\ X.curr \in Assignments
      /\ \A m \in Members(c) : /\ m \in Known /\ m \in Symbols /\ IsMember(m) /\ ChoiceOf[m] = c
                               /\ TypeOf[m] = "BOOLEAN"
  BY MemberFacts, TableFacts DEF Known
<1>2. \A m \in Members(c) : Visible(m, X.curr) \in {0, 2} /\ (Visible(m, X.curr) = 0 <=> calc_value(Prompt[m], X.curr) = 0)
  BY <1>1, VisibleFacts DEF Bool
<1>3. \A m \in Members(c) : Offered(m, X.curr) => Visible(m, X.curr) # 0
  BY <1>1, <1>2 DEF Offered, SelectedShown
<1>4. \A m \in Members(c) : Sound(m, X) /\ X.vis[m] = Visible(m, X.curr)
  BY <1>1 DEF Sound, SeenAt
<1>5. X.pick[c] \in Members(c) /\ Offered(X.pick[c], X.curr)
  BY <1>1 DEF Sound
<1>6. ASSUME NEW m \in Members(c)
      PROVE  X.curr[m] = 2 <=> m = X.pick[c]
  <2>1. CASE Visible(m, X.curr) = 2
    BY <1>1, <1>4, <2>1 DEF Sound
  <2>2. CASE Visible(m, X.curr) # 2
    <3>1. ~Offered(m, X.curr)
      BY <1>2, <1>3, <2>2
    <3>2. X.curr[m] = 0
      BY <1>1, <1>4, <2>2, <3>1 DEF Sound, Offered
    <3> QED
      BY <1>5, <3>1, <3>2
  <2> QED
    BY <2>1, <2>2
<1> QED
  BY <1>3, <1>4, <1>5, <1>6

\* A member of a choice that is n is y only when it is selected.
LEMMA OffSelected ==
  ASSUME NEW X \in Table, \A s \in Known : Sound(s, X),
         NEW c \in ChoiceSyms, X.curr[c] # 2, NEW m \in Members(c), X.curr[m] = 2
  PROVE  X.rev[m] # 0
<1>1. /\ c \in Known /\ X.curr \in Assignments /\ m \in Known /\ m \in Symbols /\ IsMember(m) /\ ChoiceOf[m] = c
      /\ TypeOf[m] = "BOOLEAN" /\ TypeOf[c] = "BOOLEAN" /\ c \in Symbols
  BY MemberFacts, TableFacts DEF Known
<1>2. X.curr[c] = 0
  BY <1>1, TableFacts DEF Proper, Typed
<1>3. Visible(m, X.curr) = 0
  BY <1>1, <1>2, VisibleFacts, ChoiceAssumption
<1>4. Sound(m, X)
  BY <1>1
<1>5. calc_value(RevDep[m], X.curr) # 0
  BY <1>1, <1>3, <1>4 DEF Sound
<1>6. X.rev[m] = Val(m, RevDep[m], X.curr)
  BY <1>4 DEF Sound, SeenAt
<1> QED
  BY <1>1, <1>5, <1>6, ValFacts, ExprsFacts

\* After i lines of a file f that was written from the table U.
Recalled(U, f, i, a) ==
  /\ \A s \in Plain : /\ s \in a.t.has => a.t.def[s] = U.curr[s]
                      /\ \A j \in 1 .. i : f[j][1] = s => s \in a.t.has
  /\ \A c \in ChoiceSyms : U.curr[c] = 2 =>
       \A j \in 1 .. i : f[j][1] = U.pick[c] => a.t.defsym[c] = U.pick[c]

\* One more line of the file.
LEMMA RecalledStep ==
  ASSUME NEW U \in Table, NEW f, NEW i \in Nat, NEW a \in Acc, Recalled(U, f, i, a),
         NEW q \in Plain, f[i + 1] = <<q, U.curr[q]>>, NEW r, IsRead(a, f[i + 1], r),
         \A c \in ChoiceSyms : U.curr[c] = 2 =>
           /\ U.pick[c] \in Members(c)
           /\ \A m \in Members(c) : U.curr[m] = 2 <=> m = U.pick[c]
  PROVE  Recalled(U, f, i + 1, r)
<1>1. 1 .. i + 1 = (1 .. i) \cup {i + 1}
  OBVIOUS
<1> DEFINE l == f[i + 1]
<1>2. l[1] = q /\ l[2] = U.curr[q]
  OBVIOUS
<1>3. q \in Symbols /\ (TypeOf[q] = "BOOLEAN" => U.curr[q] # 1)
  BY PlainFacts, TableFacts DEF Proper, Typed
<1>4. Takes(a, l, r)
  BY <1>2, <1>3 DEF IsRead
<1> HIDE DEF l
<1>5. \A s \in Plain : /\ s \in r.t.has <=> s \in a.t.has \/ s = q
                       /\ r.t.def[s] = IF s = q THEN U.curr[q] ELSE a.t.def[s]
  BY <1>2, <1>4 DEF Takes
<1>6. ASSUME NEW s \in Plain
      PROVE  /\ s \in r.t.has => r.t.def[s] = U.curr[s]
             /\ \A j \in 1 .. i + 1 : f[j][1] = s => s \in r.t.has
  <2>1. /\ s \in a.t.has => a.t.def[s] = U.curr[s]
        /\ \A j \in 1 .. i : f[j][1] = s => s \in a.t.has
    BY DEF Recalled
  <2>2. f[i + 1][1] = q
    BY <1>2 DEF l
  <2> QED
    BY <1>1, <1>5, <2>1, <2>2
<1>7. ASSUME NEW c \in ChoiceSyms, U.curr[c] = 2, NEW j \in 1 .. i + 1, f[j][1] = U.pick[c]
      PROVE  r.t.defsym[c] = U.pick[c]
  <2>1. r.t.defsym[c] = IF ChoiceOf[q] = c /\ U.curr[q] = 2 THEN q ELSE a.t.defsym[c]
    BY <1>2, <1>4 DEF Takes
  <2>2. ChoiceOf[q] = c => q \in Members(c)
    BY <1>3 DEF Members
  <2>3. CASE ChoiceOf[q] = c /\ U.curr[q] = 2
    BY <1>7, <2>1, <2>2, <2>3
  <2>4. CASE ~(ChoiceOf[q] = c /\ U.curr[q] = 2)
    <3>1. q # U.pick[c]
      BY <1>7, <2>4 DEF Members
    <3>2. j \in 1 .. i
      BY <1>1, <1>2, <1>7, <3>1 DEF l
    <3> QED
      BY <1>7, <2>1, <2>4, <3>2 DEF Recalled
  <2> QED
    BY <2>3, <2>4
<1> QED
  BY <1>6, <1>7 DEF Recalled

\* The whole file.
LEMMA RecalledAll ==
  ASSUME NEW U \in Table,
         \A c \in ChoiceSyms : U.curr[c] = 2 =>
           /\ U.pick[c] \in Members(c)
           /\ \A m \in Members(c) : U.curr[m] = 2 <=> m = U.pick[c],
         NEW f, f = Lines(U), NEW t \in Table, NEW r, r = conf_read_simple(f, t)
  PROVE  /\ r \in Acc /\ r.t.valid = {} /\ FileOK(f)
         /\ \A s \in Plain : s \in r.t.has => r.t.def[s] = U.curr[s]
         /\ \A s \in Plain : s \in U.write => s \in r.t.has
         /\ \A c \in ChoiceSyms : U.curr[c] = 2 /\ U.pick[c] \in U.write => r.t.defsym[c] = U.pick[c]
<1> DEFINE n == Len(f)
           S == U.write \ ChoiceSyms
<1>1. S \subseteq Plain /\ S \subseteq Symbols
  BY KnownFlags DEF Known, Plain, ChoiceSyms
<1>2. FileOK(f) /\ n \in Nat /\ DOMAIN f = 1 .. n /\ \A i \in 1 .. n : Readable(f[i])
  BY LinesFacts DEF FileOK
<1>3. ToSet(f) = Entries(S, U)
  <2> HIDE DEF S
  <2> QED
    BY <1>1, LinesElements DEF Lines, S
<1>4. ToSet(f) = {f[j] : j \in 1 .. n}
  BY <1>2 DEF ToSet
<1>5. \A i \in 1 .. n : \E q \in Plain : f[i] = <<q, U.curr[q]>>
  BY <1>1, <1>3, <1>4 DEF Entries
<1>6. \A q \in S : \E j \in 1 .. n : f[j][1] = q
  <2> SUFFICES ASSUME NEW q \in S PROVE \E j \in 1 .. n : f[j][1] = q
    OBVIOUS
  <2>1. <<q, U.curr[q]>> \in {f[j] : j \in 1 .. n}
    BY <1>3, <1>4 DEF Entries
  <2> QED
    BY <2>1
<1>7. PICK g : ReadRun(f, t, g) /\ r = g[n]
  BY <1>2, ReadExists
<1> DEFINE T == {i \in 0 .. n : Recalled(U, f, i, g[i])}
<1>8. 0 \in T
  <2>1. g[0].t.has = ChoiceSyms
    BY <1>7, StartFacts DEF ReadRun
  <2>2. Recalled(U, f, 0, g[0])
    BY <2>1, PlainFacts DEF Recalled
  <2> QED
    BY <1>2, <2>2
<1>9. ASSUME NEW i \in 0 .. n, i < n, i \in T
      PROVE  i + 1 \in T
  <2>1. i \in Nat /\ i + 1 \in 1 .. n /\ i + 1 \in 0 .. n /\ (i + 1) - 1 = i
    BY <1>2, <1>9
  <2>2. g[i] \in Acc /\ g[i + 1] = ReadLine(g[i], f[i + 1])
    BY <1>7, <2>1 DEF ReadRun
  <2>3. Recalled(U, f, i, g[i])
    BY <1>9
  <2>4. IsRead(g[i], f[i + 1], g[i + 1])
    BY <1>2, <2>1, <2>2, ReadLineFacts
  <2>5. PICK q \in Plain : f[i + 1] = <<q, U.curr[q]>>
    BY <1>5, <2>1
  <2>6. Recalled(U, f, i + 1, g[i + 1])
    BY <2>1, <2>2, <2>3, <2>4, <2>5, RecalledStep
  <2> QED
    BY <2>1, <2>6
<1>10. \A i \in 0 .. n : i \in T
  <2> HIDE DEF T
  <2> QED
    BY <1>2, <1>8, <1>9, Climb
<1>11. r \in Acc /\ Recalled(U, f, n, r)
  BY <1>2, <1>7, <1>10 DEF ReadRun
<1>12. r.t.valid = {}
  BY <1>2, ReadSimpleFacts
<1>13. \A s \in Plain : s \in U.write => s \in S
  BY PlainFacts
<1>14. ASSUME NEW c \in ChoiceSyms, U.curr[c] = 2, U.pick[c] \in U.write
       PROVE  r.t.defsym[c] = U.pick[c]
  <2>1. U.pick[c] \in S
    BY <1>14, MemberFacts
  <2> QED
    BY <1>6, <1>11, <1>14, <2>1 DEF Recalled
<1> QED
  BY <1>2, <1>6, <1>11, <1>12, <1>13, <1>14 DEF Recalled

\* conf_write never writes what stands for no file.
LEMMA LinesExist ==
  ASSUME NEW U \in Table
  PROVE  Lines(U) # NoFile
<1> DEFINE S == U.write \ ChoiceSyms
           f == Lines(U)
<1> SUFFICES ASSUME f = NoFile PROVE FALSE
  OBVIOUS
<1>1. S \subseteq Symbols
  BY KnownFlags DEF Known
<1>2. ToSet(f) = Entries(S, U)
  <2> HIDE DEF S
  <2> QED
    BY <1>1, LinesElements DEF Lines, S
<1>3. <<"missing", 0>> \in ToSet(f)
  BY DEF NoFile, ToSet
<1>4. "missing" \in Symbols
  BY <1>1, <1>2, <1>3 DEF Entries
<1> QED
  BY <1>4, OrderAssumption

\* A choice in a current table, as OnlyPick and OffSelected say.
LEMMA CurrentChoice ==
  ASSUME NEW U \in Table, Current(U), NEW c \in ChoiceSyms
  PROVE  /\ U.curr[c] = 2 /\ SelectedShown =>
              /\ U.pick[c] \in Members(c) /\ U.vis[U.pick[c]] # 0
              /\ \A m \in Members(c) : U.curr[m] = 2 <=> m = U.pick[c]
         /\ U.curr[c] # 2 => \A m \in Members(c) : U.curr[m] = 2 => U.rev[m] # 0
<1> DEFINE x == Scratch(U)
           X == CalcAll(x)
<1>1. x \in Table /\ x.valid = {}
  BY ScratchFacts DEF IsFlagged
<1>2. Agree(X, U)
  BY DEF Current
<1> HIDE DEF x
<1>3. X \in Table /\ \A s \in Known : Sound(s, X)
  BY <1>1, CurrentScratch DEF Complete
<1> HIDE DEF X
<1>4. c \in Known /\ \A m \in Members(c) : m \in Known
  BY MemberFacts DEF Known
<1>5. /\ X.curr[c] = U.curr[c] /\ X.pick[c] = U.pick[c]
      /\ \A m \in Members(c) : X.curr[m] = U.curr[m] /\ X.vis[m] = U.vis[m] /\ X.rev[m] = U.rev[m]
  BY <1>2, <1>4 DEF Agree, Same, SameAt
<1>6. CASE U.curr[c] = 2
  BY <1>3, <1>5, <1>6, OnlyPick
<1>7. CASE U.curr[c] # 2
  BY <1>3, <1>5, <1>7, OffSelected
<1> QED
  BY <1>6, <1>7

\* Reading back a file that was written from the current table U: nothing is reset,
\* and the values are those of U.
LEMMA Reread ==
  ASSUME SelectedShown, NEW U, Complete(U), Current(U), Written(U), NEW f, f = Lines(U),
         NEW t \in Table, NEW r, r = conf_read(f, t)
  PROVE  /\ ~r.reset /\ r.t \in Table /\ r.t.valid = Known
         /\ \A s \in Known : Same(s, U, r.t)
<1> DEFINE x == Scratch(U)
           W == CalcAll(x)
           a == conf_read_simple(f, t)
           X == CalcAll(a.t)
           b == Checked(X)
<1>1. U \in Table /\ \A s \in Symbols : TypeOf[s] = "INT" => InRange(s, U.curr[s])
  BY DEF Complete
<1>2. x \in Table /\ x.valid = {}
  BY <1>1, ScratchFacts DEF IsFlagged
<1>3. Agree(W, U)
  BY DEF Current
<1>4. \A c \in ChoiceSyms : U.curr[c] = 2 =>
        /\ U.pick[c] \in Members(c) /\ U.vis[U.pick[c]] # 0
        /\ \A m \in Members(c) : U.curr[m] = 2 <=> m = U.pick[c]
  BY <1>1, CurrentChoice
<1>5. /\ a \in Acc /\ a.t.valid = {} /\ FileOK(f)
      /\ \A s \in Plain : s \in a.t.has => a.t.def[s] = U.curr[s]
      /\ \A s \in Plain : s \in U.write => s \in a.t.has
      /\ \A c \in ChoiceSyms : U.curr[c] = 2 /\ U.pick[c] \in U.write => a.t.defsym[c] = U.pick[c]
  BY <1>1, <1>4, RecalledAll
<1>6. r = ReadResult(b, a.warn)
  BY <1>1, LinesExist DEF conf_read, ReadAndChecked
<1>7. r.t = b.t /\ r.reset = b.reset
  BY <1>6 DEF ReadResult
<1> HIDE DEF x, a
<1>8. a.t \in Table /\ W \in Table
  BY <1>2, <1>5, CurrentScratch DEF Acc, Complete
<1> HIDE DEF W
<1>9. Harmless(W, a.t)
  <2>1. ASSUME NEW s \in Known, s \notin ChoiceSyms, ~IsMember(s)
        PROVE  W.vis[s] = 0 \/ (s \in a.t.has /\ a.t.def[s] = W.curr[s])
    <3>1. s \in Plain
      BY <2>1 DEF Plain, Known, ChoiceSyms
    <3>2. W.vis[s] = U.vis[s] /\ W.curr[s] = U.curr[s]
      BY <1>3, <2>1 DEF Agree, Same, SameAt
    <3> QED
      BY <1>5, <3>1, <3>2 DEF Written
  <2>2. ASSUME NEW c \in ChoiceSyms, W.curr[c] = 2
        PROVE  a.t.defsym[c] = W.pick[c] /\ W.pick[c] \in Members(c) /\ W.vis[W.pick[c]] # 0
    <3> DEFINE m == U.pick[c]
    <3>1. c \in Known /\ \A k \in Members(c) : k \in Known /\ k \in Plain
      <4>1. \A k \in Members(c) : k \in Symbols /\ TypeOf[k] = "BOOLEAN" /\ k \notin ChoiceSyms
        BY MemberFacts
      <4> QED
        BY <4>1, MemberFacts DEF Known, Plain, ChoiceSyms
    <3>2. W.curr[c] = U.curr[c] /\ W.pick[c] = m
      BY <1>3, <3>1 DEF Agree, Same
    <3>3. m \in Members(c) /\ U.vis[m] # 0 /\ U.curr[m] = 2
      BY <1>4, <2>2, <3>2
    <3>4. W.vis[m] = U.vis[m]
      BY <1>3, <3>1, <3>3 DEF Agree, Same, SameAt
    <3>5. m \in U.write
      BY <3>1, <3>3 DEF Written
    <3> QED
      BY <1>5, <2>2, <3>2, <3>3, <3>4, <3>5
  <2> QED
    BY <2>1, <2>2 DEF Harmless, HarmlessAt
<1>10. Agree(W, X)
  BY <1>2, <1>5, <1>8, <1>9, Recalculation DEF W
<1>11. Stage(Len(Order), a.t, X) /\ X \in Table /\ X.valid = Known
  BY <1>5, <1>8, FromScratch, CurrentScratch DEF Complete
<1> HIDE DEF X
<1>12. Forgot(X, b)
  BY <1>11, CheckedFacts
<1> HIDE DEF b
<1>13. \A s \in X.has : TypeOf[s] = "INT" => InRange(s, X.def[s])
  <2> SUFFICES ASSUME NEW s \in X.has, TypeOf[s] = "INT" PROVE InRange(s, X.def[s])
    OBVIOUS
  <2>1. s \in a.t.has /\ X.def = a.t.def /\ s \in Symbols
    BY <1>11, KnownFlags DEF Stage
  <2>2. s \in Plain
    BY <2>1, MemberFacts DEF Plain, ChoiceSyms
  <2> QED
    BY <1>1, <1>5, <2>1, <2>2
<1>14. ~b.reset
  BY <1>12, <1>13 DEF Forgot
<1>15. b.t \in Table /\ b.t.valid = Known /\ SameView(X, b.t)
  BY <1>11, <1>12, <1>14 DEF Forgot, Checks
<1>16. \A s \in Known : Same(s, U, b.t)
  <2> SUFFICES ASSUME NEW s \in Known PROVE Same(s, U, b.t)
    OBVIOUS
  <2>1. Same(s, W, U) /\ Same(s, W, X)
    BY <1>3, <1>10 DEF Agree
  <2> QED
    BY <1>15, <2>1 DEF Same, SameAt, SameView
<1> QED
  BY <1>7, <1>14, <1>15, <1>16

\* What conf_write then writes says what the file said.
LEMMA Rewritten ==
  ASSUME SelectedShown, NEW U, Complete(U), Current(U), Written(U), NEW f, f = Lines(U),
         NEW t \in Table, NEW r, r = conf_read(f, t)
  PROVE  Values(Lines(Calculated(Shown(r.t), r.changed))) = Values(f)
<1> DEFINE w == Shown(r.t)
           v == Calculated(w, r.changed)
<1>1. ~r.reset /\ r.t \in Table /\ r.t.valid = Known /\ \A s \in Known : Same(s, U, r.t)
  BY Reread
<1>2. U \in Table
  BY DEF Complete
<1>3. FileOK(f) /\ f # NoFile /\ Shows(f, U)
  BY <1>2, LinesFacts, LinesExist
<1>4. GoodRead(f, r, w)
  BY <1>3, FileRead
<1>5. Marked(r.t, w)
  BY <1>1, CalcDone, MarkedFacts
<1>6. w.curr = r.t.curr
  BY <1>5 DEF Marked, SameView
<1> HIDE DEF w
<1>7. Complete(w) /\ Current(w) /\ Written(w) /\ w \in Table
  BY <1>1, <1>4 DEF GoodRead, Complete
<1>8. Values(Lines(v)) = [s \in Plain |-> w.curr[s]]
  <2>1. CASE r.changed
    <3>1. v = w
      BY <1>7, <2>1, CalculatedFacts
    <3> HIDE DEF v
    <3> QED
      BY <1>7, <3>1, LinesFacts DEF Shows
  <2>2. CASE ~r.changed
    <3>1. Values(Lines(v)) = Fresh(w)
      BY <2>2 DEF Calculated, Fresh
    <3> HIDE DEF v
    <3> QED
      BY <1>7, <3>1, FreshFacts
  <2> QED
    BY <2>1, <2>2
<1>9. \A s \in Plain : w.curr[s] = U.curr[s]
  BY <1>1, <1>6, PlainFacts DEF Same
<1> HIDE DEF v
<1> QED
  BY <1>3, <1>8, <1>9 DEF Shows, v, w

\* The file was written from a table that was complete, current and written.
Wrote(f) == \E U \in Table : Complete(U) /\ Current(U) /\ Written(U) /\ f = Lines(U)

\* The second inductive invariant: the files in own were.
OwnFiles == \A n \in own : Wrote(files[n])

\* conf_write keeps it when what it calculates is current.
LEMMA WroteFile ==
  ASSUME Inv, OwnFiles, NEW n \in Names, NEW t \in Table, NEW count, NEW old,
         conf_write(n, t, count, old),
         ~(old /\ count) => LET u == Calculated(t, count) IN Complete(u) /\ Current(u) /\ Written(u)
  PROVE  OwnFiles'
<1> DEFINE u == Calculated(t, count)
<1>1. own' = IF old /\ count THEN own \ {n} ELSE own \cup {n}
  BY DEF conf_write
<1>2. /\ files'[n] = Lines(u) /\ own \subseteq Names
      /\ \A m \in Names : m # n => files'[m] = files[m]
  BY WriteFiles DEF Inv, Control
<1>3. ~(old /\ count) => Complete(u) /\ Current(u) /\ Written(u) /\ u \in Table
  BY CalculatedTable
<1> HIDE DEF u
<1>4. ~(old /\ count) => Wrote(files'[n])
  BY <1>2, <1>3 DEF Wrote
<1>5. \A m \in own : m # n => Wrote(files'[m])
  BY <1>2 DEF OwnFiles
<1>6. \A m \in own' : Wrote(files'[m])
  BY <1>1, <1>4, <1>5
<1> QED
  BY <1>6 DEF OwnFiles

\* A session and what conf_read leaves are written as they should be.
LEMMA WroteSession ==
  ASSUME Inv, OwnFiles, NEW n \in Names, NEW t, NEW count, NEW old,
         GoodSession(t, old, count), conf_write(n, t, count, old)
  PROVE  OwnFiles'
<1> DEFINE u == Calculated(t, count)
<1>1. Complete(t) /\ t \in Table /\ (~old => Current(t)) /\ (count /\ ~old => Written(t))
  BY DEF GoodSession, Complete
<1>2. Complete(u) /\ (count => u = t) /\ (~count => Current(u) /\ Written(u))
  BY <1>1, CalculatedFacts
<1> HIDE DEF u
<1>3. ~(old /\ count) => Complete(u) /\ Current(u) /\ Written(u)
  BY <1>1, <1>2
<1> QED
  BY <1>1, <1>3, WroteFile DEF u

\* So are the tables of the modes that answer for the user.
LEMMA WroteNew ==
  ASSUME Inv, OwnFiles, NEW n \in Names, NEW t \in Table, NEW mode \in Tri \cup {def_default},
         conf_write(n, conf_set_all_new_symbols(mode, t), TRUE, FALSE)
  PROVE  OwnFiles'
<1> DEFINE x == conf_set_all_new_symbols(mode, t)
           u == Calculated(x, TRUE)
<1>1. PICK k \in 0 .. Len(Order) : Partly(k, x)
  BY NewSymbolsPartly
<1>2. x \in Table
  BY NewSymbolsTable
<1>3. u = CalcAll(x)
  BY DEF Calculated
<1> HIDE DEF x
<1>4. Complete(u) /\ Current(u) /\ Written(u)
  BY <1>1, <1>2, <1>3, PartlyAll
<1> QED
  BY <1>2, <1>4, WroteFile DEF x

\* Every step keeps it.
LEMMA OwnStep == Inv /\ OwnFiles /\ [Next]_vars => OwnFiles'
<1> SUFFICES ASSUME Inv, OwnFiles, [Next]_vars PROVE OwnFiles'
  OBVIOUS
<1>1. ".config" \in Names /\ "alt" \in Names /\ filename \in Names /\ \A n \in Names : FileOK(files[n])
  BY DEF Inv, Control, Names
<1>2. CASE UNCHANGED <<files, own>>
  BY <1>2 DEF OwnFiles
<1>3. CASE \E n \in Names : pc # "shell" /\ conf_write(n, table, changed, stale)
  <2>1. PICK n \in Names : pc # "shell" /\ conf_write(n, table, changed, stale)
    BY <1>3
  <2>2. GoodSession(table, stale, changed)
    BY <2>1 DEF Inv, Session
  <2> QED
    BY <2>1, <2>2, WroteSession
<1>4. CASE olddefconfig
  <2>1. PICK r \in {conf_read(files[".config"], NewTable)} :
          conf_write(".config", Shown(r.t), r.changed, r.reset)
    BY <1>4 DEF olddefconfig
  <2>2. GoodRead(files[".config"], r, Shown(r.t))
    BY <1>1, <2>1, NewTableFacts, ReadFacts
  <2>3. GoodSession(Shown(r.t), r.reset, r.changed)
    BY <2>2 DEF GoodRead, GoodSession
  <2> QED
    BY <1>1, <2>1, <2>3, WroteSession
<1>5. CASE defconfig
  <2>1. conf_write(".config", conf_set_all_new_symbols(def_default,
                     conf_read(files["alt"], NewTable).t), TRUE, FALSE)
    BY <1>5 DEF defconfig
  <2>2. conf_read(files["alt"], NewTable).t \in Table
    BY <1>1, ReadTable
  <2> QED
    BY <1>1, <2>1, <2>2, WroteNew
<1>6. CASE \E mode \in Tri : allconfig(mode)
  <2>1. PICK mode \in Tri : conf_write(".config", conf_set_all_new_symbols(mode, NewTable), TRUE, FALSE)
    BY <1>6 DEF allconfig
  <2> QED
    BY <1>1, <2>1, NewTableFacts, WroteNew
<1>7. CASE savedefconfig
  <2> DEFINE f == conf_write_defconfig(conf_read(files[".config"], NewTable).t)
  <2>1. files' = [files EXCEPT !["alt"] = f] /\ own' = own \ {"alt"}
    BY <1>7 DEF savedefconfig
  <2>2. own \subseteq Names /\ files = [m \in Names |-> files[m]]
    BY DEF Inv, Control
  <2> HIDE DEF f
  <2>3. \A m \in own' : m \in own /\ files'[m] = files[m]
    BY <2>1, <2>2
  <2> QED
    BY <2>1, <2>3 DEF OwnFiles
<1>8. CASE Next
  <2>1. CASE \E n \in Names : Save(n)
    BY <1>3, <2>1 DEF Save, Mconf
  <2>2. CASE Quit \/ FinishOldconfig
    BY <1>1, <1>2, <1>3, <2>2 DEF Quit, FinishOldconfig
  <2>3. CASE \E n \in Names : Load(n)
    BY <1>2, <2>3 DEF Load
  <2>4. CASE StartMconf \/ StartOldconfig \/ check_conf \/ ReturnFromConf \/ PassAgain
    BY <1>2, <2>4
    DEF StartMconf, StartOldconfig, check_conf, ReturnFromConf, PassAgain, Oldconfig
  <2>5. CASE \/ \E s \in Symbols, key \in {"y", "m", "n", " "} : Key(s, key)
             \/ \E s \in Symbols : Choose(s)
             \/ \E s \in Symbols, v \in Inputs : Enter(s, v)
             \/ conf
    BY <1>2, <2>5 DEF Key, Choose, Enter, conf, Answer, Edit
  <2> QED
    BY <1>4, <1>5, <1>6, <1>7, <1>8, <2>1, <2>2, <2>3, <2>4, <2>5 DEF Next, Menuconfig
<1> QED
  BY <1>2, <1>8 DEF vars

\* The invariant of the files, from the start.
LEMMA OwnInvariant == Spec => []OwnFiles
<1>1. Init => OwnFiles
  BY DEF Init, OwnFiles
<1> QED
  BY <1>1, OwnStep, KconfigInvariant, PTL DEF Spec

\* A .config that the programs wrote is stable, for all menus in which a selected
\* member of a choice is visible while the choice is y: conf_read and conf_write
\* (confdata.c) give back the values in it, although the file holds values of
\* hidden, selected and defaulted symbols next to those of the user.
THEOREM KconfigReloads ==
  ASSUME SelectedShown
  PROVE  Spec => []Reloads
<1>1. OwnFiles => Reloads
  <2> SUFFICES ASSUME OwnFiles, NEW n \in own, NEW r \in {conf_read(files[n], NewTable)}
               PROVE  Values(Lines(Calculated(Shown(r.t), r.changed))) = Values(files[n])
    BY DEF Reloads
  <2>1. PICK U \in Table : Complete(U) /\ Current(U) /\ Written(U) /\ files[n] = Lines(U)
    BY DEF OwnFiles, Wrote
  <2>2. r = conf_read(files[n], NewTable) /\ NewTable \in Table
    BY NewTableFacts
  <2> QED
    BY <2>1, <2>2, Rewritten
<1> QED
  BY <1>1, OwnInvariant, PTL

\* The members of a choice in a file that was written.
LEMMA WroteChoice ==
  ASSUME SelectedShown, NEW f, Wrote(f), NEW c \in ChoiceSyms
  PROVE  LET on == {m \in Members(c) : Values(f)[m] = 2}
             t == CalcAll(conf_read(f, NewTable).t)
         IN IF t.curr[c] = 2 THEN Cardinality(on) = 1 ELSE \A m \in on : t.rev[m] # 0
<1> DEFINE r == conf_read(f, NewTable)
           on == {m \in Members(c) : Values(f)[m] = 2}
           t == CalcAll(r.t)
<1>1. PICK U \in Table : Complete(U) /\ Current(U) /\ Written(U) /\ f = Lines(U)
  BY DEF Wrote
<1>2. NewTable \in Table
  BY NewTableFacts
<1>3. r.t \in Table /\ r.t.valid = Known /\ \A s \in Known : Same(s, U, r.t)
  BY <1>1, <1>2, Reread
<1> HIDE DEF r
<1>4. t = r.t
  BY <1>3, CalcDone
<1> HIDE DEF t
<1>5. \A m \in Members(c) : m \in Symbols /\ TypeOf[m] = "BOOLEAN" /\ m \notin ChoiceSyms
  BY MemberFacts
<1>6. c \in Known /\ \A m \in Members(c) : m \in Known /\ m \in Plain
  BY <1>5, MemberFacts DEF Known, Plain, ChoiceSyms
<1>7. Values(f) = [s \in Plain |-> U.curr[s]]
  BY <1>1, LinesFacts DEF Shows
<1>8. on = {m \in Members(c) : U.curr[m] = 2}
  BY <1>6, <1>7
<1>9. t.curr[c] = U.curr[c] /\ \A m \in Members(c) : t.rev[m] = U.rev[m]
  BY <1>3, <1>4, <1>6 DEF Same, SameAt
<1> HIDE DEF on
<1>10. CASE U.curr[c] = 2
  <2>1. U.pick[c] \in Members(c) /\ \A m \in Members(c) : U.curr[m] = 2 <=> m = U.pick[c]
    BY <1>1, <1>10, CurrentChoice
  <2>2. on = {U.pick[c]}
    BY <1>8, <2>1
  <2>3. Cardinality(on) = 1
    BY <2>2, FS_Singleton
  <2> QED
    BY <1>9, <1>10, <2>3 DEF on, t, r
<1>11. CASE U.curr[c] # 2
  <2>1. \A m \in on : t.rev[m] # 0
    BY <1>1, <1>8, <1>9, <1>11, CurrentChoice
  <2> QED
    BY <1>9, <1>11, <2>1 DEF on, t, r
<1> QED
  BY <1>10, <1>11

\* In a .config that the programs wrote a choice that is y has one member that is y,
\* and the members of a choice that is n are y only when they are selected: for all
\* menus in which a selected member is visible while its choice is y, also when the
\* file read before named several members or none.
THEOREM KconfigOneChosen ==
  ASSUME SelectedShown
  PROVE  Spec => []OneChosen
<1>1. OwnFiles => OneChosen
  BY WroteChoice DEF OwnFiles, OneChosen
<1> QED
  BY <1>1, OwnInvariant, PTL
=============================================================================
