------------------------------ MODULE Kconfig -------------------------------
(***************************************************************************)
(* The configuration programs of adk/config: the symbol table with its     *)
(* lazily calculated values (symbol.c), reading and writing of .config     *)
(* (confdata.c), the sessions of mconf (mconf.c) and the modes of conf     *)
(* (conf.c).                                                               *)
(*                                                                         *)
(* The menus are constants: what menu_finalize leaves in the properties of *)
(* each symbol.  sym_check_deps refuses menus with recursive dependencies, *)
(* so calculating on demand is calculating along Order, in which a symbol  *)
(* comes after all its conditions mention.  no, mod and yes are 0, 1, 2;   *)
(* a number is itself, and the constant symbols that stand for numbers are *)
(* symbols of type UNKNOWN.                                                *)
(***************************************************************************)
EXTENDS Tree, Sequences, SequencesExt, FiniteSets, FiniteSetsExt

CONSTANTS
  Order,      \* the symbols; a choice comes before its members
  Prompt,     \* the condition of each symbol's prompt, n without a prompt
  Defaults,   \* its defaults, in order: records of a value and a condition
  RevDep,     \* who selects it: rev_dep.expr
  ValDep,     \* who selects it with a value: val_dep, in order
  ChoiceOf,   \* the choice it is a value of, or "none"
  RangeOf,    \* the bounds of a number, as a pair of symbols
  Children,   \* the entries below its own
  Number,     \* what an UNKNOWN symbol stands for
  Numbers,    \* the numbers there are
  Inputs,     \* the numbers a user may enter
  Given,      \* the files a user may start with, as sequences of lines
  MaxSteps,   \* bound: commands, keys and dialogs of the user
  calc_value(_, _),   \* expr_calc_value, of a condition and the symbols' values
  Mentions(_)         \* the symbols the value of a condition depends on

Members(c) == {s \in Symbols : ChoiceOf[s] = c}
IsChoice(s) == Members(s) # {}
ChoiceSyms == {s \in Symbols : IsChoice(s)}
IsMember(s) == ChoiceOf[s] # "none"
IsTri(s) == TypeOf[s] \in {"BOOLEAN", "TRISTATE"}
Tri == 0 .. 2

-----------------------------------------------------------------------------
(* The menus. *)

\* The symbols before s, and the first symbol of a set in Order.
Earlier(s) ==
  {r \in Symbols : \E i, j \in DOMAIN Order : i < j /\ Order[i] = r /\ Order[j] = s}
Earliest(S) ==
  IF S = {} THEN "none" ELSE Order[Min({i \in DOMAIN Order : Order[i] \in S})]

\* The conditions of a symbol other than that of its prompt, and the values of
\* its defaults and selects when they are expressions too.
Conditions(s) ==
  {RevDep[s]} \cup {Defaults[s][i].cond : i \in DOMAIN Defaults[s]}
  \cup {ValDep[s][i].cond : i \in DOMAIN ValDep[s]}
  \cup {ValDep[s][i].val : i \in {j \in DOMAIN ValDep[s] : IsTri(s)}}
  \cup {Defaults[s][i].val : i \in {j \in DOMAIN Defaults[s] : IsTri(s) /\ ~IsChoice(s)}}

\* What the symbols can be.
OfType(type) == {s \in Symbols : TypeOf[s] = type}
Assignments ==
  {[s \in Symbols |-> CASE TypeOf[s] = "BOOLEAN" -> b[s] [] TypeOf[s] = "TRISTATE" -> t[s]
                        [] TypeOf[s] = "INT" -> n[s] [] OTHER -> Number[s]] :
     b \in [OfType("BOOLEAN") -> {0, 2}], t \in [OfType("TRISTATE") -> Tri],
     n \in [OfType("INT") -> Numbers]}

Blank == [s \in Symbols |-> IF TypeOf[s] = "UNKNOWN" THEN Number[s] ELSE 0]

\* A condition has a value, which depends on nothing but the symbols in it.
ASSUME ConditionAssumption ==
  \A s \in Symbols :
    /\ \A q \in {Defaults[s], ValDep[s]} : Len(q) \in Nat /\ DOMAIN q = 1 .. Len(q)
    /\ \A e \in {Prompt[s]} \cup Conditions(s) : \A a \in Assignments :
         /\ calc_value(e, a) \in Tri
         /\ calc_value(e, a) =
              calc_value(e, [r \in Symbols |-> IF r \in Mentions(e) THEN a[r] ELSE Blank[r]])

\* sym_check_deps: nothing depends on itself.  Of the conditions of a choice's
\* member only that of the prompt mentions the choice (menu_finalize adds it).
ASSUME OrderAssumption ==
  /\ Order \in Seq(Symbols) /\ Symbols = ToSet(Order) /\ Head(Order) = modules_sym
  /\ \A i, j \in DOMAIN Order : Order[i] = Order[j] => i = j
  /\ {"none", "missing"} \cap Symbols = {}
  /\ \E s \in Symbols \ {modules_sym} : TypeOf[s] # "UNKNOWN"
  /\ \A s \in Symbols :
       IF IsMember(s)
       THEN LET c == ChoiceOf[s]
            IN /\ c \in Earlier(s) /\ Mentions(Prompt[s]) \subseteq Earlier(c) \cup {c}
               /\ \A e \in Conditions(s) : Mentions(e) \subseteq Earlier(c)
       ELSE \A e \in {Prompt[s]} \cup Conditions(s) : Mentions(e) \subseteq Earlier(s)

\* Choices are booleans that are not optional, so menu_finalize makes their
\* prompt select them, with m; their values are booleans without defaults and
\* entries below them, and hidden while the choice is n.
ASSUME ChoiceAssumption ==
  /\ ChoiceOf \in [Symbols -> Symbols \cup {"none"}]
  /\ Children \in [Symbols -> SUBSET Symbols]
  /\ \A c \in ChoiceSyms :
       /\ TypeOf[c] = "BOOLEAN" /\ ~IsMember(c) /\ c # modules_sym
       /\ \A i \in DOMAIN Defaults[c] : Defaults[c][i].val.sym \in Members(c)
       /\ \A a \in Assignments :
            calc_value(Prompt[c], a) # 0 => calc_value(RevDep[c], a) # 0
  /\ \A s \in Symbols : IsMember(s) =>
       /\ TypeOf[s] = "BOOLEAN" /\ Defaults[s] = <<>> /\ ValDep[s] = <<>>
       /\ Children[s] = {}
       /\ \A a \in Assignments : a[ChoiceOf[s]] = 0 => calc_value(Prompt[s], a) = 0

\* A number has a default wherever it is calculated, and a range of constants.
\* No number is 0, which as the text of an entry stands for none.
ASSUME NumberAssumption ==
  /\ Number \in [OfType("UNKNOWN") -> Numbers] /\ Inputs \subseteq Numbers
  /\ Numbers \subseteq Int /\ 0 \in Numbers
  /\ 0 \notin Inputs /\ \A k \in OfType("UNKNOWN") : Number[k] # 0
  /\ \A s \in OfType("INT") :
       /\ \E lo, hi \in OfType("UNKNOWN") : RangeOf[s] = <<lo, hi>> /\ Number[lo] <= Number[hi]
       /\ \A d \in ToSet(Defaults[s]) \cup ToSet(ValDep[s]) :
            /\ d.val.sym \in Earlier(s) /\ ~IsTri(d.val.sym)
       /\ \A a \in Assignments :
            \E i \in DOMAIN Defaults[s] : calc_value(Defaults[s][i].cond, a) # 0

ASSUME BoundAssumption == MaxSteps \in Nat

-----------------------------------------------------------------------------
(* The symbol table: a record t of                                         *)
(*   has, def, defsym   SYMBOL_DEF_USER and def[S_DEF_USER], of a choice   *)
(*                      also the member chosen                             *)
(*   valid, write       SYMBOL_VALID, SYMBOL_WRITE                         *)
(*   curr, pick         curr, of a choice also the member in effect        *)
(*   vis, rev, sel      visible, rev_dep.tri, the tri of each val_dep      *)

NewTable ==
  [has |-> {}, def |-> [s \in Symbols |-> 0], defsym |-> [c \in ChoiceSyms |-> "none"],
   valid |-> {}, write |-> {}, pick |-> [c \in ChoiceSyms |-> "none"], curr |-> Blank,
   vis |-> [s \in Symbols |-> 0], rev |-> [s \in Symbols |-> 0],
   sel |-> [s \in Symbols |-> [i \in DOMAIN ValDep[s] |-> 0]]]

sym_get_type(s, t) ==
  IF /\ TypeOf[s] = "TRISTATE"
     /\ (IsMember(s) /\ t.vis[s] = 2) \/ t.curr[modules_sym] = 0
  THEN "BOOLEAN" ELSE TypeOf[s]

\* The bug of a boolean that may be m.
PromoteNever(v, bool) == v

\* A condition that is m counts as y for a symbol that cannot be m.
Promote(v, bool) == IF v = 1 /\ bool THEN 2 ELSE v

Visible(s, a) ==
  Promote(calc_value(Prompt[s], a), TypeOf[s] # "TRISTATE" \/ a[modules_sym] = 0)

\* The second half of sym_calc_visibility: who selects the symbols of S.
Selectors(S, t) ==
  LET value(s, e) == Promote(calc_value(e, t.curr), sym_get_type(s, t) = "BOOLEAN")
  IN [t EXCEPT
        !.rev = [s \in Symbols |-> IF s \in S THEN value(s, RevDep[s]) ELSE @[s]],
        !.sel = [s \in Symbols |->
                   IF s \in S THEN [i \in DOMAIN ValDep[s] |-> value(s, ValDep[s][i].cond)]
                   ELSE @[s]]]

\* sym_calc_visibility of each symbol of S.
sym_calc_visibility(S, t) ==
  Selectors(S, [t EXCEPT
    !.vis = [s \in Symbols |-> IF s \in S THEN Visible(s, t.curr) ELSE @[s]]])

\* sym_get_default_prop takes the first default whose condition is not n.
Applying(s, t) ==
  {i \in DOMAIN Defaults[s] : calc_value(Defaults[s][i].cond, t.curr) # 0}

\* The first selected member, else the first visible default, else the first
\* visible member.
sym_choice_default(c, t) ==
  LET selected == {s \in Members(c) : t.rev[s] # 0}
      defaults == {i \in Applying(c, t) : t.vis[Defaults[c][i].val.sym] # 0}
  IN IF selected # {} THEN Earliest(selected)
     ELSE IF defaults # {} THEN Defaults[c][Min(defaults)].val.sym
     ELSE Earliest({s \in Members(c) : t.vis[s] # 0})

\* The bug of keeping to the user's member when it is hidden.
PickUser(c, t) ==
  IF t.defsym[c] # "none" THEN t.defsym[c] ELSE sym_choice_default(c, t)

Pick(c, t) ==
  IF t.defsym[c] # "none" /\ t.vis[t.defsym[c]] # 0 THEN t.defsym[c]
  ELSE sym_choice_default(c, t)

\* A choice with a visible member that has no value of the user is new again.
Picked(c, t, member) ==
  LET new == \E s \in Members(c) : t.vis[s] # 0 /\ s \notin t.has
  IN [t EXCEPT !.has = IF new THEN @ \ {c} ELSE @, !.pick[c] = member,
               !.curr[c] = IF member = "none" THEN 0 ELSE @]

sym_calc_choice(c, t) ==
  LET picked(u) == Picked(c, u, Pick(c, u)) IN picked(sym_calc_visibility(Members(c), t))

\* The value of the default that applies, or n.
DefaultValue(s, t) ==
  LET value(d) == Lower(calc_value(d.val, t.curr), calc_value(d.cond, t.curr))
  IN IF Applying(s, t) = {} \/ IsChoice(s) THEN 0
     ELSE value(Defaults[s][Min(Applying(s, t))])

\* menu_finalize adds what an entry depends on to its prompt and its defaults,
\* and a tristate's prompt has no condition but that.
ASSUME DefaultAssumption ==
  \A s \in OfType("TRISTATE"), a \in Assignments :
    Visible(s, a) # 0 => \A d \in ToSet(Defaults[s]) :
      Lower(calc_value(d.val, a), calc_value(d.cond, a)) <= Visible(s, a)

\* The value of a boolean or tristate symbol and whether it is written.
Chosen(s, t) == {i \in DOMAIN ValDep[s] : t.sel[s][i] # 0}

TriValue(s, t) ==
  LET base == IF t.vis[s] # 0 /\ s \in t.has THEN Lower(t.def[s], t.vis[s])
              ELSE DefaultValue(s, t)
      low == {t.rev[s]} \cup {calc_value(ValDep[s][i].val, t.curr) : i \in Chosen(s, t)}
  IN Promote(Max({base} \cup low), sym_get_type(s, t) = "BOOLEAN")

TriWritten(s, t) ==
  \/ t.vis[s] # 0 \/ t.rev[s] # 0 \/ Chosen(s, t) # {}
  \/ ~IsChoice(s) /\ Applying(s, t) # {}

\* sym_validate_range: a number is moved to the bound it passed.
sym_validate_range(s, v, t) ==
  LET lo == t.curr[RangeOf[s][1]]
      hi == t.curr[RangeOf[s][2]]
  IN IF v < lo THEN lo ELSE IF v > hi THEN hi ELSE v

\* A value selected for a number goes before its defaults.
NumberValue(s, t) ==
  IF t.vis[s] # 0 /\ s \in t.has THEN t.def[s]
  ELSE IF Chosen(s, t) # {} THEN t.curr[ValDep[s][Min(Chosen(s, t))].val.sym]
  ELSE t.curr[Defaults[s][Min(Applying(s, t))].val.sym]

\* Members of a choice keep SYMBOL_WRITE until they are written; the choice
\* gives it to those that were visible when it was calculated.
Passed(c, t) ==
  [t EXCEPT !.write = @ \cup {m \in Members(c) : c \in t.write /\ t.vis[m] # 0}]

ChoiceValue(c, t) ==
  Passed(c, IF t.curr[c] = 2 THEN sym_calc_choice(c, t) ELSE [t EXCEPT !.pick[c] = "none"])

\* A choice that got its value picks its member.
WithPick(s, t) == IF IsChoice(s) THEN ChoiceValue(s, t) ELSE t

WithTri(s, t) ==
  [t EXCEPT !.curr[s] = TriValue(s, t),
            !.write = IF TriWritten(s, t) THEN @ \cup {s} ELSE @]

WithNumber(s, t) ==
  [t EXCEPT !.curr[s] = sym_validate_range(s, NumberValue(s, t), t), !.write = @ \cup {s}]

WithMember(s, t) == [t EXCEPT !.curr[s] = IF t.pick[ChoiceOf[s]] = s THEN 2 ELSE 0]

\* The symbol, its visibility calculated, gets its value.
Valued(s, t) ==
  CASE IsMember(s) /\ t.vis[s] = 2 -> WithMember(s, t)
    [] TypeOf[s] = "INT" -> WithNumber(s, t)
    [] OTHER -> WithPick(s, WithTri(s, t))

sym_calc_value(s, t) ==
  IF s \in t.valid \/ TypeOf[s] = "UNKNOWN" THEN t
  ELSE Valued(s, sym_calc_visibility({s}, [t EXCEPT
         !.valid = @ \cup {s}, !.write = IF IsMember(s) THEN @ ELSE @ \ {s}]))

\* The first n symbols are calculated.
Calc(t, n) ==
  LET after[i \in 0 .. n] == IF i = 0 THEN t ELSE sym_calc_value(Order[i], after[i - 1])
  IN after[n]

CalcAll(t) == Calc(t, Len(Order))

sym_clear_all_valid(t) == sym_calc_value(modules_sym, [t EXCEPT !.valid = {}])

-----------------------------------------------------------------------------
(* Values the user sets.  An operation that can be refused leaves the      *)
(* table as it is.                                                         *)

sym_is_changable(s, t) ==
  \A low \in {t.rev[s]} \cup ToSet(t.sel[s]) : t.vis[s] > low

\* The bug of looking at the prompt only.
WithinVisible(s, val, t) == t.vis[s] # 0 /\ IsTri(s) /\ val <= t.vis[s]

sym_tristate_within_range(s, val, t) ==
  LET low == Max({t.rev[s]} \cup ToSet(t.sel[s]))
      type == sym_get_type(s, t)
  IN /\ t.vis[s] # 0 /\ IsTri(s)
     /\ ~(type = "BOOLEAN" /\ val = 1)
     /\ t.vis[s] > low
     /\ IF IsMember(s) /\ t.vis[s] = 2 THEN val = 2
        ELSE low <= val /\ val <= t.vis[s]

Accepted(s, val, t) == t.curr[s] = val \/ sym_tristate_within_range(s, val, t)

\* Choosing a member settles the choice and all its visible members.
Settled(s, t) ==
  {ChoiceOf[s]} \cup {m \in Members(ChoiceOf[s]) : t.vis[m] # 0}

Assigned(s, val, t) ==
  LET u == [t EXCEPT !.has = @ \cup {s}, !.def[s] = val]
  IN IF IsMember(s) /\ val = 2
     THEN [u EXCEPT !.defsym[ChoiceOf[s]] = s, !.has = @ \cup Settled(s, t)] ELSE u

\* The bug of taking the present value for no answer.
SetChanged(s, val, t) ==
  IF ~Accepted(s, val, t) \/ t.curr[s] = val THEN t
  ELSE sym_clear_all_valid(Assigned(s, val, t))

\* The calculated values are dropped only when the value changes.
sym_set_tristate_value(s, val, t) ==
  IF ~Accepted(s, val, t) THEN t
  ELSE IF t.curr[s] # val THEN sym_clear_all_valid(Assigned(s, val, t))
  ELSE Assigned(s, val, t)

\* From no to mod to yes to no, until one is accepted; the old value is.
sym_toggle_tristate_value(s, t) ==
  LET next(i) == (t.curr[s] + i) % 3
  IN sym_set_tristate_value(s, next(Min({i \in 1 .. 3 : Accepted(s, next(i), t)})), t)

sym_string_within_range(s, v, t) ==
  t.curr[RangeOf[s][1]] <= v /\ v <= t.curr[RangeOf[s][2]]

\* The bug of calculating only the number itself again.
SetStringAlone(s, v, t) ==
  IF ~sym_string_within_range(s, v, t) THEN t
  ELSE [t EXCEPT !.has = @ \cup {s}, !.def[s] = v, !.valid = @ \ {s}]

sym_set_string_value(s, v, t) ==
  LET u == [t EXCEPT !.has = @ \cup {s}, !.def[s] = v]
  IN IF ~sym_string_within_range(s, v, t) THEN t
     ELSE IF t.def[s] = v THEN u ELSE sym_clear_all_valid(u)

\* menu_is_visible: an entry whose own prompt is hidden is shown when it is
\* not n (a number is) and an entry below it is shown; it then passes for set
\* by the user.
menu_is_visible(s, t) ==
  LET shown[e \in Symbols] ==
        \/ t.vis[e] # 0
        \/ Prompt[e] # No /\ IsTri(e) /\ t.curr[e] # 0 /\ \E k \in Children[e] : shown[k]
  IN shown[s]

\* Drawing the menus calculates and marks every entry.
Shown(t) ==
  LET marked(u) ==
        [u EXCEPT !.has = @ \cup {s \in Symbols : u.vis[s] = 0 /\ menu_is_visible(s, u)}]
  IN marked(CalcAll(t))

-----------------------------------------------------------------------------
(* Reading and writing.  A file is a sequence of lines, a line a symbol    *)
(* with its value ("# ... is not set" is 0).                               *)

\* The bug of a member's line that does not settle the choice.
ReadAlone(acc, line) ==
  IF line[1] \in Symbols
  THEN [acc EXCEPT !.t.has = @ \cup {line[1]}, !.t.def[line[1]] = line[2]] ELSE acc

\* One line of conf_read_simple; acc is the table and conf_warnings.  A line
\* for a member of a choice also sets the choice.
ReadLine(acc, line) ==
  LET s == line[1]
      c == ChoiceOf[s]
      v == line[2]
      t == [acc.t EXCEPT !.has = @ \cup {s}, !.def[s] = v]
      clash == (v = 1 /\ t.def[c] = 2) \/ (v = 2 /\ t.def[c] # 0)
      u == [t EXCEPT !.has = IF v = 1 /\ t.def[c] = 2 THEN @ \ {c} ELSE @,
                     !.defsym[c] = IF v = 2 THEN s ELSE @,
                     !.def[c] = Higher(@, v)]
  IN IF s \notin Symbols \/ (TypeOf[s] = "BOOLEAN" /\ v = 1)
     THEN [acc EXCEPT !.warn = TRUE]
     ELSE IF ~IsMember(s) THEN [t |-> t, warn |-> acc.warn \/ s \in acc.t.has]
     ELSE [t |-> u, warn |-> acc.warn \/ s \in acc.t.has \/ clash]

conf_read_simple(file, t) ==
  LET start == [t EXCEPT !.has = ChoiceSyms, !.valid = {}, !.def = [s \in Symbols |-> 0],
                         !.defsym = [c \in ChoiceSyms |-> "none"]]
      read[i \in 0 .. Len(file)] ==
        IF i = 0 THEN [t |-> start, warn |-> FALSE] ELSE ReadLine(read[i - 1], file[i])
  IN read[Len(file)]

\* conf_read counts the symbols whose saved and calculated values differ,
\* forgets values of hidden symbols when there are none, and numbers out of
\* range.  Of a forgotten number only its own value is calculated again.
Unsaved(s, t) ==
  /\ ~IsChoice(s) /\ TypeOf[s] # "UNKNOWN"
  /\ IF s \in t.has /\ s \in t.write THEN t.def[s] # t.curr[s]
     ELSE s \in t.has \/ s \in t.write

Forget(acc, s) ==
  LET hidden == acc.t.vis[s] = 0 /\ ~acc.unsaved
      out == TypeOf[s] = "INT" /\ ~sym_string_within_range(s, acc.t.def[s], acc.t)
  IN IF s \notin acc.t.has \/ IsMember(s) THEN acc
     ELSE [t |-> [acc.t EXCEPT !.has = IF hidden \/ out THEN @ \ {s} ELSE @,
                               !.valid = IF out THEN @ \ {s} ELSE @],
           unsaved |-> acc.unsaved \/ out,
           reset |-> acc.reset \/ out]

NoFile == << <<"missing", 0>> >>

\* A line gives a symbol a value of its type; a choice has no name.
Readable(line) ==
  LET s == line[1]
      v == line[2]
  IN /\ line = <<s, v>>
     /\ s \in Symbols => \/ IsTri(s) /\ ~IsChoice(s) /\ v \in Tri
                         \/ TypeOf[s] = "INT" /\ v \in Numbers

ASSUME FileAssumption ==
  \A f \in Given :
    /\ Len(f) \in Nat /\ DOMAIN f = 1 .. Len(f)
    /\ \A i \in DOMAIN f : Readable(f[i]) /\ (f[i][1] \in OfType("INT") => f[i][2] # 0)

Checked(t) ==
  LET start == [t |-> t, unsaved |-> \E s \in Symbols : Unsaved(s, t), reset |-> FALSE]
      after[i \in 0 .. Len(Order)] ==
        IF i = 0 THEN start ELSE Forget(after[i - 1], Order[i])
  IN after[Len(Order)]

ReadResult(f, warn) == [t |-> f.t, changed |-> warn \/ f.unsaved, reset |-> f.reset]

\* modules_sym, the first symbol of Order, is calculated first.
ReadAndChecked(r) == ReadResult(Checked(CalcAll(r.t)), r.warn)

conf_read(file, t) ==
  IF file = NoFile
  THEN [t |-> sym_calc_value(modules_sym, t), changed |-> TRUE, reset |-> FALSE]
  ELSE ReadAndChecked(conf_read_simple(file, t))

\* conf_write starts from scratch only when nothing was changed since the
\* last time; what it writes loses SYMBOL_WRITE.
Calculated(t, changed) == CalcAll(IF changed THEN t ELSE sym_clear_all_valid(t))

\* The lines of the symbols of S.
LinesOf(S, t) ==
  FlattenSeq([i \in DOMAIN Order |->
    IF Order[i] \in S THEN << <<Order[i], t.curr[Order[i]]>> >> ELSE <<>>])

Lines(t) == LinesOf(t.write \ ChoiceSyms, t)

AfterWrite(t) == [t EXCEPT !.write = @ \cap ChoiceSyms]

-----------------------------------------------------------------------------
(* The modes of conf that answer for the user. *)

\* set_all_choice_values, after the choice was calculated.
set_all_choice_values(t, c) ==
  LET set(u) ==
        [u EXCEPT
           !.def = [s \in Symbols |-> IF ChoiceOf[s] = c /\ s \notin u.has THEN 0 ELSE @[s]],
           !.has = @ \cup {c}, !.valid = @ \ {c}]
  IN IF c \in t.has THEN t
     ELSE set(Calc(t, CHOOSE i \in DOMAIN Order : Order[i] = c))

\* conf_set_all_new_symbols; mode is def_default or the value to give.
def_default == 3

conf_set_all_new_symbols(mode, t) ==
  LET new == {s \in Symbols \ (t.has \cup t.valid) : IsTri(s) /\ mode # def_default}
      u == [t EXCEPT !.def = [s \in Symbols |-> IF s \in new THEN mode ELSE @[s]],
                     !.has = @ \cup new]
      after[i \in 0 .. Len(Order)] ==
        IF i = 0 THEN sym_clear_all_valid(u)
        ELSE IF IsChoice(Order[i]) THEN set_all_choice_values(after[i - 1], Order[i])
        ELSE after[i - 1]
  IN after[Len(Order)]

\* The bug of not looking at the condition of a default.
FirstDefault(s, t) ==
  IF Defaults[s] = <<>> THEN 0 ELSE calc_value(Head(Defaults[s]).val, t.curr)

sym_get_string_default(s, t) ==
  LET bool == TypeOf[s] = "BOOLEAN" \/ (~IsMember(s) /\ t.curr[modules_sym] = 0)
  IN IF IsTri(s) THEN Promote(Higher(DefaultValue(s, t), t.rev[s]), bool)
     ELSE t.curr[Defaults[s][Min(Applying(s, t))].val.sym]

\* conf_write_defconfig: what is neither forced nor the default anyway.
ChosenAnyway(s, t) ==
  /\ IsMember(s) /\ TypeOf[s] = "BOOLEAN" /\ t.curr[s] = 2
  /\ sym_choice_default(ChoiceOf[s], t) = s

conf_write_defconfig(t) ==
  LET kept(u) == {s \in u.write \ ChoiceSyms :
                   /\ sym_is_changable(s, u)
                   /\ u.curr[s] # sym_get_string_default(s, u)
                   /\ ~ChosenAnyway(s, u)}
      lines(u) == LinesOf(kept(u), u)
  IN lines(CalcAll(sym_clear_all_valid(t)))

-----------------------------------------------------------------------------
(* The programs.  A user has two files, .config and another one, and runs  *)
(* one program after the other.                                            *)

Names == {".config", "alt"}

VARIABLES
  files,      \* the files, by name
  pc,         \* "shell", or the program that runs: "mconf", "oldconfig"
  table,      \* its symbol table
  changed,    \* its sym_change_count, as a Boolean
  filename,   \* the name mconf saves under
  at, asked,  \* oldconfig: the entry check_conf is at and conf_cnt
  visit,      \* the entry conf is at in the menu, 0 outside conf
  steps,      \* the number of steps of the user so far
  stale,      \* history: a number was set and nothing calculated again
  uncounted,  \* history: the change count was reset by a load that failed
  own         \* history: the files conf_write wrote, not from stale values

session == <<table, changed, filename, at, asked, visit, stale, uncounted>>
vars == <<files, pc, session, steps, own>>

Step == steps < MaxSteps /\ steps' = steps + 1

EndSession ==
  /\ pc' = "shell"
  /\ table' = NewTable /\ changed' = FALSE /\ filename' = ".config"
  /\ at' = 1 /\ asked' = FALSE /\ visit' = 0 /\ stale' = FALSE /\ uncounted' = FALSE

Init ==
  /\ \E n \in Names, f \in Given : files = [m \in Names |-> IF m = n THEN f ELSE NoFile]
  /\ pc = "shell" /\ table = NewTable /\ changed = FALSE /\ filename = ".config"
  /\ at = 1 /\ asked = FALSE /\ visit = 0 /\ steps = 0
  /\ stale = FALSE /\ uncounted = FALSE /\ own = {}

\* conf_write(n) of the table t.
conf_write(n, t, count, old) ==
  /\ files' = [files EXCEPT ![n] = Lines(Calculated(t, count))]
  /\ own' = IF old /\ count THEN own \ {n} ELSE own \cup {n}

\* conf_read(n), and the menus are drawn.
Read(n, t, count) ==
  \E r \in {conf_read(files[n], t)} :
    /\ table' = Shown(r.t)
    /\ changed' = (count \/ r.changed)
    /\ stale' = r.reset

StartMconf ==
  /\ pc = "shell" /\ Step
  /\ Read(".config", NewTable, FALSE)
  /\ pc' = "mconf"
  /\ UNCHANGED <<files, filename, at, asked, visit, uncounted, own>>

\* The bug of an edit that does not count as a change.
EditUncounted(t, ignored) ==
  /\ table' = Shown(t)
  /\ stale' = (ignored \/ (stale /\ t.valid = table.valid))
  /\ UNCHANGED <<files, pc, changed, filename, uncounted, own>>

\* What a key, a dialog or an answer does to the table.  All menus are on one
\* page.  An entry is ignored when it changes the table but no value.
Edit(t, ignored) ==
  LET cleared == t.valid # table.valid
  IN /\ table' = Shown(t)
     /\ changed' = (changed \/ cleared)
     /\ stale' = (ignored \/ (stale /\ ~cleared))
     /\ UNCHANGED <<files, pc, filename, uncounted, own>>

Mconf == pc = "mconf" /\ Step /\ UNCHANGED <<at, asked, visit>>

\* Entries get keys, with "show all options" the hidden ones too; the values
\* of a choice only while it is not y.
Entry(s) ==
  /\ Prompt[s] # No
  /\ IsMember(s) => table.curr[ChoiceOf[s]] # 2 /\ table.curr[s] # 2
  /\ IsChoice(s) /\ ~sym_is_changable(s, table) => table.pick[s] # "none"

\* The key y takes m for an answer, too.
KeyValue(s, key) ==
  CASE key = "y" -> IF Accepted(s, 2, table) THEN 2 ELSE 1
    [] key = "m" -> 1
    [] key = "n" -> 0

Key(s, key) ==
  /\ Mconf /\ Entry(s) /\ IsTri(s)
  /\ Edit(IF key = " " THEN sym_toggle_tristate_value(s, table)
          ELSE sym_set_tristate_value(s, KeyValue(s, key), table), FALSE)

\* conf_choice: one of the visible members of a choice that is y.
Choose(s) ==
  /\ Mconf /\ IsMember(s) /\ Entry(ChoiceOf[s])
  /\ table.curr[ChoiceOf[s]] = 2 /\ menu_is_visible(s, table)
  /\ Edit(sym_set_tristate_value(s, 2, table), FALSE)

\* conf_string of a number.
Ignored(s, v) ==
  sym_string_within_range(s, v, table) /\ table.def[s] = v /\ table.curr[s] # v

Enter(s, v) ==
  /\ Mconf /\ Entry(s) /\ TypeOf[s] = "INT"
  /\ Edit(sym_set_string_value(s, v, table), Ignored(s, v))

\* conf_save, under any name, which becomes the name to save under.
Save(n) ==
  /\ Mconf
  /\ conf_write(n, table, changed, stale)
  /\ table' = AfterWrite(Calculated(table, changed))
  /\ changed' = FALSE /\ stale' = (stale /\ changed) /\ uncounted' = FALSE
  /\ filename' = n /\ UNCHANGED pc

\* conf_load.  A file that does not exist is reported and asked for again,
\* but conf_read has reset the change count.
Load(n) ==
  /\ Mconf
  /\ IF files[n] # NoFile
     THEN /\ Read(n, table, TRUE)
          /\ filename' = n /\ uncounted' = FALSE
     ELSE /\ changed' = FALSE /\ uncounted' = TRUE
          /\ UNCHANGED <<table, filename, stale>>
  /\ UNCHANGED <<files, pc, own>>

\* handle_exit asks when there are changes: save them, or not.
Quit ==
  /\ pc = "mconf" /\ Step /\ EndSession
  /\ \/ changed /\ conf_write(filename, table, changed, stale)
     \/ UNCHANGED <<files, own>>

Menuconfig ==
  \/ StartMconf \/ Quit
  \/ \E s \in Symbols, key \in {"y", "m", "n", " "} : Key(s, key)
  \/ \E s \in Symbols : Choose(s)
  \/ \E s \in Symbols, v \in Inputs : Enter(s, v)
  \/ \E n \in Names : Save(n) \/ Load(n)

-----------------------------------------------------------------------------
(* conf --oldconfig: check_conf goes over the entries, and whenever it      *)
(* finds a new one conf goes over the whole menu and asks for the new ones  *)
(* in it, until a pass of check_conf has found none.                        *)

Askable(s) ==
  /\ Prompt[s] # No /\ ~IsMember(s) /\ s \notin table.has
  /\ menu_is_visible(s, table)
  /\ sym_is_changable(s, table) \/ (IsChoice(s) /\ table.curr[s] = 2)

Ahead == {i \in at .. Len(Order) : Askable(Order[i])}

StartOldconfig ==
  /\ pc = "shell" /\ Step
  /\ Read(".config", NewTable, FALSE)
  /\ pc' = "oldconfig"
  /\ UNCHANGED <<files, filename, at, asked, visit, uncounted, own>>

\* conf finds something to do at a choice that is y, and at new entries.
Stops(s) ==
  /\ Prompt[s] # No /\ ~IsMember(s) /\ menu_is_visible(s, table)
  /\ IF IsChoice(s) THEN table.curr[s] = 2 ELSE s \notin table.has /\ sym_is_changable(s, table)

ToVisit == {i \in visit .. Len(Order) : Stops(Order[i])}

\* The members conf_choice may take: any one that is shown of a new choice,
\* the present one of another, and the one that is shown when there is one.
Takable(c) ==
  LET shown == {m \in Members(c) : menu_is_visible(m, table)}
  IN IF c \notin table.has \/ Cardinality(shown) = 1 THEN shown ELSE shown \cap {table.pick[c]}

\* conf_string and conf_sym repeat the question until an answer is accepted;
\* an empty one stands for the present value.  conf_choice goes on with the
\* next entry also when its answer was refused.
Answer(s) ==
  \/ IsChoice(s) /\ \E m \in Takable(s) : Edit(sym_set_tristate_value(m, 2, table), FALSE)
  \/ /\ TypeOf[s] = "INT"
     /\ \E v \in Inputs \cup {table.curr[s]} :
          /\ sym_string_within_range(s, v, table)
          /\ Edit(sym_set_string_value(s, v, table), Ignored(s, v))
  \/ /\ IsTri(s) /\ ~IsChoice(s)
     /\ \E v \in Tri :
          Accepted(s, v, table) /\ Edit(sym_set_tristate_value(s, v, table), FALSE)

\* conf_choice looks for a member it can take for ever.
Hangs ==
  /\ pc = "oldconfig" /\ visit # 0 /\ ToVisit # {}
  /\ LET s == Order[Min(ToVisit)] IN IsChoice(s) /\ Takable(s) = {}

Oldconfig ==
  pc = "oldconfig" /\ UNCHANGED <<files, pc, table, changed, filename, stale, uncounted, steps, own>>

check_conf ==
  /\ Oldconfig /\ visit = 0 /\ Ahead # {}
  /\ at' = Min(Ahead) + 1 /\ asked' = TRUE /\ visit' = 1

conf ==
  /\ pc = "oldconfig" /\ visit # 0 /\ ToVisit # {}
  /\ LET i == Min(ToVisit)
     IN Answer(Order[i]) /\ visit' = i + 1
  /\ UNCHANGED <<at, asked, steps>>

ReturnFromConf ==
  /\ Oldconfig /\ visit # 0 /\ ToVisit = {}
  /\ visit' = 0 /\ UNCHANGED <<at, asked>>

PassAgain ==
  /\ Oldconfig /\ visit = 0 /\ Ahead = {} /\ asked
  /\ at' = 1 /\ asked' = FALSE /\ visit' = 0

FinishOldconfig ==
  /\ pc = "oldconfig" /\ visit = 0 /\ Ahead = {} /\ ~asked
  /\ conf_write(".config", table, changed, stale)
  /\ EndSession
  /\ UNCHANGED steps

-----------------------------------------------------------------------------
(* The modes of conf that ask nothing. *)

Command == pc = "shell" /\ Step /\ UNCHANGED <<session, pc>>

olddefconfig ==
  /\ Command
  /\ \E r \in {conf_read(files[".config"], NewTable)} :
       conf_write(".config", Shown(r.t), r.changed, r.reset)

defconfig ==
  /\ Command /\ files["alt"] # NoFile
  /\ conf_write(".config", conf_set_all_new_symbols(def_default,
                  conf_read(files["alt"], NewTable).t), TRUE, FALSE)

\* allyesconfig, allmodconfig and allnoconfig.
allconfig(mode) ==
  Command /\ conf_write(".config", conf_set_all_new_symbols(mode, NewTable), TRUE, FALSE)

savedefconfig ==
  /\ Command
  /\ files' = [files EXCEPT !["alt"] =
                 conf_write_defconfig(conf_read(files[".config"], NewTable).t)]
  /\ own' = own \ {"alt"}

Next ==
  \/ Menuconfig
  \/ StartOldconfig \/ check_conf \/ conf \/ ReturnFromConf \/ PassAgain \/ FinishOldconfig
  \/ olddefconfig \/ defconfig \/ savedefconfig
  \/ \E mode \in Tri : allconfig(mode)

\* oldconfig goes on while the user keeps answering, unless it hangs: weak
\* fairness of its steps, one of which is enabled exactly while it runs.
Spec ==
  /\ Init /\ [][Next]_vars
  /\ []<>(pc # "oldconfig") \/ []<><<pc = "oldconfig">>_vars \/ <>[]Hangs

\* The same, with the steps that ask nothing fair by themselves.
FairSpec == Spec /\ WF_vars(check_conf \/ ReturnFromConf \/ PassAgain)

-----------------------------------------------------------------------------
(* What is right. *)

Values(lines) ==
  [s \in {r \in Symbols : ~IsChoice(r) /\ TypeOf[r] # "UNKNOWN"} |->
     IF \E l \in ToSet(lines) : l[1] = s
     THEN (CHOOSE l \in ToSet(lines) : l[1] = s)[2] ELSE 0]

\* What the table amounts to when everything is calculated from the start.
Fresh(t) == Values(Lines(CalcAll(sym_clear_all_valid(t))))

\* The state is well formed: calculated values fit the types of their symbols,
\* and while a program waits for the user all of them are calculated.
TypeOK ==
  /\ pc \in {"shell", "mconf", "oldconfig"} /\ own \subseteq Names /\ filename \in Names
  /\ at \in 1 .. Len(Order) + 1 /\ visit \in 0 .. Len(Order) + 1 /\ steps \in 0 .. MaxSteps
  /\ {changed, asked, stale, uncounted} \subseteq BOOLEAN
  /\ pc # "shell" => \A s \in Symbols : TypeOf[s] # "UNKNOWN" =>
       /\ s \in table.valid
       /\ CASE TypeOf[s] = "BOOLEAN" -> table.curr[s] \in {0, 2}
            [] TypeOf[s] = "TRISTATE" -> table.curr[s] \in Tri
            [] TypeOf[s] = "INT" -> sym_string_within_range(s, table.curr[s], table)

\* conf_write (confdata.c) trusts the values calculated so far whenever the
\* change count is not zero.  What it writes is still what a calculation from
\* the start gives, whatever was edited, loaded and saved before in any order.
SavedCurrent ==
  [][\A n \in Names : n \in own' /\ files'[n] # files[n] /\ pc # "shell" =>
       Values(files'[n]) = Fresh(table)]_vars

\* A .config that the programs wrote is stable: conf_read and conf_write
\* (confdata.c) give back the values in it, although the file holds values
\* of hidden, selected and defaulted symbols next to those of the user.
Reloads ==
  pc = "shell" => \A n \in own :
    \A r \in {conf_read(files[n], NewTable)} :
      Values(Lines(Calculated(Shown(r.t), r.changed))) = Values(files[n])

\* The user had set a symbol before a smaller value of it was selected: it
\* cannot be changed, and conf_write_defconfig takes it for forced.
Overridden(t) ==
  \E s \in Symbols : \E i \in DOMAIN ValDep[s] :
    t.sel[s][i] # 0 /\ t.curr[s] # calc_value(ValDep[s][i].val, t.curr)

\* conf --savedefconfig followed by conf --defconfig restores a .config that
\* the programs wrote (conf_write_defconfig, confdata.c: "All values that has
\* default values are skipped as this is redundant").
DefconfigReloads ==
  pc = "shell" => \A n \in own :
    \A r \in {conf_read(files[n], NewTable)} : \A d \in {conf_write_defconfig(r.t)} :
    \A t \in {conf_read(d, NewTable).t} : ~Overridden(r.t) =>
      Fresh(conf_set_all_new_symbols(def_default, t)) = Values(files[n])

\* Who is selected with a value is selected with no more than the condition:
\* the packages select kernel options with m.
SelectsBounded ==
  \A s \in Symbols, a \in Assignments : IsTri(s) =>
    \A d \in ToSet(ValDep[s]) :
      calc_value(d.cond, a) # 0 => calc_value(d.val, a) <= calc_value(d.cond, a)

\* A member that is selected is visible while its choice is y.
SelectedShown ==
  \A s \in Symbols, a \in Assignments :
    IsMember(s) /\ a[ChoiceOf[s]] = 2 /\ calc_value(RevDep[s], a) # 0 => calc_value(Prompt[s], a) # 0

\* What sym_tristate_within_range and sym_string_within_range (symbol.c) let
\* pass is what sym_calc_value then gives: an entry of mconf that is accepted
\* takes effect, also for members of a choice and selected symbols.
EntryTakesEffect ==
  pc = "mconf" => \A s \in Symbols :
    /\ IsTri(s) => \A v \in Tri :
         table.curr[s] # v /\ Accepted(s, v, table) =>
           CalcAll(sym_set_tristate_value(s, v, table)).curr[s] = v
    /\ TypeOf[s] = "INT" /\ table.vis[s] # 0 => \A v \in Inputs :
         sym_string_within_range(s, v, table) /\ ~Ignored(s, v) =>
           CalcAll(sym_set_string_value(s, v, table)).curr[s] = v

\* mconf leaves without a question (handle_exit, mconf.c) only when the file
\* it would save under holds the configuration on the screen.
QuitKeeps ==
  [][pc = "mconf" /\ pc' = "shell" /\ ~changed /\ ~uncounted /\ ~stale =>
       Values(files[filename]) = Fresh(table)]_vars

\* A choice that is y has one member that is y in a .config the programs
\* wrote, also when the file read before named several or none; while it is n
\* only members that are selected are y (sym_calc_choice, sym_calc_value).
OneChosen ==
  pc = "shell" => \A n \in own, c \in ChoiceSyms :
    LET on == {m \in Members(c) : Values(files[n])[m] = 2}
        t == CalcAll(conf_read(files[n], NewTable).t)
    IN IF t.curr[c] = 2 THEN Cardinality(on) = 1 ELSE \A m \in on : t.rev[m] # 0

\* The user answers a new choice and the answer is refused (a member that is
\* selected cannot be chosen).
Refused ==
  /\ visit # 0 /\ visit' # 0 /\ table' = table
  /\ \E c \in ChoiceSyms \ table.has : Order[visit' - 1] = c

\* The questions of conf --oldconfig come to an end, although each answer may
\* show new entries and make a choice new again, and conf sets every choice
\* anew each time it goes over the menu; unless the user keeps on giving
\* answers to a choice that are refused.
OldconfigEnds == []<>(pc # "oldconfig") \/ []<><<Refused>>_vars

\* "Update until a loop caused no more changes" (conf.c): conf --oldconfig does
\* not go on for ever without a change.
UntilNoMoreChanges == []<>(pc # "oldconfig") \/ []<><<table' # table>>_vars
=============================================================================
