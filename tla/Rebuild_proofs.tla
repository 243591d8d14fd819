--------------------------- MODULE Rebuild_proofs ---------------------------
(***************************************************************************)
(* Proofs about Rebuild and, before it, Depmaker, for all packages,        *)
(* Makefiles, options and bounds.                                          *)
(***************************************************************************)
EXTENDS Rebuild, StrMapLemmas

-----------------------------------------------------------------------------
(* depmaker (adk/tools/depmaker.c) does for every set of orderly Makefiles *)
(* and every configuration what the Makefiles mean.                        *)

\* The provers do not know that a string in quotes is a STRING.
Part == STRING \cup {"STRING", "(null)"}
DepWord == [target : BOOLEAN, dep : STRING]
State == [fpkg : Seq(Part), cpkg : Seq(Part), prefix : BOOLEAN, hprefix : BOOLEAN,
          deps : Seq(DepWord), hdeps : Seq(DepWord)]

\* The text so far reads as one rule: the target is written exactly once, at its
\* beginning, and prefix says whether it has been.
OneRule(prefix, deps) ==
    /\ deps \in Seq(DepWord) /\ WellFormed(deps)
    /\ prefix \in BOOLEAN /\ (prefix <=> deps # << >>)

\* The words of a line, added to the text.
LEMMA WordsAdded ==
  ASSUME NEW prefix, NEW deps, OneRule(prefix, deps), NEW words \in Seq(STRING)
  PROVE  /\ OneRule(prefix \/ words # << >>, deps \o Words(prefix, words))
         /\ Prerequisites(deps \o Words(prefix, words)) = Prerequisites(deps) \cup ToSet(words)
<1> DEFINE w == Words(prefix, words)
           m == Len(deps)
           n == Len(words)
           d == deps \o w
<1>1. /\ deps \in Seq(DepWord) /\ m \in Nat /\ DOMAIN deps = 1 .. m
      /\ n \in Nat /\ DOMAIN words = 1 .. n
  BY DEF OneRule
<1>2. w \in Seq(DepWord) /\ Len(w) = n /\ DOMAIN w = 1 .. n
  <2>1. w \in [1 .. n -> DepWord]
    BY <1>1 DEF Words, DepWord, OneRule
  <2> HIDE DEF n, w
  <2> QED
    BY <1>1, <2>1
<1>3. \A i \in 1 .. n : w[i].target = (~prefix /\ i = 1) /\ w[i].dep = words[i]
  BY <1>1 DEF Words
<1> HIDE DEF w
<1>4. d \in Seq(DepWord) /\ DOMAIN d = 1 .. m + n
  BY <1>1, <1>2
<1>5. \A i \in 1 .. m : d[i] = deps[i]
  BY <1>1, <1>2
<1>6. \A i \in 1 .. n : m + i \in 1 .. m + n /\ d[m + i] = w[i]
  BY <1>1, <1>2
<1>7. prefix <=> m # 0
  BY <1>1 DEF OneRule
<1>8. (words # << >>) <=> n # 0
  OBVIOUS
<1>9. (d # << >>) <=> m + n # 0
  BY <1>1, <1>2
<1> HIDE DEF m, n, d
<1>10. \A i \in 1 .. m + n : \/ i \in 1 .. m
                             \/ i - m \in 1 .. n /\ m + (i - m) = i
  BY <1>1
<1>11. WellFormed(d)
  <2> SUFFICES ASSUME NEW i \in 1 .. m + n PROVE d[i].target = (i = 1)
    BY <1>4 DEF WellFormed
  <2>1. CASE i \in 1 .. m
    BY <1>1, <1>5, <2>1 DEF OneRule, WellFormed
  <2>2. CASE i - m \in 1 .. n /\ m + (i - m) = i
    <3>1. d[i].target = (~prefix /\ i - m = 1)
      BY <1>3, <1>6, <2>2
    <3>2. (m = 0 /\ i - m = 1) <=> i = 1
      BY <1>1, <2>2
    <3>3. (~prefix /\ i - m = 1) = (i = 1)
      BY <1>7, <3>2
    <3> QED
      BY <3>1, <3>3
  <2> QED
    BY <1>10, <2>1, <2>2
<1>12. OneRule(prefix \/ words # << >>, d)
  <2>1. (prefix \/ words # << >>) <=> d # << >>
    BY <1>1, <1>7, <1>8, <1>9
  <2> QED
    BY <1>4, <1>11, <2>1 DEF OneRule
<1>13. Prerequisites(d) \subseteq Prerequisites(deps) \cup ToSet(words)
  <2> SUFFICES ASSUME NEW i \in 1 .. m + n
               PROVE  d[i].dep \in Prerequisites(deps) \cup ToSet(words)
    BY <1>4 DEF Prerequisites
  <2>1. CASE i \in 1 .. m
    BY <1>1, <1>5, <2>1 DEF Prerequisites
  <2>2. CASE i - m \in 1 .. n /\ m + (i - m) = i
    <3>1. d[i].dep = words[i - m]
      BY <1>3, <1>6, <2>2
    <3> QED
      BY <1>1, <2>2, <3>1 DEF ToSet
  <2> QED
    BY <1>10, <2>1, <2>2
<1>14. Prerequisites(deps) \subseteq Prerequisites(d)
  <2>1. \A i \in 1 .. m : i \in 1 .. m + n
    BY <1>1
  <2> QED
    BY <1>1, <1>4, <1>5, <2>1 DEF Prerequisites
<1>15. ToSet(words) \subseteq Prerequisites(d)
  <2> SUFFICES ASSUME NEW i \in 1 .. n PROVE words[i] \in Prerequisites(d)
    BY <1>1 DEF ToSet
  <2>1. m + i \in 1 .. m + n /\ d[m + i].dep = words[i]
    BY <1>3, <1>6
  <2> QED
    BY <1>4, <2>1 DEF Prerequisites
<1> QED
  BY <1>12, <1>13, <1>14, <1>15 DEF d, w

\* The lines whose words main() adds to the rule, as it decides.
Taken(st, l, conf) ==
    CASE l.var = "BUILDDEP" -> TRUE
      [] l.var = "BUILDDEP_" -> <<IF l.sub \in Libc THEN "LIB" ELSE "SYSTEM">> \o l.sub \in conf
      [] l.var = "FB" -> Package(st.fpkg \o l.sub) \in conf
      [] l.var = "CB" -> Package(st.cpkg \o l.sub) \in conf
      [] l.var = "SB" -> Package(l.sub) \in conf
      [] OTHER -> FALSE

\* The words of a host line that are not to be built.
Missing(l, conf) ==
    {w \in ToSet(l.words) : w \in OptionalTool /\ <<"HOST_BUILD", w>> \notin conf}

\* What one line does to each part of the state.
LEMMA LineDoes ==
  ASSUME NEW st \in State, NEW l \in MakeLine, NEW conf
  PROVE  LET t == Line(st, l, conf)
             h == l.var = "HOST_BUILDDEP"
         IN  /\ t.fpkg = CASE l.var = "FLAVOURS" -> l.sub
                           [] l.var = "FLAVOURS_STRING" -> StringOf(l.sub)
                           [] OTHER -> st.fpkg
             /\ t.cpkg = IF l.var = "CHOICES" THEN l.sub ELSE st.cpkg
             /\ Taken(st, l, conf) => /\ t.deps = st.deps \o Words(st.prefix, l.words)
                                      /\ t.prefix = (st.prefix \/ l.words # << >>)
             /\ ~Taken(st, l, conf) => t.deps = st.deps /\ t.prefix = st.prefix
             /\ h /\ Missing(l, conf) = {} =>
                    /\ t.hdeps = st.hdeps \o Words(st.hprefix, l.words)
                    /\ t.hprefix = (st.hprefix \/ l.words # << >>)
             /\ h /\ Missing(l, conf) # {} /\ Len(l.words) = 1 =>
                    t.hdeps = st.hdeps /\ t.hprefix = st.hprefix
             /\ ~h => t.hdeps = st.hdeps /\ t.hprefix = st.hprefix
             /\ t = [fpkg |-> t.fpkg, cpkg |-> t.cpkg, prefix |-> t.prefix,
                     hprefix |-> t.hprefix, deps |-> t.deps, hdeps |-> t.hdeps]
<1> DEFINE t == Line(st, l, conf)
<1>1. st = [fpkg |-> st.fpkg, cpkg |-> st.cpkg, prefix |-> st.prefix,
            hprefix |-> st.hprefix, deps |-> st.deps, hdeps |-> st.hdeps]
  BY DEF State
<1>2. CASE l.var = "BUILDDEP"
  BY <1>1, <1>2 DEF Line, Conditional, Taken, State
<1>3. CASE l.var = "BUILDDEP_"
  <2> DEFINE c == <<IF l.sub \in Libc THEN "LIB" ELSE "SYSTEM">> \o l.sub \in conf
  <2>1. t = Conditional(st, c, l.words) /\ (Taken(st, l, conf) <=> c)
    BY <1>3 DEF Line, Taken
  <2> HIDE DEF c, t
  <2> QED
    BY <1>1, <1>3, <2>1 DEF Conditional, State, t
<1>4. CASE l.var = "FLAVOURS"
  BY <1>1, <1>4 DEF Line, Taken, State
<1>5. CASE l.var = "FLAVOURS_STRING"
  <2> DEFINE s == StringOf(l.sub)
  <2>1. t = [st EXCEPT !.fpkg = s] /\ ~Taken(st, l, conf)
    BY <1>5 DEF Line, Taken
  <2> HIDE DEF s, t
  <2> QED
    BY <1>1, <1>5, <2>1 DEF State, t, s
<1>6. CASE l.var = "CHOICES"
  BY <1>1, <1>6 DEF Line, Taken, State
<1>7. CASE l.var = "FB"
  <2> DEFINE c == Package(st.fpkg \o l.sub) \in conf
  <2>1. t = Conditional(st, c, l.words) /\ (Taken(st, l, conf) <=> c)
    BY <1>7 DEF Line, Taken
  <2> HIDE DEF c, t
  <2> QED
    BY <1>1, <1>7, <2>1 DEF Conditional, State, t
<1>8. CASE l.var = "CB"
  <2> DEFINE c == Package(st.cpkg \o l.sub) \in conf
  <2>1. t = Conditional(st, c, l.words) /\ (Taken(st, l, conf) <=> c)
    BY <1>8 DEF Line, Taken
  <2> HIDE DEF c, t
  <2> QED
    BY <1>1, <1>8, <2>1 DEF Conditional, State, t
<1>9. CASE l.var = "SB"
  <2> DEFINE c == Package(l.sub) \in conf
  <2>1. t = Conditional(st, c, l.words) /\ (Taken(st, l, conf) <=> c)
    BY <1>9 DEF Line, Taken
  <2> HIDE DEF c, t
  <2> QED
    BY <1>1, <1>9, <2>1 DEF Conditional, State, t
<1>10. CASE l.var = "HOST_BUILDDEP"
  <2> DEFINE bad == {i \in DOMAIN l.words : /\ l.words[i] \in OptionalTool
                                           /\ <<"HOST_BUILD", l.words[i]>> \notin conf}
  <2>1. l.words \in Seq(STRING) /\ DOMAIN l.words = 1 .. Len(l.words)
    BY DEF MakeLine
  <2>2. (bad = {}) <=> (Missing(l, conf) = {})
    BY DEF Missing, ToSet
  <2>3. Len(l.words) = 1 /\ bad # {} => 1 \in bad
    <3> SUFFICES ASSUME Len(l.words) = 1, NEW i \in bad PROVE i = 1
      OBVIOUS
    <3>1. i \in 1 .. 1
      BY <2>1
    <3> QED
      BY <3>1
  <2>4. ~Taken(st, l, conf)
    BY <1>10 DEF Taken
  <2>5. t = IF bad = {}
            THEN [st EXCEPT !.hdeps = @ \o Words(st.hprefix, l.words),
                            !.hprefix = @ \/ l.words # << >>]
            ELSE [st EXCEPT !.hprefix = @ \/ 1 \notin bad]
    BY <1>10 DEF Line, HostLine
  <2>6. st.hprefix \in BOOLEAN
    BY DEF State
  <2> HIDE DEF bad, t
  <2>7. CASE bad = {}
    <3> DEFINE words == st.hdeps \o Words(st.hprefix, l.words)
               prefix == st.hprefix \/ l.words # << >>
    <3>1. t = [st EXCEPT !.hdeps = words, !.hprefix = prefix]
      BY <2>5, <2>7 DEF State
    <3> HIDE DEF words, prefix
    <3>2. t = [fpkg |-> st.fpkg, cpkg |-> st.cpkg, prefix |-> st.prefix,
               hprefix |-> prefix, deps |-> st.deps, hdeps |-> words]
      BY <1>1, <3>1
    <3>3. /\ t.fpkg = st.fpkg /\ t.cpkg = st.cpkg /\ t.prefix = st.prefix
          /\ t.deps = st.deps /\ t.hprefix = prefix /\ t.hdeps = words
      BY <3>2
    <3>4. t = [fpkg |-> t.fpkg, cpkg |-> t.cpkg, prefix |-> t.prefix,
               hprefix |-> t.hprefix, deps |-> t.deps, hdeps |-> t.hdeps]
      BY <3>2, <3>3
    <3> QED
      BY <1>10, <2>2, <2>4, <2>7, <3>3, <3>4 DEF words, prefix, t
  <2>8. CASE bad # {}
    <3> DEFINE prefix == st.hprefix \/ 1 \notin bad
    <3>1. t = [st EXCEPT !.hprefix = prefix]
      BY <2>5, <2>8 DEF State
    <3>2. Len(l.words) = 1 => prefix = st.hprefix
      BY <2>3, <2>6, <2>8
    <3> HIDE DEF prefix
    <3>3. t = [fpkg |-> st.fpkg, cpkg |-> st.cpkg, prefix |-> st.prefix,
               hprefix |-> prefix, deps |-> st.deps, hdeps |-> st.hdeps]
      BY <1>1, <3>1
    <3>4. /\ t.fpkg = st.fpkg /\ t.cpkg = st.cpkg /\ t.prefix = st.prefix
          /\ t.deps = st.deps /\ t.hprefix = prefix /\ t.hdeps = st.hdeps
      BY <3>3
    <3>5. t = [fpkg |-> t.fpkg, cpkg |-> t.cpkg, prefix |-> t.prefix,
               hprefix |-> t.hprefix, deps |-> t.deps, hdeps |-> t.hdeps]
      BY <3>3, <3>4
    <3> QED
      BY <1>10, <2>2, <2>4, <2>8, <3>2, <3>4, <3>5 DEF t
  <2> QED
    BY <2>7, <2>8
<1>11. CASE l.var \notin {"BUILDDEP", "BUILDDEP_", "FLAVOURS", "FLAVOURS_STRING", "CHOICES",
                          "FB", "CB", "SB", "HOST_BUILDDEP"}
  BY <1>1, <1>11 DEF Line, Taken, State
<1> QED
  BY <1>2, <1>3, <1>4, <1>5, <1>6, <1>7, <1>8, <1>9, <1>10, <1>11
\* The states between n lines, as the recursive function of Parsed, which exists.
IsRun(st, lines, conf, n, g) ==
    g = [i \in 0 .. n |-> IF i = 0 THEN Fresh(st) ELSE Line(g[i - 1], lines[i], conf)]

LEMMA RunExists ==
  ASSUME NEW st, NEW lines, NEW conf, NEW n \in Nat
  PROVE  \E g : IsRun(st, lines, conf, n, g)
<1> DEFINE D(k, g) == g = [i \in 0 .. k |->
                             IF i = 0 THEN Fresh(st) ELSE Line(g[i - 1], lines[i], conf)]
           S == {k \in 0 .. n : \E g : D(k, g)}
<1>1. 0 \in S
  <2> DEFINE h == [i \in 0 .. 0 |-> Fresh(st)]
  <2>1. D(0, h)
    OBVIOUS
  <2>2. 0 \in 0 .. n
    OBVIOUS
  <2> HIDE DEF h
  <2> QED
    BY <2>1, <2>2
<1>2. ASSUME NEW k \in 0 .. n, k < n, k \in S
      PROVE  k + 1 \in S
  <2>1. PICK g : D(k, g)
    BY <1>2
  <2> DEFINE h == [i \in 0 .. k + 1 |-> IF i = k + 1 THEN Line(g[k], lines[k + 1], conf) ELSE g[i]]
  <2>2. k \in Nat /\ k + 1 \in 0 .. n
    BY <1>2
  <2>3. ASSUME NEW i \in 0 .. k + 1
        PROVE  h[i] = IF i = 0 THEN Fresh(st) ELSE Line(h[i - 1], lines[i], conf)
    <3>1. CASE i = k + 1
      <4>1. i - 1 = k /\ k \in 0 .. k + 1 /\ k # k + 1 /\ i # 0
        BY <2>2, <3>1
      <4>2. h[k] = g[k] /\ h[i] = Line(g[k], lines[i], conf)
        BY <3>1, <4>1
      <4> QED
        BY <4>1, <4>2
    <3>2. CASE i # k + 1
      <4>1. i \in 0 .. k /\ h[i] = g[i]
        BY <2>2, <3>2
      <4>2. g[i] = IF i = 0 THEN Fresh(st) ELSE Line(g[i - 1], lines[i], conf)
        BY <2>1, <4>1
      <4>3. CASE i = 0
        BY <4>1, <4>2, <4>3
      <4>4. CASE i # 0
        <5>1. i - 1 \in 0 .. k + 1 /\ i - 1 # k + 1
          BY <2>2, <4>1, <4>4
        <5>2. h[i - 1] = g[i - 1]
          BY <5>1
        <5> QED
          BY <4>1, <4>2, <4>4, <5>2
      <4> QED
        BY <4>3, <4>4
    <3> QED
      BY <3>1, <3>2
  <2>4. D(k + 1, h)
    BY <2>3
  <2> HIDE DEF h
  <2> QED
    BY <2>2, <2>4
<1> HIDE DEF S
<1>3. \A k \in 0 .. n : k \in S
  BY <1>1, <1>2, Climb
<1>4. n \in S
  BY <1>3
<1> QED
  BY <1>4 DEF S, IsRun

Reads(st, p, conf, g) ==
    /\ g[0] = Fresh(st)
    /\ \A i \in 1 .. Len(Makefile[p]) : g[i] = Line(g[i - 1], Makefile[p][i], conf)
    /\ Parsed(st, p, conf) = g[Len(Makefile[p])]

LEMMA RunUnfold ==
  ASSUME NEW st, NEW p, NEW conf, Len(Makefile[p]) \in Nat
  PROVE  \E g : Reads(st, p, conf, g)
<1> DEFINE n == Len(Makefile[p])
           D(g) == g = [i \in 0 .. Len(Makefile[p]) |->
                          IF i = 0 THEN Fresh(st) ELSE Line(g[i - 1], Makefile[p][i], conf)]
           f == CHOOSE g : D(g)
<1>1. \E g : D(g)
  <2>1. \E g : IsRun(st, Makefile[p], conf, n, g)
    BY RunExists
  <2> QED
    BY <2>1 DEF IsRun
<1>2. D(f)
  <2> HIDE DEF D
  <2> QED
    BY <1>1
<1>3. Parsed(st, p, conf) = f[n]
  BY DEF Parsed
<1> HIDE DEF f
<1>4. \A i \in 0 .. n : f[i] = IF i = 0 THEN Fresh(st) ELSE Line(f[i - 1], Makefile[p][i], conf)
  BY <1>2
<1>5. 0 \in 0 .. n /\ \A i \in 1 .. n : i \in 0 .. n /\ i # 0
  OBVIOUS
<1>6. f[0] = Fresh(st) /\ \A i \in 1 .. n : f[i] = Line(f[i - 1], Makefile[p][i], conf)
  BY <1>4, <1>5
<1> QED
  BY <1>3, <1>6 DEF Reads

\* The states between the packages, as the recursive function of Depends.
IsTurns(pkgs, conf, n, g) ==
    g = [i \in 0 .. n |-> IF i = 0 THEN Start ELSE Parsed(g[i - 1], pkgs[i], conf)]

LEMMA TurnsExist ==
  ASSUME NEW pkgs, NEW conf, NEW n \in Nat
  PROVE  \E g : IsTurns(pkgs, conf, n, g)
<1> DEFINE D(k, g) == g = [i \in 0 .. k |->
                             IF i = 0 THEN Start ELSE Parsed(g[i - 1], pkgs[i], conf)]
           S == {k \in 0 .. n : \E g : D(k, g)}
<1>1. 0 \in S
  <2> DEFINE h == [i \in 0 .. 0 |-> Start]
  <2>1. D(0, h)
    OBVIOUS
  <2>2. 0 \in 0 .. n
    OBVIOUS
  <2> HIDE DEF h
  <2> QED
    BY <2>1, <2>2
<1>2. ASSUME NEW k \in 0 .. n, k < n, k \in S
      PROVE  k + 1 \in S
  <2>1. PICK g : D(k, g)
    BY <1>2
  <2> DEFINE h == [i \in 0 .. k + 1 |-> IF i = k + 1 THEN Parsed(g[k], pkgs[k + 1], conf) ELSE g[i]]
  <2>2. k \in Nat /\ k + 1 \in 0 .. n
    BY <1>2
  <2>3. ASSUME NEW i \in 0 .. k + 1
        PROVE  h[i] = IF i = 0 THEN Start ELSE Parsed(h[i - 1], pkgs[i], conf)
    <3>1. CASE i = k + 1
      <4>1. i - 1 = k /\ k \in 0 .. k + 1 /\ k # k + 1 /\ i # 0
        BY <2>2, <3>1
      <4>2. h[k] = g[k] /\ h[i] = Parsed(g[k], pkgs[i], conf)
        BY <3>1, <4>1
      <4> QED
        BY <4>1, <4>2
    <3>2. CASE i # k + 1
      <4>1. i \in 0 .. k /\ h[i] = g[i]
        BY <2>2, <3>2
      <4>2. g[i] = IF i = 0 THEN Start ELSE Parsed(g[i - 1], pkgs[i], conf)
        BY <2>1, <4>1
      <4>3. CASE i = 0
        BY <4>1, <4>2, <4>3
      <4>4. CASE i # 0
        <5>1. i - 1 \in 0 .. k + 1 /\ i - 1 # k + 1
          BY <2>2, <4>1, <4>4
        <5>2. h[i - 1] = g[i - 1]
          BY <5>1
        <5> QED
          BY <4>1, <4>2, <4>4, <5>2
      <4> QED
        BY <4>3, <4>4
    <3> QED
      BY <3>1, <3>2
  <2>4. D(k + 1, h)
    BY <2>3
  <2> HIDE DEF h
  <2> QED
    BY <2>2, <2>4
<1> HIDE DEF S
<1>3. \A k \in 0 .. n : k \in S
  BY <1>1, <1>2, Climb
<1>4. n \in S
  BY <1>3
<1> QED
  BY <1>4 DEF S, IsTurns

Turn(p) == CHOOSE i \in DOMAIN SetToSeq(Pkg) : SetToSeq(Pkg)[i] = p
Turns(conf, g) ==
    /\ g[0] = Start
    /\ \A i \in 1 .. Len(SetToSeq(Pkg)) : g[i] = Parsed(g[i - 1], SetToSeq(Pkg)[i], conf)
    /\ Depends(conf) = [p \in Pkg |-> [deps |-> g[Turn(p)].deps, hdeps |-> g[Turn(p)].hdeps]]

LEMMA TurnsUnfold ==
  ASSUME NEW conf, Len(SetToSeq(Pkg)) \in Nat
  PROVE  \E g : Turns(conf, g)
<1> DEFINE pkgs == SetToSeq(Pkg)
           n == Len(pkgs)
           D(g) == g = [i \in 0 .. Len(pkgs) |->
                          IF i = 0 THEN Start ELSE Parsed(g[i - 1], pkgs[i], conf)]
           f == CHOOSE g : D(g)
<1>1. \E g : D(g)
  <2>1. \E g : IsTurns(pkgs, conf, n, g)
    BY TurnsExist
  <2> QED
    BY <2>1 DEF IsTurns
<1>2. D(f)
  <2> HIDE DEF D
  <2> QED
    BY <1>1
<1>3. Depends(conf) = [p \in Pkg |-> [deps |-> f[Turn(p)].deps, hdeps |-> f[Turn(p)].hdeps]]
  BY DEF Depends, Turn
<1> HIDE DEF f
<1>4. \A i \in 0 .. n : f[i] = IF i = 0 THEN Start ELSE Parsed(f[i - 1], pkgs[i], conf)
  BY <1>2
<1>5. 0 \in 0 .. n /\ \A i \in 1 .. n : i \in 0 .. n /\ i # 0
  OBVIOUS
<1>6. f[0] = Start /\ \A i \in 1 .. n : f[i] = Parsed(f[i - 1], pkgs[i], conf)
  BY <1>4, <1>5
<1> QED
  BY <1>3, <1>6 DEF Turns

-----------------------------------------------------------------------------
(* The state after the first i lines of the Makefile of p.                 *)

WantedTo(p, i, conf) ==
    UNION {ToSet(Makefile[p][k].words) : k \in {j \in 1 .. i : Wanted(p, Makefile[p][j], conf)}}
HostTo(p, i, conf) ==
    {w \in UNION {ToSet(Makefile[p][k].words) :
                  k \in {j \in 1 .. i : Makefile[p][j].var = "HOST_BUILDDEP"}} :
        w \in OptionalTool => <<"HOST_BUILD", w>> \in conf}

\* sub is that of the last line of the declarations, if that sets var.
Latest(p, i, var, others, sub) ==
    \A k \in 1 .. i :
        Makefile[p][k].var = var /\ (\A j \in k + 1 .. i : Makefile[p][j].var \notin others)
            => sub = Makefile[p][k].sub

SoFar(p, i, conf, st) ==
    /\ st \in State
    /\ OneRule(st.prefix, st.deps) /\ OneRule(st.hprefix, st.hdeps)
    /\ Prerequisites(st.deps) = WantedTo(p, i, conf)
    /\ Prerequisites(st.hdeps) = HostTo(p, i, conf)
    /\ Latest(p, i, "FLAVOURS", {"FLAVOURS", "FLAVOURS_STRING"}, st.fpkg)
    /\ Latest(p, i, "CHOICES", {"CHOICES"}, st.cpkg)

\* The declarations after one more line.
LEMMA LatestNext ==
  ASSUME NEW p, NEW n \in Nat, n >= 1, NEW var, NEW others, var \in others,
         NEW sub, NEW new, Latest(p, n - 1, var, others, sub),
         Makefile[p][n].var = var => new = Makefile[p][n].sub,
         Makefile[p][n].var \notin others => new = sub
  PROVE  Latest(p, n, var, others, new)
<1> SUFFICES ASSUME NEW k \in 1 .. n, Makefile[p][k].var = var,
                    \A j \in k + 1 .. n : Makefile[p][j].var \notin others
             PROVE  new = Makefile[p][k].sub
  BY DEF Latest
<1>1. CASE k = n
  BY <1>1
<1>2. CASE k # n
  <2>1. k \in 1 .. n - 1 /\ n \in k + 1 .. n /\ \A j \in k + 1 .. n - 1 : j \in k + 1 .. n
    BY <1>2
  <2>2. new = sub
    BY <2>1
  <2>3. sub = Makefile[p][k].sub
    BY <2>1 DEF Latest
  <2> QED
    BY <2>2, <2>3
<1> QED
  BY <1>1, <1>2

\* Where a flavour or choice is declared in an orderly Makefile.
LEMMA DeclaredLatest ==
  ASSUME NEW p, NEW n \in Nat, n >= 1, NEW var, NEW others, NEW sub,
         Latest(p, n - 1, var, others, sub), Declared(p, n, var, others)
  PROVE  Sub(p, var, Makefile[p][n].sub) = {sub}
<1>1. PICK k \in 1 .. n - 1 :
         /\ Makefile[p][k].var = var /\ Sub(p, var, Makefile[p][n].sub) = {Makefile[p][k].sub}
         /\ \A j \in k + 1 .. n - 1 : Makefile[p][j].var \notin others
  BY DEF Declared
<1>2. sub = Makefile[p][k].sub
  BY <1>1 DEF Latest
<1> QED
  BY <1>1, <1>2

\* main() takes the lines that are wanted.
LEMMA TakenWanted ==
  ASSUME NEW option, Orderly(option), NEW conf, conf \subseteq option,
         NEW p \in Pkg, NEW n \in DOMAIN Makefile[p], NEW st, SoFar(p, n - 1, conf, st)
  PROVE  Taken(st, Makefile[p][n], conf) <=> Wanted(p, Makefile[p][n], conf)
<1> DEFINE l == Makefile[p][n]
<1>1. n \in Nat /\ n >= 1
  BY MakefileAssumption
<1>2. CASE l.var = "FB"
  <2>1. Sub(p, "FLAVOURS", l.sub) = {st.fpkg}
    <3>1. Declared(p, n, "FLAVOURS", {"FLAVOURS", "FLAVOURS_STRING"})
      BY <1>2 DEF Orderly
    <3>2. Latest(p, n - 1, "FLAVOURS", {"FLAVOURS", "FLAVOURS_STRING"}, st.fpkg)
      BY DEF SoFar
    <3> QED
      BY <1>1, <3>1, <3>2, DeclaredLatest
  <2>2. Taken(st, l, conf) <=> Package(st.fpkg \o l.sub) \in conf
    BY <1>2 DEF Taken
  <2>3. Wanted(p, l, conf) <=> \E s \in Sub(p, "FLAVOURS", l.sub) : Package(s \o l.sub) \in conf
    BY <1>2 DEF Wanted
  <2> QED
    BY <2>1, <2>2, <2>3
<1>3. CASE l.var = "CB"
  <2>1. Sub(p, "CHOICES", l.sub) = {st.cpkg}
    <3>1. Declared(p, n, "CHOICES", {"CHOICES"})
      BY <1>3 DEF Orderly
    <3>2. Latest(p, n - 1, "CHOICES", {"CHOICES"}, st.cpkg)
      BY DEF SoFar
    <3> QED
      BY <1>1, <3>1, <3>2, DeclaredLatest
  <2>2. Taken(st, l, conf) <=> Package(st.cpkg \o l.sub) \in conf
    BY <1>3 DEF Taken
  <2>3. Wanted(p, l, conf) <=> \E s \in Sub(p, "CHOICES", l.sub) : Package(s \o l.sub) \in conf
    BY <1>3 DEF Wanted
  <2> QED
    BY <2>1, <2>2, <2>3
<1>4. CASE l.var = "BUILDDEP_"
  <2>1. <<IF l.sub \in Libc THEN "SYSTEM" ELSE "LIB">> \o l.sub \notin conf
    BY <1>4 DEF Orderly
  <2>2. Taken(st, l, conf) <=> <<IF l.sub \in Libc THEN "LIB" ELSE "SYSTEM">> \o l.sub \in conf
    BY <1>4 DEF Taken
  <2>3. Wanted(p, l, conf) <=> <<"LIB">> \o l.sub \in conf \/ <<"SYSTEM">> \o l.sub \in conf
    BY <1>4 DEF Wanted
  <2>4. CASE l.sub \in Libc
    BY <2>1, <2>2, <2>3, <2>4
  <2>5. CASE l.sub \notin Libc
    BY <2>1, <2>2, <2>3, <2>5
  <2> QED
    BY <2>4, <2>5
<1>5. CASE l.var \notin {"FB", "CB", "BUILDDEP_"}
  BY <1>5 DEF Taken, Wanted
<1> QED
  BY <1>2, <1>3, <1>4, <1>5

\* One more line.
LEMMA LineKeeps ==
  ASSUME NEW option, Orderly(option), NEW conf, conf \subseteq option,
         NEW p \in Pkg, NEW n \in DOMAIN Makefile[p], NEW st, SoFar(p, n - 1, conf, st)
  PROVE  SoFar(p, n, conf, Line(st, Makefile[p][n], conf))
<1> DEFINE l == Makefile[p][n]
           t == Line(st, l, conf)
           h == l.var = "HOST_BUILDDEP"
<1>1. n \in Nat /\ n >= 1 /\ l \in MakeLine
  BY MakefileAssumption
<1>2. /\ st \in State /\ OneRule(st.prefix, st.deps) /\ OneRule(st.hprefix, st.hdeps)
      /\ Prerequisites(st.deps) = WantedTo(p, n - 1, conf)
      /\ Prerequisites(st.hdeps) = HostTo(p, n - 1, conf)
      /\ Latest(p, n - 1, "FLAVOURS", {"FLAVOURS", "FLAVOURS_STRING"}, st.fpkg)
      /\ Latest(p, n - 1, "CHOICES", {"CHOICES"}, st.cpkg)
  BY DEF SoFar
<1>3. /\ t.fpkg = CASE l.var = "FLAVOURS" -> l.sub
                    [] l.var = "FLAVOURS_STRING" -> StringOf(l.sub)
                    [] OTHER -> st.fpkg
      /\ t.cpkg = IF l.var = "CHOICES" THEN l.sub ELSE st.cpkg
      /\ Taken(st, l, conf) => /\ t.deps = st.deps \o Words(st.prefix, l.words)
                               /\ t.prefix = (st.prefix \/ l.words # << >>)
      /\ ~Taken(st, l, conf) => t.deps = st.deps /\ t.prefix = st.prefix
      /\ h /\ Missing(l, conf) = {} =>
             /\ t.hdeps = st.hdeps \o Words(st.hprefix, l.words)
             /\ t.hprefix = (st.hprefix \/ l.words # << >>)
      /\ h /\ Missing(l, conf) # {} /\ Len(l.words) = 1 =>
             t.hdeps = st.hdeps /\ t.hprefix = st.hprefix
      /\ ~h => t.hdeps = st.hdeps /\ t.hprefix = st.hprefix
      /\ t = [fpkg |-> t.fpkg, cpkg |-> t.cpkg, prefix |-> t.prefix,
              hprefix |-> t.hprefix, deps |-> t.deps, hdeps |-> t.hdeps]
  BY <1>1, <1>2, LineDoes
<1>4. l.words \in Seq(STRING) /\ l.sub \in Seq(STRING) /\ l.var \in STRING
  BY <1>1 DEF MakeLine
<1>5. \A k : k \in 1 .. n <=> k \in 1 .. n - 1 \/ k = n
  BY <1>1
<1> HIDE DEF t
<1>6. Latest(p, n, "FLAVOURS", {"FLAVOURS", "FLAVOURS_STRING"}, t.fpkg)
  BY <1>1, <1>2, <1>3, LatestNext
<1>7. Latest(p, n, "CHOICES", {"CHOICES"}, t.cpkg)
  BY <1>1, <1>2, <1>3, LatestNext
<1>8. OneRule(t.prefix, t.deps) /\ Prerequisites(t.deps) = WantedTo(p, n, conf)
  <2>1. Taken(st, l, conf) <=> Wanted(p, l, conf)
    BY TakenWanted
  <2>2. CASE Wanted(p, l, conf)
    <3>1. /\ OneRule(t.prefix, t.deps)
          /\ Prerequisites(t.deps) = Prerequisites(st.deps) \cup ToSet(l.words)
      <4>1. /\ OneRule(st.prefix \/ l.words # << >>, st.deps \o Words(st.prefix, l.words))
            /\ Prerequisites(st.deps \o Words(st.prefix, l.words))
                 = Prerequisites(st.deps) \cup ToSet(l.words)
        BY <1>2, <1>4, WordsAdded
      <4>2. /\ t.deps = st.deps \o Words(st.prefix, l.words)
            /\ t.prefix = (st.prefix \/ l.words # << >>)
        BY <1>3, <2>1, <2>2
      <4> QED
        BY <4>1, <4>2
    <3>2. WantedTo(p, n, conf) = WantedTo(p, n - 1, conf) \cup ToSet(l.words)
      BY <1>5, <2>2 DEF WantedTo
    <3> QED
      BY <1>2, <3>1, <3>2
  <2>3. CASE ~Wanted(p, l, conf)
    <3>1. WantedTo(p, n, conf) = WantedTo(p, n - 1, conf)
      BY <1>5, <2>3 DEF WantedTo
    <3> QED
      BY <1>2, <1>3, <2>1, <2>3, <3>1
  <2> QED
    BY <2>2, <2>3
<1>9. OneRule(t.hprefix, t.hdeps) /\ Prerequisites(t.hdeps) = HostTo(p, n, conf)
  <2>1. HostTo(p, n, conf) = HostTo(p, n - 1, conf) \cup
                             IF h THEN ToSet(l.words) \ Missing(l, conf) ELSE {}
    <3>1. CASE h
      BY <1>5, <3>1 DEF HostTo, Missing
    <3>2. CASE ~h
      BY <1>5, <3>2 DEF HostTo
    <3> QED
      BY <3>1, <3>2
  <2>2. CASE h /\ Missing(l, conf) = {}
    <3>1. /\ OneRule(t.hprefix, t.hdeps)
          /\ Prerequisites(t.hdeps) = Prerequisites(st.hdeps) \cup ToSet(l.words)
      <4>1. /\ OneRule(st.hprefix \/ l.words # << >>, st.hdeps \o Words(st.hprefix, l.words))
            /\ Prerequisites(st.hdeps \o Words(st.hprefix, l.words))
                 = Prerequisites(st.hdeps) \cup ToSet(l.words)
        BY <1>2, <1>4, WordsAdded
      <4>2. /\ t.hdeps = st.hdeps \o Words(st.hprefix, l.words)
            /\ t.hprefix = (st.hprefix \/ l.words # << >>)
        BY <1>3, <2>2
      <4> QED
        BY <4>1, <4>2
    <3> QED
      BY <1>2, <2>1, <2>2, <3>1
  <2>3. CASE h /\ Missing(l, conf) # {}
    <3>1. Len(l.words) = 1
      BY <2>3 DEF Orderly, Missing
    <3>2. ToSet(l.words) \subseteq Missing(l, conf)
      <4>1. DOMAIN l.words = {1}
        BY <1>4, <3>1
      <4>2. ToSet(l.words) = {l.words[1]}
        BY <4>1 DEF ToSet
      <4> QED
        BY <2>3, <4>2 DEF Missing
    <3>3. t.hdeps = st.hdeps /\ t.hprefix = st.hprefix
      BY <1>3, <2>3, <3>1
    <3> QED
      BY <1>2, <2>1, <2>3, <3>2, <3>3
  <2>4. CASE ~h
    BY <1>2, <1>3, <2>1, <2>4
  <2> QED
    BY <2>2, <2>3, <2>4
<1>10. t \in State
  <2>1. t.deps \in Seq(DepWord) /\ t.prefix \in BOOLEAN /\ t.hdeps \in Seq(DepWord)
        /\ t.hprefix \in BOOLEAN
    BY <1>8, <1>9 DEF OneRule
  <2>2. l.sub \in Seq(Part) /\ StringOf(l.sub) \in Seq(Part)
    <3>1. l.sub \in Seq(Part)
      BY <1>4 DEF Part
    <3>2. "STRING" \in Part
      BY DEF Part
    <3> QED
      BY <3>1, <3>2, ConsElements DEF StringOf
  <2>3. st.fpkg \in Seq(Part) /\ st.cpkg \in Seq(Part)
    BY <1>2 DEF State
  <2>4. t.fpkg \in Seq(Part) /\ t.cpkg \in Seq(Part)
    BY <1>3, <2>2, <2>3
  <2>5. t = [fpkg |-> t.fpkg, cpkg |-> t.cpkg, prefix |-> t.prefix,
             hprefix |-> t.hprefix, deps |-> t.deps, hdeps |-> t.hdeps]
    BY <1>3
  <2> QED
    BY <2>1, <2>4, <2>5 DEF State
<1> QED
  BY <1>6, <1>7, <1>8, <1>9, <1>10 DEF SoFar, t

LEMMA StartState == Start \in State
<1>1. <<"(null)">> \in Seq(Part)
  BY DEF Part
<1> QED
  BY <1>1 DEF Start, State

\* A whole Makefile, whatever the Makefiles before it have left.
LEMMA ParsedSoFar ==
  ASSUME NEW option, Orderly(option), NEW conf, conf \subseteq option,
         NEW p \in Pkg, NEW st \in State
  PROVE  SoFar(p, Len(Makefile[p]), conf, Parsed(st, p, conf))
<1> DEFINE n == Len(Makefile[p])
<1>1. n \in Nat /\ DOMAIN Makefile[p] = 1 .. n
  BY MakefileAssumption
<1>2. PICK g : Reads(st, p, conf, g)
  BY <1>1, RunUnfold
<1>3. /\ g[0] = Fresh(st) /\ \A i \in 1 .. n : g[i] = Line(g[i - 1], Makefile[p][i], conf)
      /\ Parsed(st, p, conf) = g[n]
  BY <1>2 DEF Reads
<1> HIDE DEF n
<1> DEFINE S == {i \in 0 .. n : SoFar(p, i, conf, g[i])}
<1>4. 0 \in S
  <2> DEFINE f == Fresh(st)
  <2>1. /\ f.deps = << >> /\ f.hdeps = << >> /\ f.prefix = FALSE /\ f.hprefix = FALSE
        /\ f \in State
    <3>1. Start \in State
      BY StartState
    <3>2. st.fpkg \in Seq(Part) /\ st.cpkg \in Seq(Part)
      BY DEF State
    <3>3. f \in State
      BY <3>1, <3>2 DEF Fresh, State
    <3>4. /\ f.deps = Start.deps /\ f.hdeps = Start.hdeps
          /\ f.prefix = Start.prefix /\ f.hprefix = Start.hprefix
      BY <3>1 DEF Fresh, State
    <3>5. /\ Start.deps = << >> /\ Start.hdeps = << >>
          /\ Start.prefix = FALSE /\ Start.hprefix = FALSE
      BY DEF Start
    <3> QED
      BY <3>3, <3>4, <3>5
  <2>2. 1 .. 0 = {} /\ 0 \in 0 .. n
    BY <1>1
  <2>3. WantedTo(p, 0, conf) = {} /\ HostTo(p, 0, conf) = {}
    BY <2>2 DEF WantedTo, HostTo
  <2>4. Prerequisites(<< >>) = {} /\ OneRule(FALSE, << >>)
    BY DEF Prerequisites, OneRule, WellFormed
  <2>5. \A var, others, sub : Latest(p, 0, var, others, sub)
    BY <2>2 DEF Latest
  <2> HIDE DEF f
  <2>6. SoFar(p, 0, conf, f)
    BY <2>1, <2>3, <2>4, <2>5 DEF SoFar
  <2> QED
    BY <1>3, <2>2, <2>6 DEF f
<1>5. ASSUME NEW i \in 0 .. n, i < n, i \in S
      PROVE  i + 1 \in S
  <2>1. i + 1 \in 1 .. n /\ i + 1 \in 0 .. n /\ (i + 1) - 1 = i
    BY <1>1, <1>5
  <2>2. SoFar(p, i + 1, conf, Line(g[i], Makefile[p][i + 1], conf))
    <3> DEFINE m == i + 1
    <3>1. m \in DOMAIN Makefile[p] /\ m - 1 = i
      BY <1>1, <2>1
    <3>2. SoFar(p, m - 1, conf, g[i])
      BY <1>5, <3>1
    <3> HIDE DEF m
    <3>3. SoFar(p, m, conf, Line(g[i], Makefile[p][m], conf))
      BY <3>1, <3>2, LineKeeps
    <3> QED
      BY <3>3 DEF m
  <2>3. g[i + 1] = Line(g[i], Makefile[p][i + 1], conf)
    BY <1>3, <2>1
  <2> QED
    BY <2>1, <2>2, <2>3
<1> HIDE DEF S
<1>6. \A i \in 0 .. n : i \in S
  BY <1>1, <1>4, <1>5, Climb
<1>7. SoFar(p, n, conf, g[n])
  BY <1>1, <1>6 DEF S
<1> QED
  BY <1>3, <1>7 DEF n

\* If the Makefiles are orderly, the rules that depmaker writes for a configuration have
\* exactly the prerequisites that the Makefiles want under it, and make can read them:
\* for all packages, Makefiles, tools and options, in any order of the packages.
THEOREM DepmakerFaithful ==
  ASSUME NEW option, Orderly(option), NEW conf, conf \subseteq option
  PROVE  Faithful(Depends(conf), conf)
<1> DEFINE pkgs == SetToSeq(Pkg)
           n == Cardinality(Pkg)
<1>1. /\ n \in Nat /\ n = Len(pkgs) /\ DOMAIN pkgs = 1 .. n
      /\ \A i \in 1 .. n : pkgs[i] \in Pkg
      /\ \A p \in Pkg : \E i \in 1 .. n : pkgs[i] = p
  <2>1. /\ n \in Nat /\ pkgs \in [1 .. n -> Pkg] /\ pkgs \in Seq(Pkg)
        /\ DOMAIN pkgs = 1 .. n /\ ToSet(pkgs) = Pkg
    BY MakefileAssumption, SetToSeqLists
  <2> HIDE DEF pkgs, n
  <2> QED
    BY <2>1 DEF ToSet
<1>2. PICK g : Turns(conf, g)
  BY <1>1, TurnsUnfold
<1>3. /\ g[0] = Start /\ \A i \in 1 .. n : g[i] = Parsed(g[i - 1], pkgs[i], conf)
      /\ Depends(conf) = [p \in Pkg |-> [deps |-> g[Turn(p)].deps, hdeps |-> g[Turn(p)].hdeps]]
      /\ \A p : Turn(p) = CHOOSE i \in DOMAIN pkgs : pkgs[i] = p
  BY <1>1, <1>2 DEF Turns, Turn
<1> HIDE DEF pkgs, n
<1> DEFINE S == {i \in 0 .. n : g[i] \in State}
<1>4. 0 \in S
  BY <1>1, <1>3, StartState
<1>5. ASSUME NEW i \in 0 .. n, i < n, i \in S
      PROVE  i + 1 \in S
  <2>1. i + 1 \in 1 .. n /\ i + 1 \in 0 .. n /\ (i + 1) - 1 = i
    BY <1>1, <1>5
  <2>2. g[i + 1] = Parsed(g[i], pkgs[i + 1], conf)
    BY <1>3, <2>1
  <2>3. Parsed(g[i], pkgs[i + 1], conf) \in State
    BY <1>1, <1>5, <2>1, ParsedSoFar DEF SoFar
  <2> QED
    BY <2>1, <2>2, <2>3
<1> HIDE DEF S
<1>6. \A i \in 0 .. n : i \in S
  BY <1>1, <1>4, <1>5, Climb
<1> SUFFICES ASSUME NEW p \in Pkg
             PROVE  /\ WellFormed(Depends(conf)[p].deps) /\ WellFormed(Depends(conf)[p].hdeps)
                    /\ Prerequisites(Depends(conf)[p].deps) = Required(p, conf)
                    /\ Prerequisites(Depends(conf)[p].hdeps) = HostRequired(p, conf)
  BY DEF Faithful
<1> DEFINE at == Turn(p)
           m == Len(Makefile[p])
<1>7. at \in 1 .. n /\ pkgs[at] = p
  BY <1>1, <1>3
<1>8. Depends(conf)[p].deps = g[at].deps /\ Depends(conf)[p].hdeps = g[at].hdeps
  BY <1>3
<1> HIDE DEF at
<1>9. SoFar(p, m, conf, g[at])
  <2>1. at - 1 \in 0 .. n
    BY <1>1, <1>7
  <2>2. g[at - 1] \in State
    BY <1>6, <2>1 DEF S
  <2>3. g[at] = Parsed(g[at - 1], p, conf)
    BY <1>3, <1>7
  <2> QED
    BY <2>2, <2>3, ParsedSoFar
<1>10. m \in Nat /\ DOMAIN Makefile[p] = 1 .. m
  BY MakefileAssumption
<1> HIDE DEF m
<1>11. WantedTo(p, m, conf) = Required(p, conf)
  BY <1>10 DEF WantedTo, Required, ToSet
<1>12. HostTo(p, m, conf) = HostRequired(p, conf)
  BY <1>10 DEF HostTo, HostRequired, ToSet
<1> QED
  BY <1>8, <1>9, <1>11, <1>12 DEF SoFar, OneRule

-----------------------------------------------------------------------------
(* The keys of the Makefiles and of the configurations.                    *)

\* The provers do not know that a string in quotes is a STRING.
Word == STRING \cup {"PACKAGE", "STRING"}
PkgName == {k \in Seq(Word) : k[1] = "PACKAGE"}

PkgKey == {k \in Key : k[1] = "PACKAGE"}
PkgPair == [key : PkgKey, value : Pkg]
PairsOf(p) == [key : PkgKey, value : {p}]

\* Every key of a Makefile's line is an option of the form PACKAGE...
LEMMA LineKeysType ==
  ASSUME NEW p \in Pkg, NEW l \in MakeLine
  PROVE  LineKeys(p, l) \in Seq(PkgName)
<1> DEFINE keys(base) == [i \in DOMAIN l.words |-> Package(base \o <<l.words[i]>>)]
<1>1. "PACKAGE" \in Word /\ "STRING" \in Word /\ STRING \subseteq Word
  BY DEF Word
<1>2. /\ l.sub \in Seq(Word) /\ l.words \in Seq(Word) /\ << >> \in Seq(Word)
      /\ Name[p] \in Seq(Word)
  <2>1. l.sub \in Seq(STRING) /\ l.words \in Seq(STRING) /\ << >> \in Seq(Word)
    BY DEF MakeLine
  <2>2. Name[p] \in Seq(STRING)
    BY MakefileAssumption, KeyAssumption
  <2>3. ASSUME NEW s \in Seq(STRING)
        PROVE  s \in Seq(Word)
    <3>1. \A i \in DOMAIN s : s[i] \in STRING
      OBVIOUS
    <3> QED
      BY <1>1, <3>1, SeqInto
  <2> QED
    BY <2>1, <2>2, <2>3
<1>3. StringOf(l.sub) \in Seq(Word)
  BY <1>1, <1>2, ConsElements DEF StringOf
<1>4. ASSUME NEW s \in Seq(Word)
      PROVE  Package(s) \in PkgName
  BY <1>1, ConsElements DEF Package, PkgName
<1>5. ASSUME NEW base \in Seq(Word)
      PROVE  keys(base) \in Seq(PkgName)
  <2>1. ASSUME NEW i \in 1 .. Len(l.words)
        PROVE  Package(base \o <<l.words[i]>>) \in PkgName
    <3>1. base \o <<l.words[i]>> \in Seq(Word)
      BY <1>2
    <3> QED
      BY <1>4, <3>1
  <2>2. DOMAIN l.words = 1 .. Len(l.words) /\ Len(l.words) \in Nat
    BY <1>2
  <2> QED
    BY <2>1, <2>2
<1>6. << >> \in Seq(PkgName)
  OBVIOUS
<1>7. /\ keys(<< >>) \in Seq(PkgName) /\ keys(l.sub) \in Seq(PkgName)
      /\ keys(Name[p]) \in Seq(PkgName) /\ keys(StringOf(l.sub)) \in Seq(PkgName)
  BY <1>2, <1>3, <1>5
<1>8. LineKeys(p, l) \in {keys(<< >>), keys(l.sub), keys(Name[p]), keys(StringOf(l.sub)), << >>}
  BY DEF LineKeys
<1> HIDE DEF keys
<1> QED
  BY <1>6, <1>7, <1>8

\* The pairs of a Makefile are pairs of its package.
LEMMA PkgKeysType ==
  ASSUME NEW p \in Pkg
  PROVE  PkgKeys[p] \in Seq(PairsOf(p))
<1> DEFINE T == [key : PkgName, value : {p}]
           mf == Makefile[p]
           pairs(keys) == [i \in DOMAIN keys |-> [key |-> keys[i], value |-> p]]
           parts == [n \in DOMAIN mf |-> pairs(LineKeys(p, mf[n]))]
<1>1. mf \in Seq(MakeLine)
  BY MakefileAssumption, KeyAssumption
<1>2. DOMAIN mf = 1 .. Len(mf) /\ Len(mf) \in Nat
  BY <1>1
<1>3. ASSUME NEW ks \in Seq(PkgName)
      PROVE  pairs(ks) \in Seq(T)
  <2>1. DOMAIN ks = 1 .. Len(ks) /\ Len(ks) \in Nat /\ \A i \in 1 .. Len(ks) : ks[i] \in PkgName
    OBVIOUS
  <2>2. \A i \in 1 .. Len(ks) : [key |-> ks[i], value |-> p] \in T
    BY <2>1
  <2> HIDE DEF T
  <2> QED
    BY <2>1, <2>2
<1>4. parts \in [1 .. Len(mf) -> Seq(T)]
  <2>1. ASSUME NEW n \in 1 .. Len(mf)
        PROVE  LineKeys(p, mf[n]) \in Seq(PkgName)
    <3>1. mf[n] \in MakeLine
      BY <1>1
    <3> HIDE DEF mf
    <3> QED
      BY <3>1, LineKeysType
  <2> HIDE DEF T, mf, pairs
  <2> QED
    BY <1>2, <1>3, <2>1
<1>5. PkgKeys[p] = FlattenSeq(parts)
  BY DEF PkgKeys
<1> HIDE DEF parts, mf, T
<1>6. PkgKeys[p] \in Seq(T)
  BY <1>2, <1>4, <1>5, FlattenElements
<1>7. \A i \in DOMAIN PkgKeys[p] : PkgKeys[p][i] \in PairsOf(p)
  <2> SUFFICES ASSUME NEW i \in DOMAIN PkgKeys[p]
               PROVE  PkgKeys[p][i] \in PairsOf(p)
    OBVIOUS
  <2>1. PkgKeys[p][i].key \in Key
    BY MakefileAssumption, KeyAssumption
  <2>2. PkgKeys[p][i] \in T
    BY <1>6
  <2>3. PkgKeys[p][i].key[1] = "PACKAGE"
    BY <2>2 DEF T, PkgName
  <2> QED
    BY <2>1, <2>2, <2>3 DEF T, PkgKey, PairsOf
<1> QED
  BY <1>6, <1>7, SeqInto

\* main() of pkgrebuild puts the pairs of all Makefiles, and no others.
LEMMA PkgPairsType ==
  /\ PkgPairs \in Seq(PkgPair)
  /\ \A r : r \in ToSet(PkgPairs) <=> \E p \in Pkg : r \in ToSet(PkgKeys[p])
<1> DEFINE n == Cardinality(Pkg)
           order == SetToSeq(Pkg)
           parts == [i \in 1 .. n |-> PkgKeys[order[i]]]
<1>1. /\ n \in Nat /\ order \in [1 .. n -> Pkg] /\ DOMAIN order = 1 .. n
      /\ ToSet(order) = Pkg
  BY MakefileAssumption, SetToSeqLists
<1>2. \A p \in Pkg : \E i \in 1 .. n : order[i] = p
  BY <1>1 DEF ToSet
<1>3. \A p \in Pkg : PkgKeys[p] \in Seq(PkgPair)
  <2> SUFFICES ASSUME NEW p \in Pkg
               PROVE  PkgKeys[p] \in Seq(PkgPair)
    OBVIOUS
  <2>1. PkgKeys[p] \in Seq(PairsOf(p))
    BY PkgKeysType
  <2>2. \A x \in PairsOf(p) : x \in PkgPair
    BY DEF PkgPair, PairsOf
  <2>3. \A i \in DOMAIN PkgKeys[p] : PkgKeys[p][i] \in PkgPair
    BY <2>1, <2>2
  <2> QED
    BY <2>1, <2>3, SeqInto
<1>4. PkgPairs = FlattenSeq(parts)
  BY DEF PkgPairs
<1> HIDE DEF n, order
<1>5. parts \in [1 .. n -> Seq(PkgPair)] /\ \A i \in 1 .. n : parts[i] = PkgKeys[order[i]]
  BY <1>1, <1>3
<1> HIDE DEF parts
<1>6. /\ PkgPairs \in Seq(PkgPair)
      /\ ToSet(PkgPairs) = UNION {ToSet(parts[i]) : i \in 1 .. n}
  BY <1>1, <1>4, <1>5, FlattenElements
<1>7. \A r : r \in ToSet(PkgPairs) <=> \E i \in 1 .. n : r \in ToSet(PkgKeys[order[i]])
  BY <1>5, <1>6
<1> QED
  BY <1>1, <1>2, <1>6, <1>7

\* A pair of a Makefile, seen from its key.
LEMMA KeyOfPair ==
  ASSUME NEW p \in Pkg
  PROVE  \A k : KeyOf(p, k) <=> [key |-> k, value |-> p] \in ToSet(PkgKeys[p])
<1>1. PkgKeys[p] \in Seq(PairsOf(p))
  BY PkgKeysType
<1>2. \A i \in DOMAIN PkgKeys[p] : PkgKeys[p][i] = [key |-> PkgKeys[p][i].key, value |-> p]
  <2> SUFFICES ASSUME NEW i \in DOMAIN PkgKeys[p]
               PROVE  PkgKeys[p][i] = [key |-> PkgKeys[p][i].key, value |-> p]
    OBVIOUS
  <2>1. PkgKeys[p][i] \in PairsOf(p)
    BY <1>1
  <2> QED
    BY <2>1 DEF PairsOf
<1>3. ASSUME NEW k, KeyOf(p, k)
      PROVE  [key |-> k, value |-> p] \in ToSet(PkgKeys[p])
  BY <1>2, <1>3 DEF KeyOf, ToSet
<1>4. ASSUME NEW k, [key |-> k, value |-> p] \in ToSet(PkgKeys[p])
      PROVE  KeyOf(p, k)
  <2>1. PICK i \in DOMAIN PkgKeys[p] : PkgKeys[p][i] = [key |-> k, value |-> p]
    BY <1>4 DEF ToSet
  <2>2. PkgKeys[p][i].key = k
    BY <2>1
  <2> QED
    BY <2>2 DEF KeyOf
<1> QED
  BY <1>3, <1>4

\* The keys of a Makefile are options of the form PACKAGE...
LEMMA KeyOfType ==
  ASSUME NEW p \in Pkg, NEW k, KeyOf(p, k)
  PROVE  k \in Key /\ k[1] = "PACKAGE"
<1>1. PICK i \in DOMAIN PkgKeys[p] : PkgKeys[p][i].key = k
  BY DEF KeyOf
<1>2. PkgKeys[p][i] \in PairsOf(p)
  BY PkgKeysType
<1> QED
  BY <1>1, <1>2 DEF PkgKey, PairsOf

\* The options of a configuration that pkgrebuild looks at.
Lines(c) == {o \in Enabled(c) : o[1] = "PACKAGE"}

\* What pkgrebuild reads from a configuration: a pair for each of them.
LEMMA ConfPairsType ==
  ASSUME NEW c \in Text
  PROVE  /\ ConfPairs(c) \in Seq(Pair)
         /\ \A k : k \in Lines(c) <=> \E i \in 1 .. Len(ConfPairs(c)) : ConfPairs(c)[i].key = k
<1> DEFINE keys == SetToSeq(Lines(c))
           n == Cardinality(Lines(c))
<1>1. Lines(c) \subseteq Option /\ \A k \in Lines(c) : k \in Key /\ c[k] \in Value
  BY RebuildAssumption DEF Lines, Enabled, Text
<1>2. IsFiniteSet(Lines(c))
  BY <1>1, RebuildAssumption, FS_Subset
<1>3. n \in Nat /\ keys \in [1 .. n -> Lines(c)] /\ DOMAIN keys = 1 .. n /\ ToSet(keys) = Lines(c)
  BY <1>2, SetToSeqLists
<1>4. ConfPairs(c) = [i \in DOMAIN keys |-> [key |-> keys[i], value |-> c[keys[i]]]]
  BY DEF ConfPairs, Lines
<1> HIDE DEF keys, n
<1>5. \A i \in 1 .. n : [key |-> keys[i], value |-> c[keys[i]]] \in Pair
  BY <1>1, <1>3 DEF Pair
<1>6. ConfPairs(c) \in Seq(Pair) /\ Len(ConfPairs(c)) = n
  BY <1>3, <1>4, <1>5
<1>7. \A i \in 1 .. n : ConfPairs(c)[i].key = keys[i]
  BY <1>3, <1>4
<1>8. \A k : k \in Lines(c) <=> \E i \in 1 .. n : keys[i] = k
  BY <1>3 DEF ToSet
<1> QED
  BY <1>6, <1>7, <1>8

\* The recursive function of Load exists.
LEMMA LoadExists ==
  ASSUME NEW lines, NEW n \in Nat
  PROVE  \E g : g = [i \in 0 .. n |->
                       IF i = 0 THEN strmap_new
                       ELSE Put(g[i - 1], lines[i].key, lines[i].value)]
<1> DEFINE D(k, g) == g = [i \in 0 .. k |->
                             IF i = 0 THEN strmap_new
                             ELSE Put(g[i - 1], lines[i].key, lines[i].value)]
           S == {k \in 0 .. n : \E g : D(k, g)}
<1>1. 0 \in S
  <2> DEFINE h == [i \in 0 .. 0 |-> strmap_new]
  <2>1. D(0, h)
    OBVIOUS
  <2>2. 0 \in 0 .. n
    OBVIOUS
  <2> HIDE DEF h
  <2> QED
    BY <2>1, <2>2
<1>2. ASSUME NEW k \in 0 .. n, k < n, k \in S
      PROVE  k + 1 \in S
  <2>1. PICK g : D(k, g)
    BY <1>2
  <2> DEFINE h == [i \in 0 .. k + 1 |->
                     IF i = k + 1 THEN Put(g[k], lines[k + 1].key, lines[k + 1].value)
                     ELSE g[i]]
  <2>2. k \in Nat /\ k + 1 \in 0 .. n
    BY <1>2
  <2>3. ASSUME NEW i \in 0 .. k + 1
        PROVE  h[i] = IF i = 0 THEN strmap_new
                      ELSE Put(h[i - 1], lines[i].key, lines[i].value)
    <3>1. CASE i = k + 1
      <4>1. i - 1 = k /\ k \in 0 .. k + 1 /\ k # k + 1 /\ i # 0
        BY <2>2, <3>1
      <4>2. h[k] = g[k] /\ h[i] = Put(g[k], lines[i].key, lines[i].value)
        BY <3>1, <4>1
      <4> QED
        BY <4>1, <4>2
    <3>2. CASE i # k + 1
      <4>1. i \in 0 .. k /\ h[i] = g[i]
        BY <2>2, <3>2
      <4>2. g[i] = IF i = 0 THEN strmap_new ELSE Put(g[i - 1], lines[i].key, lines[i].value)
        BY <2>1, <4>1
      <4>3. CASE i = 0
        BY <4>1, <4>2, <4>3
      <4>4. CASE i # 0
        <5>1. i - 1 \in 0 .. k + 1 /\ i - 1 # k + 1
          BY <2>2, <4>1, <4>4
        <5>2. h[i - 1] = g[i - 1]
          BY <5>1
        <5> QED
          BY <4>1, <4>2, <4>4, <5>2
      <4> QED
        BY <4>3, <4>4
    <3> QED
      BY <3>1, <3>2
  <2>4. D(k + 1, h)
    BY <2>3
  <2> HIDE DEF h
  <2> QED
    BY <2>2, <2>4
<1> HIDE DEF S
<1>3. \A k \in 0 .. n : k \in S
  BY <1>1, <1>2, Climb
<1>4. n \in S
  BY <1>3
<1> QED
  BY <1>4 DEF S

LEMMA LoadUnfold ==
  ASSUME NEW c, NEW n \in Nat, n = Len(ConfPairs(c))
  PROVE  \E g : /\ g[0] = strmap_new
                /\ \A i \in 1 .. n :
                      g[i] = Put(g[i - 1], ConfPairs(c)[i].key, ConfPairs(c)[i].value)
                /\ Load(c) = g[n]
<1> DEFINE lines == ConfPairs(c)
           D(g) == g = [i \in 0 .. Len(lines) |->
                          IF i = 0 THEN strmap_new
                          ELSE Put(g[i - 1], lines[i].key, lines[i].value)]
           f == CHOOSE g : D(g)
<1>1. \E g : D(g)
  <2>1. \E g : g = [i \in 0 .. n |->
                      IF i = 0 THEN strmap_new
                      ELSE Put(g[i - 1], lines[i].key, lines[i].value)]
    BY LoadExists
  <2> QED
    BY <2>1
<1>2. D(f)
  <2> HIDE DEF D
  <2> QED
    BY <1>1
<1>3. Load(c) = f[n]
  BY DEF Load
<1> HIDE DEF f
<1>4. \A i \in 0 .. n : f[i] = IF i = 0 THEN strmap_new
                               ELSE Put(f[i - 1], lines[i].key, lines[i].value)
  BY <1>2
<1>5. 0 \in 0 .. n /\ \A i \in 1 .. n : i \in 0 .. n /\ i # 0
  OBVIOUS
<1>6. /\ f[0] = strmap_new
      /\ \A i \in 1 .. n : f[i] = Put(f[i - 1], lines[i].key, lines[i].value)
  BY <1>4, <1>5
<1> QED
  BY <1>3, <1>6

\* A map that a configuration was loaded into has exactly its PACKAGE options.
LEMMA LoadHas ==
  ASSUME NEW c \in Text
  PROVE  /\ Load(c) \in [Slot -> Seq(Pair)] /\ UniqueIn(Load(c))
         /\ \A k : strmap_exists(Load(c), k) <=> k \in Lines(c)
<1> DEFINE n == Len(ConfPairs(c))
           lines == ConfPairs(c)
<1>1. lines \in Seq(Pair) /\ n \in Nat /\ \A i \in 1 .. n : lines[i] \in Pair
  BY ConfPairsType
<1>2. \A i \in 1 .. n : [key |-> lines[i].key, value |-> lines[i].value] \in Pair
  <2> SUFFICES ASSUME NEW i \in 1 .. n
               PROVE  [key |-> lines[i].key, value |-> lines[i].value] \in Pair
    OBVIOUS
  <2>1. lines[i] \in Pair
    BY <1>1
  <2> QED
    BY <2>1 DEF Pair
<1>3. PICK g : /\ g[0] = strmap_new
               /\ \A i \in 1 .. n : g[i] = Put(g[i - 1], lines[i].key, lines[i].value)
               /\ Load(c) = g[n]
  BY <1>1, LoadUnfold
<1> DEFINE Has(m, i) == \A k : strmap_exists(m, k) <=> \E j \in 1 .. i : lines[j].key = k
           S == {i \in 0 .. n : /\ g[i] \in [Slot -> Seq(Pair)] /\ UniqueIn(g[i])
                                /\ Has(g[i], i)}
<1>4. 0 \in S
  <2>1. 0 \in 0 .. n /\ 1 .. 0 = {}
    BY <1>1
  <2> QED
    BY <1>3, <2>1, NewKeeps
<1>5. ASSUME NEW i \in 0 .. n, i < n, i \in S
      PROVE  i + 1 \in S
  <2> DEFINE x == lines[i + 1].key
             v == lines[i + 1].value
             m == g[i]
  <2>1. i + 1 \in 1 .. n /\ i + 1 \in 0 .. n /\ (i + 1) - 1 = i
    BY <1>1, <1>5
  <2>2. [key |-> x, value |-> v] \in Pair
    BY <1>2, <2>1
  <2>3. m \in [Slot -> Seq(Pair)] /\ UniqueIn(m) /\ Has(m, i)
    BY <1>5
  <2>4. g[i + 1] = Put(m, x, v)
    BY <1>3, <2>1
  <2> HIDE DEF x, v, m
  <2>5. Put(m, x, v) \in [Slot -> Seq(Pair)] /\ UniqueIn(Put(m, x, v))
    BY <2>2, <2>3, PutKeeps
  <2>6. strmap_exists(Put(m, x, v), x)
    BY <2>2, <2>3, PutOwn
  <2>7. \A k : k # x => (strmap_exists(Put(m, x, v), k) <=> strmap_exists(m, k))
    BY <2>2, <2>3, PutOther
  <2>8. \A j : j \in 1 .. i + 1 <=> j \in 1 .. i \/ j = i + 1
    BY <2>1
  <2>9. Has(Put(m, x, v), i + 1)
    BY <2>3, <2>6, <2>7, <2>8 DEF x
  <2> QED
    BY <2>1, <2>4, <2>5, <2>9
<1> HIDE DEF S
<1>6. \A i \in 0 .. n : i \in S
  BY <1>1, <1>4, <1>5, Climb
<1>7. n \in S
  BY <1>1, <1>6
<1>8. /\ Load(c) \in [Slot -> Seq(Pair)] /\ UniqueIn(Load(c))
      /\ Has(Load(c), n)
  BY <1>3, <1>7 DEF S
<1> QED
  BY <1>8, ConfPairsType

-----------------------------------------------------------------------------
(* The inductive invariant that needs no assumption on the Makefiles.      *)

Checks == ToSet(PostChecks)
Touchable == Pkg \cup UNION {PostChecks[i].touch : i \in DOMAIN PostChecks}

LEMMA PostChecksType ==
  /\ PostChecks \in Seq(Checks) /\ 1 \in DOMAIN PostChecks /\ 11 \in DOMAIN PostChecks
  /\ PostChecks[1] = Same("BUSYBOX", {"busybox"})
  /\ PostChecks[11] = Check("ADK_RUNTIME_INIT_", "ADK_RUNTIME_BASE_", {})
<1>1. \E T : PostChecks \in Seq(T)
  <2> DEFINE T == {PostChecks[i] : i \in 1 .. 13}
  <2>1. PostChecks \in Seq(T) /\ Len(PostChecks) = 13
    BY DEF PostChecks
  <2> QED
    BY <2>1
<1>2. \A i \in DOMAIN PostChecks : PostChecks[i] \in Checks
  BY DEF Checks, ToSet
<1>3. DOMAIN PostChecks = 1 .. 13
  BY DEF PostChecks
<1>4. /\ PostChecks[1] = Same("BUSYBOX", {"busybox"})
      /\ PostChecks[11] = Check("ADK_RUNTIME_INIT_", "ADK_RUNTIME_BASE_", {})
  BY DEF PostChecks
<1>5. PostChecks \in Seq(Checks)
  BY <1>1, <1>2, SeqInto
<1> QED
  BY <1>3, <1>4, <1>5

\* The files and what they are worth.
FilesOK ==
    /\ config = NoFile \/ IsConf(config)
    /\ config_old = NoFile \/ config_old \in Text
    /\ rebuild \subseteq Touchable
    /\ DOMAIN built = Pkg

Control == pc \in Phase /\ IsConf(edit)

Flags ==
    /\ firstrun \in BOOLEAN /\ stale \in BOOLEAN /\ changed \in BOOLEAN /\ rb \in BOOLEAN
    /\ compared \in BOOLEAN /\ lost \in BOOLEAN /\ whole \in BOOLEAN

Counts == edits \in 0 .. MaxEdits /\ saves \in 0 .. MaxSaves /\ crashes \in 0 .. MaxCrashes

\* The maps never have two pairs for a key.
MapsOK ==
    /\ pkgmap \in [Slot -> Seq(PkgPair)] /\ UniqueIn(pkgmap)
    /\ configmap \in [Slot -> Seq(Pair)] /\ UniqueIn(configmap)
    /\ configoldmap \in [Slot -> Seq(Pair)] /\ UniqueIn(configoldmap)

\* todo has what the running loop is about.
TodoOK ==
    /\ pc = "pkgmap" => todo \in Seq(PkgPair) /\ ToSet(todo) \subseteq ToSet(PkgPairs)
    /\ pc \in {"disabled", "enabled"} => todo \in Seq(Pair)
    /\ pc = "shell" => todo \in Seq(Checks)
    /\ pc = "rmflag" => \E p \in Pkg : todo = <<p>> /\ built[p] = NoFile

\* .config is missing only between the two renames of conf_write, or after a crash
\* there.
Present ==
    /\ pc \notin {"idle", "renamed"} => config # NoFile
    /\ pc = "renamed" => config = NoFile
    /\ pc \in {"disabled", "enabled"} => config_old # NoFile

\* A comparison of the shell part that differs is still to come, or has been acted on.
Checked ==
    pc = "shell" =>
        \A n \in DOMAIN PostChecks : Differs(PostChecks[n]) =>
            \/ rb /\ PostChecks[n].touch \subseteq rebuild
            \/ PostChecks[n] \in ToSet(todo)

IInv == FilesOK /\ Control /\ Flags /\ Counts /\ MapsOK /\ TodoOK /\ Present /\ Checked

LEMMA ConfText == \A c : IsConf(c) => c \in Text /\ c # NoFile
  BY RebuildAssumption DEF IsConf

\* What strmap_get takes from pkgmap is a package.
LEMMA PkgmapValue ==
  ASSUME NEW m \in [Slot -> Seq(PkgPair)], UniqueIn(m), NEW k, strmap_exists(m, k)
  PROVE  strmap_get(m, k) \in Pkg
<1>1. PICK r \in ToSet(m[Index(k)]) : r \in PkgPair /\ r.value = strmap_get(m, k)
  BY ExistsPair
<1> QED
  BY <1>1 DEF PkgPair

LEMMA TouchOK == \A c \in Checks : c.touch \subseteq Touchable
<1> SUFFICES ASSUME NEW i \in DOMAIN PostChecks
             PROVE  PostChecks[i].touch \subseteq Touchable
  BY DEF Checks, ToSet
<1> HIDE DEF PostChecks
<1> QED
  BY DEF Touchable

LEMMA InitIInv == Init => IInv
<1> SUFFICES ASSUME Init PROVE IInv
  OBVIOUS
<1>1. FilesOK
  BY DEF Init, FilesOK
<1>2. Control /\ Flags
  BY RebuildAssumption DEF Init, Control, Phase, Flags
<1>5. Counts
  BY RebuildAssumption DEF Init, Counts
<1>3. MapsOK
  BY NewKeeps DEF Init, MapsOK
<1>4. TodoOK /\ Present /\ Checked
  BY DEF Init, TodoOK, Present, Checked
<1> QED
  BY <1>1, <1>2, <1>3, <1>4, <1>5 DEF IInv

\* The inductive invariant holds after every step.
LEMMA NextIInv == IInv /\ [Next]_vars => IInv'
<1> SUFFICES ASSUME IInv, [Next]_vars PROVE IInv'
  OBVIOUS
<1> USE DEF IInv
<1>1. CASE Menuconfig
  <2>1. IsConf(config') /\ config' # NoFile
    BY <1>1, RebuildAssumption, ConfText DEF Menuconfig, FilesOK
  <2>2. FilesOK'
    BY <1>1, <2>1 DEF Menuconfig, FilesOK, ghosts
  <2>3. Control'
    BY <1>1, <2>1 DEF Menuconfig, Control, Phase
  <2>4. Present'
    BY <1>1, <2>1 DEF Menuconfig, Present
  <2>5. Flags' /\ Counts' /\ MapsOK' /\ TodoOK' /\ Checked'
    BY <1>1 DEF Menuconfig, Flags, Counts, MapsOK, TodoOK, Checked, Differs, maps, ghosts,
        bounds
  <2> QED
    BY <2>2, <2>3, <2>4, <2>5
<1>2. CASE SaveOld
  <2>1. FilesOK'
    BY <1>2, ConfText DEF SaveOld, FilesOK, Present
  <2>2. Counts'
    BY <1>2, RebuildAssumption DEF SaveOld, Counts
  <2>3. Control' /\ Flags' /\ MapsOK' /\ TodoOK' /\ Present' /\ Checked'
    BY <1>2 DEF SaveOld, Control, Flags, MapsOK, TodoOK, Present, Checked, Phase, Differs,
        maps
  <2> QED
    BY <2>1, <2>2, <2>3
<1>3. CASE SaveNew
  <2>1. FilesOK'
    BY <1>3 DEF SaveNew, FilesOK, Control, ghosts
  <2>2. Present'
    BY <1>3, ConfText DEF SaveNew, Present, Control
  <2>3. Control' /\ Flags' /\ Counts' /\ MapsOK' /\ TodoOK' /\ Checked'
    BY <1>3 DEF SaveNew, Control, Flags, Counts, MapsOK, TodoOK, Checked, Phase, Differs,
        maps, ghosts, bounds
  <2> QED
    BY <2>1, <2>2, <2>3
<1>4. CASE Exit
  <2>1. Control'
    BY <1>4, RebuildAssumption DEF Exit, Control, Phase
  <2>2. TodoOK'
    BY <1>4, PkgPairsType DEF Exit, TodoOK
  <2>3. FilesOK' /\ Flags' /\ Counts' /\ MapsOK' /\ Present' /\ Checked'
    BY <1>4 DEF Exit, FilesOK, Flags, Counts, MapsOK, Present, Checked, Differs, maps,
        bounds
  <2> QED
    BY <2>1, <2>2, <2>3
<1>5. ASSUME NEW o \in Option, NEW v \in Settings[o], SetOption(o, v)
      PROVE  IInv'
  <2>1. Control'
    <3>1. Settings[o] \subseteq Value \cup {Absent}
      BY RebuildAssumption
    <3>2. IsConf(edit')
      BY <1>5, <3>1 DEF SetOption, Control, IsConf, Text
    <3> QED
      BY <1>5, <3>2 DEF SetOption, Control
  <2>2. Counts'
    BY <1>5, RebuildAssumption DEF SetOption, Counts
  <2>3. FilesOK' /\ Flags' /\ MapsOK' /\ TodoOK' /\ Present' /\ Checked'
    BY <1>5 DEF SetOption, FilesOK, Flags, MapsOK, TodoOK, Present, Checked, Differs,
        files, maps, ghosts
  <2> QED
    BY <2>1, <2>2, <2>3
<1>6. CASE PutPkg
  <2>1. /\ Head(todo) \in PkgPair /\ Tail(todo) \in Seq(PkgPair)
        /\ ToSet(Tail(todo)) \subseteq ToSet(todo)
    BY <1>6, HeadTailElements DEF PutPkg, TodoOK
  <2>2. [key |-> Head(todo).key, value |-> Head(todo).value] \in PkgPair
    BY <2>1 DEF PkgPair
  <2>3. MapsOK'
    <3>1. pkgmap' \in [Slot -> Seq(PkgPair)] /\ UniqueIn(pkgmap')
      BY <1>6, <2>2, PutKeeps DEF PutPkg, MapsOK
    <3> QED
      BY <1>6, <3>1 DEF PutPkg, MapsOK
  <2>4. TodoOK'
    BY <1>6, <2>1 DEF PutPkg, TodoOK
  <2>5. FilesOK' /\ Control' /\ Flags' /\ Counts' /\ Present' /\ Checked'
    BY <1>6 DEF PutPkg, FilesOK, Control, Flags, Counts, Present, Checked, Phase, Differs,
        PostUnchanged, ghosts, bounds
  <2> QED
    BY <2>3, <2>4, <2>5
<1>7. CASE ReadConfigs
  <2>1. config \in Text /\ (config_old # NoFile => config_old \in Text)
    BY <1>7, ConfText DEF ReadConfigs, FilesOK, Present
  <2>2. MapsOK'
    <3>1. configmap' \in [Slot -> Seq(Pair)] /\ UniqueIn(configmap')
      BY <1>7, <2>1, LoadHas DEF ReadConfigs
    <3>2. configoldmap' \in [Slot -> Seq(Pair)] /\ UniqueIn(configoldmap')
      BY <1>7, <2>1, LoadHas DEF ReadConfigs, MapsOK
    <3> QED
      BY <1>7, <3>1, <3>2 DEF ReadConfigs, MapsOK
  <2>3. TodoOK'
    <3>1. pc' = "disabled" => todo' \in Seq(Pair)
      BY <1>7, <2>2, EnumLists DEF ReadConfigs, MapsOK
    <3>2. pc' = "shell" => todo' \in Seq(Checks)
      BY <1>7, PostChecksType DEF ReadConfigs
    <3> QED
      BY <1>7, <3>1, <3>2 DEF ReadConfigs, TodoOK
  <2>4. Checked'
    BY <1>7, PostChecksType DEF ReadConfigs, Checked, Checks, ToSet
  <2>5. FilesOK' /\ Control' /\ Flags' /\ Counts' /\ Present'
    BY <1>7 DEF ReadConfigs, FilesOK, Control, Flags, Counts, Present, Phase,
        PostUnchanged, ghosts, bounds
  <2> QED
    BY <2>2, <2>3, <2>4, <2>5
<1>8. CASE iter_disabled
  <2>1. FilesOK'
    <3>1. PICK i \in DOMAIN todo : /\ strmap_exists(pkgmap, todo[i].key)
                                 /\ rebuild' = rebuild \cup {strmap_get(pkgmap, todo[i].key)}
      BY <1>8 DEF iter_disabled, Touches
    <3>2. strmap_get(pkgmap, todo[i].key) \in Touchable
      BY <3>1, PkgmapValue DEF MapsOK, Touchable
    <3> QED
      BY <1>8, <3>1, <3>2 DEF iter_disabled, FilesOK, PostUnchanged, ghosts
  <2>2. TodoOK'
    BY <1>8, SuffixElements DEF iter_disabled, TodoOK
  <2>3. Control' /\ Flags' /\ Counts' /\ MapsOK' /\ Present' /\ Checked'
    BY <1>8 DEF iter_disabled, Control, Flags, Counts, MapsOK, Present, Checked, Phase,
        Differs, PostUnchanged, ghosts, bounds, maps
  <2> QED
    BY <2>1, <2>2, <2>3
<1>9. CASE EnumConfig
  <2>1. TodoOK'
    <3>1. strmap_enum(configmap) \in Seq(Pair)
      BY EnumLists DEF MapsOK
    <3> QED
      BY <1>9, <3>1 DEF EnumConfig, TodoOK
  <2>2. FilesOK' /\ Control' /\ Flags' /\ Counts' /\ MapsOK' /\ Present' /\ Checked'
    BY <1>9 DEF EnumConfig, FilesOK, Control, Flags, Counts, MapsOK, Present, Checked,
        Phase, Differs, PostUnchanged, ghosts, bounds, maps
  <2> QED
    BY <2>1, <2>2
<1>10. CASE iter_enabled
  <2>1. FilesOK'
    <3>1. PICK i \in DOMAIN todo : /\ strmap_exists(pkgmap, todo[i].key)
                                 /\ rebuild' = rebuild \cup {strmap_get(pkgmap, todo[i].key)}
      BY <1>10 DEF iter_enabled, Touches
    <3>2. strmap_get(pkgmap, todo[i].key) \in Touchable
      BY <3>1, PkgmapValue DEF MapsOK, Touchable
    <3> QED
      BY <1>10, <3>1, <3>2 DEF iter_enabled, FilesOK, PostUnchanged, ghosts
  <2>2. TodoOK'
    BY <1>10, SuffixElements DEF iter_enabled, TodoOK
  <2>3. Control' /\ Flags' /\ Counts' /\ MapsOK' /\ Present' /\ Checked'
    BY <1>10 DEF iter_enabled, Control, Flags, Counts, MapsOK, Present, Checked, Phase,
        Differs, PostUnchanged, ghosts, bounds, maps
  <2> QED
    BY <2>1, <2>2, <2>3
<1>11. CASE PkgrebuildDone
  <2>1. MapsOK'
    BY <1>11, NewKeeps DEF PkgrebuildDone, MapsOK, EmptyMaps
  <2>2. TodoOK'
    BY <1>11, PostChecksType DEF PkgrebuildDone, TodoOK
  <2>3. Checked'
    BY <1>11 DEF PkgrebuildDone, Checked, ToSet
  <2>4. FilesOK' /\ Control' /\ Flags' /\ Counts' /\ Present'
    BY <1>11 DEF PkgrebuildDone, FilesOK, Control, Flags, Counts, Present, Phase,
        PostUnchanged, ghosts, bounds
  <2> QED
    BY <2>1, <2>2, <2>3, <2>4
<1>12. CASE ShellCheck
  <2>1. PICK i \in DOMAIN todo : /\ Differs(todo[i]) /\ \A j \in 1 .. i - 1 : ~Differs(todo[j])
                                /\ rebuild' = rebuild \cup todo[i].touch
                                /\ todo' = SubSeq(todo, i + 1, Len(todo))
    BY <1>12 DEF ShellCheck
  <2>2. todo \in Seq(Checks) /\ todo[i] \in Checks
    BY <1>12, <2>1 DEF ShellCheck, TodoOK
  <2>3. /\ todo' \in Seq(Checks)
        /\ \A j \in DOMAIN todo : j > i => todo[j] \in ToSet(todo')
    BY <2>1, <2>2, SuffixElements
  <2>4. FilesOK'
    BY <1>12, <2>1, <2>2, TouchOK DEF ShellCheck, FilesOK, PostUnchanged, ghosts
  <2>5. TodoOK'
    BY <1>12, <2>3 DEF ShellCheck, TodoOK
  <2>6. Checked'
    <3> SUFFICES ASSUME NEW n \in DOMAIN PostChecks, Differs(PostChecks[n])'
                 PROVE  \/ (rb /\ PostChecks[n].touch \subseteq rebuild)'
                        \/ PostChecks[n] \in ToSet(todo')
      BY <1>12 DEF ShellCheck, Checked
    <3>1. rb' /\ rebuild \subseteq rebuild' /\ todo[i].touch \subseteq rebuild'
      BY <1>12, <2>1 DEF ShellCheck
    <3>2. Differs(PostChecks[n])
      BY <1>12 DEF ShellCheck, PostUnchanged, Differs
    <3>3. CASE PostChecks[n].touch \subseteq rebuild
      BY <3>1, <3>3
    <3>4. CASE PostChecks[n] \in ToSet(todo)
      <4>1. PICK j \in DOMAIN todo : todo[j] = PostChecks[n]
        BY <3>4 DEF ToSet
      <4>2. DOMAIN todo = 1 .. Len(todo) /\ Len(todo) \in Nat
        BY <2>2
      <4>3. j >= i
        BY <2>1, <3>2, <4>1, <4>2
      <4>4. CASE j = i
        BY <3>1, <4>1, <4>4
      <4>5. CASE j > i
        BY <2>3, <4>1, <4>5
      <4> QED
        BY <4>2, <4>3, <4>4, <4>5
    <3> QED
      BY <1>12, <3>2, <3>3, <3>4 DEF ShellCheck, Checked
  <2>7. Control' /\ Flags' /\ Counts' /\ MapsOK' /\ Present'
    BY <1>12 DEF ShellCheck, Control, Flags, Counts, MapsOK, Present, Phase, PostUnchanged,
        ghosts, bounds, maps
  <2> QED
    BY <2>4, <2>5, <2>6, <2>7
<1>13. CASE PostDone
  <2>1. FilesOK'
    BY <1>13, ConfText DEF PostDone, FilesOK
  <2>2. MapsOK'
    BY <1>13, NewKeeps DEF PostDone, MapsOK, EmptyMaps
  <2>3. Control' /\ Flags' /\ Counts' /\ TodoOK' /\ Present' /\ Checked'
    BY <1>13 DEF PostDone, Control, Flags, Counts, TodoOK, Present, Checked, Phase,
        Differs, bounds
  <2> QED
    BY <2>1, <2>2, <2>3
<1>14. CASE DependsOpen
  <2>1. FilesOK' /\ Control' /\ Flags' /\ Counts' /\ MapsOK' /\ TodoOK' /\ Present' /\ Checked'
    BY <1>14 DEF DependsOpen, FilesOK, Control, Flags, Counts, MapsOK, TodoOK, Present,
        Checked, Phase, Differs, maps, bounds
  <2> QED
    BY <2>1
<1>15. CASE DependsWritten
  <2>1. FilesOK' /\ Control' /\ Flags' /\ Counts' /\ MapsOK' /\ TodoOK' /\ Present' /\ Checked'
    BY <1>15 DEF DependsWritten, FilesOK, Control, Flags, Counts, MapsOK, TodoOK, Present,
        Checked, Phase, Differs, maps, bounds
  <2> QED
    BY <2>1
<1>16. ASSUME NEW p \in Pkg, CompileClean(p)
      PROVE  IInv'
  <2>1. TodoOK'
    BY <1>16 DEF CompileClean, TodoOK, FilesOK, Ready
  <2>2. Present'
    BY <1>16 DEF CompileClean, Present, Ready, files
  <2>3. FilesOK' /\ Control' /\ Flags' /\ Counts' /\ MapsOK' /\ Checked'
    BY <1>16 DEF CompileClean, FilesOK, Control, Flags, Counts, MapsOK, Checked, Phase,
        Differs, Ready, files, maps, bounds
  <2> QED
    BY <2>1, <2>2, <2>3
<1>17. ASSUME NEW p \in Pkg, Compile(p)
      PROVE  IInv'
  <2>1. TodoOK'
    BY <1>17 DEF Compile, TodoOK, FilesOK, Ready
  <2>2. FilesOK' /\ Control' /\ Flags' /\ Counts' /\ MapsOK' /\ Present' /\ Checked'
    BY <1>17 DEF Compile, FilesOK, Control, Flags, Counts, MapsOK, Present, Checked, Phase,
        Differs, Ready, files, maps, bounds
  <2> QED
    BY <2>1, <2>2
<1>18. CASE CompileUnflag
  <2>1. FilesOK' /\ Control' /\ Flags' /\ Counts' /\ MapsOK' /\ TodoOK' /\ Present' /\ Checked'
    BY <1>18 DEF CompileUnflag, FilesOK, Control, Flags, Counts, MapsOK, TodoOK, Present,
        Checked, Phase, Differs, maps, ghosts, bounds
  <2> QED
    BY <2>1
<1>19. CASE Cleansystem
  <2>1. FilesOK' /\ Control' /\ Flags' /\ Counts' /\ MapsOK' /\ TodoOK' /\ Present' /\ Checked'
    BY <1>19 DEF Cleansystem, FilesOK, Control, Flags, Counts, MapsOK, TodoOK, Present,
        Checked, Phase, Differs, maps, bounds
  <2> QED
    BY <2>1
<1>20. CASE Crash
  <2>1. FilesOK'
    <3>1. [o \in Option |-> Absent] \in Text
      BY DEF Text
    <3> QED
      BY <1>20, <3>1 DEF Crash, FilesOK, ghosts
  <2>2. Control'
    BY <1>20, RebuildAssumption DEF Crash, Control, Phase
  <2>3. Counts'
    BY <1>20, RebuildAssumption DEF Crash, Counts
  <2>4. MapsOK'
    BY <1>20, NewKeeps DEF Crash, MapsOK, EmptyMaps
  <2>5. Flags' /\ TodoOK' /\ Present' /\ Checked'
    BY <1>20 DEF Crash, Flags, TodoOK, Present, Checked, Differs, ghosts
  <2> QED
    BY <2>1, <2>2, <2>3, <2>4, <2>5
<1>21. CASE UNCHANGED vars
  BY <1>21 DEF FilesOK, Control, Flags, Counts, MapsOK, TodoOK, Present, Checked, Differs,
        vars, files, maps, ghosts, bounds
<1> QED
  BY <1>1, <1>2, <1>3, <1>4, <1>5, <1>6, <1>7, <1>8, <1>9, <1>10, <1>11, <1>12, <1>13, <1>14, <1>15,
     <1>16, <1>17, <1>18, <1>19, <1>20, <1>21 DEF Next

LEMMA RebuildInvariant == Spec => []IInv
  BY InitIInv, NextIInv, PTL DEF Spec

\* The types of Rebuild: among them that every .rebuild file is one of a package or of a
\* name POSTCONFIG has in its text, and that the three maps of pkgrebuild keep the form
\* of strmap.c however many pairs are put.
THEOREM RebuildTypeCorrect == Spec => []TypeOK
<1>1. ASSUME IInv
      PROVE  TypeOK
  <2> USE <1>1 DEF IInv
  <2>1. \A r \in PkgPair : r \in Pair
    BY RebuildAssumption DEF PkgPair, PkgKey, Pair
  <2>2. pkgmap \in [Slot -> Seq(Pair)]
    <3>1. ASSUME NEW t \in Slot
          PROVE  pkgmap[t] \in Seq(Pair)
      <4>1. pkgmap[t] \in Seq(PkgPair)
        BY DEF MapsOK
      <4>2. \A i \in DOMAIN pkgmap[t] : pkgmap[t][i] \in Pair
        BY <2>1, <4>1
      <4> QED
        BY <4>1, <4>2, SeqInto
    <3> QED
      BY <3>1 DEF MapsOK
  <2>3. {pkgmap, configmap, configoldmap} \subseteq [Slot -> Seq(Pair)]
    BY <2>2 DEF MapsOK
  <2>4. {firstrun, stale, changed, rb, compared, lost, whole} \subseteq BOOLEAN
    BY DEF Flags
  <2> QED
    BY <2>3, <2>4 DEF TypeOK, FilesOK, Control, Counts, Touchable
<1> QED
  BY RebuildInvariant, <1>1, PTL

\* At the end of POSTCONFIG with an init system in .config, rebuild=1 was set: the
\* comparison of ADK_RUNTIME_INIT_ with ADK_RUNTIME_BASE_ lines differed.
LEMMA InitSystemSeen ==
  ASSUME IInv, PostDone, Grep("ADK_RUNTIME_INIT_", config) # {}
  PROVE  rb /\ config # NoFile
<1> USE DEF IInv
<1>1. config # NoFile /\ pc = "shell" /\ \A i \in DOMAIN todo : ~Differs(todo[i])
  BY DEF PostDone, Present
<1> DEFINE c == PostChecks[11]
<1>2. 11 \in DOMAIN PostChecks /\ c.new = "ADK_RUNTIME_INIT_" /\ c.old = "ADK_RUNTIME_BASE_"
  BY PostChecksType DEF Check
<1>3. Differs(c)
  <2>1. PICK o \in Option : /\ "ADK_RUNTIME_INIT_" \in Prefix[o]
                            /\ <<o, config[o]>> \in Grep("ADK_RUNTIME_INIT_", config)
    BY <1>1 DEF Grep, Enabled
  <2>2. "ADK_RUNTIME_BASE_" \notin Prefix[o]
    BY <2>1, RebuildAssumption
  <2>3. <<o, config[o]>> \notin Grep("ADK_RUNTIME_BASE_", config_old)
    BY <2>2 DEF Grep
  <2> HIDE DEF c
  <2> QED
    BY <1>2, <2>1, <2>3 DEF Differs
<1>4. c \notin ToSet(todo)
  BY <1>1, <1>3 DEF ToSet
<1> QED
  BY <1>1, <1>2, <1>3, <1>4 DEF Checked

\* After a complete POSTCONFIG with an init system in .config, .config.old has all that
\* the next one follows: a session that saves nothing flags no package again.
THEOREM RebuildFlaggedOnce == Spec => FlaggedOnce
<1>1. ASSUME IInv
      PROVE  PostDone /\ Grep("ADK_RUNTIME_INIT_", config) # {} =>
                 /\ config_old' # NoFile
                 /\ \A p \in Pkg : Followed(p, config_old') = Followed(p, config')
  BY <1>1, InitSystemSeen DEF PostDone
<1> QED
  BY RebuildInvariant, <1>1, PTL DEF FlaggedOnce

-----------------------------------------------------------------------------
(* Depends.mk.                                                             *)

\* A complete Depends.mk that make takes to be up to date was made from the options
\* .config has now.
DependsCurrent ==
    depends # NoFile /\ ~stale /\ whole /\ config # NoFile => depends = Depends(Enabled(config))

LEMMA NextDepends == IInv /\ DependsCurrent /\ [Next]_vars => DependsCurrent'
<1> SUFFICES ASSUME IInv, DependsCurrent, [Next]_vars PROVE DependsCurrent'
  OBVIOUS
<1> USE DEF DependsCurrent
<1>1. CASE Menuconfig
  BY <1>1 DEF Menuconfig, ghosts
<1>2. CASE SaveOld
  BY <1>2 DEF SaveOld
<1>3. CASE SaveNew
  BY <1>3 DEF SaveNew
<1>4. CASE DependsOpen
  BY <1>4 DEF DependsOpen
<1>5. CASE DependsWritten
  BY <1>5 DEF DependsWritten
<1>6. CASE Cleansystem
  BY <1>6 DEF Cleansystem
<1>7. CASE Crash
  BY <1>7 DEF Crash, ghosts
<1>8. CASE UNCHANGED <<depends, stale, whole, config>>
  BY <1>8
<1>9. CASE Exit \/ CompileUnflag \/ PkgrebuildDone \/ PostDone
  BY <1>8, <1>9 DEF Exit, CompileUnflag, PkgrebuildDone, PostDone, PostUnchanged, ghosts
<1>10. CASE PutPkg \/ ReadConfigs \/ iter_disabled \/ EnumConfig \/ iter_enabled \/ ShellCheck
  <2>1. PostUnchanged
    BY <1>10 DEF PutPkg, ReadConfigs, iter_disabled, EnumConfig, iter_enabled, ShellCheck
  <2> QED
    BY <1>8, <2>1 DEF PostUnchanged, ghosts
<1>11. ASSUME NEW o \in Option, NEW v \in Settings[o], SetOption(o, v)
       PROVE  DependsCurrent'
  BY <1>8, <1>11 DEF SetOption, files, ghosts
<1>12. ASSUME NEW p \in Pkg, CompileClean(p) \/ Compile(p)
       PROVE  DependsCurrent'
  BY <1>8, <1>12 DEF CompileClean, Compile, files
<1>13. CASE UNCHANGED vars
  BY <1>8, <1>13 DEF vars, files, ghosts
<1> QED
  BY <1>1, <1>2, <1>3, <1>4, <1>5, <1>6, <1>7, <1>9, <1>10, <1>11, <1>12, <1>13 DEF Next

\* If the Makefiles are orderly, the Depends.mk that make uses has the prerequisites of
\* the present .config, after any edits, builds and crashes, unless depmaker was cut
\* short: what depmaker writes is faithful (DepmakerFaithful), and make world runs it
\* again whenever .config is newer.
THEOREM RebuildDependsFaithful ==
  ASSUME Orderly(Option)
  PROVE  Spec => []DependsFaithful
<1>1. Init => DependsCurrent
  BY DEF Init, DependsCurrent
<1>2. ASSUME IInv, DependsCurrent
      PROVE  DependsFaithful
  <2> SUFFICES ASSUME depends # NoFile, ~stale, whole, config # NoFile
               PROVE  Faithful(depends, Enabled(config))
    BY DEF DependsFaithful
  <2>1. depends = Depends(Enabled(config))
    BY <1>2 DEF DependsCurrent
  <2>2. Enabled(config) \subseteq Option
    BY DEF Enabled
  <2>3. Faithful(Depends(Enabled(config)), Enabled(config))
    BY <2>2, DepmakerFaithful
  <2> QED
    BY <2>1, <2>3
<1> QED
  BY RebuildInvariant, NextDepends, <1>1, <1>2, PTL DEF Spec

-----------------------------------------------------------------------------
(* Builds follow .config.                                                  *)

\* pkgmap leads from every key of a Makefile to its package, or will when the pairs in
\* todo have been put.
PkgMapped ==
    pc \in {"pkgmap", "disabled", "enabled"} =>
        \A p \in Pkg : \A k \in Key : KeyOf(p, k) =>
            \/ pc = "pkgmap" /\ [key |-> k, value |-> p] \in ToSet(todo)
            \/ strmap_exists(pkgmap, k) /\ strmap_get(pkgmap, k) = p

\* The other two maps have the options of the two configurations.
Loaded ==
    pc \in {"disabled", "enabled"} =>
        \A k \in Key : /\ strmap_exists(configmap, k) <=> k \in Lines(config)
                       /\ strmap_exists(configoldmap, k) <=> k \in Lines(config_old)

\* A package with an option that one configuration sets and the other does not is
\* flagged, or the option is still ahead of the enumeration.
Lost(p, from, to) == {k \in Key : KeyOf(p, k) /\ k \in Enabled(from) \ Enabled(to)}
Listed == {todo[i].key : i \in DOMAIN todo}
Compared(p) ==
    p \notin rebuild =>
        /\ pc = "disabled" => Lost(p, config_old, config) \subseteq Listed
        /\ pc = "enabled" => /\ Lost(p, config_old, config) = {}
                             /\ Lost(p, config, config_old) \subseteq Listed
        /\ pc = "shell" /\ config_old # NoFile =>
               Lost(p, config_old, config) = {} /\ Lost(p, config, config_old) = {}

\* What is built, and not flagged, was built from .config, or from a .config.old
\* that POSTCONFIG has yet to compare with it.
Settled(p) ==
    \/ built[p] = NoFile \/ p \in rebuild
    \/ config # NoFile /\ built[p] = Followed(p, config)
Standing(p) ==
    \/ Settled(p)
    \/ ~compared /\ config_old # NoFile /\ built[p] = Followed(p, config_old)

BInv ==
    /\ PkgMapped /\ Loaded
    /\ \A p \in Pkg : Compared(p)
    /\ ~lost => \A p \in Pkg : Standing(p)

LEMMA InitBInv == Init => BInv
  BY DEF Init, BInv, PkgMapped, Loaded, Compared, Standing, Settled

\* pkgrebuild's map of packages.
LEMMA NextPkgMapped ==
  ASSUME Separate, IInv, PkgMapped, [Next]_vars
  PROVE  PkgMapped'
<1> USE DEF IInv
<1>1. CASE pc' \notin {"pkgmap", "disabled", "enabled"}
  BY <1>1 DEF PkgMapped
<1>2. CASE Exit
  <2> SUFFICES ASSUME pc' = "pkgmap", todo' = PkgPairs
               PROVE  PkgMapped'
    BY <1>1, <1>2 DEF Exit
  <2>1. \A p \in Pkg : \A k \in Key : KeyOf(p, k) => [key |-> k, value |-> p] \in ToSet(todo')
    BY PkgPairsType, KeyOfPair
  <2> QED
    BY <2>1 DEF PkgMapped
<1>3. CASE PutPkg
  <2> DEFINE x == Head(todo).key
             v == Head(todo).value
  <2>1. /\ Head(todo) \in PkgPair /\ Head(todo) \in ToSet(PkgPairs)
        /\ ToSet(todo) = {Head(todo)} \cup ToSet(todo')
    BY <1>3, HeadTailElements DEF PutPkg, TodoOK
  <2>2. Head(todo) = [key |-> x, value |-> v] /\ x \in Key /\ v \in Pkg
    BY <2>1 DEF PkgPair, PkgKey
  <2>3. KeyOf(v, x)
    <3>1. PICK q \in Pkg : Head(todo) \in ToSet(PkgKeys[q])
      BY <2>1, PkgPairsType
    <3>2. Head(todo).value = q
      <4>1. Head(todo) \in PairsOf(q)
        BY <3>1, PkgKeysType DEF ToSet
      <4> QED
        BY <4>1 DEF PairsOf
    <3> QED
      BY <2>2, <3>1, <3>2, KeyOfPair
  <2>4. pkgmap' = Put(pkgmap, x, v) /\ pc = "pkgmap" /\ pc' = "pkgmap"
    BY <1>3 DEF PutPkg
  <2>5. [key |-> x, value |-> v] \in PkgPair
    BY <2>1, <2>2
  <2> HIDE DEF x, v
  <2>6. strmap_exists(pkgmap', x) /\ strmap_get(pkgmap', x) = v
    BY <2>4, <2>5, PutOwn DEF MapsOK
  <2>7. ASSUME NEW k, k # x
        PROVE  /\ strmap_exists(pkgmap', k) <=> strmap_exists(pkgmap, k)
               /\ strmap_exists(pkgmap, k) => strmap_get(pkgmap', k) = strmap_get(pkgmap, k)
    <3>1. pkgmap \in [Slot -> Seq(PkgPair)] /\ UniqueIn(pkgmap)
      BY DEF MapsOK
    <3>2. /\ strmap_exists(Put(pkgmap, x, v), k) <=> strmap_exists(pkgmap, k)
          /\ strmap_exists(pkgmap, k) =>
                 strmap_get(Put(pkgmap, x, v), k) = strmap_get(pkgmap, k)
      BY <2>5, <2>7, <3>1, PutOther
    <3> QED
      BY <2>4, <3>2
  <2>8. ASSUME NEW p \in Pkg, NEW k \in Key, KeyOf(p, k)
        PROVE  \/ [key |-> k, value |-> p] \in ToSet(todo')
               \/ strmap_exists(pkgmap', k) /\ strmap_get(pkgmap', k) = p
    <3>1. CASE k = x
      BY <2>2, <2>3, <2>6, <2>8, <3>1 DEF Separate
    <3>2. CASE k # x
      <4>1. [key |-> k, value |-> p] # Head(todo)
        BY <2>2, <3>2
      <4> QED
        BY <2>1, <2>4, <2>7, <2>8, <3>2, <4>1 DEF PkgMapped
    <3> QED
      BY <3>1, <3>2
  <2> QED
    BY <2>4, <2>8 DEF PkgMapped
<1>4. CASE ReadConfigs
  <2>1. ToSet(todo) = {} /\ pkgmap' = pkgmap /\ pc = "pkgmap" /\ pc' # "pkgmap"
    BY <1>4 DEF ReadConfigs, ToSet
  <2> QED
    BY <2>1 DEF PkgMapped
<1>5. CASE iter_disabled \/ EnumConfig \/ iter_enabled
  <2>1. /\ pkgmap' = pkgmap
        /\ pc \in {"disabled", "enabled"} /\ pc' \in {"disabled", "enabled"}
    BY <1>5 DEF iter_disabled, EnumConfig, iter_enabled, maps
  <2> QED
    BY <2>1 DEF PkgMapped
<1>6. CASE UNCHANGED vars
  BY <1>6 DEF PkgMapped, vars, maps
<1>7. CASE \/ Menuconfig \/ SaveOld \/ SaveNew \/ PkgrebuildDone \/ ShellCheck \/ PostDone
           \/ DependsOpen \/ DependsWritten \/ CompileUnflag \/ Cleansystem \/ Crash
  <2>1. pc' \notin {"pkgmap", "disabled", "enabled"}
    BY <1>7 DEF Menuconfig, SaveOld, SaveNew, PkgrebuildDone, ShellCheck, PostDone,
        DependsOpen, DependsWritten, CompileUnflag, Cleansystem, Crash
  <2> QED
    BY <1>1, <2>1
<1>8. ASSUME NEW o \in Option, NEW v \in Settings[o], SetOption(o, v)
      PROVE  PkgMapped'
  BY <1>1, <1>8 DEF SetOption
<1>9. ASSUME NEW p \in Pkg, CompileClean(p) \/ Compile(p)
      PROVE  PkgMapped'
  BY <1>1, <1>9 DEF CompileClean, Compile, Ready
<1> QED
  BY <1>2, <1>3, <1>4, <1>5, <1>6, <1>7, <1>8, <1>9 DEF Next

\* pkgrebuild's maps of the two configurations.
LEMMA NextLoaded ==
  ASSUME IInv, Loaded, [Next]_vars
  PROVE  Loaded'
<1> USE DEF IInv
<1>1. CASE pc' \notin {"disabled", "enabled"}
  BY <1>1 DEF Loaded
<1>2. CASE ReadConfigs
  <2> SUFFICES ASSUME pc' = "disabled"
               PROVE  Loaded'
    BY <1>1, <1>2 DEF ReadConfigs
  <2>1. config' = config /\ config_old' = config_old /\ config \in Text /\ config_old \in Text
    BY <1>2, ConfText DEF ReadConfigs, PostUnchanged, FilesOK, Present
  <2>2. configmap' = Load(config) /\ configoldmap' = Load(config_old)
    BY <1>2 DEF ReadConfigs
  <2> QED
    BY <2>1, <2>2, LoadHas DEF Loaded
<1>3. CASE iter_disabled \/ EnumConfig \/ iter_enabled
  <2>1. /\ configmap' = configmap /\ configoldmap' = configoldmap
        /\ config' = config /\ config_old' = config_old
        /\ pc \in {"disabled", "enabled"}
    BY <1>3 DEF iter_disabled, EnumConfig, iter_enabled, maps, PostUnchanged
  <2> QED
    BY <2>1 DEF Loaded
<1>4. CASE UNCHANGED vars
  BY <1>4 DEF Loaded, vars, maps, files
<1>5. CASE \/ Menuconfig \/ SaveOld \/ SaveNew \/ Exit \/ PutPkg \/ PkgrebuildDone \/ ShellCheck
           \/ PostDone \/ DependsOpen \/ DependsWritten \/ CompileUnflag \/ Cleansystem \/ Crash
  <2>1. pc' \notin {"disabled", "enabled"}
    BY <1>5 DEF Menuconfig, SaveOld, SaveNew, Exit, PutPkg, PkgrebuildDone, ShellCheck,
        PostDone, DependsOpen, DependsWritten, CompileUnflag, Cleansystem, Crash
  <2> QED
    BY <1>1, <2>1
<1>6. ASSUME NEW o \in Option, NEW v \in Settings[o], SetOption(o, v)
      PROVE  Loaded'
  BY <1>1, <1>6 DEF SetOption
<1>7. ASSUME NEW p \in Pkg, CompileClean(p) \/ Compile(p)
      PROVE  Loaded'
  BY <1>1, <1>7 DEF CompileClean, Compile, Ready
<1> QED
  BY <1>2, <1>3, <1>4, <1>5, <1>6, <1>7 DEF Next

\* A key that was ahead of the enumeration and that the callback would touch is still
\* ahead after the next touch, unless it was for the same package.
LEMMA StillListed ==
  ASSUME NEW s \in Seq(Pair), NEW i \in DOMAIN s, NEW m, NEW k,
         \A j \in 1 .. i - 1 : ~Touches(m, s[j].key),
         Touches(m, k), k \in {s[j].key : j \in DOMAIN s}, k # s[i].key
  PROVE  k \in {SubSeq(s, i + 1, Len(s))[j].key : j \in DOMAIN SubSeq(s, i + 1, Len(s))}
<1> DEFINE t == SubSeq(s, i + 1, Len(s))
<1>1. PICK j \in DOMAIN s : s[j].key = k
  OBVIOUS
<1>2. DOMAIN s = 1 .. Len(s) /\ Len(s) \in Nat
  OBVIOUS
<1>3. j > i
  BY <1>1, <1>2
<1>4. s[j] \in ToSet(t)
  BY <1>3, SuffixElements
<1> HIDE DEF t
<1>5. k \in {t[n].key : n \in DOMAIN t}
  BY <1>1, <1>4 DEF ToSet
<1> QED
  BY <1>5 DEF t

\* The options that make the difference are in the map of one configuration, not in
\* that of the other, and lead to their package.
LEMMA LostTouches ==
  ASSUME PkgMapped, Loaded, pc \in {"disabled", "enabled"}, NEW p \in Pkg
  PROVE  /\ \A k \in Lost(p, config_old, config) :
                /\ Touches(configmap, k) /\ strmap_get(pkgmap, k) = p
                /\ strmap_exists(configoldmap, k)
         /\ \A k \in Lost(p, config, config_old) :
                /\ Touches(configoldmap, k) /\ strmap_get(pkgmap, k) = p
                /\ strmap_exists(configmap, k)
<1>1. \A c, d : \A k \in Lost(p, c, d) :
         /\ k \in Key /\ KeyOf(p, k)
         /\ k \in Lines(c) /\ k \notin Lines(d)
  BY KeyOfType DEF Lost, Lines
<1>2. \A k \in Key : KeyOf(p, k) => strmap_exists(pkgmap, k) /\ strmap_get(pkgmap, k) = p
  BY DEF PkgMapped
<1> QED
  BY <1>1, <1>2 DEF Loaded, Touches

LEMMA NextCompared ==
  ASSUME IInv, PkgMapped, Loaded, [Next]_vars, NEW p \in Pkg, Compared(p)
  PROVE  Compared(p)'
<1> USE DEF IInv
<1>1. CASE pc' \notin {"disabled", "enabled", "shell"}
  BY <1>1 DEF Compared
<1>2. CASE ReadConfigs
  <2>1. config' = config /\ config_old' = config_old /\ (config_old # NoFile => config_old \in Text)
    BY <1>2 DEF ReadConfigs, PostUnchanged, FilesOK
  <2>2. CASE config_old = NoFile
    BY <1>2, <2>1, <2>2 DEF ReadConfigs, Compared
  <2>3. CASE config_old # NoFile
    <3>1. pc' = "disabled" /\ configoldmap' = Load(config_old) /\ todo' = strmap_enum(configoldmap')
      BY <1>2, <2>3 DEF ReadConfigs
    <3>2. ASSUME NEW k \in Lost(p, config_old, config)
          PROVE  k \in Listed'
      <4>1. k \in Lines(config_old)
        BY KeyOfType DEF Lost, Lines
      <4>2. /\ configoldmap' \in [Slot -> Seq(Pair)] /\ UniqueIn(configoldmap')
            /\ strmap_exists(configoldmap', k)
        BY <2>1, <2>3, <3>1, <4>1, LoadHas
      <4>3. \E i \in DOMAIN todo' : todo'[i].key = k
        BY <3>1, <4>2, EnumLists
      <4> QED
        BY <4>3 DEF Listed
    <3> QED
      BY <2>1, <3>1, <3>2 DEF Compared
  <2> QED
    BY <2>2, <2>3
<1>3. CASE iter_disabled
  <2>1. PICK i \in DOMAIN todo :
           /\ \A j \in 1 .. i - 1 : ~Touches(configmap, todo[j].key)
           /\ rebuild' = rebuild \cup {strmap_get(pkgmap, todo[i].key)}
           /\ todo' = SubSeq(todo, i + 1, Len(todo))
    BY <1>3 DEF iter_disabled
  <2>2. /\ pc = "disabled" /\ pc' = "disabled" /\ config' = config /\ config_old' = config_old
        /\ todo \in Seq(Pair)
    BY <1>3 DEF iter_disabled, PostUnchanged, TodoOK
  <2>3. ASSUME p \notin rebuild', NEW k \in Lost(p, config_old, config)
        PROVE  k \in Listed'
    <3>1. k \in Listed /\ Touches(configmap, k) /\ strmap_get(pkgmap, k) = p
      BY <2>1, <2>2, <2>3, LostTouches DEF Compared
    <3>2. k # todo[i].key
      BY <2>1, <2>3, <3>1
    <3> QED
      BY <2>1, <2>2, <3>1, <3>2, StillListed DEF Listed
  <2> QED
    BY <2>2, <2>3 DEF Compared
<1>4. CASE EnumConfig
  <2>1. /\ pc = "disabled" /\ pc' = "enabled" /\ config' = config /\ config_old' = config_old
        /\ rebuild' = rebuild /\ todo' = strmap_enum(configmap)
        /\ \A i \in DOMAIN todo : ~Touches(configmap, todo[i].key)
    BY <1>4 DEF EnumConfig, PostUnchanged
  <2>2. ASSUME p \notin rebuild, NEW k \in Lost(p, config_old, config)
        PROVE  FALSE
    <3>1. k \in Listed /\ Touches(configmap, k)
      BY <2>1, <2>2, LostTouches DEF Compared
    <3> QED
      BY <2>1, <3>1 DEF Listed
  <2>3. ASSUME NEW k \in Lost(p, config, config_old)
        PROVE  k \in Listed'
    <3>1. strmap_exists(configmap, k)
      BY <2>1, LostTouches
    <3>2. \E i \in DOMAIN todo' : todo'[i].key = k
      BY <2>1, <3>1, EnumLists DEF MapsOK
    <3> QED
      BY <3>2 DEF Listed
  <2> QED
    BY <2>1, <2>2, <2>3 DEF Compared
<1>5. CASE iter_enabled
  <2>1. PICK i \in DOMAIN todo :
           /\ \A j \in 1 .. i - 1 : ~Touches(configoldmap, todo[j].key)
           /\ rebuild' = rebuild \cup {strmap_get(pkgmap, todo[i].key)}
           /\ todo' = SubSeq(todo, i + 1, Len(todo))
    BY <1>5 DEF iter_enabled
  <2>2. /\ pc = "enabled" /\ pc' = "enabled" /\ config' = config /\ config_old' = config_old
        /\ todo \in Seq(Pair)
    BY <1>5 DEF iter_enabled, PostUnchanged, TodoOK
  <2>3. ASSUME p \notin rebuild', NEW k \in Lost(p, config, config_old)
        PROVE  k \in Listed'
    <3>1. k \in Listed /\ Touches(configoldmap, k) /\ strmap_get(pkgmap, k) = p
      BY <2>1, <2>2, <2>3, LostTouches DEF Compared
    <3>2. k # todo[i].key
      BY <2>1, <2>3, <3>1
    <3> QED
      BY <2>1, <2>2, <3>1, <3>2, StillListed DEF Listed
  <2>4. p \notin rebuild' => Lost(p, config_old, config) = {}
    BY <2>1, <2>2 DEF Compared
  <2> QED
    BY <2>2, <2>3, <2>4 DEF Compared
<1>6. CASE PkgrebuildDone
  <2>1. /\ pc = "enabled" /\ pc' = "shell" /\ config' = config /\ config_old' = config_old
        /\ rebuild' = rebuild
        /\ \A i \in DOMAIN todo : ~Touches(configoldmap, todo[i].key)
    BY <1>6 DEF PkgrebuildDone, PostUnchanged
  <2>2. ASSUME p \notin rebuild, NEW k \in Lost(p, config, config_old)
        PROVE  FALSE
    <3>1. k \in Listed /\ Touches(configoldmap, k)
      BY <2>1, <2>2, LostTouches DEF Compared
    <3> QED
      BY <2>1, <3>1 DEF Listed
  <2> QED
    BY <2>1, <2>2 DEF Compared
<1>7. CASE ShellCheck
  <2>1. /\ pc = "shell" /\ pc' = "shell" /\ config' = config /\ config_old' = config_old
        /\ rebuild \subseteq rebuild'
    BY <1>7 DEF ShellCheck, PostUnchanged
  <2> QED
    BY <2>1 DEF Compared
<1>8. CASE UNCHANGED vars
  BY <1>8 DEF Compared, Listed, vars, files
<1>9. CASE \/ Menuconfig \/ SaveOld \/ SaveNew \/ Exit \/ PutPkg \/ PostDone
           \/ DependsOpen \/ DependsWritten \/ CompileUnflag \/ Cleansystem \/ Crash
  <2>1. pc' \notin {"disabled", "enabled", "shell"}
    BY <1>9 DEF Menuconfig, SaveOld, SaveNew, Exit, PutPkg, PostDone, DependsOpen,
        DependsWritten, CompileUnflag, Cleansystem, Crash
  <2> QED
    BY <1>1, <2>1
<1>10. ASSUME NEW o \in Option, NEW v \in Settings[o], SetOption(o, v)
       PROVE  Compared(p)'
  BY <1>1, <1>10 DEF SetOption
<1>11. ASSUME NEW q \in Pkg, CompileClean(q) \/ Compile(q)
       PROVE  Compared(p)'
  BY <1>1, <1>11 DEF CompileClean, Compile, Ready
<1> QED
  BY <1>2, <1>3, <1>4, <1>5, <1>6, <1>7, <1>8, <1>9, <1>10, <1>11 DEF Next

\* At the end of POSTCONFIG a package is flagged, or .config and .config.old agree in
\* all it follows.
LEMMA PostSettles ==
  ASSUME IInv, NEW p \in Pkg, Compared(p), Standing(p),
         pc = "shell", \A i \in DOMAIN todo : ~Differs(todo[i])
  PROVE  Settled(p)
<1> USE DEF IInv
<1> SUFFICES ASSUME p \notin rebuild, config_old # NoFile
             PROVE  Followed(p, config) = Followed(p, config_old)
  BY DEF Standing, Settled, Present
<1>1. \A c : \A o : o \in {x \in Enabled(c) : KeyOf(p, x)} => o \in Key
  BY KeyOfType
<1>2. Lost(p, config_old, config) = {} /\ Lost(p, config, config_old) = {}
  BY DEF Compared
<1>3. {x \in Enabled(config) : KeyOf(p, x)} = {x \in Enabled(config_old) : KeyOf(p, x)}
  BY <1>1, <1>2 DEF Lost
<1>4. p = "busybox" => Grep("BUSYBOX", config) = Grep("BUSYBOX", config_old)
  <2> DEFINE c == PostChecks[1]
  <2>1. 1 \in DOMAIN PostChecks /\ c.new = "BUSYBOX" /\ c.old = "BUSYBOX" /\ c.touch = {"busybox"}
    BY PostChecksType DEF Same, Check
  <2>2. Differs(c) => c \notin ToSet(todo)
    BY DEF ToSet
  <2>3. Differs(c) => c.touch \subseteq rebuild
    BY <2>1, <2>2 DEF Checked
  <2> HIDE DEF c
  <2> QED
    BY <2>1, <2>3 DEF Differs
<1> QED
  BY <1>3, <1>4 DEF Followed, KeyOf

LEMMA NextStanding ==
  ASSUME IInv, [Next]_vars, NEW p \in Pkg, Compared(p), ~lost => Standing(p), ~lost'
  PROVE  Standing(p)'
<1> USE DEF IInv
\* A step that changes none of the files and forgets no .rebuild file.
<1>1. ASSUME config' = config, config_old' = config_old, built' = built,
             compared' = compared, lost' = lost, rebuild \subseteq rebuild'
      PROVE  Standing(p)'
  BY <1>1 DEF Standing, Settled
<1>2. CASE Menuconfig
  BY <1>2 DEF Menuconfig, Standing, Settled, ghosts
<1>3. CASE SaveOld
  <2>1. ~lost /\ compared /\ Standing(p)
    BY <1>3 DEF SaveOld, Flags
  <2>2. Settled(p) /\ config # NoFile
    BY <1>3, <2>1 DEF SaveOld, Standing, Present
  <2>3. /\ config_old' = config /\ compared' = FALSE /\ built' = built /\ rebuild' = rebuild
    BY <1>3 DEF SaveOld
  <2> QED
    BY <2>2, <2>3 DEF Standing, Settled
<1>4. CASE SaveNew
  BY <1>4 DEF SaveNew, Standing, Settled, Present, ghosts
<1>5. CASE Exit
  <2>1. CASE compared' = compared
    BY <1>1, <1>5, <2>1 DEF Exit
  <2>2. CASE compared' # compared
    <3>1. \A q \in Pkg : built[q] = NoFile
      BY <1>5, <2>2 DEF Exit, Flags
    <3>2. built'[p] = NoFile
      BY <1>5, <3>1 DEF Exit
    <3> QED
      BY <3>2 DEF Standing, Settled
  <2> QED
    BY <2>1, <2>2
<1>6. CASE PostDone
  <2>1. Settled(p)
    BY <1>6, PostSettles DEF PostDone
  <2>2. config' = config /\ built' = built /\ rebuild' = rebuild
    BY <1>6 DEF PostDone
  <2> QED
    BY <2>1, <2>2 DEF Standing, Settled
<1>7. CASE Crash
  <2>1. /\ config' = config /\ built' = built /\ rebuild' = rebuild /\ compared' = compared
        /\ lost' = lost
    BY <1>7 DEF Crash, ghosts
  <2>2. CASE config_old' = config_old
    BY <1>1, <2>1, <2>2
  <2>3. CASE config_old' # config_old
    <3>1. Settled(p)
      BY <1>7, <2>1, <2>3, PostSettles DEF Crash
    <3> QED
      BY <2>1, <3>1 DEF Standing, Settled
  <2> QED
    BY <2>2, <2>3
<1>8. CASE CompileUnflag
  <2>1. PICK q \in Pkg : todo = <<q>> /\ built[q] = NoFile
    BY <1>8 DEF CompileUnflag, TodoOK
  <2>2. rebuild' = rebuild \ {q}
    BY <1>8, <2>1 DEF CompileUnflag
  <2>3. /\ config' = config /\ config_old' = config_old /\ built' = built
        /\ compared' = compared /\ lost' = lost
    BY <1>8 DEF CompileUnflag, ghosts
  <2> QED
    BY <2>1, <2>2, <2>3 DEF Standing, Settled
<1>9. ASSUME NEW q \in Pkg, CompileClean(q)
      PROVE  Standing(p)'
  <2>1. /\ config' = config /\ config_old' = config_old /\ rebuild' = rebuild
        /\ compared' = compared /\ lost' = lost
        /\ built' = [built EXCEPT ![q] = NoFile]
    BY <1>9 DEF CompileClean, files
  <2>2. built'[p] = NoFile \/ built'[p] = built[p]
    BY <2>1 DEF FilesOK
  <2> QED
    BY <2>1, <2>2 DEF Standing, Settled
<1>10. ASSUME NEW q \in Pkg, Compile(q)
       PROVE  Standing(p)'
  <2>1. /\ config' = config /\ config_old' = config_old /\ rebuild' = rebuild
        /\ compared' = compared /\ lost' = lost /\ config # NoFile
        /\ built' = [built EXCEPT ![q] = Followed(q, config)]
    BY <1>10 DEF Compile, files, Ready
  <2>2. built'[p] = (IF p = q THEN Followed(q, config) ELSE built[p])
    BY <2>1 DEF FilesOK
  <2> QED
    BY <2>1, <2>2 DEF Standing, Settled
<1>11. CASE Cleansystem
  <2>1. built'[p] = NoFile
    BY <1>11 DEF Cleansystem
  <2> QED
    BY <2>1 DEF Standing, Settled
<1>12. ASSUME NEW o \in Option, NEW v \in Settings[o], SetOption(o, v)
       PROVE  Standing(p)'
  BY <1>1, <1>12 DEF SetOption, files, ghosts
<1>13. CASE PutPkg \/ ReadConfigs \/ iter_disabled \/ EnumConfig \/ iter_enabled
            \/ PkgrebuildDone \/ ShellCheck
  <2>1. PostUnchanged /\ rebuild \subseteq rebuild'
    BY <1>13 DEF PutPkg, ReadConfigs, iter_disabled, EnumConfig, iter_enabled,
        PkgrebuildDone, ShellCheck
  <2> QED
    BY <1>1, <2>1 DEF PostUnchanged, ghosts
<1>14. CASE DependsOpen \/ DependsWritten
  BY <1>1, <1>14 DEF DependsOpen, DependsWritten
<1>15. CASE UNCHANGED vars
  BY <1>1, <1>15 DEF vars, files, ghosts
<1> QED
  BY <1>2, <1>3, <1>4, <1>5, <1>6, <1>7, <1>8, <1>9, <1>10, <1>11, <1>12, <1>13, <1>14, <1>15
     DEF Next

\* If no two packages share a key, a complete POSTCONFIG leaves every package built from
\* the present .config, flagged or not built, whatever edits, saves, builds and crashes
\* came before, as long as no .config was replaced before it was compared.
THEOREM RebuildBuildsCurrent ==
  ASSUME Separate
  PROVE  Spec => []BuildsCurrent
<1>1. IInv /\ BInv /\ [Next]_vars => BInv'
  <2> SUFFICES ASSUME IInv, BInv, [Next]_vars PROVE BInv'
    OBVIOUS
  <2>1. PkgMapped' /\ Loaded'
    BY NextPkgMapped, NextLoaded DEF BInv
  <2>2. \A p \in Pkg : Compared(p)'
    BY NextCompared DEF BInv
  <2>3. ASSUME ~lost', NEW p \in Pkg
        PROVE  Standing(p)'
    BY <2>3, NextStanding DEF BInv
  <2> QED
    BY <2>1, <2>2, <2>3 DEF BInv
<1>2. BInv => BuildsCurrent
  BY DEF BInv, BuildsCurrent, Standing, Settled
<1> QED
  BY RebuildInvariant, InitBInv, <1>1, <1>2, PTL DEF Spec

-----------------------------------------------------------------------------
(* pkgmap implements the association of strmap.h.                          *)

\* The operations of the instance P are those of StrMap.
LEMMA SameMap ==
  /\ \A m, k : P!strmap_exists(m, k) <=> strmap_exists(m, k)
  /\ \A m, k : P!strmap_get(m, k) = strmap_get(m, k)
<1>1. \A b, k : P!get_pair(b, k) = get_pair(b, k)
  BY DEF P!get_pair, get_pair
<1>2. \A k : P!Index(k) = Index(k)
  BY DEF P!Index, Index, P!Hash, Hash
<1> QED
  BY <1>1, <1>2 DEF P!strmap_exists, strmap_exists, P!strmap_get, strmap_get

LEMMA NewAssociations == P!Associations(strmap_new) = P!A!Empty
  BY SameMap, NewKeeps DEF P!Associations, P!A!Empty

LEMMA PutAssociations ==
  ASSUME NEW m \in [Slot -> Seq(PkgPair)], UniqueIn(m), NEW k \in PkgKey, NEW v \in Pkg
  PROVE  P!Associations(Put(m, k, v)) = P!A!Override(P!Associations(m), k, v)
<1> DEFINE D == {x \in PkgKey : strmap_exists(m, x)}
           E == {x \in PkgKey : strmap_exists(Put(m, k, v), x)}
<1>1. [key |-> k, value |-> v] \in PkgPair
  BY DEF PkgPair
<1>2. strmap_exists(Put(m, k, v), k) /\ strmap_get(Put(m, k, v), k) = v
  BY <1>1, PutOwn
<1>3. ASSUME NEW x, x # k
      PROVE  /\ strmap_exists(Put(m, k, v), x) <=> strmap_exists(m, x)
             /\ strmap_exists(m, x) => strmap_get(Put(m, k, v), x) = strmap_get(m, x)
  BY <1>1, <1>3, PutOther
<1>4. E = D \cup {k}
  BY <1>2, <1>3
<1>5. \A n : P!Associations(n) = [x \in {y \in PkgKey : strmap_exists(n, y)} |-> strmap_get(n, x)]
  BY SameMap DEF P!Associations, PkgKey
<1>6. DOMAIN P!Associations(m) = D /\ \A x \in D : P!Associations(m)[x] = strmap_get(m, x)
  BY <1>5
<1>7. \A x \in D \cup {k} : strmap_get(Put(m, k, v), x) =
                             IF x = k THEN v ELSE P!Associations(m)[x]
  BY <1>2, <1>3, <1>6
<1>8. P!Associations(Put(m, k, v)) = [x \in E |-> strmap_get(Put(m, k, v), x)]
  BY <1>5
<1> HIDE DEF D, E
<1> QED
  BY <1>4, <1>6, <1>7, <1>8 DEF P!A!Override

\* The map pkgrebuild fills from the Makefiles is an association from options to
\* packages: a put changes the value of its key and of no other, and a process that is
\* killed, or ends, leaves nothing to the next.
THEOREM RebuildPkgMapImplements == Spec => PkgMapImplements
<1>1. Init => P!A!Init
  BY NewAssociations DEF Init, P!A!Init
<1>2. IInv /\ [Next]_vars => [P!A!Next]_(P!Associations(pkgmap))
  <2> SUFFICES ASSUME IInv, [Next]_vars
               PROVE  P!A!Next \/ P!Associations(pkgmap)' = P!Associations(pkgmap)
    OBVIOUS
  <2>1. CASE pkgmap' = pkgmap
    BY <2>1 DEF P!Associations, P!strmap_exists, P!strmap_get
  <2>2. CASE EmptyMaps
    BY <2>2, NewAssociations DEF EmptyMaps, P!A!Next, P!A!Renew
  <2>3. CASE PutPkg
    <3>1. Head(todo) \in PkgPair
      BY <2>3, HeadTailElements DEF PutPkg, IInv, TodoOK
    <3>2. Head(todo).key \in PkgKey /\ Head(todo).value \in Pkg
      BY <3>1 DEF PkgPair
    <3>3. P!Associations(pkgmap)' =
             P!A!Override(P!Associations(pkgmap), Head(todo).key, Head(todo).value)
      BY <2>3, <3>2, PutAssociations DEF PutPkg, IInv, MapsOK
    <3> QED
      BY <3>2, <3>3 DEF P!A!Next, P!A!Associate, PkgKey
  <2>4. CASE PkgrebuildDone \/ PostDone \/ Crash
    BY <2>2, <2>4 DEF PkgrebuildDone, PostDone, Crash
  <2>5. CASE \/ Menuconfig \/ SaveOld \/ SaveNew \/ Exit \/ ReadConfigs \/ iter_disabled
             \/ EnumConfig \/ iter_enabled \/ ShellCheck \/ DependsOpen \/ DependsWritten
             \/ CompileUnflag \/ Cleansystem
    BY <2>1, <2>5 DEF Menuconfig, SaveOld, SaveNew, Exit, ReadConfigs, iter_disabled,
        EnumConfig, iter_enabled, ShellCheck, DependsOpen, DependsWritten, CompileUnflag,
        Cleansystem, maps
  <2>6. ASSUME NEW o \in Option, NEW v \in Settings[o], SetOption(o, v)
        PROVE  pkgmap' = pkgmap
    BY <2>6 DEF SetOption, maps
  <2>7. ASSUME NEW p \in Pkg, CompileClean(p) \/ Compile(p)
        PROVE  pkgmap' = pkgmap
    BY <2>7 DEF CompileClean, Compile, maps
  <2>8. CASE UNCHANGED vars
    BY <2>1, <2>8 DEF vars, maps
  <2> QED
    BY <2>1, <2>3, <2>4, <2>5, <2>6, <2>7, <2>8 DEF Next
<1> QED
  BY RebuildInvariant, <1>1, <1>2, PTL DEF Spec, PkgMapImplements, P!Implements, P!A!Spec

=============================================================================
