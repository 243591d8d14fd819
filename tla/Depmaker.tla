------------------------------ MODULE Depmaker ------------------------------
(***************************************************************************)
(* adk/tools/depmaker.c: from the package Makefiles and .config to the     *)
(* dependencies of package/Depends.mk.                                     *)
(*                                                                         *)
(* A Makefile is the sequence of its lines that the tools look at.  A line *)
(* has the variable it sets (var), the part of the variable's name that    *)
(* varies (sub) and the words of its value (words):                        *)
(*    SUBPKGS             words: names of binary packages                  *)
(*    FLAVOURS, CHOICES   sub: a binary package, words: its flavours       *)
(*    FLAVOURS+           more flavours of it, given with += and not :=    *)
(*    FLAVOURS_STRING     the same, for flavours with a string value       *)
(*    BUILDDEP            words: packages                                  *)
(*    BUILDDEP_           sub: a libc or a system, words: packages         *)
(*    FB, CB, SB          sub: a flavour, choice or binary package         *)
(*    HOST_BUILDDEP       words: host packages                             *)
(* A name in sub, and an option of .config, is the sequence of its parts:  *)
(* <<"PACKAGE", p, f>> is ADK_PACKAGE_p_f.                                 *)
(* The lines package-$(ADK_COMPILE_p) += p are left out: depmaker prints   *)
(* them for every package but the C libraries, whatever the options are.   *)
(***************************************************************************)
EXTENDS Naturals, SequencesExt

CONSTANTS Pkg,          \* the directories of package/
          Makefile,     \* [Pkg -> sequence of lines]
          Libc,         \* the names that parse as a libc: UCLIBC_NG*, MUSL*
          OptionalTool  \* the host tools built only on request: bc, xz, sed ...

MakeLine == [var : STRING, sub : Seq(STRING), words : Seq(STRING)]

ASSUME MakefileAssumption == IsFiniteSet(Pkg) /\ Makefile \in [Pkg -> Seq(MakeLine)]

\* PKG_FLAVOURS_STRING_x is taken for PKG_FLAVOURS_ of a package STRING_x.
StringOf(sub) == <<"STRING">> \o sub
Package(sub) == <<"PACKAGE">> \o sub

\* What a run carries from line to line: the package of the last PKG_FLAVOURS_ and
\* PKG_CHOICES_ line, also from one Makefile to the next (a NULL is printed as "(null)");
\* for one Makefile whether the target has been written in front of the dependencies
\* (prefix), and the words so far.  A word knows whether the target is written in front
\* of it.
Start == [fpkg |-> <<"(null)">>, cpkg |-> <<"(null)">>, prefix |-> FALSE, hprefix |-> FALSE,
          deps |-> << >>, hdeps |-> << >>]
Fresh(st) == [Start EXCEPT !.fpkg = st.fpkg, !.cpkg = st.cpkg]

\* The loop over the words in parse_line(): it writes the target before the first
\* word and never again, whatever becomes of the text.
Words(prefix, words) ==
    [i \in DOMAIN words |-> [target |-> ~prefix /\ i = 1, dep |-> words[i]]]

\* parse_line() with checksym 1, or 0 for an option that needs no check.
Conditional(st, set, words) ==
    IF set THEN [st EXCEPT !.deps = @ \o Words(st.prefix, words),
                           !.prefix = @ \/ words # << >>]
           ELSE st

\* The prefix is set for a line that is given up, too.
HostLineSticky(st, conf, words) ==
    LET bad == {i \in DOMAIN words :
                  words[i] \in OptionalTool /\ <<"HOST_BUILD", words[i]>> \notin conf}
    IN  IF bad = {}
        THEN [st EXCEPT !.hdeps = @ \o Words(st.hprefix, words),
                        !.hprefix = @ \/ words # << >>]
        ELSE [st EXCEPT !.hprefix = TRUE]

\* parse_line() with checksym 2: an optional tool that is not to be built gives up
\* the whole line, after the words before it have set the prefix.
HostLine(st, conf, words) ==
    LET missing(i) == words[i] \in OptionalTool /\ <<"HOST_BUILD", words[i]>> \notin conf
        bad == {i \in DOMAIN words : missing(i)}
    IN  IF bad = {}
        THEN [st EXCEPT !.hdeps = @ \o Words(st.hprefix, words),
                        !.hprefix = @ \/ words # << >>]
        ELSE [st EXCEPT !.hprefix = @ \/ 1 \notin bad]

\* One turn of the loop over the lines in main(); conf is the set of options that
\* have a line "option=" in .config (check_symbol).  A line FLAVOURS+ has no := and
\* changes nothing.
Line(st, l, conf) ==
    CASE l.var = "BUILDDEP" -> Conditional(st, TRUE, l.words)
      [] l.var = "BUILDDEP_" ->
             Conditional(st, <<IF l.sub \in Libc THEN "LIB" ELSE "SYSTEM">> \o l.sub \in conf,
                         l.words)
      [] l.var = "FLAVOURS" -> [st EXCEPT !.fpkg = l.sub]
      [] l.var = "FLAVOURS_STRING" -> [st EXCEPT !.fpkg = StringOf(l.sub)]
      [] l.var = "CHOICES" -> [st EXCEPT !.cpkg = l.sub]
      [] l.var = "FB" -> Conditional(st, Package(st.fpkg \o l.sub) \in conf, l.words)
      [] l.var = "CB" -> Conditional(st, Package(st.cpkg \o l.sub) \in conf, l.words)
      [] l.var = "SB" -> Conditional(st, Package(l.sub) \in conf, l.words)
      [] l.var = "HOST_BUILDDEP" -> HostLine(st, conf, l.words)
      [] OTHER -> st

\* One turn of the loop over package/: the Makefile of p.
Parsed(st, p, conf) ==
    LET upto[i \in 0 .. Len(Makefile[p])] ==
            IF i = 0 THEN Fresh(st) ELSE Line(upto[i - 1], Makefile[p][i], conf)
    IN  upto[Len(Makefile[p])]

\* What main() prints: for each package its rule and that of its host package.  The
\* packages come in the order readdir() happens to give them.
Depends(conf) ==
    LET pkgs == SetToSeq(Pkg)
        upto[i \in 0 .. Len(pkgs)] ==
            IF i = 0 THEN Start ELSE Parsed(upto[i - 1], pkgs[i], conf)
        end(p) == upto[CHOOSE i \in DOMAIN pkgs : pkgs[i] = p]
    IN  [p \in Pkg |-> [deps |-> end(p).deps, hdeps |-> end(p).hdeps]]

\* The file before depmaker has written anything.
NoRules == [p \in Pkg |-> [deps |-> << >>, hdeps |-> << >>]]

\* How make reads a rule: its prerequisites, if the target is written once and first.
WellFormed(rule) == \A i \in DOMAIN rule : rule[i].target = (i = 1)
Prerequisites(rule) == {rule[i].dep : i \in DOMAIN rule}

-----------------------------------------------------------------------------

\* What the Makefiles mean, independently of the order of their lines: the packages
\* that the options in conf make p depend on.  To make, += declares like :=.
Declaring == [FLAVOURS |-> {"FLAVOURS", "FLAVOURS+"}, CHOICES |-> {"CHOICES"}]
Sub(p, var, word) ==
    {l.sub : l \in {k \in ToSet(Makefile[p]) :
                      k.var \in Declaring[var] /\ word[1] \in ToSet(k.words)}}
Wanted(p, l, conf) ==
    CASE l.var = "BUILDDEP" -> TRUE
      [] l.var = "BUILDDEP_" -> <<"LIB">> \o l.sub \in conf \/ <<"SYSTEM">> \o l.sub \in conf
      [] l.var = "FB" -> \E s \in Sub(p, "FLAVOURS", l.sub) : Package(s \o l.sub) \in conf
      [] l.var = "CB" -> \E s \in Sub(p, "CHOICES", l.sub) : Package(s \o l.sub) \in conf
      [] l.var = "SB" -> Package(l.sub) \in conf
      [] OTHER -> FALSE
Required(p, conf) ==
    UNION {ToSet(l.words) : l \in {k \in ToSet(Makefile[p]) : Wanted(p, k, conf)}}
HostRequired(p, conf) ==
    {w \in UNION {ToSet(l.words) :
                  l \in {k \in ToSet(Makefile[p]) : k.var = "HOST_BUILDDEP"}} :
        w \in OptionalTool => <<"HOST_BUILD", w>> \in conf}

\* Depends.mk asks for exactly the packages that the Makefiles want built first.
Faithful(text, conf) ==
    \A p \in Pkg :
        /\ WellFormed(text[p].deps) /\ WellFormed(text[p].hdeps)
        /\ Prerequisites(text[p].deps) = Required(p, conf)
        /\ Prerequisites(text[p].hdeps) = HostRequired(p, conf)

\* Line n stands below the := of the only binary package that has its flavour or
\* choice, with no := of another one between them.
Declared(p, n, var, others) ==
    \E k \in 1 .. n - 1 :
        /\ Makefile[p][k].var = var /\ Sub(p, var, Makefile[p][n].sub) = {Makefile[p][k].sub}
        /\ \A j \in k + 1 .. n - 1 : Makefile[p][j].var \notin others

\* Makefiles in the form depmaker counts on, for the options in option: dependencies
\* of flavours and choices stand below their declarations, an optional tool on a line
\* of its own, and no name is that of a libc and of a system.
Orderly(option) ==
    \A p \in Pkg : \A n \in DOMAIN Makefile[p] :
        LET l == Makefile[p][n]
        IN  /\ l.var = "FB" => Declared(p, n, "FLAVOURS", {"FLAVOURS", "FLAVOURS_STRING"})
            /\ l.var = "CB" => Declared(p, n, "CHOICES", {"CHOICES"})
            /\ l.var = "BUILDDEP_" =>
                   <<IF l.sub \in Libc THEN "SYSTEM" ELSE "LIB">> \o l.sub \notin option
            /\ l.var = "HOST_BUILDDEP" /\ ToSet(l.words) \cap OptionalTool # {} =>
                   Len(l.words) = 1
=============================================================================
