------------------------------ MODULE Staging ------------------------------
(***************************************************************************)
(* What one package puts into the sysroot (STAGING_TARGET_DIR) that all    *)
(* other packages are built against, and how it gets out again.  The fake  *)
(* recipe (mk/pkg-bottom.mk) stages all that the package installs, then    *)
(* the recipe of every package file (mk/package.mk) stages its share once  *)
(* more.  Each keeps a manifest in STAGING_PKG_DIR of what it staged and   *)
(* removes the files listed there before it stages anew; clean and the     *)
(* top-level clean remove by the same manifests.  The manifests outlive    *)
(* the work directory, which is of one version.  Which subpackages an      *)
(* invocation builds is up to the configuration, and which there are is up *)
(* to the version.                                                         *)
(***************************************************************************)
EXTENDS Naturals, FiniteSets

CONSTANTS
    Path,          \* paths below usr/ that the package may install
    Config,        \* names of its usr/bin/*-config scripts
    NSubs,         \* how many subpackages there are in all versions together
    NVersions,     \* how many versions of the package there are
    Declared,      \* the subpackages of each version
    Installs,      \* what make install puts into WRKINST, by version
    Idir,          \* what subpackage i packs, by version: Idir[v][i]
    ConfigOf,      \* the config scripts of each version
    Program,       \* the paths that are scripts, "#!" programs below usr/bin
    Capital,       \* does PKG_NAME contain an upper-case letter?
    MaxChanges,    \* bound: how often the version changes
    MaxCrashes     \* bound: how many invocations die

Version == 1..NVersions
Subs == 1..NSubs

ASSUME StagingBounds ==
    NSubs \in Nat /\ NVersions \in Nat \ {0} /\ MaxChanges \in Nat /\ MaxCrashes \in Nat
ASSUME FilesAssumption ==
    /\ Declared \in [Version -> SUBSET Subs]
    /\ Installs \in [Version -> SUBSET Path]
    /\ Idir \in [Version -> [Subs -> SUBSET Path]]
    /\ ConfigOf \in [Version -> SUBSET Config]
    /\ Program \subseteq Path /\ Capital \in BOOLEAN

VARIABLES
    ver,       \* the version the package's Makefile names
    sysroot,   \* the files of the package in STAGING_TARGET_DIR
    man,       \* the manifest ${PKG_NAME}, the empty set without one
    sman,      \* the manifests of the subpackages
    scr,       \* the list ${PKG_NAME}.scripts
    fakedone,  \* versions whose work directory has a .fake_done
    idirs,     \* pairs <<v, i>>: the directory of subpackage i has been filled
    ipks,      \* pairs <<v, i>>: the package file of subpackage i exists
    goal, pc,  \* the user's goal, and the step reached
    want,      \* the subpackages the invocation deals with
    sub,       \* the one it is at
    last,      \* outcome of the last invocation
    owner,     \* history: the version that alone has dealt with the sysroot since its
               \* .fake_done was touched, 0 if there is none
    ran,       \* history: how the recipe of each package file has run since then
    orphans,   \* history: what builds that died have copied and not listed
    changes, crashes

disk == <<sysroot, man, sman, scr>>
work == <<fakedone, idirs, ipks>>
ghosts == <<owner, ran, orphans>>
bounds == <<changes, crashes>>
vars == <<ver, disk, work, goal, pc, want, sub, last, ghosts, bounds>>

\* Where things lie in the sysroot.
Usr(F)     == {<<"usr", f>> : f \in F}
Scripts(F) == {<<"scripts", f>> : f \in F}

Goals == {"package", "clean", "topclean"}
Cleaning == {"clean", "rmwrk", "topclean"}

\* The manifests never list a *-config script of usr/bin: grep -v takes them out.
TypeOK ==
    /\ ver \in Version
    /\ sysroot \subseteq Usr(Path \union Config) \union Scripts(Path \union Config)
    /\ man \subseteq Usr(Path) \union Scripts(Path \union Config)
    /\ sman \in [Subs -> SUBSET (Usr(Path) \union Scripts(Path))]
    /\ scr \subseteq Scripts(Config)
    /\ fakedone \subseteq Version
    /\ idirs \subseteq Version \X Subs /\ ipks \subseteq Version \X Subs
    /\ goal \in Goals
    /\ pc \in {"idle", "config", "unstage", "stage", "scripts", "subs", "substage"} \union Cleaning
    /\ want \subseteq Subs /\ sub \in 1..NSubs + 1
    /\ last \in {"none", "ok", "fail"}
    /\ owner \in {0} \union Version
    /\ ran \in [Subs -> {"no", "well", "amiss"}]
    /\ orphans \subseteq Usr(Path)
    /\ changes \in 0..MaxChanges /\ crashes \in 0..MaxCrashes

NotRun == [i \in Subs |-> "no"]

\* The histories: a recipe of this version begins with subpackage i, and how; some other
\* recipe, or a clean, changes the sysroot.
Runs(i, how) == IF owner = ver THEN owner' = owner /\ ran' = [ran EXCEPT ![i] = how]
                ELSE owner' = 0 /\ ran' = NotRun
Disowned == owner' = 0 /\ ran' = NotRun

Init ==
    /\ ver \in Version
    /\ sysroot = {} /\ man = {} /\ sman = [i \in Subs |-> {}] /\ scr = {}
    /\ fakedone = {} /\ idirs = {} /\ ipks = {}
    /\ goal = "package" /\ pc = "idle" /\ want = {} /\ sub = 1 /\ last = "none"
    /\ owner = 0 /\ ran = NotRun /\ orphans = {}
    /\ changes = 0 /\ crashes = 0

-----------------------------------------------------------------------------
\* The Makefile moves on to another version, or back to one; each has a work directory
\* and package files of its own.
ChangeVersion ==
    /\ pc = "idle" /\ changes < MaxChanges /\ changes' = changes + 1
    /\ ver' \in Version \ {ver}
    /\ want' = {} /\ last' = "none"
    /\ UNCHANGED <<disk, work, goal, pc, sub, ghosts, crashes>>

\* make world begins with the removal of all package files.
package_clean ==
    /\ pc = "idle"
    /\ ipks' = {} /\ last' = "none"
    /\ UNCHANGED <<ver, disk, fakedone, idirs, goal, pc, want, sub, ghosts, bounds>>

FirstStep(g) == IF g = "package" THEN IF ver \in fakedone THEN "subs" ELSE "config" ELSE g

\* make world builds the subpackages that are selected, make package=p package all that
\* the version has; clean is for all it has.
Start(g, S) ==
    /\ pc = "idle"
    /\ g = "clean" => S = Declared[ver]
    /\ g = "topclean" => S = {}
    /\ goal' = g /\ pc' = FirstStep(g) /\ want' = S /\ sub' = 1 /\ last' = "none"
    /\ UNCHANGED <<ver, disk, work, ghosts, bounds>>

Finish == pc' = "idle" /\ sub' = 1 /\ last' = "ok"

(* The recipe of .fake_done. *)

\* spkg-install fills the directories of the subpackages.  Scripts named *-config go to
\* usr/bin and scripts/; only the latter are listed.
StageConfig ==
    /\ pc = "config" /\ pc' = "unstage"
    /\ idirs' = idirs \union ({ver} \X want)
    /\ sysroot' = sysroot \union Usr(ConfigOf[ver]) \union Scripts(ConfigOf[ver])
    /\ scr' = Scripts(ConfigOf[ver])
    /\ Disowned
    /\ UNCHANGED <<ver, man, sman, fakedone, ipks, goal, want, sub, last, orphans, bounds>>

\* Variant: the old manifest is dropped without removing the files it lists.
UnstageNothing ==
    /\ pc = "unstage" /\ pc' = "stage"
    /\ man' = {}
    /\ UNCHANGED <<ver, sysroot, sman, scr, work, goal, want, sub, last, ghosts, bounds>>

\* What the manifest lists is removed, then the manifest.
Unstage ==
    /\ pc = "unstage" /\ pc' = "stage"
    /\ sysroot' = sysroot \ man /\ man' = {}
    /\ UNCHANGED <<ver, sman, scr, work, goal, want, sub, last, ghosts, bounds>>

\* Variant: the filter of the pipeline lets the *-config scripts through.
StageUnfiltered ==
    /\ pc = "stage" /\ pc' = "scripts"
    /\ man' = Usr(Installs[ver] \union ConfigOf[ver])
    /\ sysroot' = sysroot \union man' /\ orphans' = orphans \ man'
    /\ UNCHANGED <<ver, sman, scr, work, goal, want, sub, last, owner, ran, bounds>>

\* find | tee manifest | cpio
Stage ==
    /\ pc = "stage" /\ pc' = "scripts"
    /\ man' = Usr(Installs[ver])
    /\ sysroot' = sysroot \union man' /\ orphans' = orphans \ man'
    /\ UNCHANGED <<ver, sman, scr, work, goal, want, sub, last, owner, ran, bounds>>

Listed == {f \in Program : <<"usr", f>> \in man}

\* Programs that are scripts are copied to scripts/ and listed; the cookie is touched,
\* so that every package file of this version is out of date.
StageScripts ==
    LET copies == Scripts(Listed) IN
    /\ pc = "scripts" /\ pc' = "subs"
    /\ sysroot' = sysroot \union copies
    /\ man' = man \union copies \union scr
    /\ fakedone' = fakedone \union {ver} /\ ipks' = ipks \ ({ver} \X Subs)
    /\ owner' = ver /\ ran' = NotRun
    /\ UNCHANGED <<ver, sman, scr, idirs, goal, want, sub, last, orphans, bounds>>

(* The recipe of a package file. *)

\* What the directory of a subpackage holds: nothing if it was not selected when the
\* fake recipe ran.
Share(v, i) == IF <<v, i>> \in idirs THEN Idir[v][i] ELSE {}

OutOfDate == sub <= NSubs /\ sub \in want /\ <<ver, sub>> \notin ipks

SkipSub ==
    /\ pc = "subs" /\ sub <= NSubs /\ ~OutOfDate
    /\ sub' = sub + 1
    /\ UNCHANGED <<ver, disk, work, goal, pc, want, last, ghosts, bounds>>

\* Is this recipe out of turn, the package file of a later subpackage being up to date?
OutOfTurn == \E j \in Subs : sub < j /\ <<ver, j>> \in ipks

UnstageSub ==
    /\ pc = "subs" /\ OutOfDate
    /\ pc' = "substage"
    /\ sysroot' = sysroot \ sman[sub] /\ sman' = [sman EXCEPT ![sub] = {}]
    /\ Runs(sub, IF OutOfTurn THEN "amiss" ELSE "well")
    /\ UNCHANGED <<ver, man, scr, work, goal, want, sub, last, orphans, bounds>>

\* Variant: the share of a subpackage is staged only the first time.
StageSubOnce ==
    LET F == Share(ver, sub) IN
    /\ pc = "substage" /\ pc' = "subs"
    /\ sman' = [sman EXCEPT ![sub] = Usr(F) \union Scripts(F \intersect Program)]
    /\ orphans' = orphans \ Usr(F)
    /\ ipks' = ipks \union {<<ver, sub>>} /\ sub' = sub + 1
    /\ UNCHANGED <<ver, sysroot, man, scr, fakedone, idirs, goal, want, last, owner, ran, bounds>>

StageSub ==
    LET F == Share(ver, sub) IN
    /\ pc = "substage" /\ pc' = "subs"
    /\ sman' = [sman EXCEPT ![sub] = Usr(F) \union Scripts(F \intersect Program)]
    /\ sysroot' = sysroot \union sman'[sub] /\ orphans' = orphans \ Usr(F)
    /\ ipks' = ipks \union {<<ver, sub>>} /\ sub' = sub + 1
    /\ UNCHANGED <<ver, man, scr, fakedone, idirs, goal, want, last, owner, ran, bounds>>

PackageDone ==
    /\ pc = "subs" /\ sub > NSubs
    /\ Finish
    /\ UNCHANGED <<ver, disk, work, goal, want, ghosts, bounds>>

(* clean *)

\* One clean-dev-<subpackage> after the other, for those the version has.
CleanSub ==
    /\ pc = "clean" /\ sub <= NSubs /\ sub' = sub + 1
    /\ IF sub \in want
       THEN sysroot' = sysroot \ sman[sub] /\ sman' = [sman EXCEPT ![sub] = {}]
       ELSE UNCHANGED <<sysroot, sman>>
    /\ Disowned
    /\ UNCHANGED <<ver, man, scr, work, goal, pc, want, last, orphans, bounds>>

\* clean-dev-generic; the list of config scripts stays.
CleanGeneric ==
    /\ pc = "clean" /\ sub > NSubs /\ pc' = "rmwrk"
    /\ sysroot' = sysroot \ man /\ man' = {}
    /\ Disowned
    /\ UNCHANGED <<ver, sman, scr, work, goal, want, sub, last, orphans, bounds>>

RmWrkDir ==
    /\ pc = "rmwrk"
    /\ fakedone' = fakedone \ {ver}
    /\ idirs' = idirs \ ({ver} \X Subs) /\ ipks' = ipks \ ({ver} \X Subs)
    /\ Finish
    /\ UNCHANGED <<ver, disk, goal, want, ghosts, bounds>>

\* The top-level clean: ls | grep -v [A-Z] passes over the manifests of subpackages,
\* and over all manifests of a package with a capital in its name.
UnlistAll ==
    IF Capital THEN UNCHANGED <<sysroot, man, scr>>
    ELSE sysroot' = sysroot \ (man \union scr) /\ man' = {} /\ scr' = {}

TopClean ==
    /\ pc = "topclean"
    /\ UnlistAll
    /\ fakedone' = {} /\ idirs' = {} /\ ipks' = {}
    /\ Disowned
    /\ Finish
    /\ UNCHANGED <<ver, sman, goal, want, orphans, bounds>>

-----------------------------------------------------------------------------
(* An invocation that dies.  Loops over files are cut short before the     *)
(* manifest goes.  find, tee and cpio run side by side: any part of the    *)
(* files may have been listed, and any part copied.  A script is copied    *)
(* before it is listed.                                                    *)

\* The files D have been copied, M listed.
Torn(D, M) == orphans' = (orphans \union D) \ M

CrashInConfig ==
    /\ pc = "config"
    /\ \E S \in SUBSET want : idirs' = idirs \union ({ver} \X S)
    /\ \E C \in SUBSET ConfigOf[ver] :
         sysroot' = sysroot \union Usr(C) \union Scripts(C) /\ scr' = Scripts(C)
    /\ Disowned
    /\ UNCHANGED <<man, sman, fakedone, ipks, orphans>>

CrashInUnstage ==
    /\ \/ pc = "unstage"
       \/ pc = "topclean" /\ ~Capital
       \/ pc = "clean" /\ sub > NSubs
    /\ \E D \in SUBSET man : sysroot' = sysroot \ D
    /\ Disowned
    /\ UNCHANGED <<man, sman, scr, work, orphans>>

CrashInStage ==
    /\ pc = "stage"
    /\ \E D, M \in SUBSET Usr(Installs[ver]) :
         man' = M /\ sysroot' = sysroot \union D /\ Torn(D, M)
    /\ UNCHANGED <<sman, scr, work, owner, ran>>

CrashInScripts ==
    /\ pc = "scripts"
    /\ \E C \in SUBSET Scripts(Listed) : \E L \in SUBSET C :
         sysroot' = sysroot \union C /\ man' = man \union L
    /\ UNCHANGED <<sman, scr, work, ghosts>>

CrashInUnstageSub ==
    /\ pc = "subs" /\ OutOfDate
    /\ \E D \in SUBSET sman[sub] : sysroot' = sysroot \ D
    /\ Runs(sub, "amiss")
    /\ UNCHANGED <<man, sman, scr, work, orphans>>

CrashInStageSub ==
    LET F == Share(ver, sub) IN
    /\ pc = "substage"
    /\ \/ \E D, M \in SUBSET Usr(F) :
            /\ sman' = [sman EXCEPT ![sub] = M]
            /\ sysroot' = sysroot \union D /\ Torn(D, M)
       \/ \E C \in SUBSET Scripts(F \intersect Program) : \E L \in SUBSET C :
            /\ sman' = [sman EXCEPT ![sub] = Usr(F) \union L]
            /\ sysroot' = sysroot \union Usr(F) \union C /\ Torn(Usr(F), Usr(F))
    /\ Runs(sub, "amiss")
    /\ UNCHANGED <<man, scr, work>>

CrashInCleanSub ==
    /\ pc = "clean" /\ sub <= NSubs /\ sub \in want
    /\ \E D \in SUBSET sman[sub] : sysroot' = sysroot \ D
    /\ Disowned
    /\ UNCHANGED <<man, sman, scr, work, orphans>>

\* rm -rf may have removed the cookie and not the package files, or a part of the
\* directories and not the cookie.
CrashInRmWrk ==
    /\ pc = "rmwrk"
    /\ fakedone' \in {fakedone, fakedone \ {ver}}
    /\ \E I \in SUBSET (idirs \intersect ({ver} \X Subs)) : idirs' = idirs \ I
    /\ UNCHANGED <<disk, ipks, ghosts>>

CrashInTopRm ==
    /\ pc = "topclean"
    /\ UnlistAll
    /\ fakedone' \in SUBSET fakedone /\ idirs' \in SUBSET idirs
    /\ Disowned
    /\ UNCHANGED <<sman, ipks, orphans>>

CrashBetween ==
    /\ pc = "subs" /\ ~OutOfDate
    /\ UNCHANGED <<disk, work, ghosts>>

Crash ==
    /\ crashes < MaxCrashes /\ crashes' = crashes + 1
    /\ \/ CrashInConfig \/ CrashInUnstage \/ CrashInStage \/ CrashInScripts
       \/ CrashInUnstageSub \/ CrashInStageSub \/ CrashInCleanSub \/ CrashInRmWrk
       \/ CrashInTopRm \/ CrashBetween
    /\ pc' = "idle" /\ sub' = 1 /\ last' = "fail"
    /\ want' = {}
    /\ UNCHANGED <<ver, goal, changes>>

Next == \/ ChangeVersion \/ package_clean
        \/ \E g \in Goals, S \in SUBSET Declared[ver] : Start(g, S)
        \/ StageConfig \/ Unstage \/ Stage \/ StageScripts
        \/ SkipSub \/ UnstageSub \/ StageSub \/ PackageDone
        \/ CleanSub \/ CleanGeneric \/ RmWrkDir \/ TopClean
        \/ Crash

Spec == Init /\ [][Next]_vars

-----------------------------------------------------------------------------
(* Properties.                                                             *)

Ended(g) == pc = "idle" /\ goal = g /\ last = "ok"

\* What the version installs, and what the subpackages of the invocation pack.
Wanted == Installs[ver] \union UNION {Share(ver, i) : i \in want}

\* Files that a recipe may have removed after they were staged: those of a version of
\* subpackage j whose recipe does not put them back, nor does one after it; and those
\* of one whose recipe ran out of turn, or died and was not begun again.
Taken == {f \in Path : \E j \in Subs, u \in Version :
    /\ ran[j] # "no" /\ f \in Idir[u][j]
    /\ ran[j] = "well" =>
         f \notin Share(ver, j) /\ \A i \in want : j < i => f \notin Share(ver, i)}

\* After a build other packages find all of this one in the sysroot, although every
\* package file's recipe first removes what its predecessor staged, whatever builds
\* have died before, and whatever subpackages were selected then.  Not claimed of a
\* build that begins with the .fake_done of a version when the sysroot has since been
\* in the hands of another, or of a clean that died.
Restored == Ended("package") /\ owner = ver => Usr(Wanted \ Taken) \subseteq sysroot

\* The files of usr that the manifests of these subpackages list.
Still(S) == {f \in Path : \E i \in S : <<"usr", f>> \in sman[i]}

\* And they find nothing a former version left there, but for what a subpackage that
\* is no longer built or no longer exists still lists, and what a build that died had
\* copied before it was listed.  The same after a clean.  (The *-config scripts in
\* usr/bin are left out: nothing ever lists or removes them.)
NothingStale ==
    LET staged == {f \in Path \ Config : <<"usr", f>> \in sysroot /\ <<"usr", f>> \notin orphans}
    IN  /\ Ended("package") /\ owner = ver => staged \subseteq Wanted \union Still(Subs \ want)
        /\ Ended("clean") => staged \subseteq Still(Subs \ Declared[ver])
=============================================================================
