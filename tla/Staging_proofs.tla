--------------------------- MODULE Staging_proofs ---------------------------
(***************************************************************************)
(* Proofs about Staging: whatever a package installs in which version and  *)
(* however its subpackages divide it up, whichever of them are selected    *)
(* when, in whatever order the versions come, and however many builds and  *)
(* cleans die, a build leaves in the sysroot what the version installs and *)
(* nothing that it does not install, with the exceptions that Restored and *)
(* NothingStale name.                                                      *)
(***************************************************************************)
EXTENDS Staging, TLAPS

-----------------------------------------------------------------------------
(* The inductive invariant.                                                *)

\* Control: what an invocation deals with, and in which order.
Ordered ==
    /\ pc \in {"config", "unstage", "stage", "scripts", "subs", "substage"} => goal = "package"
    /\ pc \in {"config", "unstage", "stage", "scripts"} => sub = 1
    /\ pc \in {"unstage", "stage", "scripts"} => owner = 0
    /\ pc \in {"subs", "substage"} => \A i \in want : i < sub => <<ver, i>> \in ipks
    /\ pc = "substage" => OutOfDate /\ owner \in {0, ver}
    /\ Ended("package") => \A i \in want : <<ver, i>> \in ipks
    /\ pc \in {"clean", "rmwrk"} => goal = "clean" /\ want = Declared[ver]
    /\ pc = "topclean" => goal = "topclean"
    /\ pc = "rmwrk" => owner = 0

\* A manifest that is about to be written is empty: what it listed has been removed.
Emptied ==
    /\ pc = "stage" => man = {}
    /\ pc = "substage" => sman[sub] = {}
    /\ pc = "clean" => \A i \in want : i < sub => sman[i] = {}
    /\ pc = "rmwrk" \/ Ended("clean") => man = {} /\ \A i \in Declared[ver] : sman[i] = {}

\* Whatever lies in the sysroot is listed, the *-config scripts and the orphans excepted.
Covered == \A f \in Path \ Config :
    <<"usr", f>> \in sysroot =>
        <<"usr", f>> \in man \union orphans \/ \E i \in Subs : <<"usr", f>> \in sman[i]

\* What the manifests list belongs to the version that owns the sysroot; at any time a
\* manifest of a subpackage lists what that subpackage packs in some version.
Listing ==
    /\ pc = "scripts" => man = Usr(Installs[ver]) /\ Usr(Installs[ver]) \subseteq sysroot
    /\ owner # 0 => \A f \in Path : <<"usr", f>> \in man => f \in Installs[owner]
    /\ owner # 0 => \A i \in Subs, f \in Path :
         <<owner, i>> \in ipks /\ <<"usr", f>> \in sman[i] => f \in Share(owner, i)
    /\ \A i \in Subs, f \in Path :
         <<"usr", f>> \in sman[i] => \E u \in Version : f \in Idir[u][i]

\* The recipe of subpackage j may have removed f since it was last staged: j packs it in
\* some version; its recipe, if it ran in turn, either is still to stage f or does not
\* pack it any more, and no package file after it that packs f is up to date.
MayLack(f) == \E j \in Subs, u \in Version :
    /\ f \in Idir[u][j] /\ ran[j] # "no"
    /\ ran[j] = "well" =>
         /\ (pc = "substage" /\ j = sub) \/ f \notin Share(owner, j)
         /\ \A i \in Subs : j < i /\ f \in Share(owner, i) => <<owner, i>> \notin ipks

\* What the owner installs, or packs into an up-to-date package file.
Due(f) == f \in Installs[owner] \/ \E i \in Subs : <<owner, i>> \in ipks /\ f \in Share(owner, i)

\* It is in the sysroot, unless it may lack.
Pending == owner # 0 => \A f \in Path : Due(f) => <<"usr", f>> \in sysroot \/ MayLack(f)

IInv == TypeOK /\ Ordered /\ Emptied /\ Covered /\ Listing /\ Pending

-----------------------------------------------------------------------------
(* Places.                                                                 *)

LEMMA InUsr == ASSUME NEW F, NEW f PROVE <<"usr", f>> \in Usr(F) <=> f \in F
  BY DEF Usr

LEMMA NotScripts == ASSUME NEW F, NEW f PROVE <<"usr", f>> \notin Scripts(F)
<1>1. "usr" # "scripts"
  OBVIOUS
<1> QED
  BY <1>1 DEF Scripts

LEMMA Placed ==
  ASSUME NEW F, NEW G, F \subseteq G
  PROVE  Usr(F) \subseteq Usr(G) /\ Scripts(F) \subseteq Scripts(G)
  BY DEF Usr, Scripts

\* What the package installs lies where files of the package may lie.
LEMMA StagedPlaced ==
  ASSUME TypeOK
  PROVE  /\ ConfigOf[ver] \subseteq Config /\ Installs[ver] \subseteq Path
         /\ Declared[ver] \subseteq Subs
         /\ Usr(Installs[ver]) \subseteq Usr(Path) /\ Scripts(Listed) \subseteq Scripts(Path)
         /\ \A i \in Subs : /\ Share(ver, i) \subseteq Path
                            /\ Usr(Share(ver, i)) \subseteq Usr(Path)
                            /\ Scripts(Share(ver, i) \intersect Program) \subseteq Scripts(Path)
<1>1. ver \in Version
  BY DEF TypeOK
<1>2. ConfigOf[ver] \subseteq Config /\ Installs[ver] \subseteq Path /\ Declared[ver] \subseteq Subs
  BY <1>1, FilesAssumption
<1>3. Listed \subseteq Path
  BY FilesAssumption DEF Listed
<1>4. \A i \in Subs : Share(ver, i) \subseteq Path /\ Share(ver, i) \intersect Program \subseteq Path
  BY <1>1, FilesAssumption DEF Share
<1> QED
  BY <1>2, <1>3, <1>4, Placed

\* The places of the sysroot hold those of the manifests.
LEMMA Wider ==
  /\ Usr(Path) \subseteq Usr(Path \union Config) /\ Usr(Config) \subseteq Usr(Path \union Config)
  /\ Scripts(Path) \subseteq Scripts(Path \union Config)
  /\ Scripts(Config) \subseteq Scripts(Path \union Config)
  BY Placed

\* What config scripts are copied lies there as well.
LEMMA ConfigPlaced ==
  ASSUME TypeOK, NEW C \in SUBSET ConfigOf[ver]
  PROVE  Usr(C) \subseteq Usr(Path \union Config) /\ Scripts(C) \subseteq Scripts(Config)
<1>1. C \subseteq Config /\ C \subseteq Path \union Config
  BY StagedPlaced
<1> QED
  BY <1>1, Placed

-----------------------------------------------------------------------------
(* Types.                                                                  *)

\* The subpackage that is dealt with is one.
LEMMA SubIsOne ==
  ASSUME TypeOK, sub <= NSubs
  PROVE  sub \in Subs /\ sub + 1 \in 1..NSubs + 1
  BY StagingBounds DEF TypeOK, Subs

LEMMA CrashControl ==
  ASSUME Crash
  PROVE  /\ pc' = "idle" /\ sub' = 1 /\ last' = "fail" /\ want' = {}
         /\ ver' = ver /\ goal' = goal /\ changes' = changes /\ crashes' = crashes + 1
  BY DEF Crash

LEMMA RunsType ==
  ASSUME TypeOK, NEW i \in Subs, NEW how \in {"well", "amiss"}, Runs(i, how)
  PROVE  owner' \in {0} \union Version /\ ran' \in [Subs -> {"no", "well", "amiss"}]
  BY DEF TypeOK, Runs, NotRun

\* The parts of TypeOK that an invocation that dies may change beside its control.
LEMMA CrashType ==
  ASSUME TypeOK, Ordered, Crash
  PROVE  /\ sysroot' \subseteq Usr(Path \union Config) \union Scripts(Path \union Config)
         /\ man' \subseteq Usr(Path) \union Scripts(Path \union Config)
         /\ sman' \in [Subs -> SUBSET (Usr(Path) \union Scripts(Path))]
         /\ scr' \subseteq Scripts(Config)
         /\ fakedone' \subseteq Version
         /\ idirs' \subseteq Version \X Subs /\ ipks' \subseteq Version \X Subs
         /\ owner' \in {0} \union Version
         /\ ran' \in [Subs -> {"no", "well", "amiss"}]
         /\ orphans' \subseteq Usr(Path)
<1> DEFINE Whole == Usr(Path \union Config) \union Scripts(Path \union Config)
<1>1. CASE CrashInConfig
  <2>1. PICK C \in SUBSET ConfigOf[ver] :
            sysroot' = sysroot \union Usr(C) \union Scripts(C) /\ scr' = Scripts(C)
    BY <1>1 DEF CrashInConfig
  <2>2. Usr(C) \subseteq Usr(Path \union Config) /\ Scripts(C) \subseteq Scripts(Config)
    BY ConfigPlaced
  <2>3. sysroot' \subseteq Whole /\ scr' \subseteq Scripts(Config)
    BY <2>1, <2>2, Wider DEF TypeOK
  <2>4. idirs' \subseteq Version \X Subs
    BY <1>1 DEF CrashInConfig, TypeOK
  <2> QED
    BY <1>1, <2>3, <2>4 DEF CrashInConfig, Disowned, NotRun, TypeOK
<1>2. CASE CrashInUnstage
  BY <1>2 DEF CrashInUnstage, Disowned, NotRun, work, TypeOK
<1>3. CASE CrashInStage
  <2>1. PICK D \in SUBSET Usr(Installs[ver]), M \in SUBSET Usr(Installs[ver]) :
            man' = M /\ sysroot' = sysroot \union D /\ Torn(D, M)
    BY <1>3 DEF CrashInStage
  <2>2. D \subseteq Usr(Path) /\ M \subseteq Usr(Path)
    BY StagedPlaced
  <2>3. sysroot' \subseteq Whole /\ man' \subseteq Usr(Path) /\ orphans' \subseteq Usr(Path)
    BY <2>1, <2>2, Wider DEF Torn, TypeOK
  <2> QED
    BY <1>3, <2>3 DEF CrashInStage, work, TypeOK
<1>4. CASE CrashInScripts
  <2>1. PICK C \in SUBSET Scripts(Listed), L \in SUBSET Scripts(Listed) :
            sysroot' = sysroot \union C /\ man' = man \union L
    BY <1>4 DEF CrashInScripts
  <2>2. Scripts(Listed) \subseteq Scripts(Path \union Config)
    BY StagedPlaced, Wider
  <2>3. sysroot' \subseteq Whole /\ man' \subseteq Usr(Path) \union Scripts(Path \union Config)
    BY <2>1, <2>2 DEF TypeOK
  <2> QED
    BY <1>4, <2>3 DEF CrashInScripts, work, ghosts, TypeOK
<1>5. CASE CrashInUnstageSub
  <2>1. sub \in Subs /\ Runs(sub, "amiss")
    BY <1>5, SubIsOne DEF CrashInUnstageSub, OutOfDate
  <2>2. owner' \in {0} \union Version /\ ran' \in [Subs -> {"no", "well", "amiss"}]
    BY <2>1, RunsType
  <2> QED
    BY <1>5, <2>2 DEF CrashInUnstageSub, work, TypeOK
<1>6. CASE CrashInStageSub
  <2> DEFINE F == Share(ver, sub)
  <2>1. sub \in Subs /\ Runs(sub, "amiss")
    BY <1>6, SubIsOne DEF CrashInStageSub, Ordered, OutOfDate
  <2>2. owner' \in {0} \union Version /\ ran' \in [Subs -> {"no", "well", "amiss"}]
    BY <2>1, RunsType
  <2>3. Usr(F) \subseteq Usr(Path) /\ Scripts(F \intersect Program) \subseteq Scripts(Path)
    BY <2>1, StagedPlaced
  <2>4. \E L, D \in SUBSET (Usr(Path) \union Scripts(Path)), O \in SUBSET Usr(Path) :
            /\ sman' = [sman EXCEPT ![sub] = L] /\ sysroot' = sysroot \union D
            /\ orphans' \subseteq orphans \union O
    <3>1. ASSUME NEW D \in SUBSET Usr(F), NEW M \in SUBSET Usr(F),
                 sman' = [sman EXCEPT ![sub] = M], sysroot' = sysroot \union D, Torn(D, M)
          PROVE  <2>4
      <4>1. M \in SUBSET (Usr(Path) \union Scripts(Path)) /\ D \in SUBSET (Usr(Path) \union Scripts(Path))
            /\ D \in SUBSET Usr(Path)
        BY <2>3
      <4>2. orphans' \subseteq orphans \union D
        BY <3>1 DEF Torn
      <4> QED
        BY <3>1, <4>1, <4>2
    <3>2. ASSUME NEW C \in SUBSET Scripts(F \intersect Program), NEW L \in SUBSET C,
                 sman' = [sman EXCEPT ![sub] = Usr(F) \union L],
                 sysroot' = sysroot \union Usr(F) \union C, Torn(Usr(F), Usr(F))
          PROVE  <2>4
      <4>1. /\ Usr(F) \union L \in SUBSET (Usr(Path) \union Scripts(Path))
            /\ Usr(F) \union C \in SUBSET (Usr(Path) \union Scripts(Path))
            /\ Usr(F) \in SUBSET Usr(Path)
        BY <2>3
      <4>2. orphans' \subseteq orphans \union Usr(F) /\ sysroot' = sysroot \union (Usr(F) \union C)
        BY <3>2 DEF Torn
      <4> QED
        BY <3>2, <4>1, <4>2
    <3> QED
      BY <1>6, <3>1, <3>2 DEF CrashInStageSub
  <2>5. PICK L \in SUBSET (Usr(Path) \union Scripts(Path)),
             D \in SUBSET (Usr(Path) \union Scripts(Path)), O \in SUBSET Usr(Path) :
            /\ sman' = [sman EXCEPT ![sub] = L] /\ sysroot' = sysroot \union D
            /\ orphans' \subseteq orphans \union O
    BY <2>4
  <2>6. sman' \in [Subs -> SUBSET (Usr(Path) \union Scripts(Path))] /\ orphans' \subseteq Usr(Path)
    BY <2>1, <2>5 DEF TypeOK
  <2>7. sysroot' \subseteq Whole
    BY <2>5, Wider DEF TypeOK
  <2> QED
    BY <1>6, <2>2, <2>6, <2>7 DEF CrashInStageSub, work, TypeOK
<1>7. CASE CrashInCleanSub
  BY <1>7 DEF CrashInCleanSub, Disowned, NotRun, work, TypeOK
<1>8. CASE CrashInRmWrk
  <2>1. fakedone' \subseteq Version /\ idirs' \subseteq Version \X Subs
    BY <1>8 DEF CrashInRmWrk, TypeOK
  <2> QED
    BY <1>8, <2>1 DEF CrashInRmWrk, disk, ghosts, TypeOK
<1>9. CASE CrashInTopRm
  <2>1. fakedone' \subseteq Version /\ idirs' \subseteq Version \X Subs
    BY <1>9 DEF CrashInTopRm, TypeOK
  <2>2. /\ sysroot' \subseteq Whole /\ scr' \subseteq Scripts(Config)
        /\ man' \subseteq Usr(Path) \union Scripts(Path \union Config)
    BY <1>9 DEF CrashInTopRm, UnlistAll, TypeOK
  <2> QED
    BY <1>9, <2>1, <2>2 DEF CrashInTopRm, Disowned, NotRun, TypeOK
<1>10. CASE CrashBetween
  BY <1>10 DEF CrashBetween, disk, work, ghosts, TypeOK
<1> QED
  BY <1>1, <1>2, <1>3, <1>4, <1>5, <1>6, <1>7, <1>8, <1>9, <1>10 DEF Crash

LEMMA TypeStep ==
  ASSUME TypeOK, Ordered, [Next]_vars
  PROVE  TypeOK'
<1> USE DEF Cleaning, disk, work, ghosts, bounds
<1>0. /\ NSubs \in Nat /\ MaxCrashes \in Nat /\ MaxChanges \in Nat
      /\ 1 \in 1..NSubs + 1
  BY StagingBounds
<1>1. CASE ChangeVersion
  <2>1. changes' \in 0..MaxChanges
    BY <1>0, <1>1 DEF ChangeVersion, TypeOK
  <2>2. ver' \in Version /\ want' \subseteq Subs
    BY <1>1 DEF ChangeVersion
  <2> QED
    BY <1>1, <2>1, <2>2 DEF ChangeVersion, TypeOK
<1>2. CASE package_clean
  BY <1>2 DEF package_clean, TypeOK
<1>3. ASSUME NEW g \in Goals, NEW S \in SUBSET Declared[ver], Start(g, S) PROVE TypeOK'
  <2>1. S \subseteq Subs /\ pc' \in {"subs", "config"} \union Cleaning
    BY <1>3, StagedPlaced DEF Start, FirstStep, Goals
  <2> QED
    BY <1>0, <1>3, <2>1 DEF Start, TypeOK
<1>4. CASE StageConfig
  <2>1. /\ Usr(ConfigOf[ver]) \subseteq Usr(Path \union Config)
        /\ Scripts(ConfigOf[ver]) \subseteq Scripts(Config)
    BY ConfigPlaced
  <2>2. /\ sysroot' \subseteq Usr(Path \union Config) \union Scripts(Path \union Config)
        /\ scr' \subseteq Scripts(Config)
    BY <1>4, <2>1, Wider DEF StageConfig, TypeOK
  <2>3. idirs' \subseteq Version \X Subs
    BY <1>4 DEF StageConfig, TypeOK
  <2> QED
    BY <1>4, <2>2, <2>3 DEF StageConfig, Disowned, NotRun, TypeOK
<1>5. CASE Unstage
  BY <1>5 DEF Unstage, TypeOK
<1>6. CASE Stage
  <2>1. /\ sysroot' \subseteq Usr(Path \union Config) \union Scripts(Path \union Config)
        /\ man' \subseteq Usr(Path) /\ orphans' \subseteq Usr(Path)
    BY <1>6, StagedPlaced, Wider DEF Stage, TypeOK
  <2> QED
    BY <1>6, <2>1 DEF Stage, TypeOK
<1>7. CASE StageScripts
  <2>1. /\ sysroot' \subseteq Usr(Path \union Config) \union Scripts(Path \union Config)
        /\ man' \subseteq Usr(Path) \union Scripts(Path \union Config)
    BY <1>7, StagedPlaced, Wider DEF StageScripts, TypeOK
  <2>2. fakedone' \subseteq Version /\ ipks' \subseteq Version \X Subs /\ owner' \in Version
    BY <1>7 DEF StageScripts, TypeOK
  <2> QED
    BY <1>7, <2>1, <2>2 DEF StageScripts, NotRun, TypeOK
<1>8. CASE SkipSub
  BY <1>8, SubIsOne DEF SkipSub, TypeOK
<1>9. CASE UnstageSub
  <2>1. sub \in Subs
    BY <1>9, SubIsOne DEF UnstageSub, OutOfDate
  <2>2. owner' \in {0} \union Version /\ ran' \in [Subs -> {"no", "well", "amiss"}]
    BY <1>9, <2>1, RunsType DEF UnstageSub
  <2> QED
    BY <1>9, <2>1, <2>2 DEF UnstageSub, TypeOK
<1>10. CASE StageSub
  <2>1. sub \in Subs /\ sub + 1 \in 1..NSubs + 1
    BY <1>10, SubIsOne DEF Ordered, StageSub, OutOfDate
  <2>2. /\ Usr(Share(ver, sub)) \union Scripts(Share(ver, sub) \intersect Program)
             \subseteq Usr(Path) \union Scripts(Path)
        /\ Usr(Share(ver, sub)) \subseteq Usr(Path)
    BY <2>1, StagedPlaced
  <2>3. /\ sman' \in [Subs -> SUBSET (Usr(Path) \union Scripts(Path))]
        /\ sman'[sub] \subseteq Usr(Path) \union Scripts(Path)
    BY <1>10, <2>1, <2>2 DEF StageSub, TypeOK
  <2>4. /\ sysroot' \subseteq Usr(Path \union Config) \union Scripts(Path \union Config)
        /\ orphans' \subseteq Usr(Path)
    BY <1>10, <2>3, Wider DEF StageSub, TypeOK
  <2>5. ipks' \subseteq Version \X Subs
    BY <1>10, <2>1 DEF StageSub, TypeOK
  <2> QED
    BY <1>10, <2>1, <2>3, <2>4, <2>5 DEF StageSub, TypeOK
<1>11. CASE PackageDone
  BY <1>0, <1>11 DEF PackageDone, Finish, TypeOK
<1>12. CASE CleanSub
  BY <1>12, SubIsOne DEF CleanSub, Disowned, NotRun, TypeOK
<1>13. CASE CleanGeneric
  BY <1>13 DEF CleanGeneric, Disowned, NotRun, TypeOK
<1>14. CASE RmWrkDir
  BY <1>0, <1>14 DEF RmWrkDir, Finish, TypeOK
<1>15. CASE TopClean
  <2>1. /\ sysroot' \subseteq sysroot /\ man' \subseteq man /\ scr' \subseteq scr
    BY <1>15 DEF TopClean, UnlistAll
  <2> QED
    BY <1>0, <1>15, <2>1 DEF TopClean, Finish, Disowned, NotRun, TypeOK
<1>16. CASE Crash
  <2>1. crashes' \in 0..MaxCrashes
    BY <1>0, <1>16 DEF Crash, TypeOK
  <2> QED
    BY <1>0, <1>16, <2>1, CrashType, CrashControl DEF TypeOK
<1>17. CASE UNCHANGED vars
  BY <1>17 DEF vars, TypeOK
<1> QED
  BY <1>1, <1>2, <1>3, <1>4, <1>5, <1>6, <1>7, <1>8, <1>9, <1>10, <1>11, <1>12, <1>13,
     <1>14, <1>15, <1>16, <1>17 DEF Next

-----------------------------------------------------------------------------
(* Control and empty manifests.                                            *)

LEMMA OrderedStep ==
  ASSUME TypeOK, Ordered, [Next]_vars
  PROVE  Ordered'
<1> USE DEF work, ghosts
<1>0. NSubs \in Nat /\ sub \in Nat /\ want \subseteq Subs /\ \A i \in Subs : i \in Nat /\ ~(i < 1)
  BY StagingBounds DEF TypeOK, Subs
<1>1. CASE ChangeVersion \/ package_clean
  BY <1>1 DEF ChangeVersion, package_clean, Ordered, Ended
<1>2. ASSUME NEW g \in Goals, NEW S \in SUBSET Declared[ver], Start(g, S) PROVE Ordered'
  <2>1. S \subseteq Subs
    BY StagedPlaced
  <2>2. \A i \in want' : ~(i < sub')
    BY <1>0, <1>2, <2>1 DEF Start
  <2> QED
    BY <1>2, <2>2 DEF Start, FirstStep, Goals, Ordered, Ended
<1>3. CASE StageConfig \/ Unstage \/ Stage
  BY <1>3 DEF StageConfig, Disowned, Unstage, Stage, Ordered, Ended
<1>4. CASE StageScripts
  <2>1. sub = 1
    BY <1>4 DEF StageScripts, Ordered
  <2> QED
    BY <1>0, <1>4, <2>1 DEF StageScripts, Ordered, Ended
<1>5. CASE SkipSub
  <2>1. \A i \in want' : i < sub' => <<ver', i>> \in ipks'
    BY <1>0, <1>5 DEF SkipSub, OutOfDate, Ordered
  <2> QED
    BY <1>5, <2>1 DEF SkipSub, Ordered, Ended
<1>6. CASE UnstageSub
  BY <1>6 DEF UnstageSub, Runs, OutOfDate, Ordered, Ended
<1>7. CASE StageSub
  <2>1. \A i \in want' : i < sub' => <<ver', i>> \in ipks'
    BY <1>0, <1>7 DEF StageSub, Ordered
  <2> QED
    BY <1>7, <2>1 DEF StageSub, Ordered, Ended
<1>8. CASE PackageDone
  <2>1. \A i \in want : <<ver, i>> \in ipks
    BY <1>0, <1>8 DEF PackageDone, Ordered, Subs
  <2> QED
    BY <1>8, <2>1 DEF PackageDone, Finish, Ordered, Ended
<1>9. CASE CleanSub \/ CleanGeneric
  BY <1>9 DEF CleanSub, CleanGeneric, Disowned, Ordered, Ended
<1>10. CASE RmWrkDir \/ TopClean
  BY <1>10 DEF RmWrkDir, TopClean, Finish, Ordered, Ended
<1>11. CASE Crash
  BY <1>11, CrashControl DEF Ordered, Ended
<1>12. CASE UNCHANGED vars
  BY <1>12 DEF vars, Ordered, Ended, OutOfDate
<1> QED
  BY <1>1, <1>2, <1>3, <1>4, <1>5, <1>6, <1>7, <1>8, <1>9, <1>10, <1>11, <1>12 DEF Next

LEMMA EmptiedStep ==
  ASSUME TypeOK, Ordered, Emptied, [Next]_vars
  PROVE  Emptied'
<1> USE DEF disk
<1>0. NSubs \in Nat /\ sub \in Nat /\ want \subseteq Subs /\ \A i \in Subs : i \in Nat /\ ~(i < 1)
  BY StagingBounds DEF TypeOK, Subs
<1>1. CASE ChangeVersion \/ package_clean
  BY <1>1 DEF ChangeVersion, package_clean, Emptied, Ended
<1>2. ASSUME NEW g \in Goals, NEW S \in SUBSET Declared[ver], Start(g, S) PROVE Emptied'
  <2>1. S \subseteq Subs
    BY StagedPlaced
  <2>2. \A i \in want' : ~(i < sub')
    BY <1>0, <1>2, <2>1 DEF Start
  <2> QED
    BY <1>2, <2>2 DEF Start, FirstStep, Goals, Emptied, Ended
<1>3. CASE StageConfig \/ Unstage \/ Stage \/ StageScripts \/ SkipSub \/ StageSub
  BY <1>3 DEF StageConfig, Unstage, Stage, StageScripts, SkipSub, StageSub, Emptied, Ended
<1>4. CASE UnstageSub
  <2>1. sub \in Subs /\ sman'[sub] = {}
    BY <1>4, SubIsOne DEF UnstageSub, OutOfDate, TypeOK
  <2> QED
    BY <1>4, <2>1 DEF UnstageSub, Emptied, Ended
<1>5. CASE PackageDone
  BY <1>5 DEF PackageDone, Finish, Ordered, Emptied, Ended
<1>6. CASE CleanSub
  <2>1. sub \in Subs /\ want' = want /\ sub' = sub + 1 /\ sman \in [Subs -> SUBSET (Usr(Path) \union Scripts(Path))]
    BY <1>6, SubIsOne DEF CleanSub, TypeOK
  <2>2. ASSUME NEW i \in want, i < sub + 1 PROVE sman'[i] = {}
    <3>1. i \in Subs /\ i \in Nat /\ (i < sub \/ i = sub)
      BY <1>0, <2>2
    <3>2. CASE i < sub
      BY <1>6, <2>1, <3>1, <3>2 DEF CleanSub, Emptied
    <3>3. CASE i = sub
      BY <1>6, <2>1, <3>3 DEF CleanSub
    <3> QED
      BY <3>1, <3>2, <3>3
  <2> QED
    BY <1>6, <2>1, <2>2 DEF CleanSub, Emptied, Ended
<1>7. CASE CleanGeneric
  <2>1. want = Declared[ver] /\ \A i \in want : sman[i] = {}
    BY <1>0, <1>7 DEF CleanGeneric, Ordered, Emptied, Subs
  <2> QED
    BY <1>7, <2>1 DEF CleanGeneric, Emptied, Ended
<1>8. CASE RmWrkDir
  BY <1>8 DEF RmWrkDir, Finish, Emptied, Ended
<1>9. CASE TopClean
  BY <1>9 DEF TopClean, Finish, Ordered, Emptied, Ended
<1>10. CASE Crash
  BY <1>10, CrashControl DEF Emptied, Ended
<1>11. CASE UNCHANGED vars
  BY <1>11 DEF vars, Emptied, Ended
<1> QED
  BY <1>1, <1>2, <1>3, <1>4, <1>5, <1>6, <1>7, <1>8, <1>9, <1>10, <1>11 DEF Next

-----------------------------------------------------------------------------
(* No file leaves the manifests before it leaves the sysroot.              *)

\* The files of a recipe that may have died: the places D have been copied, M listed.
LEMMA TornCovered ==
  ASSUME Covered, NEW D, NEW M, Torn(D, M), NEW f \in Path \ Config,
         <<"usr", f>> \in sysroot \union D
  PROVE  <<"usr", f>> \in man \union M \union orphans' \/ \E i \in Subs : <<"usr", f>> \in sman[i]
  BY DEF Covered, Torn

LEMMA CoveredStep ==
  ASSUME TypeOK, Ordered, Emptied, Covered, [Next]_vars
  PROVE  Covered'
<1> USE DEF disk, ghosts
<1>1. ASSUME \A f \in Path \ Config : <<"usr", f>> \in sysroot' => <<"usr", f>> \in sysroot,
             man \subseteq man', sman' = sman, orphans' = orphans
      PROVE  Covered'
  BY <1>1 DEF Covered
<1>2. ASSUME sysroot' = sysroot \ man, man' = {}, sman' = sman, orphans' = orphans
      PROVE  Covered'
  BY <1>2 DEF Covered
<1>3. ASSUME sub \in Subs, sysroot' = sysroot \ sman[sub], sman' = [sman EXCEPT ![sub] = {}],
             man' = man, orphans' = orphans
      PROVE  Covered'
  BY <1>3 DEF Covered, TypeOK
<1>4. ASSUME man = {}, sman' = sman, NEW D, NEW M, man' = M, Torn(D, M),
             sysroot' = sysroot \union D
      PROVE  Covered'
  BY <1>4, TornCovered DEF Covered
<1>5. ASSUME sub \in Subs, sman[sub] = {}, man' = man, NEW D, NEW M, NEW A, NEW B, Torn(D, M),
             sman' = [sman EXCEPT ![sub] = M \union Scripts(B)],
             sysroot' = sysroot \union D \union A, A \subseteq Scripts(Program)
      PROVE  Covered'
  <2> SUFFICES ASSUME NEW f \in Path \ Config, <<"usr", f>> \in sysroot'
               PROVE  \/ <<"usr", f>> \in man' \union orphans'
                      \/ \E i \in Subs : <<"usr", f>> \in sman'[i]
    BY DEF Covered
  <2>1. <<"usr", f>> \in sysroot \union D
    BY <1>5, NotScripts
  <2>2. \/ <<"usr", f>> \in man \union M \union orphans'
        \/ \E i \in Subs : <<"usr", f>> \in sman[i]
    BY <1>5, <2>1, TornCovered
  <2>3. M \subseteq sman'[sub] /\ \A i \in Subs : i # sub => sman'[i] = sman[i]
    BY <1>5 DEF TypeOK
  <2> QED
    BY <1>5, <2>2, <2>3
<1>6. ASSUME NEW A, NEW C \in SUBSET Config, sysroot' = sysroot \union Usr(C) \union Scripts(A),
             man' = man, sman' = sman, orphans' = orphans
      PROVE  Covered'
  <2>1. \A f \in Path \ Config : <<"usr", f>> \notin Usr(C) \union Scripts(A)
    BY InUsr, NotScripts
  <2> QED
    BY <1>1, <1>6, <2>1
<1>7. CASE ChangeVersion \/ package_clean \/ SkipSub \/ PackageDone \/ RmWrkDir
  BY <1>1, <1>7 DEF ChangeVersion, package_clean, SkipSub, PackageDone, RmWrkDir
<1>8. ASSUME NEW g \in Goals, NEW S \in SUBSET Declared[ver], Start(g, S) PROVE Covered'
  BY <1>1, <1>8 DEF Start
<1>9. CASE StageConfig
  BY <1>6, <1>9, StagedPlaced DEF StageConfig
<1>10. CASE Unstage \/ CleanGeneric
  BY <1>2, <1>10 DEF Unstage, CleanGeneric
<1>11. CASE Stage
  <2>1. Torn(Usr(Installs[ver]), Usr(Installs[ver])) /\ man = {}
    BY <1>11 DEF Stage, Torn, Emptied, TypeOK
  <2> QED
    BY <1>4, <1>11, <2>1 DEF Stage
<1>12. CASE StageScripts
  <2>1. sysroot' = sysroot \union Scripts(Listed) /\ man \subseteq man'
    BY <1>12 DEF StageScripts
  <2> QED
    BY <1>1, <1>12, <2>1, NotScripts DEF StageScripts
<1>13. CASE UnstageSub
  BY <1>3, <1>13, SubIsOne DEF UnstageSub, OutOfDate
<1>14. CASE StageSub
  <2> DEFINE F == Share(ver, sub)
  <2>1. sub \in Subs /\ sman[sub] = {}
    BY <1>14, SubIsOne DEF StageSub, Ordered, OutOfDate, Emptied
  <2>2. Torn(Usr(F), Usr(F))
    BY <1>14 DEF StageSub, Torn
  <2>3. sman'[sub] = Usr(F) \union Scripts(F \intersect Program)
    BY <1>14, <2>1 DEF StageSub, TypeOK
  <2>4. sysroot' = sysroot \union Usr(F) \union Scripts(F \intersect Program)
    BY <1>14, <2>3 DEF StageSub
  <2>5. Scripts(F \intersect Program) \subseteq Scripts(Program)
    BY Placed
  <2>6. sman' = [sman EXCEPT ![sub] = Usr(F) \union Scripts(F \intersect Program)] /\ man' = man
    BY <1>14 DEF StageSub
  <2> HIDE DEF F
  <2> QED
    BY <1>5, <2>1, <2>2, <2>4, <2>5, <2>6
<1>15. CASE CleanSub
  BY <1>1, <1>3, <1>15, SubIsOne DEF CleanSub
<1>16. ASSUME UnlistAll, sman' = sman, orphans' = orphans PROVE Covered'
  <2>1. CASE Capital
    BY <1>1, <1>16, <2>1 DEF UnlistAll
  <2>2. CASE ~Capital
    BY <1>16, <2>2 DEF UnlistAll, Covered
  <2> QED
    BY <2>1, <2>2
<1>17. CASE TopClean
  BY <1>16, <1>17 DEF TopClean
<1>18. CASE Crash
  <2>1. CASE CrashInConfig
    <3>1. PICK C \in SUBSET ConfigOf[ver] : sysroot' = sysroot \union Usr(C) \union Scripts(C)
      BY <2>1 DEF CrashInConfig
    <3>2. C \subseteq Config
      BY StagedPlaced
    <3> QED
      BY <1>6, <2>1, <3>1, <3>2 DEF CrashInConfig
  <2>2. CASE CrashInUnstage \/ CrashInUnstageSub \/ CrashInCleanSub
    BY <1>1, <2>2 DEF CrashInUnstage, CrashInUnstageSub, CrashInCleanSub
  <2>3. CASE CrashInStage
    BY <1>4, <2>3 DEF CrashInStage, Emptied
  <2>4. CASE CrashInScripts
    <3>1. PICK C \in SUBSET Scripts(Listed), L \in SUBSET Scripts(Listed) :
            sysroot' = sysroot \union C /\ man' = man \union L
      BY <2>4 DEF CrashInScripts
    <3>2. \A f \in Path \ Config : <<"usr", f>> \notin C
      BY NotScripts
    <3> QED
      BY <1>1, <2>4, <3>1, <3>2 DEF CrashInScripts
  <2>5. CASE CrashInStageSub
    <3> DEFINE F == Share(ver, sub)
    <3>1. sub \in Subs /\ sman[sub] = {} /\ man' = man
      BY <2>5, SubIsOne DEF CrashInStageSub, Ordered, OutOfDate, Emptied
    <3>2. ASSUME NEW D \in SUBSET Usr(F), NEW M \in SUBSET Usr(F),
                 sman' = [sman EXCEPT ![sub] = M], sysroot' = sysroot \union D, Torn(D, M)
          PROVE  Covered'
      <4>1. Scripts({}) = {}
        BY DEF Scripts
      <4>2. sman' = [sman EXCEPT ![sub] = M \union Scripts({})] /\ sysroot' = sysroot \union D \union {}
        BY <3>2, <4>1
      <4> QED
        BY <1>5, <3>1, <3>2, <4>2
    <3>3. ASSUME NEW C \in SUBSET Scripts(F \intersect Program), NEW L \in SUBSET C,
                 sman' = [sman EXCEPT ![sub] = Usr(F) \union L],
                 sysroot' = sysroot \union Usr(F) \union C, Torn(Usr(F), Usr(F))
          PROVE  Covered'
      <4> DEFINE B == {g \in F : <<"scripts", g>> \in L}
      <4>1. L = Scripts(B)
        BY DEF Scripts
      <4>2. C \subseteq Scripts(Program)
        BY Placed
      <4>3. sman' = [sman EXCEPT ![sub] = Usr(F) \union Scripts(B)]
        BY <3>3, <4>1
      <4> HIDE DEF B, F
      <4> QED
        BY <1>5, <3>1, <3>3, <4>2, <4>3
    <3> QED
      BY <2>5, <3>2, <3>3 DEF CrashInStageSub
  <2>6. CASE CrashInRmWrk \/ CrashBetween
    BY <1>1, <2>6 DEF CrashInRmWrk, CrashBetween
  <2>7. CASE CrashInTopRm
    BY <1>16, <2>7 DEF CrashInTopRm
  <2> QED
    BY <1>18, <2>1, <2>2, <2>3, <2>4, <2>5, <2>6, <2>7 DEF Crash
<1>19. CASE UNCHANGED vars
  BY <1>1, <1>19 DEF vars
<1> QED
  BY <1>7, <1>8, <1>9, <1>10, <1>11, <1>12, <1>13, <1>14, <1>15, <1>17, <1>18, <1>19 DEF Next

-----------------------------------------------------------------------------
(* Whose files the manifests list.                                         *)

\* What a subpackage lists after its recipe has staged its share, or a part of it.
LEMMA ListedShare ==
  ASSUME TypeOK, Listing, sub \in Subs, NEW L, sman' = [sman EXCEPT ![sub] = L],
         man' = man, idirs' = idirs, owner' \in {0, owner}, owner \in {0, ver}, pc' # "scripts",
         \A f \in Path : <<"usr", f>> \in L => f \in Share(ver, sub),
         ipks' \subseteq ipks \union {<<ver, sub>>}
  PROVE  Listing'
<1>1. sman'[sub] = L /\ \A i \in Subs : i # sub => sman'[i] = sman[i]
  BY DEF TypeOK
<1>2. ver \in Version /\ \A f \in Share(ver, sub) : f \in Idir[ver][sub]
  BY DEF TypeOK, Share
<1>3. \A i \in Subs : i # sub /\ <<ver, i>> \in ipks' => <<ver, i>> \in ipks
  OBVIOUS
<1>4. \A i \in Subs, f \in Path : <<"usr", f>> \in sman'[i] => \E u \in Version : f \in Idir[u][i]
  BY <1>1, <1>2 DEF Listing
<1>5. owner' # 0 => \A f \in Path : <<"usr", f>> \in man' => f \in Installs[owner']
  BY DEF Listing
<1>6. owner' # 0 => owner' = owner /\ owner = ver
  OBVIOUS
<1>7. ASSUME owner' # 0, NEW i \in Subs, NEW f \in Path, <<owner, i>> \in ipks', <<"usr", f>> \in sman'[i]
      PROVE  f \in Share(owner, i)
  <2>1. CASE i = sub
    BY <1>1, <1>6, <1>7, <2>1
  <2>2. CASE i # sub
    BY <1>1, <1>3, <1>6, <1>7, <2>2 DEF Listing
  <2> QED
    BY <2>1, <2>2
<1> QED
  BY <1>4, <1>5, <1>6, <1>7 DEF Listing, Share

LEMMA ListingStep ==
  ASSUME TypeOK, Ordered, Emptied, Listing, [Next]_vars
  PROVE  Listing'
<1> USE DEF disk, work, ghosts
<1>1. ASSUME owner' = 0 \/ (owner' = owner /\ man' \subseteq man /\ ipks' \subseteq ipks /\ idirs' = idirs),
             sman' = sman, pc' # "scripts"
      PROVE  Listing'
  BY <1>1 DEF Listing, Share
<1>2. ASSUME sub \in Subs, sman' = [sman EXCEPT ![sub] = {}], man' = man, pc' # "scripts",
             owner' \in {0, owner}, idirs' = idirs, ipks' = ipks
      PROVE  Listing'
  <2>1. \A i \in Subs : sman'[i] \subseteq sman[i]
    BY <1>2 DEF TypeOK
  <2> QED
    BY <1>2, <2>1 DEF Listing, Share
<1>3. CASE ChangeVersion \/ package_clean
  BY <1>1, <1>3 DEF ChangeVersion, package_clean, Listing
<1>4. ASSUME NEW g \in Goals, NEW S \in SUBSET Declared[ver], Start(g, S) PROVE Listing'
  BY <1>1, <1>4 DEF Start, FirstStep, Goals
<1>5. CASE StageConfig
  BY <1>1, <1>5 DEF StageConfig, Disowned
<1>6. CASE Unstage
  BY <1>1, <1>6 DEF Unstage
<1>7. CASE Stage
  BY <1>7 DEF Stage, Ordered, Listing
<1>8. CASE StageScripts
  <2>1. man = Usr(Installs[ver]) /\ scr \subseteq Scripts(Config)
    BY <1>8 DEF StageScripts, Listing, TypeOK
  <2>2. \A f \in Path : <<"usr", f>> \in man' => f \in Installs[ver]
    BY <1>8, <2>1, InUsr, NotScripts DEF StageScripts
  <2>3. \A i \in Subs : <<ver, i>> \notin ipks'
    BY <1>8 DEF StageScripts
  <2>4. sman' = sman /\ owner' = ver /\ pc' = "subs"
    BY <1>8 DEF StageScripts
  <2> QED
    BY <2>2, <2>3, <2>4 DEF Listing
<1>9. CASE SkipSub \/ PackageDone
  BY <1>1, <1>9 DEF SkipSub, PackageDone, Finish
<1>10. CASE UnstageSub
  BY <1>2, <1>10, SubIsOne DEF UnstageSub, OutOfDate, Runs
<1>11. CASE StageSub
  <2> DEFINE L == Usr(Share(ver, sub)) \union Scripts(Share(ver, sub) \intersect Program)
  <2>1. sub \in Subs /\ owner \in {0, ver}
    BY <1>11, SubIsOne DEF StageSub, Ordered, OutOfDate
  <2>2. /\ sman' = [sman EXCEPT ![sub] = L] /\ man' = man /\ idirs' = idirs /\ owner' = owner
        /\ pc' # "scripts" /\ ipks' \subseteq ipks \union {<<ver, sub>>}
    BY <1>11 DEF StageSub
  <2>3. \A f \in Path : <<"usr", f>> \in L => f \in Share(ver, sub)
    BY InUsr, NotScripts
  <2> HIDE DEF L
  <2> QED
    BY <2>1, <2>2, <2>3, ListedShare
<1>12. CASE CleanSub
  BY <1>1, <1>2, <1>12, SubIsOne DEF CleanSub, Disowned
<1>13. CASE CleanGeneric
  BY <1>1, <1>13 DEF CleanGeneric, Disowned
<1>14. CASE RmWrkDir
  BY <1>1, <1>14 DEF RmWrkDir, Finish, Ordered
<1>15. CASE TopClean
  BY <1>1, <1>15 DEF TopClean, Finish, Disowned
<1>16. CASE Crash
  <2>0. pc' = "idle"
    BY <1>16, CrashControl
  <2>1. CASE CrashInConfig \/ CrashInUnstage \/ CrashInCleanSub \/ CrashInTopRm
    BY <1>1, <2>0, <2>1 DEF CrashInConfig, CrashInUnstage, CrashInCleanSub, CrashInTopRm, Disowned
  <2>2. CASE CrashInStage \/ CrashInScripts \/ CrashInRmWrk
    BY <1>1, <2>0, <2>2 DEF CrashInStage, CrashInScripts, CrashInRmWrk, Ordered
  <2>3. CASE CrashInUnstageSub
    BY <1>1, <2>0, <2>3 DEF CrashInUnstageSub, Runs
  <2>4. CASE CrashInStageSub
    <3> DEFINE F == Share(ver, sub)
    <3>1. sub \in Subs /\ owner \in {0, ver}
      BY <2>4, SubIsOne DEF CrashInStageSub, Ordered, OutOfDate
    <3>2. man' = man /\ idirs' = idirs /\ ipks' = ipks /\ owner' \in {0, owner}
      BY <2>4 DEF CrashInStageSub, Runs
    <3>3. ASSUME NEW M \in SUBSET Usr(F), sman' = [sman EXCEPT ![sub] = M] PROVE Listing'
      <4>1. \A f \in Path : <<"usr", f>> \in M => f \in F
        BY InUsr
      <4> QED
        BY <2>0, <3>1, <3>2, <3>3, <4>1, ListedShare
    <3>4. ASSUME NEW C \in SUBSET Scripts(F \intersect Program), NEW L \in SUBSET C,
                 sman' = [sman EXCEPT ![sub] = Usr(F) \union L]
          PROVE  Listing'
      <4> DEFINE K == Usr(F) \union L
      <4>1. \A f \in Path : <<"usr", f>> \in K => f \in F
        BY InUsr, NotScripts
      <4> HIDE DEF K
      <4>2. sman' = [sman EXCEPT ![sub] = K]
        BY <3>4 DEF K
      <4> QED
        BY <2>0, <3>1, <3>2, <4>1, <4>2, ListedShare
    <3> QED
      BY <2>4, <3>3, <3>4 DEF CrashInStageSub
  <2>5. CASE CrashBetween
    BY <1>1, <2>0, <2>5 DEF CrashBetween
  <2> QED
    BY <1>16, <2>1, <2>2, <2>3, <2>4, <2>5 DEF Crash
<1>17. CASE UNCHANGED vars
  BY <1>17 DEF vars, Listing, Share
<1> QED
  BY <1>3, <1>4, <1>5, <1>6, <1>7, <1>8, <1>9, <1>10, <1>11, <1>12, <1>13, <1>14, <1>15,
     <1>16, <1>17 DEF Next

-----------------------------------------------------------------------------
(* What is due is in the sysroot.                                          *)

\* Steps that remove nothing and build nothing.
LEMMA PendingKept ==
  ASSUME Pending, owner' = owner, idirs' = idirs, ran' = ran, ipks' \subseteq ipks,
         sysroot \subseteq sysroot', pc # "substage"
  PROVE  Pending'
<1> SUFFICES ASSUME owner # 0, NEW f \in Path, Due(f)', <<"usr", f>> \notin sysroot'
             PROVE  MayLack(f)'
  BY DEF Pending
<1>1. Due(f) /\ <<"usr", f>> \notin sysroot
  BY DEF Due, Share
<1>2. MayLack(f)
  BY <1>1 DEF Pending
<1> QED
  BY <1>2 DEF MayLack, Share

\* The recipe of a subpackage of the owner removes what the manifest lists, or a part of it.
LEMMA PendingUnstaged ==
  ASSUME TypeOK, Listing, Pending, owner = ver, owner' = owner, idirs' = idirs, ipks' = ipks,
         pc = "subs", sub \in Subs, OutOfDate, NEW how, ran' = [ran EXCEPT ![sub] = how],
         \/ how = "amiss"
         \/ how = "well" /\ ~OutOfTurn /\ pc' = "substage" /\ sub' = sub,
         sysroot \ sman[sub] \subseteq sysroot'
  PROVE  Pending'
<1> SUFFICES ASSUME owner # 0, NEW f \in Path, Due(f)', <<"usr", f>> \notin sysroot'
             PROVE  MayLack(f)'
  BY DEF Pending
<1>1. Due(f)
  BY DEF Due, Share
<1>2. ran'[sub] = how /\ \A j \in Subs : j # sub => ran'[j] = ran[j]
  BY DEF TypeOK
<1>3. ASSUME NEW u \in Version, f \in Idir[u][sub] PROVE MayLack(f)'
  <2>1. how = "well" =>
          /\ pc' = "substage" /\ sub' = sub
          /\ \A i \in Subs : sub < i => <<owner, i>> \notin ipks
    BY DEF OutOfTurn
  <2> QED
    BY <1>2, <1>3, <2>1 DEF MayLack, Share
<1>4. CASE <<"usr", f>> \in sysroot
  <2>1. <<"usr", f>> \in sman[sub]
    BY <1>4
  <2> QED
    BY <1>3, <2>1 DEF Listing
<1>5. CASE <<"usr", f>> \notin sysroot
  <2>1. PICK j \in Subs, u \in Version :
          /\ f \in Idir[u][j] /\ ran[j] # "no"
          /\ ran[j] = "well" =>
               /\ f \notin Share(owner, j)
               /\ \A i \in Subs : j < i /\ f \in Share(owner, i) => <<owner, i>> \notin ipks
    BY <1>1, <1>5 DEF Pending, MayLack
  <2>2. CASE j = sub
    BY <1>3, <2>1, <2>2
  <2>3. CASE j # sub
    BY <1>2, <2>1, <2>3 DEF MayLack, Share
  <2> QED
    BY <2>2, <2>3
<1> QED
  BY <1>4, <1>5

\* The recipe has staged the share of its subpackage.
LEMMA PendingStaged ==
  ASSUME TypeOK, Ordered, Pending, StageSub
  PROVE  Pending'
<1>1. /\ sub \in Subs /\ owner \in {0, ver} /\ pc = "substage"
  BY SubIsOne DEF StageSub, Ordered, OutOfDate
<1>2. owner' = owner /\ idirs' = idirs /\ ran' = ran /\ ipks' = ipks \union {<<ver, sub>>}
  BY DEF StageSub
<1>3. sysroot \subseteq sysroot' /\ Usr(Share(ver, sub)) \subseteq sysroot'
  <2>1. Usr(Share(ver, sub)) \subseteq sman'[sub]
    BY <1>1 DEF StageSub, TypeOK
  <2> QED
    BY <2>1 DEF StageSub
<1> SUFFICES ASSUME owner # 0, NEW f \in Path, Due(f)', <<"usr", f>> \notin sysroot'
             PROVE  MayLack(f)'
  BY <1>2 DEF Pending
<1>4. f \notin Share(owner, sub) /\ owner = ver
  BY <1>1, <1>3, InUsr
<1>5. Due(f)
  BY <1>1, <1>2, <1>4 DEF Due, Share
<1>6. PICK j \in Subs, u \in Version :
        /\ f \in Idir[u][j] /\ ran[j] # "no"
        /\ ran[j] = "well" =>
             /\ (pc = "substage" /\ j = sub) \/ f \notin Share(owner, j)
             /\ \A i \in Subs : j < i /\ f \in Share(owner, i) => <<owner, i>> \notin ipks
  BY <1>3, <1>5 DEF Pending, MayLack
<1>7. ran[j] = "well" =>
        /\ f \notin Share(owner, j)
        /\ \A i \in Subs : j < i /\ f \in Share(owner, i) => <<owner, i>> \notin ipks'
  BY <1>2, <1>4, <1>6
<1> QED
  BY <1>2, <1>6, <1>7 DEF MayLack, Share

\* It has died there.
LEMMA PendingTorn ==
  ASSUME TypeOK, Ordered, Pending, CrashInStageSub
  PROVE  Pending'
<1>1. /\ sub \in Subs /\ owner \in {0, ver} /\ pc = "substage"
  BY SubIsOne DEF CrashInStageSub, Ordered, OutOfDate
<1>2. idirs' = idirs /\ ipks' = ipks /\ Runs(sub, "amiss")
  BY DEF CrashInStageSub, work
<1>3. sysroot \subseteq sysroot'
  BY DEF CrashInStageSub
<1> SUFFICES ASSUME owner' # 0, NEW f \in Path, Due(f)', <<"usr", f>> \notin sysroot'
             PROVE  MayLack(f)'
  BY DEF Pending
<1>4. owner' = owner /\ owner # 0 /\ ran' = [ran EXCEPT ![sub] = "amiss"]
  BY <1>2 DEF Runs
<1>5. ran'[sub] = "amiss" /\ \A j \in Subs : j # sub => ran'[j] = ran[j]
  BY <1>1, <1>4 DEF TypeOK
<1>6. Due(f) /\ <<"usr", f>> \notin sysroot
  BY <1>2, <1>3, <1>4 DEF Due, Share
<1>7. PICK j \in Subs, u \in Version :
        /\ f \in Idir[u][j] /\ ran[j] # "no"
        /\ ran[j] = "well" =>
             /\ (pc = "substage" /\ j = sub) \/ f \notin Share(owner, j)
             /\ \A i \in Subs : j < i /\ f \in Share(owner, i) => <<owner, i>> \notin ipks
  BY <1>4, <1>6 DEF Pending, MayLack
<1>8. ran'[j] # "no" /\ (ran'[j] = "well" =>
             /\ f \notin Share(owner, j)
             /\ \A i \in Subs : j < i /\ f \in Share(owner, i) => <<owner, i>> \notin ipks)
  BY <1>5, <1>7
<1> QED
  BY <1>2, <1>4, <1>7, <1>8 DEF MayLack, Share

LEMMA PendingStep ==
  ASSUME TypeOK, Ordered, Listing, Pending, [Next]_vars
  PROVE  Pending'
<1> USE DEF disk, work, ghosts
<1>1. ASSUME owner' = 0 PROVE Pending'
  BY <1>1 DEF Pending
<1>2. CASE ChangeVersion \/ package_clean
  BY <1>2, PendingKept DEF ChangeVersion, package_clean
<1>3. ASSUME NEW g \in Goals, NEW S \in SUBSET Declared[ver], Start(g, S) PROVE Pending'
  BY <1>3, PendingKept DEF Start
<1>4. CASE StageConfig \/ Unstage \/ Stage
  BY <1>1, <1>4 DEF StageConfig, Disowned, Unstage, Stage, Ordered
<1>5. CASE StageScripts
  <2>1. Usr(Installs[ver]) \subseteq sysroot' /\ owner' = ver
    BY <1>5 DEF StageScripts, Listing
  <2>2. \A i \in Subs : <<ver, i>> \notin ipks'
    BY <1>5 DEF StageScripts
  <2>3. \A f \in Path : Due(f)' => f \in Installs[ver]
    BY <2>1, <2>2 DEF Due
  <2> QED
    BY <2>1, <2>3, InUsr DEF Pending
<1>6. CASE SkipSub \/ PackageDone
  BY <1>6, PendingKept DEF SkipSub, PackageDone
<1>7. CASE UnstageSub
  <2>1. sub \in Subs /\ OutOfDate /\ pc = "subs" /\ pc' = "substage" /\ sub' = sub
    BY <1>7, SubIsOne DEF UnstageSub, OutOfDate
  <2>2. CASE owner = ver
    <3> DEFINE how == IF OutOfTurn THEN "amiss" ELSE "well"
    <3>1. ran' = [ran EXCEPT ![sub] = how] /\ owner' = owner
      BY <1>7, <2>2 DEF UnstageSub, Runs
    <3>2. how = "amiss" \/ (how = "well" /\ ~OutOfTurn)
      OBVIOUS
    <3>3. sysroot \ sman[sub] \subseteq sysroot' /\ idirs' = idirs /\ ipks' = ipks
      BY <1>7 DEF UnstageSub
    <3> HIDE DEF how
    <3> QED
      BY <2>1, <2>2, <3>1, <3>2, <3>3, PendingUnstaged
  <2>3. CASE owner # ver
    BY <1>1, <1>7, <2>3 DEF UnstageSub, Runs
  <2> QED
    BY <2>2, <2>3
<1>8. CASE StageSub
  BY <1>8, PendingStaged
<1>9. CASE CleanSub \/ CleanGeneric \/ TopClean
  BY <1>1, <1>9 DEF CleanSub, CleanGeneric, TopClean, Disowned
<1>10. CASE RmWrkDir
  BY <1>1, <1>10 DEF RmWrkDir, Ordered
<1>11. CASE Crash
  <2>1. CASE CrashInConfig \/ CrashInUnstage \/ CrashInCleanSub \/ CrashInTopRm
    BY <1>1, <2>1 DEF CrashInConfig, CrashInUnstage, CrashInCleanSub, CrashInTopRm, Disowned
  <2>2. CASE CrashInStage \/ CrashInScripts \/ CrashInRmWrk
    BY <1>1, <2>2 DEF CrashInStage, CrashInScripts, CrashInRmWrk, Ordered
  <2>3. CASE CrashInUnstageSub
    <3>1. sub \in Subs /\ OutOfDate /\ pc = "subs" /\ Runs(sub, "amiss")
      BY <2>3, SubIsOne DEF CrashInUnstageSub, OutOfDate
    <3>2. sysroot \ sman[sub] \subseteq sysroot' /\ idirs' = idirs /\ ipks' = ipks
      BY <2>3 DEF CrashInUnstageSub
    <3>3. CASE owner = ver
      BY <3>1, <3>2, <3>3, PendingUnstaged DEF Runs
    <3>4. CASE owner # ver
      BY <1>1, <3>1, <3>4 DEF Runs
    <3> QED
      BY <3>3, <3>4
  <2>4. CASE CrashInStageSub
    BY <2>4, PendingTorn
  <2>5. CASE CrashBetween
    BY <2>5, PendingKept DEF CrashBetween
  <2> QED
    BY <1>11, <2>1, <2>2, <2>3, <2>4, <2>5 DEF Crash
<1>12. CASE UNCHANGED vars
  BY <1>12 DEF vars, Pending, Due, MayLack, Share
<1> QED
  BY <1>2, <1>3, <1>4, <1>5, <1>6, <1>7, <1>8, <1>9, <1>10, <1>11, <1>12 DEF Next

-----------------------------------------------------------------------------
(* Theorems.                                                               *)

LEMMA InvInit == Init => IInv
<1> SUFFICES ASSUME Init PROVE IInv
  OBVIOUS
<1>1. TypeOK
  <2>1. sub \in 1..NSubs + 1 /\ crashes \in 0..MaxCrashes /\ changes \in 0..MaxChanges
    BY StagingBounds DEF Init
  <2>2. sman \in [Subs -> SUBSET (Usr(Path) \union Scripts(Path))]
    BY DEF Init
  <2> QED
    BY <2>1, <2>2 DEF Init, TypeOK, Goals, NotRun
<1>2. Ordered /\ Emptied
  BY DEF Init, Ordered, Emptied, Ended
<1>3. Covered /\ Listing /\ Pending
  BY DEF Init, Covered, Listing, Pending
<1> QED
  BY <1>1, <1>2, <1>3 DEF IInv

\* Whatever the versions of the package install, in whatever order they come, whichever
\* subpackages are selected and whichever invocations die, IInv holds.
THEOREM StagingInvariant == Spec => []IInv
<1>1. IInv /\ [Next]_vars => IInv'
  BY TypeStep, OrderedStep, EmptiedStep, CoveredStep, ListingStep, PendingStep DEF IInv
<1> QED
  BY <1>1, InvInit, PTL DEF Spec

\* Every variable keeps its type: no recipe runs past the list of subpackages, and no
\* manifest lists a *-config script of usr/bin, which grep -v takes out.
THEOREM StagingTypeCorrect == Spec => []TypeOK
<1>1. IInv => TypeOK
  BY DEF IInv
<1> QED
  BY <1>1, StagingInvariant, PTL

\* A build that ends well leaves in the sysroot all that the version installs and that
\* the selected subpackages pack, but for the files that the recipe of a subpackage has
\* taken away for good (Taken), as long as nothing but this version's recipes has dealt
\* with the sysroot since its .fake_done.
THEOREM StagingRestored == Spec => []Restored
<1>1. IInv => Restored
  <2> SUFFICES ASSUME IInv, Ended("package"), owner = ver, NEW f \in Wanted \ Taken
               PROVE  <<"usr", f>> \in sysroot
    BY DEF Restored, Usr
  <2>1. ver \in Version /\ owner # 0 /\ want \subseteq Subs /\ pc = "idle"
    BY DEF IInv, TypeOK, Version, Ended
  <2>2. \A i \in want : <<owner, i>> \in ipks
    BY DEF IInv, Ordered
  <2>3. f \in Path
    <3>1. Installs[ver] \subseteq Path /\ \A i \in Subs : Share(ver, i) \subseteq Path
      BY StagedPlaced DEF IInv
    <3> QED
      BY <2>1, <3>1 DEF Wanted
  <2>4. Due(f)
    BY <2>1, <2>2 DEF Wanted, Due
  <2>5. CASE MayLack(f)
    <3>1. PICK j \in Subs, u \in Version :
          /\ f \in Idir[u][j] /\ ran[j] # "no"
          /\ ran[j] = "well" =>
               /\ f \notin Share(owner, j)
               /\ \A i \in Subs : j < i /\ f \in Share(owner, i) => <<owner, i>> \notin ipks
      BY <2>1, <2>5 DEF MayLack
    <3>2. ran[j] = "well" => f \notin Share(ver, j) /\ \A i \in want : j < i => f \notin Share(ver, i)
      BY <2>1, <2>2, <3>1
    <3>3. f \in Taken
      BY <2>3, <3>1, <3>2 DEF Taken
    <3> QED
      BY <3>3
  <2> QED
    BY <2>1, <2>3, <2>4, <2>5 DEF IInv, Pending
<1> QED
  BY <1>1, StagingInvariant, PTL

\* After such a build the sysroot holds nothing else of the package, and after a clean
\* nothing at all, but for the *-config scripts in usr/bin, what a build that died had
\* copied and not listed, and what a subpackage that is no longer selected, or that the
\* version no longer has, still lists.
THEOREM StagingNothingStale == Spec => []NothingStale
<1>1. ASSUME IInv, Ended("package"), owner = ver,
             NEW f \in Path \ Config, <<"usr", f>> \in sysroot, <<"usr", f>> \notin orphans
      PROVE  f \in Wanted \union Still(Subs \ want)
  <2>1. owner # 0 /\ want \subseteq Subs /\ \A i \in want : <<ver, i>> \in ipks
    BY <1>1 DEF IInv, TypeOK, Version, Ordered
  <2>2. CASE <<"usr", f>> \in man
    BY <1>1, <2>1, <2>2 DEF IInv, Listing, Wanted
  <2>3. ASSUME NEW i \in Subs, <<"usr", f>> \in sman[i]
        PROVE  f \in Wanted \union Still(Subs \ want)
    <3>1. CASE i \in want
      BY <1>1, <2>1, <2>3, <3>1 DEF IInv, Listing, Wanted
    <3>2. CASE i \notin want
      BY <2>3, <3>2 DEF Still
    <3> QED
      BY <3>1, <3>2
  <2> QED
    BY <1>1, <2>2, <2>3 DEF IInv, Covered
<1>2. ASSUME IInv, Ended("clean"),
             NEW f \in Path \ Config, <<"usr", f>> \in sysroot, <<"usr", f>> \notin orphans
      PROVE  f \in Still(Subs \ Declared[ver])
  <2>1. man = {} /\ \A i \in Declared[ver] : sman[i] = {}
    BY <1>2 DEF IInv, Emptied
  <2>2. PICK i \in Subs : <<"usr", f>> \in sman[i]
    BY <1>2, <2>1 DEF IInv, Covered
  <2> QED
    BY <2>1, <2>2 DEF Still
<1>3. IInv => NothingStale
  BY <1>1, <1>2 DEF NothingStale
<1> QED
  BY <1>3, StagingInvariant, PTL

=============================================================================
