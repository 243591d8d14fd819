------------------------------ MODULE WorkDir ------------------------------
(***************************************************************************)
(* The life of one package's work directory (WRKDIR): the cookie chain     *)
(*                                                                         *)
(*   distfile -> .checksum_done -> .extract_done -> .prepared              *)
(*            -> .configure_done -> .build_done -> .fake_done -> IPKG      *)
(*                                                                         *)
(* of mk/fetch.mk, mk/buildhlp.mk, mk/pkg-bottom.mk and mk/package.mk,     *)
(* driven by the goals a user gives to make ("make package=p <goal>") and  *)
(* by the part of "make world" that concerns the package.  GNU make        *)
(* decides from modification times alone what to redo, so a recipe that    *)
(* fails or is interrupted, an rm -rf that does not reach its end, or a    *)
(* configuration that changes under a built tree must all leave cookies    *)
(* from which the next invocation still builds the right thing.            *)
(*                                                                         *)
(* Modification times are kept as what make derives from them: a product   *)
(* is absent, stale (older than one of its prerequisites) or fresh.        *)
(***************************************************************************)
EXTENDS Naturals

CONSTANTS
    Format,      \* the package format: "ipkg" (scripts/ipkg-build) or "txz" (scripts/tarpkg)
    Faults,      \* the kinds of fault that may strike, see FaultKinds
    MaxFaults,   \* bound: how many faults one behaviour may contain
    MaxReconf    \* bound: how many times the user changes the configuration

(***************************************************************************)
(* crash     a signal or a power loss at any point of an invocation        *)
(* error     a command of a recipe fails (full disk, compiler error, ...)  *)
(* download  a download ends with a truncated file                         *)
(* silent    a command fails and its recipe goes on: a patch that leaves   *)
(*           no .rej file behind, tar in the pipe of tarpkg                *)
(* rmerror   rm -rf of the work directory itself fails                     *)
(***************************************************************************)
FaultKinds == {"crash", "error", "download", "silent", "rmerror"}

ASSUME FormatAssumption == Format \in {"ipkg", "txz"}
ASSUME FaultsAssumption == Faults \subseteq FaultKinds
ASSUME BoundsAssumption == MaxFaults \in Nat /\ MaxReconf \in Nat

VARIABLES
    ck,       \* what make sees of each target: "absent", "stale" or "fresh"
    dist,     \* the content of the distfile
    tree,     \* the sources in WRKDIST: how far extraction and patching got
    made,     \* the content of what control, configure, build, fake and ipkg make
    stamp,    \* does the stamp _IPKGS_COOKIE exist?
    flag,     \* does .rebuild.<package> exist?
    info,     \* what is installed of the package in TARGET_DIR
    goal,     \* the goal of the last or current invocation of make
    pc,       \* the step of the goal's command list, "idle" between invocations
    checked,  \* targets the current (sub-)make has already considered
    run,      \* the target whose recipe is running, or "none"
    last,     \* outcome of the last invocation
    tainted,  \* history: a clean asked for by hand has not been completed
    torn,     \* history: files a recipe that died left half-written, not redone since
    faults, reconfs   \* how much of the two bounds has been used

files == <<ck, dist, tree, made, stamp, flag, info>>
vars  == <<ck, dist, tree, made, stamp, flag, info,
           goal, pc, checked, run, last, tainted, torn, faults, reconfs>>

-----------------------------------------------------------------------------
(* The targets of a package's Makefile and their prerequisites.            *)

Target == {"dist", "checksum", "extract", "patch", "control",
           "configure", "build", "fake", "ipkg"}

\* Everything that lives below WRKDIR and goes when it is removed.
WrkTarget == Target \ {"dist", "ipkg"}

Deps == [dist |-> {}, checksum |-> {"dist"}, extract |-> {"checksum"},
         patch |-> {"extract"}, control |-> {"patch"}, configure |-> {"patch"},
         build |-> {"configure"}, fake |-> {"build"}, ipkg |-> {"control", "fake"}]

\* The targets make considers for a goal: the goal and all it rests on.
Needed == [dist  |-> {"dist"},
           patch |-> {"dist", "checksum", "extract", "patch"},
           fake  |-> Target \ {"control", "ipkg"},
           ipkg  |-> Target]

Product == {"control", "configure", "build", "fake", "ipkg"}
Quality == {"none", "partial", "good", "bad"}   \* bad: complete, of wrong input
Sources == {"none", "partial", "pristine", "half", "patched", "bad"}

Goals == {"world", "patch", "fake", "package", "clean", "refetch"}

\* Steps that call make for a cookie or package file, and what they ask for.
SubMake == [patch |-> "patch", fake |-> "fake", compile |-> "fake",
            package |-> "ipkg", allpkgs |-> "ipkg", install |-> "ipkg",
            fetch |-> "dist"]
MakeStep == DOMAIN SubMake
Steps == MakeStep \union {"package_clean", "flag", "flagclean", "rmflag",
                          "root_clean", "clean", "rmdist"}

Typed ==
    /\ ck \in [Target -> {"absent", "stale", "fresh"}]
    /\ dist \in {"none", "good", "bad"}
    /\ tree \in Sources
    /\ made \in [Product -> Quality]
    /\ stamp \in BOOLEAN /\ flag \in BOOLEAN /\ tainted \in BOOLEAN
    /\ info \in Quality
    /\ goal \in Goals \union {"none"}
    /\ pc \in Steps \union {"idle"}
    /\ checked \subseteq Target
    /\ run \in Target \union {"none"}
    /\ last \in {"none", "ok", "fail"}
    /\ torn \subseteq {"control", "ipkg"}
    /\ faults \in 0..MaxFaults /\ reconfs \in 0..MaxReconf

\* What make takes to be there, and only that, is there.
FilesSeen ==
    /\ ck["dist"] = "absent" <=> dist = "none"
    /\ ck["ipkg"] = "absent" <=> made["ipkg"] = "none"

TypeOK == Typed /\ FilesSeen

Init ==
    /\ ck = [t \in Target |-> "absent"]
    /\ dist = "none" /\ tree = "none"
    /\ made = [p \in Product |-> "none"]
    /\ stamp = FALSE /\ flag = FALSE /\ info = "none"
    /\ goal = "none" /\ pc = "idle" /\ checked = {} /\ run = "none"
    /\ last = "none" /\ tainted = FALSE /\ torn = {}
    /\ faults = 0 /\ reconfs = 0

-----------------------------------------------------------------------------
(* Effects of recipes on files, as operators on the current values.        *)

\* Variant: make that looks at the existence of its targets only.
TouchedNoMtime(c, t) == [c EXCEPT ![t] = "fresh"]

\* The recipe of t has written t: t is newest, what rests on t is outdated.
Touched(c, t) == [u \in Target |-> IF u = t THEN "fresh"
                                   ELSE IF t \in Deps[u] /\ c[u] # "absent"
                                        THEN "stale" ELSE c[u]]

\* A target removed.
Without(c, T) == [u \in Target |-> IF u \in T THEN "absent" ELSE c[u]]

\* PKG_BUILD of the txz format deletes IDIR/CONTROL once it has read it.
Built(c) == IF Format = "txz" THEN Without(c, {"control"}) ELSE c
\* ... and what has been made then, with q for the package.
Packed(q) == [made EXCEPT !["ipkg"] = q,
                          !["control"] = IF Format = "txz" THEN "none" ELSE @]
Kept(T)   == IF Format = "txz" THEN T \ {"control"} ELSE T

\* What is left of torn files when only that of the package stays.
TornPackage == torn \ {"control"}

\* rm -rf ${WRKDIR} that reaches its end.
Wiped == /\ ck' = Without(ck, WrkTarget)
         /\ tree' = "none"
         /\ made' = [p \in Product |-> IF p = "ipkg" THEN made[p] ELSE "none"]
         /\ torn' = TornPackage

\* rm -rf ${WRKDIR} cut short: any of the cookies survive, of the files below
\* them some are gone.
Worn(q) == IF q = "none" THEN "none" ELSE "partial"
WornWork ==
    /\ tree' = IF tree \in {"half", "patched", "bad"} THEN "half" ELSE Worn(tree)
    /\ made' = [p \in Product |-> IF p = "ipkg" THEN made[p] ELSE Worn(made[p])]
Residue ==
    /\ \E K \in SUBSET {t \in WrkTarget : ck[t] # "absent"} : ck' = Without(ck, WrkTarget \ K)
    /\ WornWork /\ torn' = TornPackage

\* Is everything the recipe of product p works on what it should be?
InputGood(p) == /\ p \in {"configure", "build"} => tree = "patched"
                /\ p = "build" => made["configure"] = "good"
                /\ p = "fake"  => made["build"] = "good"
                /\ p = "ipkg"  => made["fake"] = "good" /\ made["control"] = "good"

-----------------------------------------------------------------------------
(* The invocations of make.                                                *)

FirstStep == [world |-> "package_clean", patch |-> "patch", fake |-> "fake",
              package |-> "package", clean |-> "clean", refetch |-> "rmdist"]

\* The user runs make with a goal.
Start(g) ==
    /\ pc = "idle"
    /\ goal' = g /\ pc' = FirstStep[g]
    /\ checked' = {} /\ last' = "none"
    /\ UNCHANGED <<files, run, tainted, torn, faults, reconfs>>

\* The current step is done, the next one begins with a make of its own.
Goto(s) == pc' = s /\ checked' = {} /\ UNCHANGED <<goal, run, last>>
\* The last step is done, the invocation ends well.
Finish  == pc' = "idle" /\ checked' = {} /\ last' = "ok" /\ UNCHANGED <<goal, run>>

\* make world: package_clean removes PACKAGE_DIR.
PackageClean ==
    /\ pc = "package_clean"
    /\ ck' = Without(ck, {"ipkg"}) /\ made' = [made EXCEPT !["ipkg"] = "none"]
    /\ torn' = torn \ {"ipkg"}
    /\ Goto("flag")
    /\ UNCHANGED <<dist, tree, stamp, flag, info, tainted, faults, reconfs>>

\* Variant: the flag is removed before the clean it asks for.
TestAndRmFlag ==
    /\ pc = "flag"
    /\ flag' = FALSE
    /\ Goto(IF flag THEN "flagclean" ELSE "compile")
    /\ UNCHANGED <<ck, dist, tree, made, stamp, info, tainted, torn, faults, reconfs>>

\* %-compile: is there a .rebuild file for the package?
TestFlag ==
    /\ pc = "flag"
    /\ Goto(IF flag THEN "flagclean" ELSE "compile")
    /\ UNCHANGED <<files, tainted, torn, faults, reconfs>>

\* Variant: clean removes packages and stamp only.
CleanPackagesOnly == /\ ck' = Without(ck, {"ipkg"})
                     /\ made' = [made EXCEPT !["ipkg"] = "none"]
                     /\ stamp' = FALSE /\ tainted' = FALSE /\ torn' = torn \ {"ipkg"}
                     /\ UNCHANGED <<dist, tree, flag, info, faults, reconfs>>

\* make clean, by hand or because of the flag:
\* rm -rf ${WRKDIR} ${ALL_IPKGS} ${_IPKGS_COOKIE}
CleanDone == /\ ck' = Without(ck, WrkTarget \union {"ipkg"})
             /\ tree' = "none" /\ made' = [p \in Product |-> "none"]
             /\ stamp' = FALSE /\ tainted' = FALSE /\ torn' = {}
             /\ UNCHANGED <<dist, flag, info, faults, reconfs>>
Clean     == pc = "clean" /\ CleanDone /\ Finish
FlagClean == pc = "flagclean" /\ CleanDone /\ Goto("rmflag")

RmFlag ==
    /\ pc = "rmflag"
    /\ flag' = FALSE
    /\ Goto("compile")
    /\ UNCHANGED <<ck, dist, tree, made, stamp, info, tainted, torn, faults, reconfs>>

\* make world: root_clean empties TARGET_DIR.
RootClean ==
    /\ pc = "root_clean"
    /\ info' = "none"
    /\ Goto("install")
    /\ UNCHANGED <<ck, dist, tree, made, stamp, flag, tainted, torn, faults, reconfs>>

\* Variant: refetch does not remove what is there.
RmDistNothing ==
    /\ pc = "rmdist"
    /\ Goto("fetch")
    /\ UNCHANGED <<files, tainted, torn, faults, reconfs>>

\* refetch: rm -f ${FULLDISTFILES}, then make fetch.
RmDist ==
    /\ pc = "rmdist"
    /\ dist' = "none" /\ ck' = Without(ck, {"dist"})
    /\ Goto("fetch")
    /\ UNCHANGED <<tree, made, stamp, flag, info, tainted, torn, faults, reconfs>>

\* What a step does once make has brought its target up to date.
StepDone ==
    /\ pc \in MakeStep /\ run = "none"
    /\ SubMake[pc] \in checked
    /\ \/ /\ pc \in {"patch", "fake", "fetch"}
          /\ Finish
          /\ UNCHANGED <<stamp, info>>
       \/ /\ pc = "compile"      \* build-all-pkgs: the stamp has no prerequisites
          /\ Goto(IF stamp THEN "root_clean" ELSE "allpkgs")
          /\ UNCHANGED <<stamp, info>>
       \/ /\ pc \in {"package", "allpkgs"}
          /\ IF pc = "package" THEN Finish ELSE Goto("root_clean")
          /\ stamp' = TRUE /\ UNCHANGED info
       \/ /\ pc = "install"      \* PKG_INSTALL of the package file
          /\ Finish
          /\ info' = made["ipkg"] /\ UNCHANGED stamp
    /\ UNCHANGED <<ck, dist, tree, made, flag, tainted, torn, faults, reconfs>>

-----------------------------------------------------------------------------
(* One make: it considers a target once all its prerequisites have been    *)
(* considered, runs the recipe if the target is not fresh, and goes on.    *)

Considered(t) == checked' = checked \union {t} /\ UNCHANGED <<goal, pc, last>>

Due(t) == /\ pc \in MakeStep /\ run = "none"
          /\ t \in Needed[SubMake[pc]] \ checked
          /\ Deps[t] \subseteq checked

Skip(t) ==
    /\ Due(t) /\ ck[t] = "fresh"
    /\ Considered(t)
    /\ UNCHANGED <<files, run, tainted, torn, faults, reconfs>>

\* Variant: recipes that write their cookie first.
BeginTouchingFirst(t) ==
    /\ Due(t) /\ ck[t] # "fresh"
    /\ run' = t
    /\ made' = IF t \in Product THEN [made EXCEPT ![t] = "partial"] ELSE made
    /\ ck'   = Touched(ck, t)
    /\ UNCHANGED <<dist, tree, stamp, flag, info, goal, pc, checked, last,
                   tainted, torn, faults, reconfs>>

\* The recipe starts.  configure, build and fake work in place; fake first
\* removes the control files.
Begin(t) ==
    /\ Due(t) /\ ck[t] # "fresh"
    /\ run' = t
    /\ made' = [p \in Product |-> IF p = t /\ t \in {"configure", "build", "fake"} THEN "partial"
                                 ELSE IF p = "control" /\ t = "fake" THEN "none" ELSE made[p]]
    /\ IF t = "fake"
       THEN ck' = Without(ck, {"control"}) /\ torn' = TornPackage
       ELSE UNCHANGED <<ck, torn>>
    /\ UNCHANGED <<dist, tree, stamp, flag, info, goal, pc, checked, last,
                   tainted, faults, reconfs>>

Fault(k) == k \in Faults /\ faults < MaxFaults /\ faults' = faults + 1
Ended(t) == run = t /\ run' = "none" /\ Considered(t)

\* Variant: the recipe ends with a touch of the distfile, there or not.
EndDistTouch ==
    /\ Ended("dist")
    /\ \/ dist' = "good" /\ UNCHANGED faults
       \/ dist' \in {"none", "bad"} /\ Fault("download")
    /\ ck' = Touched(ck, "dist")
    /\ UNCHANGED <<tree, made, stamp, flag, info, tainted, torn, reconfs>>

\* The download loop always ends well: with the file, with what the last site
\* left of it, or with no file at all.  Having run, it outdates its dependents.
EndDist ==
    /\ Ended("dist")
    /\ \/ dist' = "good" /\ UNCHANGED faults
       \/ dist' \in {"none", "bad"} /\ Fault("download")
    /\ ck' = IF dist' = "none" THEN [Touched(ck, "dist") EXCEPT !["dist"] = "absent"]
                               ELSE Touched(ck, "dist")
    /\ UNCHANGED <<tree, made, stamp, flag, info, tainted, torn, reconfs>>

\* The work directory goes (if rm -rf fails, make ignores it), then the sums are
\* compared and the cookie is written, newer than every other there may be.
EndChecksum ==
    /\ Ended("checksum")
    /\ dist = "good"
    /\ \/ /\ ck' = Touched(Without(ck, WrkTarget), "checksum")
          /\ tree' = "none" /\ made' = [p \in Product |-> IF p = "ipkg" THEN made[p] ELSE "none"]
          /\ tainted' = FALSE /\ UNCHANGED faults
       \/ /\ \E K \in SUBSET {t \in WrkTarget : ck[t] # "absent"} :
                ck' = Touched(Without(ck, WrkTarget \ K), "checksum")
          /\ WornWork /\ Fault("rmerror") /\ UNCHANGED tainted
    /\ torn' = TornPackage
    /\ UNCHANGED <<dist, stamp, flag, info, reconfs>>

\* Unpacking over a tree that was patched keeps the files the patches created.
EndExtract ==
    /\ Ended("extract")
    /\ tree' \in IF tree \in {"none", "partial", "pristine"} THEN {"pristine"}
                                                             ELSE {"pristine", "half"}
    /\ ck' = Touched(ck, "extract")
    /\ UNCHANGED <<dist, made, stamp, flag, info, tainted, torn, faults, reconfs>>

\* Variant: patch.sh without its search for .rej files.
EndPatchUnchecked ==
    /\ Ended("patch")
    /\ tree' = IF tree = "pristine" THEN "patched" ELSE "bad"
    /\ ck' = Touched(ck, "patch")
    /\ UNCHANGED <<dist, made, stamp, flag, info, tainted, torn, faults, reconfs>>

\* patch.sh ends well if it finds no .rej file, whatever patch itself returned.
\* A patch on sources that have it already is rejected.
EndPatch ==
    /\ Ended("patch")
    /\ \/ tree = "pristine" /\ tree' = "patched" /\ UNCHANGED faults
       \/ tree = "pristine" /\ tree' = "bad" /\ Fault("silent")
       \/ tree = "partial"  /\ tree' = "bad" /\ UNCHANGED faults
    /\ ck' = Touched(ck, "patch")
    /\ UNCHANGED <<dist, made, stamp, flag, info, tainted, torn, reconfs>>

\* The package file, written to its end.
PackageWritten ==
    /\ ck' = Built(Touched(ck, "ipkg"))
    /\ made' = Packed(IF InputGood("ipkg") THEN "good" ELSE "bad")
    /\ torn' = Kept(IF "control" \in torn THEN {"control", "ipkg"} ELSE {})

\* A product is as good as what it is made from.  fake also writes the control
\* files; the txz package deletes them again.
EndProduct(p) ==
    /\ Ended(p)
    /\ \/ /\ p \in {"control", "configure", "build"}
          /\ ck' = Touched(ck, p)
          /\ made' = [made EXCEPT ![p] = IF InputGood(p) THEN "good" ELSE "bad"]
          /\ torn' = torn \ {p} /\ UNCHANGED faults
       \/ /\ p = "fake"
          /\ ck' = Touched(Touched(ck, "control"), "fake")
          /\ made' = [made EXCEPT !["fake"] = IF InputGood(p) THEN "good" ELSE "bad",
                                  !["control"] = "good"]
          /\ torn' = TornPackage /\ UNCHANGED faults
       \/ p = "ipkg" /\ PackageWritten /\ UNCHANGED faults
       \/ /\ p = "ipkg" /\ Format = "txz"    \* the status of the pipe is that of xz
          /\ ck' = Built(Touched(ck, "ipkg")) /\ made' = Packed("partial")
          /\ UNCHANGED torn /\ Fault("silent")
       \/ /\ p = "ipkg" /\ Format = "txz"    \* no version to name the package file by
          /\ "control" \in torn
          /\ ck' = Without(ck, {"control", "ipkg"}) /\ made' = Packed("none")
          /\ torn' = {"ipkg"} /\ UNCHANGED faults
    /\ UNCHANGED <<dist, tree, stamp, flag, info, tainted, reconfs>>

-----------------------------------------------------------------------------
(* What an invocation that does not reach its end leaves behind.           *)

Aborted == pc' = "idle" /\ run' = "none" /\ checked' = {} /\ last' = "fail"
           /\ UNCHANGED <<goal, reconfs>>

\* The control files are written line by line, in place.
ControlCut ==
    \/ UNCHANGED <<ck, made, torn>>
    \/ /\ ck' = Touched(ck, "control")
       /\ \/ made' = [made EXCEPT !["control"] = "good"] /\ torn' = TornPackage
          \/ /\ made' = [made EXCEPT !["control"] = "partial"]
             /\ torn' = torn \union {"control"}

\* PKG_BUILD cut short: before it touches anything; after ipkg-build has removed
\* the old package, or tarpkg its CONTROL; with a package file begun, which is
\* newer than all it was made from; or with the package written.
PackageCut ==
    \/ UNCHANGED <<ck, made, torn>>
    \/ PackageWritten
    \/ /\ Format = "ipkg"
       /\ ck' = Without(ck, {"ipkg"}) /\ made' = Packed("none") /\ torn' = torn \ {"ipkg"}
    \/ /\ Format = "txz"
       /\ ck' = Built(ck) /\ made' = Packed(made["ipkg"]) /\ torn' = Kept(torn)
    \/ /\ ck' = Built(Touched(ck, "ipkg"))
       /\ made' = Packed("partial")
       /\ torn' = Kept(torn \union {"ipkg"})

\* A recipe cut short.
Damage(t) ==
    \/ /\ t = "dist"
       /\ \/ dist' = "none" /\ ck' = Without(ck, {"dist"})
          \/ dist' = "bad"  /\ ck' = Touched(ck, "dist")
       /\ UNCHANGED <<tree, made, torn>>
    \/ t = "checksum" /\ (Wiped \/ Residue) /\ UNCHANGED dist
    \/ /\ t = "extract"
       /\ tree' = IF tree \in {"none", "partial", "pristine"} THEN "partial" ELSE "half"
       /\ UNCHANGED <<ck, dist, made, torn>>
    \/ /\ t = "patch"
       /\ tree' \in IF tree = "pristine" THEN {"pristine", "half"} ELSE {tree}
       /\ UNCHANGED <<ck, dist, made, torn>>
    \/ t \in {"control", "fake"} /\ ControlCut /\ UNCHANGED <<dist, tree>>
    \/ t = "ipkg" /\ PackageCut /\ UNCHANGED <<dist, tree>>
    \/ t \in {"configure", "build"} /\ UNCHANGED <<ck, dist, tree, made, torn>>

\* Recipes that cannot end well fail without the help of a fault.
Doomed(t) == \/ t = "checksum" /\ dist # "good"
             \/ t = "patch"    /\ tree # "pristine"
             \/ t \in Product  /\ ~InputGood(t)

Fail(t) ==
    /\ run = t
    /\ IF Doomed(t) THEN UNCHANGED faults ELSE Fault("error")
    /\ Damage(t)
    /\ Aborted
    /\ UNCHANGED <<stamp, flag, info, tainted>>

\* rm -rf of the flagged clean fails: its status is dropped, the flag removed.
RmError ==
    /\ pc = "flagclean" /\ Fault("rmerror")
    /\ Residue
    /\ Goto("rmflag")
    /\ UNCHANGED <<dist, stamp, flag, info, tainted, reconfs>>

\* The invocation dies: inside a recipe, inside a clean, inside PKG_INSTALL,
\* or between two of them.
Crash ==
    /\ pc # "idle" /\ Fault("crash")
    /\ Aborted
    /\ \/ run # "none" /\ Damage(run) /\ UNCHANGED <<info, tainted>>
       \/ /\ pc \in {"clean", "flagclean"}
          /\ \/ Residue
             \/ Wiped
             \/ /\ ck' = Without(ck, WrkTarget \union {"ipkg"})
                /\ tree' = "none" /\ made' = [p \in Product |-> "none"] /\ torn' = {}
          /\ tainted' = (tainted \/ pc = "clean")
          /\ UNCHANGED <<dist, info>>
       \/ /\ pc = "install" /\ run = "none"
          /\ info' \in {"none", "partial"}
          /\ UNCHANGED <<ck, dist, tree, made, tainted, torn>>
       \/ /\ run = "none" /\ pc \notin {"clean", "flagclean"}
          /\ UNCHANGED <<ck, dist, tree, made, info, tainted, torn>>
    /\ UNCHANGED <<stamp, flag>>

\* The user changes options of the package: what was built with the old ones is
\* no longer right, and pkgrebuild leaves a .rebuild file.
Reconfigure ==
    /\ pc = "idle" /\ reconfs < MaxReconf
    /\ reconfs' = reconfs + 1
    /\ made' = [p \in Product |-> IF made[p] = "good" THEN "bad" ELSE made[p]]
    /\ flag' = TRUE /\ last' = "none"
    /\ UNCHANGED <<ck, dist, tree, stamp, info, goal, pc, checked, run, tainted, torn, faults>>

-----------------------------------------------------------------------------
Make ==
    \/ PackageClean \/ TestFlag \/ Clean \/ FlagClean \/ RmFlag \/ RootClean \/ RmDist
    \/ StepDone
    \/ \E t \in Target : Skip(t) \/ Begin(t)
    \/ EndDist \/ EndChecksum \/ EndExtract \/ EndPatch
    \/ \E p \in Product : EndProduct(p)

Next ==
    \/ \E g \in Goals : Start(g)
    \/ Make
    \/ \E t \in Target : Fail(t)
    \/ RmError \/ Crash
    \/ Reconfigure

Spec == Init /\ [][Next]_vars

-----------------------------------------------------------------------------
(* Properties.                                                             *)

\* A target and everything it rests on.
Sourced == {"dist", "checksum", "extract", "patch"}
Chain == [dist |-> {"dist"}, checksum |-> {"dist", "checksum"},
          extract |-> Sourced \ {"patch"}, patch |-> Sourced,
          control |-> Sourced \union {"control"},
          configure |-> Sourced \union {"configure"},
          build |-> Sourced \union {"configure", "build"},
          fake |-> Target \ {"control", "ipkg"},
          ipkg |-> Target]

\* make would do nothing for t.
UpToDate(t) == \A u \in Chain[t] : ck[u] = "fresh"

\* Whatever failed or was interrupted before, what make takes to be up to date
\* is complete and was made from complete input under the current options: no
\* history of failures, crashes and reconfigurations leaves a cookie that vouches
\* for a half-made or outdated product (unless a .rebuild file still says so, or
\* an interrupted "make clean" was not repeated).  The two exceptions are the files
\* that recipes write in place under their final name: the package and the control
\* file, if the recipe died in the middle of them.
CookiesSound ==
    ~tainted /\ ~flag =>
        /\ UpToDate("patch") => tree = "patched"
        /\ \A p \in Product : UpToDate(p) => made[p] = "good" \/ p \in torn

\* After a "make world" that ended well the image holds the package, complete and
\* built with the current options, however the invocations before it ended: make
\* world never trusts a package file it finds.  (In the txz format, which deletes
\* the control files with every package, it may still trust a torn control file.)
WorldSound ==
    pc = "idle" /\ goal = "world" /\ last = "ok" /\ ~tainted
        => /\ info = "good" \/ (Format = "txz" /\ "ipkg" \in torn)
           /\ stamp /\ ~flag

\* "make package=p package" that ended well has made a good package file, unless
\* a .rebuild file asks for a rebuild that only make world performs, or PKG_BUILD
\* once died in the middle of the file and make takes it for up to date.
PackageSound ==
    pc = "idle" /\ goal = "package" /\ last = "ok" /\ ~tainted /\ ~flag
        => (made["ipkg"] = "good" \/ "ipkg" \in torn) /\ stamp

\* ... as the help text has it ("build everything and create the package(s)"), without that last exception.
PackageComplete ==
    pc = "idle" /\ goal = "package" /\ last = "ok" /\ ~tainted /\ ~flag
        => made["ipkg"] = "good"

\* .prepared is written only for sources unpacked afresh: patches are never put
\* on top of patches an interrupted run applied before.  (An interrupted clean is
\* the exception: until it is repeated, by hand or by the next make world because
\* of the .rebuild file, the work directory is in no particular state.)
PatchedOnce ==
    [][ck["patch"] # "fresh" /\ ck'["patch"] = "fresh" => tree = "pristine" \/ tainted \/ flag]_vars

\* A .rebuild file goes away only after everything of the old build has gone: a
\* clean that dies leaves the file, and the next make world starts over.
FlagKept ==
    [][flag /\ ~flag' => /\ \A t \in Target \ {"dist"} : ck[t] = "absent"
                         /\ tree = "none" /\ ~stamp]_vars

\* "make package=p patch" that ended well has put every patch on the sources.
PatchSound ==
    pc = "idle" /\ goal = "patch" /\ last = "ok" /\ ~tainted /\ ~flag => tree = "patched"

\* Once faults stop, a user who keeps building, and now and then cleans and
\* refetches, always gets a good image again: no cookie state is a trap.
EventuallyBuilt ==
    []<>(pc = "idle" /\ goal = "world" /\ last = "ok" /\ info = "good")

\* make goes on by itself; a recipe that cannot end well fails; the user retries.
Fairness ==
    /\ WF_vars(Make \/ \E t \in Target : Doomed(t) /\ Fail(t))
    /\ SF_vars(Start("world")) /\ SF_vars(Start("clean")) /\ SF_vars(Start("refetch"))

FairSpec == Spec /\ Fairness
=============================================================================
