--------------------------- MODULE WorkDir_proofs ---------------------------
(***************************************************************************)
(* Proofs about the cookie chain of WorkDir, for every package format and  *)
(* every bound, under the faults a recipe detects (see Detected).          *)
(***************************************************************************)
EXTENDS WorkDir, TLAPS

\* The faults of the theorems: crashes, failing commands and bad downloads.  The
\* other two are commands whose failure the recipes do not look at.
Detected == Faults \cap {"silent", "rmerror"} = {}

-----------------------------------------------------------------------------
(* The inductive invariant.                                                *)

\* The cookies the content of t depends on; the distfile may be gone, and the
\* control file is looked at on its own.
Core(t) == Chain[t] \ {"dist", "control"}
CoreFresh(t) == \A u \in Core(t) : ck[u] = "fresh"

\* Where the invocation stands: what it has considered is closed under Deps and
\* fresh; the recipe that runs belongs to a target that is due.
Standing ==
    /\ pc \notin MakeStep => checked = {} /\ run = "none"
    /\ pc \in MakeStep => checked \subseteq Needed[SubMake[pc]]
    /\ \A t \in checked : Deps[t] \subseteq checked
    /\ \A t \in checked \ {"dist", "control", "ipkg"} : ck[t] = "fresh"
    /\ "ipkg" \in checked => ck["ipkg"] = "fresh" \/ (Format = "txz" /\ "ipkg" \in torn)
    /\ "control" \in checked /\ run # "fake" => ck["control"] = "fresh" \/ "ipkg" \in checked
    /\ run # "none" => /\ pc \in MakeStep
                       /\ run \in Needed[SubMake[pc]] \ checked
                       /\ Deps[run] \subseteq checked
                       /\ ck[run] # "fresh"

\* The steps of "make world" once package_clean is done.
Rebuilding == {"flag", "flagclean", "rmflag", "compile", "allpkgs", "root_clean", "install"}

\* Cookies vouch for content, but for what died under the hands of a recipe.
VouchedSources ==
    /\ CoreFresh("extract") => tree \in {"pristine", "half", "patched"}
    /\ CoreFresh("patch") => tree = "patched"
VouchedWork ==
    \A p \in {"configure", "build", "fake"} : CoreFresh(p) => made[p] = "good"
VouchedControl ==
    /\ CoreFresh("control") /\ ck["control"] = "fresh" => made["control"] = "good" \/ "control" \in torn
    /\ Format = "ipkg" /\ CoreFresh("fake") => ck["control"] = "fresh" /\ "control" \notin torn
VouchedPackage ==
    /\ CoreFresh("ipkg") => made["ipkg"] = "good" \/ "ipkg" \in torn
    /\ Format = "ipkg" /\ pc \in Rebuilding /\ CoreFresh("ipkg") => "ipkg" \notin torn
Vouched ==
    ~tainted /\ ~flag => VouchedSources /\ VouchedWork /\ VouchedControl /\ VouchedPackage

\* How far "make world" has come, and what it may rely on there.
WorldSteps == {"package_clean", "flag", "flagclean", "rmflag", "compile", "allpkgs",
               "root_clean", "install"}
OnCourse ==
    /\ pc \in WorldSteps => goal = "world"
    /\ pc \in {"package", "patch", "fake", "clean"} => goal = pc
    /\ pc \in {"rmdist", "fetch"} => goal = "refetch"
    /\ pc = "flagclean" => flag
    /\ pc = "rmflag" => /\ \A t \in Target \ {"dist"} : ck[t] = "absent"
                        /\ tree = "none" /\ ~stamp
    /\ pc \in {"compile", "allpkgs", "root_clean", "install"} => ~flag
    /\ pc \in {"root_clean", "install"} => stamp

\* What the last invocation delivered is still there.
Delivered ==
    /\ pc # "idle" => last = "none"
    /\ WorldSound /\ PackageSound

IInv == TypeOK /\ Standing /\ Vouched /\ OnCourse /\ Delivered

-----------------------------------------------------------------------------
(* What make looks at: prerequisites, needed targets and cores, spelled out. *)

State == {"absent", "stale", "fresh"}

LEMMA DepsFacts ==
    /\ Deps["dist"] = {}
    /\ Deps["checksum"] = {"dist"}
    /\ Deps["extract"] = {"checksum"}
    /\ Deps["patch"] = {"extract"}
    /\ Deps["control"] = {"patch"}
    /\ Deps["configure"] = {"patch"}
    /\ Deps["build"] = {"configure"}
    /\ Deps["fake"] = {"build"}
    /\ Deps["ipkg"] = {"control", "fake"}
BY DEF Deps, Target

LEMMA SubMakeFacts ==
    /\ MakeStep = {"patch", "fake", "compile", "package", "allpkgs", "install", "fetch"}
    /\ SubMake["patch"] = "patch" /\ SubMake["fake"] = "fake"
    /\ SubMake["compile"] = "fake" /\ SubMake["package"] = "ipkg"
    /\ SubMake["allpkgs"] = "ipkg" /\ SubMake["install"] = "ipkg"
    /\ SubMake["fetch"] = "dist"
    /\ \A s \in MakeStep : Needed[SubMake[s]] \subseteq Target
BY DEF MakeStep, SubMake, Needed, Target

LEMMA CoreFacts ==
    /\ Core("extract") = {"checksum", "extract"}
    /\ Core("patch") = {"checksum", "extract", "patch"}
    /\ Core("control") = {"checksum", "extract", "patch"}
    /\ Core("configure") = {"checksum", "extract", "patch", "configure"}
    /\ Core("build") = {"checksum", "extract", "patch", "configure", "build"}
    /\ Core("fake") = {"checksum", "extract", "patch", "configure", "build", "fake"}
    /\ Core("ipkg") = {"checksum", "extract", "patch", "configure", "build", "fake", "ipkg"}
BY DEF Core, Chain, Target, Sourced

(* What recipes do to the cookies. *)

LEMMA TouchedFacts ==
    ASSUME NEW c \in [Target -> State], NEW t \in Target
    PROVE  /\ Touched(c, t) \in [Target -> State]
           /\ Touched(c, t)[t] = "fresh"
           /\ \A u \in Target : u # t /\ t \notin Deps[u] => Touched(c, t)[u] = c[u]
           /\ \A u \in Target : u # t /\ t \in Deps[u] => Touched(c, t)[u] # "fresh"
BY DEF Touched, State

LEMMA WithoutFacts ==
    ASSUME NEW c \in [Target -> State], NEW T \in SUBSET Target
    PROVE  /\ Without(c, T) \in [Target -> State]
           /\ \A u \in T : Without(c, T)[u] = "absent"
           /\ \A u \in Target \ T : Without(c, T)[u] = c[u]
BY DEF Without, State

LEMMA BuiltFacts ==
    ASSUME NEW c \in [Target -> State]
    PROVE  /\ Built(c) \in [Target -> State]
           /\ \A u \in Target \ {"control"} : Built(c)[u] = c[u]
<1>1. {"control"} \in SUBSET Target
  BY DEF Target
<1>. QED BY <1>1, WithoutFacts DEF Built
\* The distfile and the package file have no target between them.
LEMMA TouchedApart ==
    ASSUME NEW c \in [Target -> State]
    PROVE  /\ Touched(c, "dist")["dist"] = "fresh" /\ Touched(c, "dist")["ipkg"] = c["ipkg"]
           /\ Touched(c, "ipkg")["ipkg"] = "fresh" /\ Touched(c, "ipkg")["dist"] = c["dist"]
           /\ \A t \in Target \ {"dist", "ipkg"} :
                /\ Touched(c, t)["dist"] = c["dist"]
                /\ Touched(c, t)["ipkg"] = "absent" <=> c["ipkg"] = "absent"
<1>. "dist" \in Target /\ "ipkg" \in Target
  BY DEF Target
<1>1. "dist" \notin Deps["ipkg"] /\ Deps["dist"] = {}
  BY DepsFacts
<1>. QED BY <1>1 DEF Touched

LEMMA PackedFacts ==
    ASSUME made \in [Product -> Quality], NEW q \in Quality
    PROVE  /\ Packed(q) \in [Product -> Quality]
           /\ Packed(q)["ipkg"] = q
           /\ \A p \in Product \ {"ipkg", "control"} : Packed(q)[p] = made[p]
           /\ Packed(q)["control"] \in {made["control"], "none"}
           /\ Format = "ipkg" => Packed(q)["control"] = made["control"]
BY FormatAssumption DEF Packed, Product, Quality

LEMMA WipedType ==
    ASSUME Typed, Wiped \/ Residue
    PROVE  /\ ck' \in [Target -> State]
           /\ tree' \in Sources /\ made' \in [Product -> Quality]
           /\ torn' \subseteq {"control", "ipkg"}
           /\ ck'["dist"] = ck["dist"] /\ ck'["ipkg"] = ck["ipkg"]
           /\ made'["ipkg"] = made["ipkg"]
<1>. /\ WrkTarget \in SUBSET Target /\ ck \in [Target -> State] /\ made \in [Product -> Quality]
     /\ "dist" \in Target \ WrkTarget /\ "ipkg" \in Target \ WrkTarget /\ "ipkg" \in Product
     /\ torn \subseteq {"control", "ipkg"} /\ tree \in Sources
  BY DEF Typed, State, WrkTarget, Target, Product
<1>1. CASE Wiped
  BY <1>1, WithoutFacts DEF Wiped, Sources, Quality, TornPackage
<1>2. CASE Residue
  <2>1. PICK K \in SUBSET {t \in WrkTarget : ck[t] # "absent"} : ck' = Without(ck, WrkTarget \ K)
    BY <1>2 DEF Residue
  <2>2. ck' \in [Target -> State] /\ ck'["dist"] = ck["dist"] /\ ck'["ipkg"] = ck["ipkg"]
    BY <2>1, WithoutFacts
  <2>3. tree' \in Sources /\ made' \in [Product -> Quality] /\ made'["ipkg"] = made["ipkg"]
    BY <1>2 DEF Residue, WornWork, Worn, Sources, Quality
  <2>. QED BY <1>2, <2>2, <2>3 DEF Residue, TornPackage
<1>. QED BY <1>1, <1>2

LEMMA WrittenType ==
    ASSUME Typed, PackageWritten
    PROVE  /\ ck' \in [Target -> State] /\ made' \in [Product -> Quality]
           /\ torn' \subseteq {"control", "ipkg"}
           /\ ck'["dist"] = ck["dist"] /\ ck'["ipkg"] = "fresh" /\ made'["ipkg"] # "none"
<1>. ck \in [Target -> State] /\ made \in [Product -> Quality] /\ "ipkg" \in Target /\ "dist" \in Target
  BY DEF Typed, State, Target
<1>1. /\ Touched(ck, "ipkg") \in [Target -> State] /\ Touched(ck, "ipkg")["ipkg"] = "fresh"
      /\ Touched(ck, "ipkg")["dist"] = ck["dist"]
  BY TouchedFacts, DepsFacts
<1>2. ck' \in [Target -> State] /\ ck'["ipkg"] = "fresh" /\ ck'["dist"] = ck["dist"]
  BY <1>1, BuiltFacts DEF PackageWritten
<1>3. \E q \in {"good", "bad"} : made' = Packed(q)
  BY DEF PackageWritten
<1>4. made' \in [Product -> Quality] /\ made'["ipkg"] # "none"
  BY <1>3, PackedFacts DEF Quality
<1>. QED BY <1>2, <1>4 DEF PackageWritten, Kept

LEMMA PackageCutType ==
    ASSUME Typed, FilesSeen, PackageCut
    PROVE  /\ ck' \in [Target -> State] /\ made' \in [Product -> Quality]
           /\ torn' \subseteq {"control", "ipkg"}
           /\ ck'["dist"] = ck["dist"]
           /\ ck'["ipkg"] = "absent" <=> made'["ipkg"] = "none"
<1>. /\ ck \in [Target -> State] /\ made \in [Product -> Quality] /\ "ipkg" \in Target
     /\ "dist" \in Target \ {"ipkg"} /\ {"ipkg"} \in SUBSET Target /\ torn \subseteq {"control", "ipkg"}
     /\ "ipkg" \in Product
  BY DEF Typed, State, Target, Product
<1>1. CASE UNCHANGED <<ck, made, torn>>
  BY <1>1 DEF FilesSeen
<1>2. CASE PackageWritten
  BY <1>2, WrittenType
<1>3. CASE ck' = Without(ck, {"ipkg"}) /\ made' = Packed("none") /\ torn' = torn \ {"ipkg"}
  BY <1>3, WithoutFacts, PackedFacts DEF Quality
<1>4. CASE ck' = Built(ck) /\ made' = Packed(made["ipkg"]) /\ torn' = Kept(torn)
  BY <1>4, BuiltFacts, PackedFacts DEF FilesSeen, Kept, Target
<1>5. CASE ck' = Built(Touched(ck, "ipkg")) /\ made' = Packed("partial") /\ torn' = Kept(torn \union {"ipkg"})
  <2>1. /\ Touched(ck, "ipkg") \in [Target -> State] /\ Touched(ck, "ipkg")["ipkg"] = "fresh"
        /\ Touched(ck, "ipkg")["dist"] = ck["dist"]
    BY TouchedFacts, DepsFacts
  <2>2. ck' \in [Target -> State] /\ ck'["ipkg"] = "fresh" /\ ck'["dist"] = ck["dist"]
    BY <1>5, <2>1, BuiltFacts
  <2>. QED BY <1>5, <2>2, PackedFacts DEF Quality, Kept
<1>. QED BY <1>1, <1>2, <1>3, <1>4, <1>5 DEF PackageCut

LEMMA ControlCutType ==
    ASSUME Typed, FilesSeen, ControlCut
    PROVE  /\ ck' \in [Target -> State] /\ made' \in [Product -> Quality]
           /\ torn' \subseteq {"control", "ipkg"}
           /\ ck'["dist"] = ck["dist"]
           /\ ck'["ipkg"] = "absent" <=> made'["ipkg"] = "none"
<1>. /\ ck \in [Target -> State] /\ made \in [Product -> Quality] /\ "ipkg" \in Product
     /\ "control" \in Target /\ "dist" \in Target /\ "ipkg" \in Target
     /\ torn \subseteq {"control", "ipkg"}
  BY DEF Typed, State, Target, Product
<1>1. CASE UNCHANGED <<ck, made, torn>>
  BY <1>1 DEF FilesSeen
<1>2. CASE ck' = Touched(ck, "control")
  <2>1. /\ Touched(ck, "control") \in [Target -> State]
        /\ Touched(ck, "control")["dist"] = ck["dist"]
        /\ Touched(ck, "control")["ipkg"] = "absent" <=> ck["ipkg"] = "absent"
    BY TouchedFacts, DepsFacts DEF Touched
  <2>2. made' \in [Product -> Quality] /\ made'["ipkg"] = made["ipkg"]
    BY <1>2 DEF ControlCut, Quality, Product
  <2>3. torn' \subseteq {"control", "ipkg"}
    BY <1>2 DEF ControlCut, TornPackage
  <2>. QED BY <1>2, <2>1, <2>2, <2>3 DEF FilesSeen
<1>. QED BY <1>1, <1>2 DEF ControlCut

LEMMA DamageType ==
    ASSUME TypeOK, NEW t \in Target, Damage(t)
    PROVE  /\ ck' \in [Target -> State] /\ dist' \in {"none", "good", "bad"}
           /\ tree' \in Sources /\ made' \in [Product -> Quality]
           /\ torn' \subseteq {"control", "ipkg"}
           /\ FilesSeen'
<1>. /\ ck \in [Target -> State] /\ made \in [Product -> Quality] /\ Typed /\ FilesSeen
     /\ tree \in Sources /\ dist \in {"none", "good", "bad"} /\ torn \subseteq {"control", "ipkg"}
     /\ "ipkg" \in Target /\ {"dist"} \in SUBSET Target /\ "dist" \in Target
  BY DEF TypeOK, Typed, State, Target
<1>1. CASE t = "dist"
  <2>1. UNCHANGED <<tree, made, torn>>
    BY <1>1 DEF Damage
  <2>2. CASE dist' = "none" /\ ck' = Without(ck, {"dist"})
    BY <2>1, <2>2, WithoutFacts DEF FilesSeen
  <2>3. CASE dist' = "bad" /\ ck' = Touched(ck, "dist")
    <3>. QED BY <2>1, <2>3, TouchedApart, TouchedFacts DEF FilesSeen
  <2>. QED BY <1>1, <2>2, <2>3 DEF Damage
<1>2. CASE t = "checksum"
  BY <1>2, WipedType DEF Damage, FilesSeen
<1>3. CASE t \in {"extract", "patch"}
  BY <1>3 DEF Damage, Sources, FilesSeen
<1>4. CASE t = "ipkg"
  BY <1>4, PackageCutType DEF Damage, FilesSeen
<1>5. CASE t \in {"control", "fake"}
  BY <1>5, ControlCutType DEF Damage, FilesSeen
<1>6. CASE t \in {"configure", "build"}
  BY <1>6 DEF Damage, FilesSeen
<1>. QED BY <1>1, <1>2, <1>3, <1>4, <1>5, <1>6 DEF Target

\* What the recipe of a product leaves when it ends.
LEMMA EndProductType ==
    ASSUME TypeOK, NEW p \in Product, EndProduct(p)
    PROVE  /\ ck' \in [Target -> State] /\ made' \in [Product -> Quality]
           /\ torn' \subseteq {"control", "ipkg"} /\ faults' \in 0..MaxFaults
           /\ FilesSeen'
<1>. USE BoundsAssumption
<1>. /\ ck \in [Target -> State] /\ made \in [Product -> Quality] /\ Typed /\ FilesSeen
     /\ torn \subseteq {"control", "ipkg"} /\ faults \in 0..MaxFaults /\ Product \subseteq Target
     /\ "ipkg" \in Target /\ "dist" \in Target /\ "control" \in Target /\ "fake" \in Target
     /\ {"control", "ipkg"} \in SUBSET Target /\ "ipkg" \in Product
  BY DEF TypeOK, Typed, State, Target, Product
<1>D. dist' = dist
  BY DEF EndProduct
<1>T. \A c \in [Target -> State], t \in {"control", "configure", "build", "fake"} :
         /\ Touched(c, t) \in [Target -> State]
         /\ Touched(c, t)["dist"] = c["dist"]
         /\ Touched(c, t)["ipkg"] = "absent" <=> c["ipkg"] = "absent"
  <2>1. \A c \in [Target -> State], t \in {"control", "configure", "build", "fake"} :
           Touched(c, t) \in [Target -> State] /\ Touched(c, t)["dist"] = c["dist"]
    BY TouchedFacts, DepsFacts DEF Target
  <2>. QED BY <2>1 DEF Touched
<1>1. CASE p \in {"control", "configure", "build"}
  <2>1. /\ ck' = Touched(ck, p) /\ made' \in [Product -> Quality] /\ made'["ipkg"] = made["ipkg"]
        /\ torn' \subseteq {"control", "ipkg"} /\ faults' = faults
    BY <1>1 DEF EndProduct, Quality
  <2>. QED BY <1>1, <1>D, <1>T, <2>1 DEF FilesSeen
<1>2. CASE p = "fake"
  <2>1. /\ ck' = Touched(Touched(ck, "control"), "fake")
        /\ made' \in [Product -> Quality] /\ made'["ipkg"] = made["ipkg"]
        /\ torn' \subseteq {"control", "ipkg"} /\ faults' = faults
    BY <1>2 DEF EndProduct, Quality, TornPackage
  <2>2. Touched(ck, "control") \in [Target -> State]
    BY <1>T
  <2>. QED BY <1>D, <1>T, <2>1, <2>2 DEF FilesSeen
<1>3. CASE p = "ipkg" /\ PackageWritten /\ UNCHANGED faults
  BY <1>3, <1>D, WrittenType DEF FilesSeen
<1>4. CASE /\ ck' = Built(Touched(ck, "ipkg")) /\ made' = Packed("partial")
           /\ UNCHANGED torn /\ Fault("silent")
  <2>1. /\ Touched(ck, "ipkg") \in [Target -> State] /\ Touched(ck, "ipkg")["ipkg"] = "fresh"
        /\ Touched(ck, "ipkg")["dist"] = ck["dist"]
    BY TouchedFacts, TouchedApart
  <2>2. ck' \in [Target -> State] /\ ck'["ipkg"] = "fresh" /\ ck'["dist"] = ck["dist"]
    BY <1>4, <2>1, BuiltFacts DEF Target
  <2>. QED BY <1>4, <1>D, <2>2, PackedFacts DEF Quality, FilesSeen, Fault
<1>5. CASE /\ ck' = Without(ck, {"control", "ipkg"}) /\ made' = Packed("none")
           /\ torn' = {"ipkg"} /\ UNCHANGED faults
  BY <1>5, <1>D, WithoutFacts, PackedFacts DEF Quality, FilesSeen
<1>. QED BY <1>1, <1>2, <1>3, <1>4, <1>5 DEF EndProduct, Product

-----------------------------------------------------------------------------
(* Type correctness, under every fault.                                    *)

LEMMA TypeInductive == TypeOK /\ [Next]_vars => TypeOK'
<1>. SUFFICES ASSUME TypeOK, [Next]_vars PROVE TypeOK'
  OBVIOUS
<1>. USE BoundsAssumption
<1>. DEFINE T == /\ "ipkg" \in Target /\ "dist" \in Target /\ "control" \in Target
                 /\ "fake" \in Target /\ "patch" \in Target /\ "extract" \in Target
                 /\ "checksum" \in Target /\ Product \subseteq Target
                 /\ WrkTarget \subseteq Target /\ "ipkg" \in Product
                 /\ "ipkg" \notin WrkTarget /\ "dist" \notin WrkTarget
<1>T. T
  BY DEF Target, Product, WrkTarget
<1>C. /\ ck \in [Target -> State] /\ \A t \in Target : Touched(ck, t) \in [Target -> State]
      /\ \A K \in SUBSET Target : Without(ck, K) \in [Target -> State]
  BY TouchedFacts, WithoutFacts DEF TypeOK, Typed, State
<1>0. Typed /\ FilesSeen
  BY DEF TypeOK
<1>S. ASSUME UNCHANGED <<ck, dist, made>> PROVE FilesSeen'
  BY <1>0, <1>S DEF FilesSeen
\* What is neither distfile nor package file does not matter to FilesSeen.
<1>U. ASSUME ck'["dist"] = ck["dist"], ck'["ipkg"] = "absent" <=> ck["ipkg"] = "absent",
             dist' = dist, made'["ipkg"] = "none" <=> made["ipkg"] = "none"
      PROVE  FilesSeen'
  BY <1>0, <1>U DEF FilesSeen
<1>V. /\ \A t \in {"checksum", "extract", "patch", "control", "configure", "build", "fake"} :
            /\ Touched(ck, t)["dist"] = ck["dist"]
            /\ Touched(ck, t)["ipkg"] = "absent" <=> ck["ipkg"] = "absent"
      /\ Touched(ck, "dist")["dist"] = "fresh" /\ Touched(ck, "dist")["ipkg"] = ck["ipkg"]
      /\ \A K \in SUBSET Target : \A u \in Target :
            Without(ck, K)[u] = IF u \in K THEN "absent" ELSE ck[u]
  <2>1. \A K \in SUBSET Target : \A u \in Target :
            Without(ck, K)[u] = IF u \in K THEN "absent" ELSE ck[u]
    BY DEF Without
  <2>2. {"checksum", "extract", "patch", "control", "configure", "build", "fake"}
           = Target \ {"dist", "ipkg"}
    BY DEF Target
  <2>. QED BY <2>1, <2>2, <1>C, TouchedApart
<1>1. ASSUME NEW g \in Goals, Start(g) PROVE TypeOK'
  BY <1>1, <1>0, <1>S DEF Start, TypeOK, Typed, Goals, FirstStep, Steps, MakeStep, SubMake, files
<1>2. CASE PackageClean
  <2>1. FilesSeen'
    BY <1>2, <1>0, <1>T, <1>V DEF PackageClean, FilesSeen, Typed
  <2>. QED BY <1>2, <2>1, <1>0, <1>T, <1>C DEF PackageClean, Goto, TypeOK, Typed, Steps, Quality, Product, State
<1>3. CASE TestFlag
  BY <1>3, <1>0, <1>S DEF TestFlag, Goto, TypeOK, Typed, Steps, MakeStep, SubMake, files
<1>E. ASSUME CleanDone
      PROVE  /\ FilesSeen' /\ ck' \in [Target -> State] /\ dist' = dist /\ tree' \in Sources
             /\ made' \in [Product -> Quality] /\ torn' = {}
             /\ UNCHANGED <<flag, info, faults, reconfs>> /\ stamp' = FALSE /\ tainted' = FALSE
  BY <1>E, <1>0, <1>T, <1>C, <1>V DEF CleanDone, FilesSeen, Sources, Quality
<1>4. CASE Clean
  BY <1>4, <1>E, <1>0 DEF Clean, Finish, TypeOK, Typed, State
<1>5. CASE FlagClean
  BY <1>5, <1>E, <1>0 DEF FlagClean, Goto, TypeOK, Typed, State, Steps
<1>6. CASE RmFlag
  BY <1>6, <1>0, <1>S DEF RmFlag, Goto, TypeOK, Typed, Steps, MakeStep, SubMake
<1>7. CASE RootClean
  BY <1>7, <1>0, <1>S DEF RootClean, Goto, TypeOK, Typed, Steps, MakeStep, SubMake, Quality
<1>8. CASE RmDist
  <2>1. FilesSeen'
    BY <1>8, <1>0, <1>T, <1>V DEF RmDist, FilesSeen
  <2>. QED BY <1>8, <2>1, <1>0, <1>T, <1>C DEF RmDist, Goto, TypeOK, Typed, Steps, MakeStep, SubMake, State
<1>9. CASE StepDone
  <2>1. FilesSeen' /\ UNCHANGED <<ck, dist, tree, made, flag, tainted, torn, faults, reconfs>>
    BY <1>9, <1>S DEF StepDone
  <2>2. made["ipkg"] \in Quality
    BY <1>0, <1>T DEF Typed
  <2>. QED BY <1>9, <1>0, <2>1, <2>2 DEF StepDone, Goto, Finish, TypeOK, Typed, Steps, MakeStep, SubMake
<1>10. ASSUME NEW t \in Target, Skip(t) PROVE TypeOK'
  BY <1>10, <1>0, <1>S DEF Skip, Considered, TypeOK, Typed, files
<1>11. ASSUME NEW t \in Target, Begin(t) PROVE TypeOK'
  <2>1. ck' \in [Target -> State] /\ torn' \subseteq {"control", "ipkg"}
    BY <1>11, <1>0, <1>T, <1>C DEF Begin, TornPackage, Typed
  <2>2. ck'["dist"] = ck["dist"] /\ ck'["ipkg"] = ck["ipkg"]
    BY <1>11, <1>T, <1>V DEF Begin
  <2>3. made' \in [Product -> Quality] /\ made'["ipkg"] = made["ipkg"]
    BY <1>11, <1>0, <1>T DEF Begin, Typed, Quality
  <2>. QED BY <1>11, <2>1, <2>2, <2>3, <1>0, <1>U DEF Begin, TypeOK, Typed, State
<1>12. CASE EndDist
  <2>1. ck' \in [Target -> State] /\ FilesSeen'
    BY <1>12, <1>0, <1>T, <1>C, <1>V DEF EndDist, State, FilesSeen
  <2>. QED BY <1>12, <1>0, <1>T, <2>1 DEF EndDist, Ended, Considered, Fault, TypeOK, Typed, State
<1>13. CASE EndChecksum
  <2>0. PICK K \in SUBSET Target : /\ ck' = Touched(Without(ck, K), "checksum")
                                   /\ "dist" \notin K /\ "ipkg" \notin K
    BY <1>13, <1>T DEF EndChecksum
  <2>1. PICK c \in [Target -> State] : c = Without(ck, K)
    BY <1>C
  <2>2. /\ ck' \in [Target -> State]
        /\ ck'["dist"] = ck["dist"] /\ (ck'["ipkg"] = "absent" <=> ck["ipkg"] = "absent")
    <3>1. c["dist"] = ck["dist"] /\ c["ipkg"] = ck["ipkg"]
      BY <2>0, <2>1, <1>T, <1>V
    <3>2. Touched(c, "checksum") \in [Target -> State]
      BY <1>T, TouchedFacts
    <3>. QED BY <2>0, <2>1, <3>1, <3>2, <1>T, TouchedApart
  <2>3. made' \in [Product -> Quality] /\ made'["ipkg"] = made["ipkg"] /\ tree' \in Sources
    BY <1>13, <1>0, <1>T DEF EndChecksum, WornWork, Worn, Sources, Quality, Typed
  <2>4. faults' \in 0..MaxFaults /\ tainted' \in BOOLEAN
    <3>1. faults' = faults \/ (faults < MaxFaults /\ faults' = faults + 1)
      BY <1>13 DEF EndChecksum, Fault
    <3>2. faults \in 0..MaxFaults /\ tainted \in BOOLEAN
      BY <1>0 DEF Typed
    <3>3. tainted' \in BOOLEAN
      BY <1>13, <3>2 DEF EndChecksum
    <3>. QED BY <3>1, <3>2, <3>3
  <2>. QED BY <1>13, <1>0, <1>T, <1>U, <2>2, <2>3, <2>4
           DEF EndChecksum, Ended, Considered, TypeOK, Typed, State, TornPackage
<1>14. CASE EndExtract
  <2>1. FilesSeen'
    BY <1>14, <1>U, <1>V DEF EndExtract
  <2>. QED BY <1>14, <2>1, <1>0, <1>T, <1>C DEF EndExtract, Ended, Considered, TypeOK, Typed, State, Sources
<1>15. CASE EndPatch
  <2>1. FilesSeen'
    BY <1>15, <1>U, <1>V DEF EndPatch
  <2>. QED BY <1>15, <2>1, <1>0, <1>T, <1>C DEF EndPatch, Ended, Considered, Fault, TypeOK, Typed, State, Sources
<1>17. ASSUME NEW p \in Product, EndProduct(p) PROVE TypeOK'
  BY <1>17, <1>0, <1>T, EndProductType DEF EndProduct, Ended, Considered, TypeOK, Typed, State
<1>18. ASSUME NEW t \in Target, Fail(t) PROVE TypeOK'
  BY <1>18, <1>0, DamageType DEF Fail, Aborted, Fault, TypeOK, Typed, State
<1>20. CASE RmError
  BY <1>20, <1>0, <1>U, WipedType DEF RmError, Fault, Goto, TypeOK, Typed, State, Steps
<1>21. CASE Crash
  <2>1. CASE run # "none" /\ Damage(run) /\ UNCHANGED <<info, tainted>>
    <3>1. run \in Target
      BY <2>1, <1>0 DEF Typed
    <3>2. /\ ck' \in [Target -> State] /\ dist' \in {"none", "good", "bad"}
          /\ tree' \in Sources /\ made' \in [Product -> Quality]
          /\ torn' \subseteq {"control", "ipkg"} /\ FilesSeen'
      BY <2>1, <3>1, DamageType
    <3>. QED BY <1>21, <2>1, <3>2, <1>0 DEF Crash, Aborted, Fault, TypeOK, Typed, State
  <2>2. CASE /\ Residue \/ Wiped \/ /\ ck' = Without(ck, WrkTarget \union {"ipkg"})
                                     /\ tree' = "none" /\ made' = [p \in Product |-> "none"] /\ torn' = {}
             /\ tainted' = (tainted \/ pc = "clean")
             /\ UNCHANGED <<dist, info>>
    <3>1. CASE Residue \/ Wiped
      BY <1>21, <2>2, <3>1, <1>0, <1>U, WipedType DEF Crash, Aborted, Fault, TypeOK, Typed, State
    <3>2. CASE /\ ck' = Without(ck, WrkTarget \union {"ipkg"})
               /\ tree' = "none" /\ made' = [p \in Product |-> "none"] /\ torn' = {}
      <4>1. ck' \in [Target -> State] /\ tree' \in Sources /\ made' \in [Product -> Quality] /\ FilesSeen'
        <5>1. /\ ck' \in [Target -> State] /\ ck'["ipkg"] = "absent" /\ ck'["dist"] = ck["dist"]
          <6>1. PICK K \in SUBSET Target : K = WrkTarget \union {"ipkg"}
            BY <1>T
          <6>2. Without(ck, K) \in [Target -> State] /\ "dist" \notin K /\ "ipkg" \in K
            BY <6>1, <1>T, <1>C
          <6>3. ck' = Without(ck, K)
            BY <3>2, <6>1
          <6>4. Without(ck, K)["ipkg"] = "absent" /\ Without(ck, K)["dist"] = ck["dist"]
            BY <6>2, <1>T DEF Without
          <6>. QED BY <6>2, <6>3, <6>4
        <5>. QED BY <2>2, <3>2, <5>1, <1>0, <1>T DEF Sources, Quality, FilesSeen
      <4>. QED BY <1>21, <2>2, <3>2, <4>1, <1>0 DEF Crash, Aborted, Fault, TypeOK, Typed, State
    <3>. QED BY <2>2, <3>1, <3>2
  <2>3. CASE info' \in {"none", "partial", info} /\ UNCHANGED <<ck, dist, tree, made, tainted, torn>>
    BY <1>21, <2>3, <1>0, <1>S DEF Crash, Aborted, Fault, TypeOK, Typed, Quality
  <2>. QED BY <1>21, <2>1, <2>2, <2>3 DEF Crash
<1>22. CASE Reconfigure
  <2>1. made' \in [Product -> Quality] /\ (made'["ipkg"] = "none" <=> made["ipkg"] = "none")
    BY <1>22, <1>0, <1>T DEF Reconfigure, Typed, Quality
  <2>. QED BY <1>22, <2>1, <1>0, <1>U DEF Reconfigure, TypeOK, Typed
<1>23. CASE UNCHANGED vars
  BY <1>23, <1>0, <1>S DEF vars, TypeOK, Typed
<1>. QED BY <1>1, <1>2, <1>3, <1>4, <1>5, <1>6, <1>7, <1>8, <1>9, <1>10, <1>11, <1>12,
            <1>13, <1>14, <1>15, <1>17, <1>18, <1>20, <1>21, <1>22, <1>23
         DEF Next, Make

LEMMA InitType == ASSUME Init PROVE TypeOK
<1>1. ck \in [Target -> {"absent", "stale", "fresh"}] /\ made \in [Product -> Quality]
  BY DEF Init, Quality
<1>2. faults \in 0..MaxFaults /\ reconfs \in 0..MaxReconf
  BY <1>1, BoundsAssumption DEF Init
<1>3. stamp \in BOOLEAN /\ flag \in BOOLEAN /\ tainted \in BOOLEAN /\ torn \subseteq {"control", "ipkg"}
  BY DEF Init
<1>4. /\ dist \in {"none", "good", "bad"} /\ tree \in Sources /\ info \in Quality
      /\ goal \in Goals \union {"none"} /\ pc \in Steps \union {"idle"}
  BY DEF Init, Quality, Sources
<1>5. checked \subseteq Target /\ run \in Target \union {"none"} /\ last \in {"none", "ok", "fail"}
  BY DEF Init
<1>6. FilesSeen
  BY DEF Init, FilesSeen, Target, Product
<1>. QED BY <1>1, <1>2, <1>3, <1>4, <1>5, <1>6 DEF TypeOK, Typed

\* Every state is of the type the model declares, and what make takes to be there
\* is there, whatever faults strike.
THEOREM TypeCorrect == Spec => []TypeOK
<1>. QED BY InitType, TypeInductive, PTL DEF Spec
-----------------------------------------------------------------------------
(* Where an invocation stands.                                             *)

\* What rests on an unconsidered target is not considered either.
LEMMA Unconsidered ==
    ASSUME TypeOK, Standing
    PROVE  /\ \A t, u \in Target : t \notin checked /\ t \in Deps[u] => u \notin checked
           /\ "checksum" \notin checked => checked \subseteq {"dist"}
           /\ \A t \in {"dist", "checksum", "extract", "patch"} :
                  t \notin checked => "control" \notin checked
           /\ "ipkg" \in checked => checked = Target
           /\ run # "none" => "ipkg" \notin checked
<1>0. checked \subseteq Target
  BY DEF TypeOK, Typed
<1>1. \A t, u \in Target : t \notin checked /\ t \in Deps[u] => u \notin checked
  BY DEF Standing
<1>2. "checksum" \notin checked => checked \subseteq {"dist"}
  BY <1>0, <1>1, DepsFacts DEF Target
<1>3. \A t \in {"dist", "checksum", "extract", "patch"} : t \notin checked => "control" \notin checked
  BY <1>1, DepsFacts DEF Target
<1>4. "ipkg" \in checked => checked = Target
  <2>1. "ipkg" \in checked => {"control", "fake"} \subseteq checked
    BY DepsFacts DEF Standing
  <2>2. {"control", "fake"} \subseteq checked => {"build", "patch"} \subseteq checked
    BY DepsFacts DEF Standing
  <2>3. {"build", "patch"} \subseteq checked => {"configure", "extract"} \subseteq checked
    BY DepsFacts DEF Standing
  <2>4. "extract" \in checked => "checksum" \in checked
    BY DepsFacts DEF Standing
  <2>5. "checksum" \in checked => "dist" \in checked
    BY DepsFacts DEF Standing
  <2>. QED BY <1>0, <2>1, <2>2, <2>3, <2>4, <2>5 DEF Target
<1>5. run # "none" => run \in Target \ checked
  BY DEF Standing, TypeOK, Typed
<1>. QED BY <1>1, <1>2, <1>3, <1>4, <1>5

\* A considered target is up to date as far as content goes.
LEMMA ConsideredFresh ==
    ASSUME TypeOK, Standing, NEW t \in {"extract", "patch", "control", "configure", "build", "fake"},
           t \in checked
    PROVE  CoreFresh(t)
<1>1. \A u \in Core(t) : u \in checked
  BY CoreFacts, DepsFacts DEF Standing
<1>2. "dist" \notin Core(t) /\ "control" \notin Core(t) /\ "ipkg" \notin Core(t)
  BY CoreFacts DEF Core
<1>. QED BY <1>1, <1>2 DEF Standing, CoreFresh

\* A recipe that ends leaves the invocation standing.
LEMMA EndedStanding ==
    ASSUME TypeOK, Standing, NEW t \in Target, Ended(t),
           t \notin {"dist", "control", "ipkg"} => ck'[t] = "fresh",
           t = "ipkg" => ck'["ipkg"] = "fresh" \/ (Format = "txz" /\ "ipkg" \in torn'),
           "control" \in checked \union {t} => ck'["control"] = "fresh" \/ t = "ipkg",
           \A u \in checked \ {"dist", "control"} : ck'[u] = ck[u]
    PROVE  Standing'
<1>0. t # "none" /\ run = t
  BY DEF Target, Ended
<1>1. t \in Needed[SubMake[pc]] \ checked /\ pc \in MakeStep /\ Deps[t] \subseteq checked
  BY <1>0 DEF Standing
<1>2. checked' = checked \union {t} /\ run' = "none" /\ pc' = pc
  BY DEF Ended, Considered
<1>3. \A u \in checked' : Deps[u] \subseteq checked'
  BY <1>1, <1>2 DEF Standing
<1>4. \A u \in checked' \ {"dist", "control", "ipkg"} : ck'[u] = "fresh"
  BY <1>2 DEF Standing
<1>5. "ipkg" \notin checked
  BY <1>0, Unconsidered
<1>6. "ipkg" \in checked' => ck'["ipkg"] = "fresh" \/ (Format = "txz" /\ "ipkg" \in torn')
  BY <1>2, <1>5
<1>7. "control" \in checked' => ck'["control"] = "fresh" \/ "ipkg" \in checked'
  BY <1>2
<1>8. pc' \in MakeStep /\ checked' \subseteq Needed[SubMake[pc']]
  BY <1>1, <1>2 DEF Standing
<1>. QED BY <1>2, <1>3, <1>4, <1>6, <1>7, <1>8 DEF Standing

LEMMA RestingStanding ==
    ASSUME checked' = {}, run' = "none"
    PROVE  Standing'
BY DEF Standing

LEMMA StandingInductive ==
    ASSUME TypeOK, Standing, [Next]_vars
    PROVE  Standing'
<1>. USE SubMakeFacts
<1>T. /\ ck \in [Target -> State] /\ checked \subseteq Target
      /\ \A t \in Target \ {"dist", "control"} :
            \A u \in checked : t \notin checked => Touched(ck, t)[u] = ck[u]
      /\ "ipkg" \in Target /\ "patch" \in Target /\ "extract" \in Target /\ "fake" \in Target
      /\ "checksum" \in Target /\ "dist" \in Target /\ "control" \in Target
      /\ Product \subseteq Target /\ WrkTarget \subseteq Target
  <2>1. ck \in [Target -> State] /\ checked \subseteq Target
    BY DEF TypeOK, Typed, State
  <2>. QED BY <2>1, TouchedFacts, Unconsidered DEF Target, Product, WrkTarget
<1>R. run # "none" => run \in Target /\ run \notin checked /\ pc \in MakeStep
  BY DEF Standing, TypeOK, Typed
<1>1. ASSUME NEW g \in Goals, Start(g) PROVE Standing'
  <2>1. run = "none"
    BY <1>1 DEF Start, Standing
  <2>. QED BY <1>1, <2>1, RestingStanding DEF Start
<1>2. CASE PackageClean \/ TestFlag \/ Clean \/ FlagClean \/ RmFlag \/ RootClean \/ RmDist \/ RmError
  <2>1. run = "none"
    BY <1>2 DEF PackageClean, TestFlag, Clean, FlagClean, RmFlag, RootClean, RmDist, RmError, Standing
  <2>2. checked' = {} /\ run' = run
    BY <1>2 DEF PackageClean, TestFlag, Clean, FlagClean, RmFlag, RootClean, RmDist, RmError, Goto, Finish
  <2>. QED BY <2>1, <2>2, RestingStanding
<1>3. CASE StepDone
  BY <1>3, RestingStanding DEF StepDone, Goto, Finish
<1>4. ASSUME NEW t \in Target, Skip(t) PROVE Standing'
  BY <1>4 DEF Skip, Due, Considered, Standing, files
<1>5. ASSUME NEW t \in Target, Begin(t) PROVE Standing'
  <2>1. \A u \in Target \ {"control"} : ck'[u] = ck[u]
    BY <1>5, <1>T, WithoutFacts DEF Begin
  <2>2. ck'[t] # "fresh"
    <3>1. CASE t = "control"
      BY <1>5, <3>1 DEF Begin
    <3>2. CASE t # "control"
      BY <1>5, <2>1, <3>2 DEF Begin
    <3>. QED BY <3>1, <3>2
  <2>3. \A u \in checked \ {"dist", "control", "ipkg"} : ck'[u] = "fresh"
    BY <1>T, <2>1 DEF Standing
  <2>4. /\ checked' = checked /\ pc' = pc /\ run' = t /\ pc \in MakeStep
        /\ t \in Needed[SubMake[pc]] \ checked /\ Deps[t] \subseteq checked
    BY <1>5 DEF Begin, Due
  <2>5. \A u \in checked' \ {"dist", "control", "ipkg"} : ck'[u] = "fresh"
    BY <2>3, <2>4
  <2>6. \A u \in checked' : Deps[u] \subseteq checked'
    BY <2>4 DEF Standing
  <2>7. pc' \in MakeStep /\ checked' \subseteq Needed[SubMake[pc']]
    BY <2>4 DEF Standing
  <2>8. run' \in Needed[SubMake[pc']] \ checked' /\ Deps[run'] \subseteq checked' /\ ck'[run'] # "fresh"
    BY <2>2, <2>4
  <2>9. "ipkg" \notin checked'
    <3>1. "ipkg" \in checked => checked = Target
      BY Unconsidered
    <3>. QED BY <2>4, <3>1
  <2>10. "control" \in checked' /\ run' # "fake" => ck'["control"] = "fresh" \/ "ipkg" \in checked'
    <3>1. t # "fake" => ck' = ck
      BY <1>5 DEF Begin
    <3>2. run = "none"
      BY <1>5 DEF Begin, Due
    <3>. QED BY <2>4, <3>1, <3>2 DEF Standing
  <2>. QED BY <2>5, <2>6, <2>7, <2>8, <2>9, <2>10 DEF Standing
<1>6. CASE EndDist
  <2>1. Ended("dist") /\ "dist" \notin checked
    BY <1>6, <1>R DEF EndDist, Ended
  <2>2. \A u \in checked : Touched(ck, "dist")[u] = ck[u]
    BY <2>1, <1>T, TouchedFacts, Unconsidered
  <2>3. \A u \in checked : ck'[u] = ck[u]
    BY <1>6, <1>T, <2>1, <2>2 DEF EndDist, Touched
  <2>4. "control" \notin checked
    BY <2>1, Unconsidered
  <2>. QED BY <2>1, <2>3, <2>4, <1>T, EndedStanding
<1>7. CASE EndChecksum
  <2>1. Ended("checksum") /\ "checksum" \notin checked
    BY <1>7, <1>R DEF EndChecksum, Ended
  <2>2. checked \subseteq {"dist"}
    BY <2>1, Unconsidered
  <2>3. ck'["checksum"] = "fresh"
    BY <1>7, <1>T DEF EndChecksum, Touched
  <2>. QED BY <2>1, <2>2, <2>3, <1>T, EndedStanding
<1>8. CASE EndExtract
  <2>1. Ended("extract") /\ "extract" \notin checked /\ ck' = Touched(ck, "extract")
    BY <1>8, <1>R DEF EndExtract, Ended
  <2>2. "control" \notin checked
    BY <2>1, Unconsidered
  <2>. QED BY <2>1, <2>2, <1>T, TouchedFacts, EndedStanding
<1>9. CASE EndPatch
  <2>1. Ended("patch") /\ "patch" \notin checked /\ ck' = Touched(ck, "patch")
    BY <1>9, <1>R DEF EndPatch, Ended
  <2>2. "control" \notin checked
    BY <2>1, Unconsidered
  <2>. QED BY <2>1, <2>2, <1>T, TouchedFacts, EndedStanding
<1>11. ASSUME NEW p \in Product, EndProduct(p) PROVE Standing'
  <2>1. Ended(p) /\ run = p /\ p \notin checked /\ p # "dist" /\ p \in Target /\ "ipkg" \notin checked
    <3>1. Ended(p) /\ run = p /\ run # "none" /\ p # "dist" /\ p \in Target
      BY <1>11, <1>T DEF EndProduct, Ended, Product
    <3>. QED BY <3>1, <1>R, Unconsidered
  <2>2. CASE p \in {"control", "configure", "build"}
    <3>1. ck' = Touched(ck, p)
      BY <1>11, <2>2 DEF EndProduct
    <3>2. \A u \in checked : p \notin Deps[u]
      BY <2>1, <1>T, Unconsidered
    <3>3. \A u \in checked : ck'[u] = ck[u]
      BY <3>1, <3>2, <2>1, <1>T DEF Touched
    <3>4. ck'[p] = "fresh"
      BY <3>1, <2>1, <1>T, TouchedFacts
    <3>5. "control" \in checked \union {p} => ck'["control"] = "fresh"
      BY <2>1, <2>2, <3>3, <3>4 DEF Standing
    <3>. QED BY <2>1, <2>2, <3>3, <3>4, <3>5, EndedStanding
  <2>3. CASE p = "fake"
    <3>2. \A u \in checked \ {"control"} : "control" \notin Deps[u]
      BY <2>1, <1>T, DepsFacts DEF Target
    <3>3. \A u \in checked \ {"control"} : Touched(ck, "control")[u] = ck[u]
      BY <3>2, <1>T, TouchedFacts
    <3>4. \A u \in checked : "fake" \notin Deps[u]
      BY <2>1, <2>3, <1>T, Unconsidered
    <3>5. PICK c \in [Target -> State] : c = Touched(ck, "control")
      BY <1>T, TouchedFacts
    <3>6. c["control"] = "fresh" /\ "fake" \notin Deps["control"]
      BY <3>5, <1>T, TouchedFacts, DepsFacts
    <3>7. /\ Touched(c, "fake")["fake"] = "fresh" /\ Touched(c, "fake")["control"] = "fresh"
          /\ \A u \in checked : Touched(c, "fake")[u] = c[u]
      BY <2>1, <2>3, <3>4, <3>6, <1>T DEF Touched
    <3>8. ck' = Touched(c, "fake")
      BY <1>11, <2>3, <3>5 DEF EndProduct
    <3>. QED BY <2>1, <2>3, <3>3, <3>5, <3>7, <3>8, EndedStanding
  <2>4. CASE p = "ipkg"
    <3>0. /\ Touched(ck, "ipkg") \in [Target -> State] /\ Touched(ck, "ipkg")["ipkg"] = "fresh"
          /\ \A u \in checked : Touched(ck, "ipkg")[u] = ck[u]
      BY <2>1, <2>4, <1>T, TouchedFacts
    <3>1. CASE ck' = Built(Touched(ck, "ipkg"))
      <4>1. \A u \in Target \ {"control"} : ck'[u] = Touched(ck, "ipkg")[u]
        BY <3>0, <3>1, BuiltFacts
      <4>2. ck'["ipkg"] = "fresh" /\ \A u \in checked \ {"dist", "control"} : ck'[u] = ck[u]
        BY <3>0, <4>1, <1>T
      <4>. QED BY <2>1, <2>4, <4>2, EndedStanding
    <3>2. CASE ck' = Without(ck, {"control", "ipkg"}) /\ torn' = {"ipkg"} /\ Format = "txz"
      <4>1. \A u \in checked \ {"dist", "control"} : ck'[u] = ck[u]
        BY <2>1, <3>2, <1>T DEF Without
      <4>. QED BY <2>1, <2>4, <3>2, <4>1, EndedStanding
    <3>. QED BY <1>11, <2>4, <3>1, <3>2 DEF EndProduct, PackageWritten
  <2>. QED BY <2>2, <2>3, <2>4 DEF Product
<1>12. CASE Crash \/ \E t \in Target : Fail(t)
  BY <1>12, RestingStanding DEF Crash, Fail, Aborted
<1>13. CASE Reconfigure
  BY <1>13, RestingStanding DEF Reconfigure, Standing
<1>14. CASE UNCHANGED vars
  BY <1>14 DEF vars, Standing
<1>. QED BY <1>1, <1>2, <1>3, <1>4, <1>5, <1>6, <1>7, <1>8, <1>9, <1>11, <1>12,
            <1>13, <1>14
         DEF Next, Make
-----------------------------------------------------------------------------
(* Cookies vouch for content, under the faults that recipes detect.        *)

Content == Target \ {"dist", "control"}

\* A recipe that has run makes no other cookie fresh, and outdates the next one.
LEMMA TouchedOutdates ==
    ASSUME NEW c \in [Target -> State]
    PROVE  /\ \A t \in Target, u \in Content : u # t /\ Touched(c, t)[u] = "fresh" => c[u] = "fresh"
           /\ Touched(c, "checksum")["extract"] # "fresh"
           /\ Touched(c, "extract")["patch"] # "fresh"
           /\ Touched(c, "patch")["configure"] # "fresh"
           /\ Touched(c, "configure")["build"] # "fresh"
           /\ Touched(c, "build")["fake"] # "fresh"
           /\ Touched(c, "fake")["ipkg"] # "fresh"
           /\ Touched(c, "patch")["control"] # "fresh"
           /\ Touched(c, "dist")["control"] = c["control"]
           /\ Touched(c, "fake")["control"] = c["control"]
<1>1. ASSUME NEW t \in Target, NEW u \in Target, u # t, t \in Deps[u]
      PROVE  Touched(c, t)[u] # "fresh"
  BY <1>1, TouchedFacts
<1>2. ASSUME NEW t \in Target, NEW u \in Content, u # t, Touched(c, t)[u] = "fresh"
      PROVE  c[u] = "fresh"
  BY <1>2, TouchedFacts DEF Content
<1>3. \A t \in {"dist", "fake"} : Touched(c, t)["control"] = c["control"]
  BY DepsFacts DEF Touched, Target
<1>. QED BY <1>1, <1>2, <1>3, DepsFacts DEF Target

\* The targets whose cookies vouch for something.
Vouching == {"extract", "patch", "control", "configure", "build", "fake", "ipkg"}

\* Without a fresh .extract_done there is nothing to vouch for.
LEMMA NothingVouched ==
    ASSUME ck'["checksum"] # "fresh" \/ ck'["extract"] # "fresh"
    PROVE  Vouched'
<1>1. \A t \in Vouching : {"checksum", "extract"} \subseteq Core(t)
  BY CoreFacts DEF Vouching
<1>2. \A t \in Vouching : ~CoreFresh(t)'
  BY <1>1 DEF CoreFresh
<1>. QED BY <1>2 DEF Vouched, VouchedSources, VouchedWork, VouchedControl, VouchedPackage, Vouching

\* No cookie gets fresh, the sources stay, products change only where no cookie
\* vouches for them, and "make world" removes the package file first.
LEMMA VouchedKept ==
    ASSUME Vouched,
           \A u \in Content \union {"control"} : ck'[u] = "fresh" => ck[u] = "fresh",
           tree' = tree,
           \A p \in Product : \/ made'[p] = made[p] /\ (p \in torn' <=> p \in torn)
                              \/ ck'[p] # "fresh",
           Format = "ipkg" /\ ck'["fake"] = "fresh"
               => ck'["control"] = ck["control"] /\ ("control" \in torn' <=> "control" \in torn),
           pc' \in Rebuilding => pc \in Rebuilding \/ ck'["ipkg"] # "fresh",
           ~tainted' /\ ~flag' => ~tainted /\ ~flag
    PROVE  Vouched'
<1>1. \A t \in Vouching : Core(t) \subseteq Content
  BY CoreFacts DEF Vouching, Content, Target
<1>2. \A t \in Vouching : CoreFresh(t)' => CoreFresh(t)
  BY <1>1 DEF CoreFresh
<1>3. \A p \in {"configure", "build", "fake", "ipkg"} : CoreFresh(p)' => ck'[p] = "fresh"
  BY CoreFacts DEF CoreFresh
<1>4. SUFFICES ASSUME ~tainted, ~flag
               PROVE  (VouchedSources /\ VouchedWork /\ VouchedControl /\ VouchedPackage)'
  BY DEF Vouched
<1>5. VouchedSources'
  BY <1>2, <1>4 DEF Vouched, VouchedSources, Vouching
<1>6. VouchedWork'
  BY <1>2, <1>3, <1>4 DEF Vouched, VouchedWork, Vouching, Product
<1>7. VouchedControl'
  BY <1>2, <1>3, <1>4 DEF Vouched, VouchedControl, Vouching, Product
<1>8. VouchedPackage'
  BY <1>2, <1>3, <1>4 DEF Vouched, VouchedPackage, Vouching, Product
<1>. QED BY <1>5, <1>6, <1>7, <1>8

\* The control file is written anew, whole or in part, by its own recipe or by
\* that of fake.
LEMMA VouchedControlFile ==
    ASSUME TypeOK, Standing, Vouched, run \in {"control", "fake"},
           ck' = Touched(ck, "control"), tree' = tree,
           \A p \in {"configure", "build", "fake"} : made'[p] = made[p],
           made'["control"] = "good" \/ "control" \in torn',
           UNCHANGED <<tainted, flag>>
    PROVE  Vouched'
<1>. /\ ck \in [Target -> State] /\ "control" \in Target /\ "ipkg" \in Target /\ ck[run] # "fresh"
  BY DEF TypeOK, Typed, State, Standing, Target
<1>1. /\ \A u \in Content : ck'[u] = "fresh" => ck[u] = "fresh"
      /\ ck'["ipkg"] # "fresh"
  BY TouchedOutdates, TouchedFacts, DepsFacts DEF Content
<1>2. \A t \in Vouching : Core(t) \subseteq Content
  BY CoreFacts DEF Vouching, Content, Target
<1>3. \A t \in Vouching : CoreFresh(t)' => CoreFresh(t)
  BY <1>1, <1>2 DEF CoreFresh
<1>4. ~CoreFresh("ipkg")'
  BY <1>1, CoreFacts DEF CoreFresh
<1>5. SUFFICES ASSUME ~tainted, ~flag
               PROVE  (VouchedSources /\ VouchedWork /\ VouchedControl /\ VouchedPackage)'
  BY DEF Vouched
<1>6. Format = "ipkg" => ~CoreFresh("fake")
  <2>1. CASE run = "fake"
    BY <2>1, CoreFacts DEF CoreFresh
  <2>2. CASE run = "control"
    BY <1>5, <2>2 DEF Vouched, VouchedControl
  <2>. QED BY <2>1, <2>2
<1>7. VouchedSources' /\ VouchedWork'
  BY <1>3, <1>5 DEF Vouched, VouchedSources, VouchedWork, Vouching
<1>8. VouchedControl'
  BY <1>3, <1>6 DEF VouchedControl, Vouching
<1>. QED BY <1>4, <1>7, <1>8 DEF VouchedPackage

\* What PKG_BUILD finds.
LEMMA PackageInput ==
    ASSUME TypeOK, Standing, Vouched, run = "ipkg", ~tainted, ~flag
    PROVE  /\ made["fake"] = "good"
           /\ made["control"] = "good" \/ "control" \in torn
           /\ Format = "ipkg" => "control" \notin torn
<1>1. "control" \in checked /\ "fake" \in checked /\ "ipkg" \notin checked
  BY DepsFacts DEF Standing
<1>2. CoreFresh("control") /\ CoreFresh("fake")
  BY <1>1, ConsideredFresh
<1>3. ck["control"] = "fresh"
  BY <1>1 DEF Standing
<1>. QED BY <1>2, <1>3 DEF Vouched, VouchedWork, VouchedControl

\* PKG_BUILD writes the package file, and in the txz format removes its input.
LEMMA VouchedPackageFile ==
    ASSUME Vouched,
           \A u \in Target \ {"control", "ipkg"} : ck'[u] = ck[u],
           tree' = tree,
           \A p \in {"configure", "build", "fake"} : made'[p] = made[p],
           \/ Format = "txz" /\ ck'["control"] = "absent"
           \/ /\ ck'["control"] = ck["control"] /\ made'["control"] = made["control"]
              /\ "control" \in torn' <=> "control" \in torn,
           ~tainted /\ ~flag /\ ck'["ipkg"] = "fresh"
               => /\ made'["ipkg"] = "good" \/ "ipkg" \in torn'
                  /\ Format = "ipkg" /\ pc' \in Rebuilding => "ipkg" \notin torn',
           UNCHANGED <<tainted, flag>>
    PROVE  Vouched'
<1>1. \A t \in Vouching \ {"ipkg"} : Core(t) \subseteq Target \ {"control", "ipkg"}
  BY CoreFacts DEF Vouching, Target
<1>2. \A t \in Vouching \ {"ipkg"} : CoreFresh(t)' <=> CoreFresh(t)
  BY <1>1 DEF CoreFresh
<1>3. CoreFresh("ipkg")' => ck'["ipkg"] = "fresh"
  BY CoreFacts DEF CoreFresh
<1>4. SUFFICES ASSUME ~tainted, ~flag
               PROVE  (VouchedSources /\ VouchedWork /\ VouchedControl /\ VouchedPackage)'
  BY DEF Vouched
<1>5. VouchedSources' /\ VouchedWork'
  BY <1>2, <1>4 DEF Vouched, VouchedSources, VouchedWork, Vouching
<1>6. VouchedControl'
  BY <1>2, <1>4 DEF Vouched, VouchedControl, Vouching
<1>7. VouchedPackage'
  BY <1>3, <1>4 DEF VouchedPackage
<1>. QED BY <1>5, <1>6, <1>7

\* PKG_BUILD that reaches its end, or dies after it.
LEMMA VouchedWritten ==
    ASSUME TypeOK, Standing, Vouched, run = "ipkg", PackageWritten, tree' = tree,
           UNCHANGED <<tainted, flag>>
    PROVE  Vouched'
<1>. /\ ck \in [Target -> State] /\ made \in [Product -> Quality] /\ "ipkg" \in Target
     /\ torn \subseteq {"control", "ipkg"} /\ "control" \in Target /\ Format \in {"ipkg", "txz"}
  BY FormatAssumption DEF TypeOK, Typed, State, Target
<1>1. /\ Touched(ck, "ipkg") \in [Target -> State]
      /\ \A u \in Target \ {"ipkg"} : Touched(ck, "ipkg")[u] = ck[u]
  BY TouchedFacts, DepsFacts DEF Target
<1>2. ck' = Built(Touched(ck, "ipkg"))
  BY DEF PackageWritten
<1>3. \A u \in Target \ {"control", "ipkg"} : ck'[u] = ck[u]
  BY <1>1, <1>2, BuiltFacts
<1>4. PICK q \in {"good", "bad"} : made' = Packed(q) /\ (InputGood("ipkg") => q = "good")
  BY DEF PackageWritten
<1>5. \A p \in {"configure", "build", "fake"} : made'[p] = made[p]
  BY <1>4, PackedFacts DEF Quality, Product
<1>6. made'["ipkg"] = q
  BY <1>4, PackedFacts DEF Quality
<1>7. CASE Format = "txz"
  <2>1. ck'["control"] = "absent"
    BY <1>1, <1>2, <1>7 DEF Built, Without
  <2>2. "control" \in torn => "ipkg" \in torn'
    BY <1>7 DEF PackageWritten, Kept
  <2>3. ~tainted /\ ~flag => made'["ipkg"] = "good" \/ "ipkg" \in torn'
    BY <1>4, <1>6, <2>2, PackageInput DEF InputGood
  <2>. QED BY <1>3, <1>5, <1>7, <2>1, <2>3, VouchedPackageFile
<1>8. CASE Format = "ipkg"
  <2>1. ck'["control"] = ck["control"] /\ made'["control"] = made["control"]
    BY <1>1, <1>2, <1>4, <1>8, PackedFacts DEF Built, Quality
  <2>2. "control" \in torn' <=> "control" \in torn
    BY <1>8 DEF PackageWritten, Kept
  <2>3. ~tainted /\ ~flag => made'["ipkg"] = "good" /\ "ipkg" \notin torn'
    BY <1>4, <1>6, <1>8, PackageInput DEF InputGood, PackageWritten, Kept
  <2>. QED BY <1>3, <1>5, <1>8, <2>1, <2>2, <2>3, VouchedPackageFile
<1>. QED BY <1>7, <1>8

\* PKG_BUILD that dies.
LEMMA VouchedPackageCut ==
    ASSUME TypeOK, Standing, Vouched, run = "ipkg", PackageCut, tree' = tree, pc' = "idle",
           UNCHANGED <<tainted, flag>>
    PROVE  Vouched'
<1>. /\ ck \in [Target -> State] /\ made \in [Product -> Quality] /\ "ipkg" \in Target
     /\ {"ipkg"} \in SUBSET Target /\ {"control"} \in SUBSET Target
     /\ torn \subseteq {"control", "ipkg"} /\ "control" \in Target /\ Format \in {"ipkg", "txz"}
     /\ ck["ipkg"] # "fresh" /\ "ipkg" \in Product
  BY FormatAssumption DEF TypeOK, Typed, State, Target, Standing, Product
<1>P. pc' \notin Rebuilding
  BY DEF Rebuilding
<1>1. CASE UNCHANGED <<ck, made, torn>>
  BY <1>1, <1>P, VouchedPackageFile
<1>2. CASE PackageWritten
  BY <1>2, VouchedWritten
<1>3. CASE Format = "ipkg" /\ ck' = Without(ck, {"ipkg"}) /\ made' = Packed("none") /\ torn' = torn \ {"ipkg"}
  <2>1. /\ \A u \in Target \ {"ipkg"} : ck'[u] = ck[u]
        /\ ck'["ipkg"] = "absent"
    BY <1>3, WithoutFacts
  <2>2. /\ \A p \in {"configure", "build", "fake"} : made'[p] = made[p]
        /\ made'["control"] = made["control"]
    BY <1>3, PackedFacts DEF Quality, Product
  <2>. QED BY <1>3, <2>1, <2>2, VouchedPackageFile
<1>4. CASE Format = "txz" /\ ck' = Built(ck) /\ made' = Packed(made["ipkg"])
  <2>1. /\ \A u \in Target \ {"control"} : ck'[u] = ck[u]
        /\ ck'["control"] = "absent"
    BY <1>4, WithoutFacts DEF Built
  <2>2. \A p \in {"configure", "build", "fake"} : made'[p] = made[p]
    BY <1>4, PackedFacts DEF Product
  <2>. QED BY <1>4, <2>1, <2>2, VouchedPackageFile
<1>5. CASE ck' = Built(Touched(ck, "ipkg")) /\ made' = Packed("partial") /\ torn' = Kept(torn \union {"ipkg"})
  <2>0. /\ Touched(ck, "ipkg") \in [Target -> State]
        /\ \A u \in Target \ {"ipkg"} : Touched(ck, "ipkg")[u] = ck[u]
    BY TouchedFacts, DepsFacts DEF Target
  <2>1. \A u \in Target \ {"control", "ipkg"} : ck'[u] = ck[u]
    BY <1>5, <2>0, BuiltFacts
  <2>2. \A p \in {"configure", "build", "fake"} : made'[p] = made[p]
    BY <1>5, PackedFacts DEF Quality, Product
  <2>3. "ipkg" \in torn'
    BY <1>5 DEF Kept
  <2>4. CASE Format = "txz"
    <3>1. ck'["control"] = "absent"
      BY <1>5, <2>0, <2>4, WithoutFacts DEF Built
    <3>. QED BY <1>P, <2>1, <2>2, <2>3, <2>4, <3>1, VouchedPackageFile
  <2>5. CASE Format = "ipkg"
    <3>1. ck'["control"] = ck["control"] /\ made'["control"] = made["control"]
      BY <1>5, <2>0, <2>5, PackedFacts DEF Built, Quality
    <3>2. "control" \in torn' <=> "control" \in torn
      BY <1>5, <2>5 DEF Kept
    <3>. QED BY <1>P, <2>1, <2>2, <2>3, <3>1, <3>2, VouchedPackageFile
  <2>. QED BY <2>4, <2>5
<1>. QED BY <1>1, <1>2, <1>3, <1>4, <1>5 DEF PackageCut

\* While a recipe that does not end well runs, its damage is vouched for by no
\* cookie, but for the files noted as torn.
LEMMA VouchedDamage ==
    ASSUME TypeOK, Standing, Vouched, NEW t \in Target, run = t, Damage(t), pc' = "idle",
           UNCHANGED <<tainted, flag>>
    PROVE  Vouched'
<1>. /\ ck \in [Target -> State] /\ ck[t] # "fresh" /\ Content \subseteq Target
     /\ "dist" \in Target /\ "checksum" \in WrkTarget /\ WrkTarget \subseteq Target
     /\ {"ipkg"} \in SUBSET Target /\ {"dist"} \in SUBSET Target /\ "control" \in Target
     /\ pc' \notin Rebuilding
  BY DEF TypeOK, Typed, State, Standing, Target, Content, WrkTarget, Rebuilding
<1>1. CASE t = "dist"
  <2>1. /\ \A u \in Content : Touched(ck, "dist")[u] = "fresh" => ck[u] = "fresh"
        /\ Touched(ck, "dist")["control"] = ck["control"]
    BY TouchedOutdates DEF Content
  <2>2. \A u \in Content \union {"control"} : Without(ck, {"dist"})[u] = ck[u]
    BY WithoutFacts DEF Content
  <2>. QED BY <1>1, <2>1, <2>2, VouchedKept DEF Damage
<1>2. CASE t = "checksum"
  <2>1. CASE Wiped
    <3>1. ck'["checksum"] # "fresh"
      BY <2>1, WithoutFacts DEF Wiped
    <3>. QED BY <3>1, NothingVouched
  <2>2. CASE Residue
    <3>1. PICK K \in SUBSET {u \in WrkTarget : ck[u] # "absent"} : ck' = Without(ck, WrkTarget \ K)
      BY <2>2 DEF Residue
    <3>2. ck'["checksum"] # "fresh"
      BY <1>2, <3>1, WithoutFacts
    <3>. QED BY <3>2, NothingVouched
  <2>. QED BY <1>2, <2>1, <2>2 DEF Damage
<1>3. CASE t = "extract"
  BY <1>3, NothingVouched DEF Damage
<1>4. CASE t = "patch"
  <2>1. ck' = ck /\ made' = made /\ tree' \in {tree, "pristine", "half"}
    BY <1>4 DEF Damage
  <2>2. \A u \in Vouching \ {"extract"} : ~CoreFresh(u)'
    BY <1>4, <2>1, CoreFacts DEF CoreFresh, Vouching
  <2>3. CoreFresh("extract")' => CoreFresh("extract")
    BY <2>1 DEF CoreFresh
  <2>. QED BY <2>1, <2>2, <2>3
           DEF Vouched, VouchedSources, VouchedWork, VouchedControl, VouchedPackage, Vouching
<1>5. CASE t = "ipkg"
  BY <1>5, VouchedPackageCut DEF Damage
<1>6. CASE t \in {"control", "fake"}
  <2>1. CASE UNCHANGED <<ck, made, torn>>
    BY <1>6, <2>1, VouchedKept DEF Damage
  <2>2. CASE ck' = Touched(ck, "control") /\ ControlCut /\ ~UNCHANGED <<ck, made, torn>>
    <3>1. \A p \in {"configure", "build", "fake"} : made'[p] = made[p]
      BY <2>2 DEF ControlCut, TypeOK, Typed, Product
    <3>2. made'["control"] = "good" \/ "control" \in torn'
      BY <2>2 DEF ControlCut, TypeOK, Typed, Product
    <3>. QED BY <1>6, <2>2, <3>1, <3>2, VouchedControlFile DEF Damage
  <2>. QED BY <1>6, <2>1, <2>2 DEF Damage, ControlCut
<1>7. CASE t \in {"configure", "build"}
  BY <1>7, VouchedKept DEF Damage
<1>. QED BY <1>1, <1>2, <1>3, <1>4, <1>5, <1>6, <1>7 DEF Target

\* What the recipe of a product leaves at its end is vouched for by its cookie.
LEMMA VouchedProduct ==
    ASSUME Detected, TypeOK, Standing, Vouched, NEW p \in Product, EndProduct(p)
    PROVE  Vouched'
<1>T. /\ ck \in [Target -> State] /\ made \in [Product -> Quality]
      /\ torn \subseteq {"control", "ipkg"} /\ {"control", "ipkg"} \in SUBSET Target
      /\ "ipkg" \in Target /\ "fake" \in Target /\ "control" \in Target
      /\ Product \subseteq Target /\ Content \subseteq Target
  BY DEF TypeOK, Typed, State, Target, Product, Content
<1>E. UNCHANGED <<tree, tainted, flag>> /\ run = p /\ pc' = pc
  BY DEF EndProduct, Ended, Considered
\* The content a recipe finds, if the cookies before it vouch for it.
<1>F. ASSUME NEW u \in {"patch", "configure", "build", "fake"}, u \in Deps[p]
      PROVE  CoreFresh(u)
  <2>1. Deps[p] \subseteq checked
    BY <1>E DEF Standing, Product
  <2>. QED BY <1>F, <2>1, ConsideredFresh
<1>C. \A t \in Vouching : Core(t) \subseteq Content
  BY CoreFacts DEF Vouching, Content, Target
<1>1. CASE p = "control"
  <2>1. /\ ck' = Touched(ck, "control")
        /\ \A q \in {"configure", "build", "fake"} : made'[q] = made[q]
        /\ made'["control"] = "good"
    BY <1>1, <1>T DEF EndProduct, InputGood, Product
  <2>. QED BY <1>1, <1>E, <2>1, VouchedControlFile
<1>2. CASE p \in {"configure", "build"}
  <2>1. /\ ck' = Touched(ck, p) /\ torn' = torn
        /\ \A q \in Product \ {p} : made'[q] = made[q]
        /\ InputGood(p) => made'[p] = "good"
    BY <1>2, <1>T DEF EndProduct, Product
  <2>2. /\ \A u \in Content \ {p} : ck'[u] = "fresh" => ck[u] = "fresh"
        /\ ck'["control"] = ck["control"]
        /\ p = "configure" => ck'["build"] # "fresh"
        /\ p = "build" => ck'["fake"] # "fresh"
    BY <1>2, <1>T, <2>1, TouchedOutdates, TouchedFacts, DepsFacts
  <2>3. \A t \in {"extract", "patch", "control", "configure", "build"} \ {p} : CoreFresh(t)' => CoreFresh(t)
    <3>1. CASE p = "configure"
      BY <2>2, <3>1, <1>C, CoreFacts DEF CoreFresh, Vouching
    <3>2. CASE p = "build"
      BY <2>2, <3>2, <1>C, CoreFacts DEF CoreFresh, Vouching
    <3>. QED BY <1>2, <3>1, <3>2
  <2>4. ~CoreFresh("fake")' /\ ~CoreFresh("ipkg")' /\ (p = "configure" => ~CoreFresh("build")')
    BY <1>2, <2>2, CoreFacts DEF CoreFresh
  <2>5. SUFFICES ASSUME ~tainted, ~flag
                 PROVE  (VouchedSources /\ VouchedWork /\ VouchedControl /\ VouchedPackage)'
    BY <1>E DEF Vouched
  <2>6. InputGood(p)
    <3>1. CASE p = "configure"
      BY <2>5, <3>1, <1>F, DepsFacts DEF Vouched, VouchedSources, InputGood
    <3>2. CASE p = "build"
      <4>1. CoreFresh("configure")
        BY <3>2, <1>F, DepsFacts
      <4>2. CoreFresh("patch")
        BY <4>1, CoreFacts DEF CoreFresh
      <4>. QED BY <2>5, <3>2, <4>1, <4>2 DEF Vouched, VouchedSources, VouchedWork, InputGood
    <3>. QED BY <1>2, <3>1, <3>2
  <2>7. VouchedSources' /\ VouchedControl'
    BY <1>2, <1>E, <2>1, <2>2, <2>3, <2>4, <2>5 DEF Vouched, VouchedSources, VouchedControl, Product
  <2>8. VouchedWork'
    BY <1>2, <2>1, <2>3, <2>4, <2>5, <2>6 DEF Vouched, VouchedWork, Product
  <2>. QED BY <2>4, <2>7, <2>8 DEF VouchedPackage
<1>3. CASE p = "fake"
  <2>. DEFINE c == Touched(ck, "control")
  <2>1. /\ ck' = Touched(c, "fake")
        /\ \A q \in Product \ {"fake", "control"} : made'[q] = made[q]
        /\ InputGood("fake") => made'["fake"] = "good"
        /\ made'["control"] = "good" /\ "control" \notin torn'
    BY <1>3, <1>T DEF EndProduct, Product, TornPackage
  <2>2. /\ c \in [Target -> State] /\ c["control"] = "fresh"
        /\ \A u \in Content : c[u] = "fresh" => ck[u] = "fresh"
    BY <1>T, TouchedFacts, TouchedOutdates DEF Content
  <2>3. /\ Touched(c, "fake")["ipkg"] # "fresh" /\ Touched(c, "fake")["control"] = "fresh"
        /\ \A u \in Content : u # "fake" /\ Touched(c, "fake")[u] = "fresh" => c[u] = "fresh"
    BY <1>T, <2>2, TouchedOutdates
  <2>4. /\ ck'["control"] = "fresh" /\ ck'["ipkg"] # "fresh"
        /\ \A u \in Content \ {"fake"} : ck'[u] = "fresh" => ck[u] = "fresh"
    BY <2>1, <2>2, <2>3
  <2>5. \A t \in {"extract", "patch", "control", "configure", "build"} : CoreFresh(t)' => CoreFresh(t)
    BY <2>4, <1>C, CoreFacts DEF CoreFresh, Vouching
  <2>6. ~CoreFresh("ipkg")'
    BY <2>4, CoreFacts DEF CoreFresh
  <2>7. SUFFICES ASSUME ~tainted, ~flag
                 PROVE  (VouchedSources /\ VouchedWork /\ VouchedControl /\ VouchedPackage)'
    BY <1>E DEF Vouched
  <2>8. CoreFresh("build")
    BY <1>3, <1>F, DepsFacts
  <2>9. made'["fake"] = "good"
    BY <2>1, <2>7, <2>8 DEF Vouched, VouchedWork, InputGood
  <2>10. VouchedSources' /\ VouchedWork'
    BY <1>E, <2>1, <2>5, <2>7, <2>9 DEF Vouched, VouchedSources, VouchedWork, Product
  <2>11. VouchedControl'
    BY <2>1, <2>4 DEF VouchedControl
  <2>. QED BY <2>6, <2>10, <2>11 DEF VouchedPackage
<1>4. CASE p = "ipkg"
  <2>1. CASE PackageWritten
    BY <1>4, <1>E, <2>1, VouchedWritten
  <2>2. CASE Format = "txz" /\ ck' = Without(ck, {"control", "ipkg"}) /\ made' = Packed("none")
    <3>1. /\ \A u \in Target \ {"control", "ipkg"} : ck'[u] = ck[u]
          /\ ck'["control"] = "absent" /\ ck'["ipkg"] = "absent"
      BY <2>2, <1>T, WithoutFacts
    <3>2. \A q \in {"configure", "build", "fake"} : made'[q] = made[q]
      BY <2>2, <1>T, PackedFacts DEF Quality, Product
    <3>. QED BY <1>E, <2>2, <3>1, <3>2, VouchedPackageFile
  <2>. QED BY <1>4, <2>1, <2>2 DEF EndProduct, Fault, Detected
<1>. QED BY <1>1, <1>2, <1>3, <1>4 DEF Product

LEMMA VouchedInductive ==
    ASSUME Detected, TypeOK, Standing, Vouched, OnCourse, [Next]_vars
    PROVE  Vouched'
<1>T. /\ ck \in [Target -> State] /\ made \in [Product -> Quality]
      /\ torn \subseteq {"control", "ipkg"}
      /\ "ipkg" \in Target /\ "patch" \in Target /\ "extract" \in Target /\ "fake" \in Target
      /\ "checksum" \in Target /\ "dist" \in Target /\ "control" \in Target
      /\ {"ipkg"} \in SUBSET Target /\ {"dist"} \in SUBSET Target /\ {"control"} \in SUBSET Target
      /\ Product \subseteq Target /\ WrkTarget \subseteq Target /\ Content \subseteq Target
      /\ Content \union {"control"} \subseteq Target \ {"dist"}
      /\ "fake" \in Content /\ "control" \notin Content /\ "control" \in Product
      /\ Product \subseteq Content \union {"control"}
  BY DEF TypeOK, Typed, State, Target, Product, WrkTarget, Content
<1>R. run # "none" => /\ run \in Target /\ run \notin checked /\ ck[run] # "fresh"
                      /\ Deps[run] \subseteq checked
  BY DEF Standing, TypeOK, Typed
<1>1. ASSUME NEW g \in Goals, Start(g) PROVE Vouched'
  <2>1. pc' \notin Rebuilding
    BY <1>1 DEF Start, FirstStep, Goals, Rebuilding
  <2>. QED BY <1>1, <2>1, VouchedKept DEF Start, files
<1>2. CASE PackageClean
  <2>1. /\ ck' = Without(ck, {"ipkg"}) /\ made' = [made EXCEPT !["ipkg"] = "none"]
        /\ torn' = torn \ {"ipkg"} /\ UNCHANGED <<tree, tainted, flag>>
    BY <1>2 DEF PackageClean
  <2>2. ck'["ipkg"] = "absent" /\ \A u \in Target \ {"ipkg"} : ck'[u] = ck[u]
    BY <2>1, <1>T, WithoutFacts
  <2>3. \A p \in Product : (made'[p] = made[p] /\ (p \in torn' <=> p \in torn)) \/ ck'[p] # "fresh"
    BY <2>1, <2>2, <1>T
  <2>. QED BY <1>T, <2>1, <2>2, <2>3, VouchedKept
<1>3. CASE CleanDone
  <2>1. ck'["checksum"] # "fresh"
    BY <1>3, <1>T, WithoutFacts DEF CleanDone, WrkTarget
  <2>. QED BY <2>1, NothingVouched
<1>4. CASE RmFlag
  <2>1. ck'["checksum"] # "fresh"
    BY <1>4, <1>T DEF RmFlag, OnCourse
  <2>. QED BY <2>1, NothingVouched
<1>5. CASE TestFlag \/ RootClean \/ StepDone \/ \E t \in Target : Skip(t)
  <2>1. UNCHANGED <<ck, tree, made, torn, tainted, flag>>
    BY <1>5 DEF TestFlag, RootClean, StepDone, Skip, files
  <2>2. pc' \in Rebuilding => pc \in Rebuilding
    BY <1>5 DEF TestFlag, RootClean, StepDone, Skip, Considered, Goto, Finish, Rebuilding
  <2>. QED BY <2>1, <2>2, VouchedKept
<1>6. CASE RmDist
  <2>1. \A u \in Target \ {"dist"} : ck'[u] = ck[u]
    BY <1>6, <1>T, WithoutFacts DEF RmDist
  <2>2. pc' \notin Rebuilding
    BY <1>6 DEF RmDist, Goto, Rebuilding
  <2>. QED BY <1>6, <1>T, <2>1, <2>2, VouchedKept DEF RmDist
<1>7. ASSUME NEW t \in Target, Begin(t) PROVE Vouched'
  <2>1. ck[t] # "fresh" /\ pc' = pc /\ UNCHANGED <<tree, tainted, flag>>
    BY <1>7 DEF Begin
  <2>2. CASE t = "fake"
    <3>1. /\ \A u \in Target \ {"control"} : ck'[u] = ck[u]
          /\ ck'["control"] = "absent" /\ ck'["fake"] # "fresh"
      BY <1>7, <2>1, <2>2, <1>T, WithoutFacts DEF Begin
    <3>2. \A p \in Product \ {"control", "fake"} : made'[p] = made[p] /\ (p \in torn' <=> p \in torn)
      BY <1>7, <2>2, <1>T DEF Begin, TornPackage
    <3>. QED BY <1>T, <2>1, <3>1, <3>2, VouchedKept
  <2>3. CASE t # "fake"
    <3>1. ck' = ck /\ torn' = torn
      BY <1>7, <2>3 DEF Begin
    <3>2. \A p \in Product \ {t} : made'[p] = made[p]
      BY <1>7, <2>3, <1>T DEF Begin
    <3>3. \A p \in Product : made'[p] = made[p] \/ ck'[p] # "fresh"
      BY <2>1, <3>1, <3>2
    <3>. QED BY <2>1, <3>1, <3>3, VouchedKept
  <2>. QED BY <2>2, <2>3
<1>8. CASE EndDist
  <2>1. /\ \A u \in Content : Touched(ck, "dist")[u] = "fresh" => ck[u] = "fresh"
        /\ Touched(ck, "dist")["control"] = ck["control"]
    BY <1>T, TouchedOutdates DEF Content
  <2>2. \A u \in Content \union {"control"} : ck'[u] = Touched(ck, "dist")[u]
    BY <1>8, <1>T, TouchedFacts DEF EndDist
  <2>3. UNCHANGED <<tree, made, torn, tainted, flag>> /\ pc' = pc
    BY <1>8 DEF EndDist, Ended, Considered
  <2>. QED BY <2>1, <2>2, <2>3, VouchedKept
<1>9. CASE EndChecksum
  <2>. DEFINE c == Without(ck, WrkTarget)
  <2>1. c \in [Target -> State]
    BY <1>T, WithoutFacts
  <2>2. Touched(c, "checksum")["extract"] # "fresh"
    BY <2>1, TouchedOutdates
  <2>3. ck' = Touched(c, "checksum")
    BY <1>9 DEF EndChecksum, Fault, Detected
  <2>. QED BY <2>2, <2>3, NothingVouched
<1>10. CASE EndExtract
  <2>1. ck'["patch"] # "fresh"
    BY <1>10, <1>T, TouchedOutdates DEF EndExtract
  <2>2. \A u \in Vouching \ {"extract"} : ~CoreFresh(u)'
    BY <2>1, CoreFacts DEF CoreFresh, Vouching
  <2>3. tree' \in {"pristine", "half"}
    BY <1>10 DEF EndExtract
  <2>. QED BY <2>2, <2>3
           DEF Vouched, VouchedSources, VouchedWork, VouchedControl, VouchedPackage, Vouching
<1>11. CASE EndPatch
  <2>1. ck' = Touched(ck, "patch") /\ tainted' = tainted /\ flag' = flag /\ run = "patch"
    BY <1>11 DEF EndPatch, Ended
  <2>2. ck'["configure"] # "fresh" /\ ck'["control"] # "fresh"
    BY <2>1, <1>T, TouchedOutdates
  <2>3. \A u \in Vouching \ {"extract", "patch", "control"} : ~CoreFresh(u)'
    BY <2>2, CoreFacts DEF CoreFresh, Vouching
  <2>4. CoreFresh("extract")
    BY <2>1, <1>R, ConsideredFresh, DepsFacts
  <2>5. ~tainted /\ ~flag => tree' = "patched"
    BY <1>11, <2>4 DEF EndPatch, Fault, Detected, Vouched, VouchedSources
  <2>. QED BY <2>1, <2>2, <2>3, <2>5
           DEF Vouched, VouchedSources, VouchedWork, VouchedControl, VouchedPackage, Vouching
<1>12. ASSUME NEW p \in Product, EndProduct(p) PROVE Vouched'
  BY <1>12, VouchedProduct
<1>13. ASSUME NEW t \in Target, Fail(t) PROVE Vouched'
  BY <1>13, VouchedDamage DEF Fail, Aborted
<1>14. CASE Crash
  <2>1. CASE run # "none" /\ Damage(run) /\ UNCHANGED tainted
    BY <1>14, <2>1, <1>R, VouchedDamage DEF Crash, Aborted
  <2>2. CASE pc = "clean" /\ tainted'
    BY <2>2 DEF Vouched
  <2>3. CASE pc = "flagclean"
    BY <1>14, <2>3 DEF Crash, OnCourse, Vouched
  <2>4. CASE UNCHANGED <<ck, tree, made, tainted, torn>>
    <3>1. pc' \notin Rebuilding /\ flag' = flag
      BY <1>14 DEF Crash, Aborted, Rebuilding
    <3>. QED BY <2>4, <3>1, VouchedKept
  <2>. QED BY <1>14, <2>1, <2>2, <2>3, <2>4 DEF Crash, TypeOK, Typed
<1>15. CASE RmError
  BY <1>15 DEF RmError, Fault, Detected
<1>16. CASE Reconfigure
  BY <1>16 DEF Reconfigure, Vouched
<1>17. CASE UNCHANGED vars
  BY <1>17, VouchedKept DEF vars
<1>. QED BY <1>1, <1>2, <1>3, <1>4, <1>5, <1>6, <1>7, <1>8, <1>9, <1>10, <1>11, <1>12,
            <1>13, <1>14, <1>15, <1>16, <1>17
         DEF Next, Make, Clean, FlagClean
-----------------------------------------------------------------------------
(* The course of an invocation, and what it has delivered at its end.      *)

\* Outside the steps of a sub-make no recipe runs.
LEMMA NoRecipe ==
    ASSUME Standing, pc \notin MakeStep
    PROVE  run = "none"
BY DEF Standing

LEMMA OnCourseInductive ==
    ASSUME Detected, TypeOK, Standing, OnCourse, [Next]_vars
    PROVE  OnCourse'
<1>. USE SubMakeFacts
<1>T. /\ ck \in [Target -> State] /\ Target \ {"dist"} = WrkTarget \union {"ipkg"}
      /\ WrkTarget \union {"ipkg"} \in SUBSET Target
  BY DEF TypeOK, Typed, State, Target, WrkTarget
<1>1. ASSUME NEW g \in Goals, Start(g) PROVE OnCourse'
  BY <1>1 DEF Start, FirstStep, Goals, OnCourse, WorldSteps
<1>2. CASE PackageClean
  BY <1>2 DEF PackageClean, Goto, OnCourse, WorldSteps
<1>3. CASE TestFlag
  BY <1>3 DEF TestFlag, Goto, OnCourse, WorldSteps, files, TypeOK, Typed
<1>4. CASE Clean
  BY <1>4 DEF Clean, Finish, OnCourse, WorldSteps
<1>5. CASE FlagClean
  <2>1. \A t \in Target \ {"dist"} : ck'[t] = "absent"
    BY <1>5, <1>T, WithoutFacts DEF FlagClean, CleanDone
  <2>. QED BY <1>5, <2>1 DEF FlagClean, CleanDone, Goto, OnCourse, WorldSteps
<1>6. CASE RmFlag
  BY <1>6 DEF RmFlag, Goto, OnCourse, WorldSteps
<1>7. CASE RootClean
  BY <1>7 DEF RootClean, Goto, OnCourse, WorldSteps
<1>8. CASE RmDist
  BY <1>8 DEF RmDist, Goto, OnCourse, WorldSteps
<1>9. CASE StepDone
  BY <1>9 DEF StepDone, Goto, Finish, OnCourse, WorldSteps
<1>10. ASSUME pc \in MakeStep, pc' = pc, UNCHANGED <<goal, flag, stamp>> PROVE OnCourse'
  BY <1>10 DEF OnCourse
<1>11. ASSUME NEW t \in Target, Skip(t) \/ Begin(t) PROVE OnCourse'
  BY <1>10, <1>11 DEF Skip, Begin, Due, Considered, files
<1>12. ASSUME NEW t \in Target, Ended(t), UNCHANGED <<flag, stamp>> PROVE OnCourse'
  BY <1>10, <1>12 DEF Ended, Considered, Standing, Target
<1>13. CASE EndDist \/ EndChecksum \/ EndExtract \/ EndPatch
  BY <1>12, <1>13 DEF EndDist, EndChecksum, EndExtract, EndPatch, Target
<1>14. ASSUME NEW p \in Product, EndProduct(p) PROVE OnCourse'
  BY <1>12, <1>14 DEF EndProduct, Product, Target
<1>15. CASE Crash \/ \E t \in Target : Fail(t)
  BY <1>15 DEF Fail, Crash, Aborted, OnCourse, WorldSteps
<1>16. CASE RmError
  BY <1>16 DEF RmError, Fault, Detected
<1>17. CASE Reconfigure
  BY <1>17 DEF Reconfigure, OnCourse, WorldSteps
<1>18. CASE UNCHANGED vars
  BY <1>18 DEF vars, files, OnCourse
<1>. QED BY <1>1, <1>2, <1>3, <1>4, <1>5, <1>6, <1>7, <1>8, <1>9, <1>11, <1>13,
            <1>14, <1>15, <1>16, <1>17, <1>18
         DEF Next, Make

\* A package file that a sub-make has considered is good, or was torn; it is good
\* if "make world" made it.
LEMMA ConsideredPackage ==
    ASSUME TypeOK, Standing, Vouched, "ipkg" \in checked, ~tainted, ~flag
    PROVE  /\ made["ipkg"] = "good" \/ "ipkg" \in torn
           /\ Format = "ipkg" /\ pc \in Rebuilding => made["ipkg"] = "good"
<1>1. ck["ipkg"] = "fresh" \/ (Format = "txz" /\ "ipkg" \in torn)
  BY DEF Standing
<1>2. CASE ck["ipkg"] = "fresh"
  <2>1. "fake" \in checked
    BY Unconsidered DEF Target
  <2>2. CoreFresh("fake")
    BY <2>1, ConsideredFresh
  <2>3. CoreFresh("ipkg")
    BY <1>2, <2>2, CoreFacts DEF CoreFresh
  <2>. QED BY <2>3 DEF Vouched, VouchedPackage
<1>. QED BY <1>1, <1>2

LEMMA DeliveredInductive ==
    ASSUME Detected, IInv, [Next]_vars
    PROVE  Delivered'
<1>. USE SubMakeFacts
<1>0. TypeOK /\ Standing /\ Vouched /\ OnCourse /\ Delivered
  BY DEF IInv
\* Nothing to show unless the invocation ends well.
<1>N. ASSUME last' # "ok", pc' # "idle" => last' = "none" PROVE Delivered'
  BY <1>N DEF Delivered, WorldSound, PackageSound
<1>U. ASSUME pc \notin {"idle"}, pc' # "idle", last' = last PROVE Delivered'
  BY <1>0, <1>U, <1>N DEF Delivered
<1>1. ASSUME NEW g \in Goals, Start(g) PROVE Delivered'
  BY <1>1, <1>N DEF Start
<1>2. CASE PackageClean \/ TestFlag \/ FlagClean \/ RmFlag \/ RootClean \/ RmDist
  BY <1>2, <1>U DEF PackageClean, TestFlag, FlagClean, RmFlag, RootClean, RmDist, Goto
<1>3. CASE Clean
  BY <1>0, <1>3 DEF Clean, Finish, OnCourse, Delivered, WorldSound, PackageSound
<1>4. CASE StepDone
  <2>1. CASE pc \in {"patch", "fake", "fetch"}
    BY <1>0, <1>4, <2>1 DEF StepDone, Finish, OnCourse, Delivered, WorldSound, PackageSound
  <2>2. CASE pc \in {"compile", "allpkgs"}
    BY <1>4, <2>2, <1>U DEF StepDone, Goto
  <2>3. CASE pc = "package"
    <3>1. ~tainted' /\ ~flag' => made'["ipkg"] = "good" \/ "ipkg" \in torn'
      BY <1>0, <1>4, <2>3, ConsideredPackage DEF StepDone
    <3>. QED BY <1>0, <1>4, <2>3, <3>1 DEF StepDone, Finish, OnCourse, Delivered, WorldSound, PackageSound
  <2>4. CASE pc = "install"
    <3>1. ~flag /\ stamp /\ goal = "world"
      BY <1>0, <2>4 DEF OnCourse, WorldSteps
    <3>2. ~tainted' => info' = "good" \/ (Format = "txz" /\ "ipkg" \in torn')
      <4>1. "ipkg" \in checked /\ info' = made["ipkg"] /\ tainted' = tainted /\ torn' = torn
        BY <1>4, <2>4 DEF StepDone
      <4>. QED BY <1>0, <2>4, <3>1, <4>1, ConsideredPackage, FormatAssumption DEF Rebuilding
    <3>. QED BY <1>4, <2>4, <3>1, <3>2 DEF StepDone, Finish, Delivered, WorldSound, PackageSound
  <2>. QED BY <1>0, <1>4, <2>1, <2>2, <2>3, <2>4 DEF StepDone
<1>5. ASSUME pc \in MakeStep, pc' = pc, last' = last PROVE Delivered'
  BY <1>5, <1>U
<1>6. ASSUME NEW t \in Target, Skip(t) \/ Begin(t) PROVE Delivered'
  BY <1>5, <1>6 DEF Skip, Begin, Due, Considered
<1>7. ASSUME NEW t \in Target, Ended(t) PROVE Delivered'
  BY <1>0, <1>5, <1>7 DEF Ended, Considered, Standing, Target
<1>8. CASE EndDist \/ EndChecksum \/ EndExtract \/ EndPatch
  BY <1>7, <1>8 DEF EndDist, EndChecksum, EndExtract, EndPatch, Target
<1>9. ASSUME NEW p \in Product, EndProduct(p) PROVE Delivered'
  BY <1>7, <1>9 DEF EndProduct, Product, Target
<1>10. CASE Crash \/ \E t \in Target : Fail(t)
  BY <1>10, <1>N DEF Fail, Crash, Aborted
<1>11. CASE RmError
  BY <1>11 DEF RmError, Fault, Detected
<1>12. CASE Reconfigure
  BY <1>12, <1>N DEF Reconfigure
<1>13. CASE UNCHANGED vars
  BY <1>0, <1>13 DEF vars, files, Delivered, WorldSound, PackageSound
<1>. QED BY <1>1, <1>2, <1>3, <1>4, <1>6, <1>8, <1>9, <1>10, <1>11, <1>12, <1>13
         DEF Next, Make

-----------------------------------------------------------------------------
(* The theorems.                                                           *)

LEMMA Inductive ==
    ASSUME Detected
    PROVE  Spec => []IInv
<1>1. ASSUME Init PROVE IInv
  <2>1. Standing /\ OnCourse /\ Delivered
    BY <1>1, SubMakeFacts DEF Init, Standing, OnCourse, WorldSteps, Delivered, WorldSound, PackageSound
  <2>2. Vouched
    <3>1. \A t \in Vouching : "checksum" \in Core(t)
      BY CoreFacts DEF Vouching
    <3>2. ck["checksum"] # "fresh"
      BY <1>1 DEF Init, Target
    <3>. QED BY <3>1, <3>2
             DEF CoreFresh, Vouched, VouchedSources, VouchedWork, VouchedControl, VouchedPackage, Vouching
  <2>3. TypeOK
    BY <1>1, InitType
  <2>. QED BY <2>1, <2>2, <2>3 DEF IInv
<1>2. ASSUME IInv, [Next]_vars PROVE IInv'
  BY <1>2, TypeInductive, StandingInductive, VouchedInductive, OnCourseInductive, DeliveredInductive DEF IInv
<1>. QED BY <1>1, <1>2, PTL DEF Spec

\* However many recipes fail, invocations die and downloads end short, and in
\* whatever order: a chain of cookies make takes to be up to date vouches for
\* complete products of complete input under the current options, but for a
\* package or control file in the middle of which a recipe died.
THEOREM CookiesVouch ==
    ASSUME Detected
    PROVE  Spec => []CookiesSound
<1>1. ASSUME IInv, ~tainted, ~flag
      PROVE  /\ UpToDate("patch") => tree = "patched"
             /\ \A p \in Product : UpToDate(p) => made[p] = "good" \/ p \in torn
  <2>1. \A t \in Vouching : Core(t) \subseteq Chain[t]
    BY DEF Core
  <2>2. \A t \in Vouching : UpToDate(t) => CoreFresh(t)
    BY <2>1 DEF UpToDate, CoreFresh
  <2>3. UpToDate("control") => ck["control"] = "fresh"
    BY DEF UpToDate, Chain
  <2>4. Vouched
    BY <1>1 DEF IInv
  <2>5. UpToDate("patch") => tree = "patched"
    BY <1>1, <2>2, <2>4 DEF Vouched, VouchedSources, Vouching
  <2>6. \A p \in {"configure", "build", "fake"} : UpToDate(p) => made[p] = "good"
    BY <1>1, <2>2, <2>4 DEF Vouched, VouchedWork, Vouching
  <2>7. UpToDate("control") => made["control"] = "good" \/ "control" \in torn
    BY <1>1, <2>2, <2>3, <2>4 DEF Vouched, VouchedControl, Vouching
  <2>8. UpToDate("ipkg") => made["ipkg"] = "good" \/ "ipkg" \in torn
    BY <1>1, <2>2, <2>4 DEF Vouched, VouchedPackage, Vouching
  <2>. QED BY <2>5, <2>6, <2>7, <2>8 DEF Product
<1>2. IInv => CookiesSound
  BY <1>1 DEF CookiesSound
<1>. QED BY <1>2, Inductive, PTL

\* A "make world" that ends well leaves a complete package of the current options
\* in the image, for a txz package unless a control file was torn.
THEOREM WorldDelivers ==
    ASSUME Detected
    PROVE  Spec => []WorldSound
<1>1. IInv => WorldSound
  BY DEF IInv, Delivered
<1>. QED BY <1>1, Inductive, PTL

\* A "make package=p package" that ends well leaves a complete package file, unless
\* an earlier PKG_BUILD died in the middle of the one it finds.
THEOREM PackageDelivers ==
    ASSUME Detected
    PROVE  Spec => []PackageSound
<1>1. IInv => PackageSound
  BY DEF IInv, Delivered
<1>. QED BY <1>1, Inductive, PTL

\* Only its own recipe writes .prepared.
LEMMA PreparedByPatch ==
    ASSUME TypeOK, [Next]_vars, ck["patch"] # "fresh", ck'["patch"] = "fresh"
    PROVE  EndPatch
<1>T. /\ ck \in [Target -> State] /\ "patch" \in Content /\ Product \subseteq Target
      /\ "dist" \in Target /\ "checksum" \in Target /\ "extract" \in Target /\ "control" \in Target
      /\ "ipkg" \in Target /\ "fake" \in Target /\ "patch" \in Target /\ "patch" \notin Product
      /\ WrkTarget \subseteq Target /\ Content \subseteq Target
  BY DEF TypeOK, Typed, State, Target, Product, WrkTarget, Content
<1>K. \A K \in SUBSET Target : Without(ck, K)["patch"] # "fresh"
  BY <1>T, WithoutFacts
<1>U. \A t \in Target : t # "patch" => Touched(ck, t)["patch"] # "fresh"
  BY <1>T, TouchedOutdates
<1>W. ~Wiped /\ ~Residue
  BY <1>K, <1>T DEF Wiped, Residue
<1>B. ASSUME NEW c \in [Target -> State], c["patch"] # "fresh" PROVE Built(c)["patch"] # "fresh"
  BY <1>B, <1>T, BuiltFacts
<1>P. Touched(ck, "ipkg") \in [Target -> State] /\ Touched(ck, "ipkg")["patch"] # "fresh"
  BY <1>U, <1>T, TouchedFacts
<1>D. \A t \in Target : ~Damage(t)
  <2>1. SUFFICES ASSUME NEW t \in Target, Damage(t) PROVE FALSE
    OBVIOUS
  <2>2. ~PackageCut
    BY <1>B, <1>K, <1>P, <1>T DEF PackageCut, PackageWritten
  <2>3. ~ControlCut
    BY <1>U, <1>T DEF ControlCut
  <2>. QED BY <2>1, <2>2, <2>3, <1>K, <1>T, <1>U, <1>W DEF Damage
<1>1. ASSUME ck' = ck PROVE FALSE
  BY <1>1
<1>2. ~(PackageClean \/ CleanDone \/ RmDist)
  BY <1>K, <1>T DEF PackageClean, CleanDone, RmDist
<1>3. ~(TestFlag \/ RmFlag \/ RootClean \/ StepDone \/ Reconfigure)
  BY <1>1 DEF TestFlag, RmFlag, RootClean, StepDone, Reconfigure, files
<1>4. ASSUME NEW t \in Target, Skip(t) \/ Begin(t) PROVE FALSE
  BY <1>1, <1>4, <1>K, <1>T DEF Skip, Begin, files
<1>5. ~EndDist
  BY <1>U, <1>T, TouchedFacts DEF EndDist
<1>6. ~EndChecksum
  <2>1. ASSUME NEW K \in SUBSET Target PROVE Touched(Without(ck, K), "checksum")["patch"] # "fresh"
    BY <1>K, <1>T, <2>1, WithoutFacts, TouchedOutdates
  <2>. QED BY <2>1, <1>T DEF EndChecksum
<1>7. ~EndExtract
  BY <1>U, <1>T DEF EndExtract
<1>8. ASSUME NEW p \in Product, EndProduct(p) PROVE FALSE
  <2>1. CASE p = "fake"
    <3>. DEFINE c == Touched(ck, "control")
    <3>1. c \in [Target -> State] /\ c["patch"] # "fresh"
      BY <1>U, <1>T, TouchedFacts
    <3>2. Touched(c, "fake")["patch"] # "fresh"
      BY <3>1, <1>T, TouchedOutdates
    <3>. QED BY <1>8, <2>1, <3>2 DEF EndProduct
  <2>2. CASE p = "ipkg"
    BY <1>8, <2>2, <1>B, <1>K, <1>P, <1>T DEF EndProduct, PackageWritten
  <2>3. CASE p \notin {"fake", "ipkg"}
    BY <1>8, <2>3, <1>U, <1>T DEF EndProduct
  <2>. QED BY <2>1, <2>2, <2>3
<1>9. ASSUME NEW t \in Target, Fail(t) PROVE FALSE
  BY <1>9, <1>D DEF Fail
<1>11. ~RmError
  BY <1>W DEF RmError
<1>12. ~Crash
  <2>1. ck' # Without(ck, WrkTarget \union {"ipkg"})
    BY <1>K, <1>T
  <2>. QED BY <2>1, <1>1, <1>D, <1>W DEF Crash, TypeOK, Typed
<1>13. ASSUME NEW g \in Goals, Start(g) PROVE FALSE
  BY <1>1, <1>13 DEF Start, files
<1>14. ~UNCHANGED vars
  BY <1>1 DEF vars
<1>. QED BY <1>2, <1>3, <1>4, <1>5, <1>6, <1>7, <1>8, <1>9, <1>11, <1>12, <1>13, <1>14
         DEF Next, Make, Clean, FlagClean

\* Patches are put on freshly unpacked sources only.
THEOREM PatchesOnce ==
    ASSUME Detected
    PROVE  Spec => PatchedOnce
<1>1. ASSUME IInv, [Next]_vars
      PROVE  [ck["patch"] # "fresh" /\ ck'["patch"] = "fresh" => tree = "pristine" \/ tainted \/ flag]_vars
  <2>1. SUFFICES ASSUME ck["patch"] # "fresh", ck'["patch"] = "fresh", ~tainted, ~flag
                 PROVE  tree = "pristine"
    OBVIOUS
  <2>2. EndPatch
    BY <1>1, <2>1, PreparedByPatch DEF IInv
  <2>3. "extract" \in checked
    BY <1>1, <2>2, DepsFacts DEF EndPatch, Ended, IInv, Standing
  <2>4. CoreFresh("extract")
    BY <1>1, <2>3, ConsideredFresh DEF IInv
  <2>. QED BY <1>1, <2>1, <2>2, <2>4 DEF EndPatch, IInv, Vouched, VouchedSources
<1>. QED BY <1>1, Inductive, PTL DEF Spec, PatchedOnce

\* A .rebuild file outlives every clean that does not reach its end.
THEOREM FlagsKept ==
    ASSUME Detected
    PROVE  Spec => FlagKept
<1>1. ASSUME IInv, [Next]_vars
      PROVE  [flag /\ ~flag' => /\ \A t \in Target \ {"dist"} : ck[t] = "absent"
                               /\ tree = "none" /\ ~stamp]_vars
  <2>1. CASE RmFlag
    BY <1>1, <2>1 DEF RmFlag, IInv, OnCourse
  <2>2. CASE ~RmFlag
    <3>1. flag => flag'
      BY <1>1, <2>2 DEF Next, Make, Start, PackageClean, TestFlag, Clean, FlagClean, CleanDone, RootClean,
           RmDist, StepDone, Skip, Begin, EndDist, EndChecksum, EndExtract, EndPatch,
           EndProduct, Fail, RmError, Crash, Reconfigure, vars, files
    <3>. QED BY <3>1
  <2>. QED BY <2>1, <2>2
<1>. QED BY <1>1, Inductive, PTL DEF Spec, FlagKept
=============================================================================
