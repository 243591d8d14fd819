------------------------------ MODULE Rebuild ------------------------------
(***************************************************************************)
(* From a change of .config to the packages that are built again: the      *)
(* sessions of menuconfig, how conf_write replaces .config, POSTCONFIG     *)
(* (mk/build.mk) with pkgrebuild, the .rebuild files, and the top-level    *)
(* make that consumes them and regenerates package/Depends.mk.  Any step   *)
(* may be the last of its process (Crash).                                 *)
(***************************************************************************)
EXTENDS StrMap, Depmaker

CONSTANTS Settings,     \* [option -> the values it can have, Absent for "not set"]
          Absent,
          NoFile,       \* the content of a file that does not exist
          Default,      \* the configuration conf --olddefconfig comes to
          Name,         \* [Pkg -> PKG_NAME in capitals, as a sequence of one part]
          Prefix,       \* [option -> the prefixes of POSTCONFIG that match its name]
          MaxEdits, MaxSaves, MaxCrashes

VARIABLES
    config, config_old, \* .config and .config.old
    firstrun,           \* .firstrun exists
    rebuild,            \* the packages p with a file .rebuild.p
    depends,            \* package/Depends.mk: text, or NoFile
    stale,              \* .config is newer than Depends.mk
    pc,                 \* what runs
    edit, changed,      \* mconf: the configuration in memory; conf_get_changed()
    pkgmap, configmap, configoldmap,    \* the maps of pkgrebuild
    todo,               \* what the running loop has ahead of it
    rb,                 \* rebuild=1 of POSTCONFIG
    built,              \* [Pkg -> the options the package was built with, or NoFile]
    compared,           \* the last complete POSTCONFIG has looked at the present .config
    lost,               \* a .config that no POSTCONFIG has looked at was replaced
    whole,              \* depmaker has come to its end
    edits, saves, crashes

files == <<config, config_old, firstrun, rebuild, depends, stale>>
maps == <<pkgmap, configmap, configoldmap>>
ghosts == <<built, compared, lost, whole>>
bounds == <<edits, saves, crashes>>
vars == <<files, maps, ghosts, bounds, pc, edit, changed, todo, rb>>

Option == DOMAIN Settings
Text == [Option -> Value \cup {Absent}]
IsConf(c) == c \in Text /\ \A o \in Option : c[o] \in Settings[o]
Enabled(c) == {o \in Option : c[o] # Absent}

ASSUME RebuildAssumption ==
    /\ IsFiniteSet(Option) /\ Option \subseteq Key /\ Pkg \subseteq Value
    /\ Absent \notin Value /\ NoFile \notin Text
    /\ \A o \in Option : Settings[o] \subseteq Value \cup {Absent}
    /\ IsConf(Default)
    \* A name begins with at most one of the two prefixes compared with each other.
    /\ \A o \in Option : ~({"ADK_RUNTIME_INIT_", "ADK_RUNTIME_BASE_"} \subseteq Prefix[o])
    /\ MaxEdits \in Nat /\ MaxSaves \in Nat /\ MaxCrashes \in Nat

\* grep ^prefix file, as the lines it prints; nothing for a missing file.
Grep(prefix, c) ==
    IF c = NoFile THEN {}
    ELSE {<<o, c[o]>> : o \in {x \in Enabled(c) : prefix \in Prefix[x]}}

-----------------------------------------------------------------------------
(* pkgrebuild: the keys of its maps.                                       *)

\* The keys main() makes of a line of the Makefile of p.
LineKeys(p, l) ==
    LET keys(base) == [i \in DOMAIN l.words |-> Package(base \o <<l.words[i]>>)]
    IN  CASE l.var = "SUBPKGS" -> keys(<< >>)
          [] l.var \in {"FLAVOURS", "FLAVOURS+"} -> keys(l.sub)
          [] l.var = "CHOICES" -> keys(Name[p])
          [] l.var = "FLAVOURS_STRING" -> keys(StringOf(l.sub))
          [] OTHER -> << >>

\* The pairs main() puts into pkgmap for the Makefile of p, in their order.
PkgKeys == [p \in Pkg |->
    LET pairs(keys) == [i \in DOMAIN keys |-> [key |-> keys[i], value |-> p]]
    IN  FlattenSeq([n \in DOMAIN Makefile[p] |-> pairs(LineKeys(p, Makefile[p][n]))])]

\* Key has the keys of all Makefiles.
ASSUME KeyAssumption ==
    /\ Name \in [Pkg -> Seq(STRING)]
    /\ \A p \in Pkg : \A i \in DOMAIN PkgKeys[p] : PkgKeys[p][i].key \in Key

\* All packages, in the order readdir() happens to give them.
PkgPairs == FlattenSeq([i \in 1 .. Cardinality(Pkg) |-> PkgKeys[SetToSeq(Pkg)[i]]])

\* The lines of a configuration that begin with ADK_PACKAGE.
ConfPairs(c) ==
    LET keys == SetToSeq({o \in Enabled(c) : o[1] = "PACKAGE"})
    IN  [i \in DOMAIN keys |-> [key |-> keys[i], value |-> c[keys[i]]]]

\* The part of a configuration that the tools promise to follow for p: which of the
\* options pkgrebuild knows of p are set, and the BUSYBOX lines with their values.
Followed(p, c) ==
    <<{o \in Enabled(c) : \E i \in DOMAIN PkgKeys[p] : PkgKeys[p][i].key = o},
      IF p = "busybox" THEN Grep("BUSYBOX", c) ELSE {}>>

\* iter_disabled and iter_enabled touch the file of a key's package when the map of
\* the other configuration does not have the key.
Touches(other, key) == ~strmap_exists(other, key) /\ strmap_exists(pkgmap, key)

-----------------------------------------------------------------------------
(* POSTCONFIG: the comparisons of its shell part, in order.                *)

Check(new, old, touch) == [new |-> new, old |-> old, touch |-> touch]
Same(prefix, touch) == Check(prefix, prefix, touch)
PostChecks ==
    << Same("BUSYBOX", {"busybox"}),
       Same("ADK_SIMPLE_NETWORK_CONFIG", {"base-files"}),
       Same("ADK_RUNTIME_", {"base-files"}),
       Same("ADK_TARGET_ROOTFS", {"base-files"}),
       Same("ADK_TARGET_GPU_MEM", {"bcm28xx-bootloader"}),
       Same("ADK_LINUX_KERNEL_SND_BCM2708", {"bcm28xx-bootloader"}),
       Same("ADK_RUNTIME_TIMEZONE", {"musl", "uclibc-ng", "glibc"}),
       Same("ADK_RUNTIME_SSH_PUBKEY", {"dropbear", "openssh"}),
       \* These five only advise "make cleansystem".
       Same("ADK_TOOLCHAIN_WITH", {}),
       Same("ADK_TARGET_KERNEL_VERSION", {}),
       Check("ADK_RUNTIME_INIT_", "ADK_RUNTIME_BASE_", {}),
       Same("ADK_RUNTIME_BASE_", {}),
       Same("ADK_TARGET_USE", {}) >>

-----------------------------------------------------------------------------
(* A menuconfig session.                                                   *)

EmptyMaps == pkgmap' = strmap_new /\ configmap' = strmap_new /\ configoldmap' = strmap_new

\* prereq.sh leaves .firstrun when there is no .config, and the recipe of menuconfig
\* has conf write one; then mconf reads it.
Menuconfig ==
    /\ pc = "idle"
    /\ IF config = NoFile
       THEN config' = Default /\ firstrun' = TRUE /\ stale' = TRUE
       ELSE UNCHANGED <<config, firstrun, stale>>
    /\ edit' = config'
    /\ changed' = FALSE
    /\ pc' = "mconf"
    /\ UNCHANGED <<config_old, rebuild, depends, maps, ghosts, bounds, todo, rb>>

\* The user changes an option.
SetOption(o, v) ==
    /\ pc = "mconf" /\ edits < MaxEdits
    /\ v # edit[o]
    /\ edit' = [edit EXCEPT ![o] = v]
    /\ changed' = TRUE
    /\ edits' = edits + 1
    /\ UNCHANGED <<files, maps, ghosts, saves, crashes, pc, todo, rb>>

\* conf_write(): the new content is complete in a temporary file; .config is renamed
\* to .config.old.  conf_save() writes whether or not anything changed.
SaveOld ==
    /\ pc = "mconf" /\ saves < MaxSaves
    /\ config_old' = config
    /\ config' = NoFile
    /\ lost' = (lost \/ ~compared)
    /\ compared' = FALSE
    /\ saves' = saves + 1
    /\ pc' = "renamed"
    /\ UNCHANGED <<firstrun, rebuild, depends, stale, maps, built, whole, edits, crashes,
                   edit, changed, todo, rb>>

\* The temporary file becomes .config.
SaveNew ==
    /\ pc = "renamed"
    /\ config' = edit
    /\ stale' = TRUE
    /\ changed' = FALSE
    /\ pc' = "mconf"
    /\ UNCHANGED <<config_old, firstrun, rebuild, depends, maps, ghosts, bounds, edit, todo, rb>>

\* handle_exit(): nothing to save, or the user does not want to; POSTCONFIG follows.
Exit ==
    /\ pc = "mconf"
    /\ changed' = FALSE /\ edit' = Default
    /\ IF firstrun
       THEN /\ pc' = "idle"
            /\ firstrun' = FALSE
            /\ compared' = (compared \/ \A p \in Pkg : built[p] = NoFile)
            /\ UNCHANGED todo
       ELSE /\ pc' = "pkgmap"
            /\ todo' = PkgPairs
            /\ UNCHANGED <<firstrun, compared>>
    /\ UNCHANGED <<config, config_old, rebuild, depends, stale, maps, built, lost, whole,
                   bounds, rb>>

-----------------------------------------------------------------------------
(* POSTCONFIG.                                                             *)

PostUnchanged == UNCHANGED <<config, config_old, firstrun, depends, stale, ghosts, bounds,
                             edit, changed>>

\* One strmap_put of main().
PutPkg ==
    /\ pc = "pkgmap" /\ todo # << >>
    /\ pkgmap' = Put(pkgmap, Head(todo).key, Head(todo).value)
    /\ todo' = Tail(todo)
    /\ PostUnchanged /\ UNCHANGED <<rebuild, configmap, configoldmap, pc, rb>>

\* The lines of .config and .config.old go into their maps.  Without a .config.old
\* pkgrebuild gives up, and the shell goes on.
Load(c) ==
    LET lines == ConfPairs(c)
        upto[i \in 0 .. Len(lines)] ==
            IF i = 0 THEN strmap_new ELSE Put(upto[i - 1], lines[i].key, lines[i].value)
    IN  upto[Len(lines)]
ReadConfigs ==
    /\ pc = "pkgmap" /\ todo = << >>
    /\ configmap' = Load(config)
    /\ IF config_old = NoFile
       THEN pc' = "shell" /\ todo' = PostChecks /\ UNCHANGED configoldmap
       ELSE /\ configoldmap' = Load(config_old)
            /\ pc' = "disabled" /\ todo' = strmap_enum(configoldmap')
    /\ PostUnchanged /\ UNCHANGED <<rebuild, pkgmap, rb>>

\* strmap_enum(configoldmap, iter_disabled): the next key for which the callback
\* touches a file.
iter_disabled ==
    /\ pc = "disabled"
    /\ \E i \in DOMAIN todo :
        /\ Touches(configmap, todo[i].key)
        /\ \A j \in 1 .. i - 1 : ~Touches(configmap, todo[j].key)
        /\ rebuild' = rebuild \cup {strmap_get(pkgmap, todo[i].key)}
        /\ todo' = SubSeq(todo, i + 1, Len(todo))
    /\ PostUnchanged /\ UNCHANGED <<maps, pc, rb>>

\* The old configuration is enumerated a second time.
EnumOldTwice ==
    /\ pc = "disabled" /\ \A i \in DOMAIN todo : ~Touches(configmap, todo[i].key)
    /\ pc' = "enabled"
    /\ todo' = strmap_enum(configoldmap)
    /\ PostUnchanged /\ UNCHANGED <<rebuild, maps, rb>>

\* The enumeration has come to its end, that of the new configuration follows.
EnumConfig ==
    /\ pc = "disabled" /\ \A i \in DOMAIN todo : ~Touches(configmap, todo[i].key)
    /\ pc' = "enabled"
    /\ todo' = strmap_enum(configmap)
    /\ PostUnchanged /\ UNCHANGED <<rebuild, maps, rb>>

iter_enabled ==
    /\ pc = "enabled"
    /\ \E i \in DOMAIN todo :
        /\ Touches(configoldmap, todo[i].key)
        /\ \A j \in 1 .. i - 1 : ~Touches(configoldmap, todo[j].key)
        /\ rebuild' = rebuild \cup {strmap_get(pkgmap, todo[i].key)}
        /\ todo' = SubSeq(todo, i + 1, Len(todo))
    /\ PostUnchanged /\ UNCHANGED <<maps, pc, rb>>

\* pkgrebuild ends; the shell starts with rebuild=0.
PkgrebuildDone ==
    /\ pc = "enabled" /\ \A i \in DOMAIN todo : ~Touches(configoldmap, todo[i].key)
    /\ pc' = "shell"
    /\ todo' = PostChecks
    /\ EmptyMaps
    /\ PostUnchanged /\ UNCHANGED <<rebuild, rb>>

\* The next comparison of the shell part that finds a difference; the ones before it
\* do nothing.
Differs(c) == Grep(c.new, config) # Grep(c.old, config_old)
ShellCheck ==
    /\ pc = "shell"
    /\ \E i \in DOMAIN todo :
        /\ Differs(todo[i]) /\ \A j \in 1 .. i - 1 : ~Differs(todo[j])
        /\ rebuild' = rebuild \cup todo[i].touch
        /\ todo' = SubSeq(todo, i + 1, Len(todo))
    /\ rb' = TRUE
    /\ PostUnchanged /\ UNCHANGED <<maps, pc>>

\* The copy is forgotten.
PostDoneNoCopy ==
    /\ pc = "shell" /\ \A i \in DOMAIN todo : ~Differs(todo[i])
    /\ compared' = TRUE
    /\ pc' = "idle" /\ todo' = << >> /\ rb' = FALSE
    /\ EmptyMaps
    /\ UNCHANGED <<config, config_old, firstrun, rebuild, depends, stale, built, lost, whole,
                   bounds, edit, changed>>

\* cp .config .config.old, if a comparison of the shell part differed.
PostDone ==
    /\ pc = "shell" /\ \A i \in DOMAIN todo : ~Differs(todo[i])
    /\ config_old' = IF rb THEN config ELSE config_old
    /\ compared' = TRUE
    /\ pc' = "idle" /\ todo' = << >> /\ rb' = FALSE
    /\ EmptyMaps
    /\ UNCHANGED <<config, firstrun, rebuild, depends, stale, built, lost, whole, bounds,
                   edit, changed>>

-----------------------------------------------------------------------------
(* The top-level make.                                                     *)

\* Depends.mk is made first when it is missing or older than .config: the shell opens
\* it, and depmaker writes.
DependsOpen ==
    /\ pc = "idle" /\ config # NoFile
    /\ depends = NoFile \/ stale
    /\ depends' = NoRules
    /\ stale' = FALSE
    /\ whole' = FALSE
    /\ pc' = "depmaker"
    /\ UNCHANGED <<config, config_old, firstrun, rebuild, maps, built, compared, lost, bounds,
                   edit, changed, todo, rb>>

DependsWritten ==
    /\ pc = "depmaker"
    /\ depends' = Depends(Enabled(config))
    /\ whole' = TRUE
    /\ pc' = "idle"
    /\ UNCHANGED <<config, config_old, firstrun, rebuild, stale, maps, built, compared, lost,
                   bounds, edit, changed, todo, rb>>

\* %-compile of a package all of whose prerequisites are there.  A package with a
\* .rebuild file is cleaned.
Ready(p) ==
    /\ pc = "idle" /\ config # NoFile /\ depends # NoFile /\ ~stale
    /\ \A d \in Pkg \cap Prerequisites(depends[p].deps) : built[d] # NoFile /\ d \notin rebuild

CompileClean(p) ==
    /\ Ready(p) /\ p \in rebuild
    /\ built' = [built EXCEPT ![p] = NoFile]
    /\ pc' = "rmflag" /\ todo' = <<p>>
    /\ UNCHANGED <<files, maps, compared, lost, whole, bounds, edit, changed, rb>>

CompileUnflag ==
    /\ pc = "rmflag"
    /\ rebuild' = rebuild \ {Head(todo)}
    /\ pc' = "idle" /\ todo' = << >>
    /\ UNCHANGED <<config, config_old, firstrun, depends, stale, maps, ghosts, bounds,
                   edit, changed, rb>>

\* The build itself (WorkDir): nothing to do when the package's cookies are there.
Compile(p) ==
    /\ Ready(p) /\ p \notin rebuild /\ built[p] = NoFile
    /\ built' = [built EXCEPT ![p] = Followed(p, config)]
    /\ UNCHANGED <<files, maps, compared, lost, whole, bounds, pc, edit, changed, todo, rb>>

\* make cleansystem removes what was built, the .rebuild files and Depends.mk.
Cleansystem ==
    /\ pc = "idle" /\ config # NoFile
    /\ built' = [p \in Pkg |-> NoFile]
    /\ rebuild' = {}
    /\ depends' = NoFile
    /\ lost' = FALSE
    /\ UNCHANGED <<config, config_old, firstrun, stale, maps, compared, whole, bounds, pc, edit,
                   changed, todo, rb>>

\* The process is killed.  A Depends.mk that is being written stays, unless make is
\* there to remove it; a .config.old that is being copied loses lines.
Crash ==
    /\ pc # "idle" /\ crashes < MaxCrashes
    /\ crashes' = crashes + 1
    /\ IF pc = "depmaker" THEN depends' \in {depends, NoFile} ELSE UNCHANGED depends
    /\ \/ UNCHANGED config_old
       \/ /\ pc = "shell" /\ (\A i \in DOMAIN todo : ~Differs(todo[i])) /\ rb
          /\ config_old' = [o \in Option |-> Absent]
    /\ EmptyMaps
    /\ changed' = FALSE /\ edit' = Default /\ rb' = FALSE
    /\ pc' = "idle" /\ todo' = << >>
    /\ UNCHANGED <<config, firstrun, rebuild, stale, ghosts, edits, saves>>

-----------------------------------------------------------------------------

Init ==
    /\ config = NoFile /\ config_old = NoFile
    /\ firstrun = FALSE /\ rebuild = {}
    /\ depends = NoFile /\ stale = TRUE
    /\ pc = "idle"
    /\ edit = Default /\ changed = FALSE
    /\ pkgmap = strmap_new /\ configmap = strmap_new /\ configoldmap = strmap_new
    /\ todo = << >> /\ rb = FALSE
    /\ built = [p \in Pkg |-> NoFile]
    /\ compared = FALSE /\ lost = FALSE /\ whole = FALSE
    /\ edits = 0 /\ saves = 0 /\ crashes = 0

Next ==
    \/ Menuconfig \/ SaveOld \/ SaveNew \/ Exit
    \/ \E o \in Option : \E v \in Settings[o] : SetOption(o, v)
    \/ PutPkg \/ ReadConfigs \/ iter_disabled \/ EnumConfig \/ iter_enabled
    \/ PkgrebuildDone \/ ShellCheck \/ PostDone
    \/ DependsOpen \/ DependsWritten
    \/ \E p \in Pkg : CompileClean(p) \/ Compile(p)
    \/ CompileUnflag \/ Cleansystem \/ Crash

Spec == Init /\ [][Next]_vars

-----------------------------------------------------------------------------

Phase == {"idle", "mconf", "renamed", "pkgmap", "disabled", "enabled",
          "shell", "depmaker", "rmflag"}

TypeOK ==
    /\ config = NoFile \/ IsConf(config)
    /\ config_old = NoFile \/ config_old \in Text
    /\ IsConf(edit) /\ {firstrun, stale, changed, rb, compared, lost, whole} \subseteq BOOLEAN
    /\ pc \in Phase
    /\ rebuild \subseteq Pkg \cup UNION {PostChecks[i].touch : i \in DOMAIN PostChecks}
    /\ {pkgmap, configmap, configoldmap} \subseteq [Slot -> Seq(Pair)]
    /\ DOMAIN built = Pkg
    /\ edits \in 0 .. MaxEdits /\ saves \in 0 .. MaxSaves /\ crashes \in 0 .. MaxCrashes

\* After a complete POSTCONFIG every package that make takes to be built, and that
\* has no .rebuild file, was built from the options .config has now, however the
\* sessions, crashes and builds before it came one after another, as long as no
\* .config was replaced before POSTCONFIG had compared it (lost).
BuildsCurrent ==
    pc = "idle" /\ config # NoFile /\ compared /\ ~lost =>
        \A p \in Pkg : built[p] # NoFile /\ p \notin rebuild =>
            built[p] = Followed(p, config)

\* A complete POSTCONFIG leaves nothing behind for the next one to flag again: a
\* session that saves nothing has no package rebuilt.  It rests on the comparison of
\* ADK_RUNTIME_INIT_ with ADK_RUNTIME_BASE_ lines, which always differ when an init
\* system is chosen.
FlaggedOnce ==
    [][PostDone /\ Grep("ADK_RUNTIME_INIT_", config) # {} =>
        config_old' # NoFile /\ \A p \in Pkg : Followed(p, config_old') = Followed(p, config')]_vars

\* Depends.mk has exactly the prerequisites the options of .config call for, unless
\* depmaker was cut short.
DependsFaithful ==
    depends # NoFile /\ ~stale /\ whole /\ config # NoFile =>
        Faithful(depends, Enabled(config))

\* No two Makefiles have a key of pkgmap in common; strmap_put would keep the package
\* that comes last.
KeyOf(p, k) == \E i \in DOMAIN PkgKeys[p] : PkgKeys[p][i].key = k
Separate == \A p, q \in Pkg : \A k \in Key : KeyOf(p, k) /\ KeyOf(q, k) => p = q

\* The map pkgrebuild fills from the Makefiles implements the association of strmap.h.
P == INSTANCE StrMapSpec
         WITH map <- pkgmap, Value <- Pkg, Key <- {k \in Key : k[1] = "PACKAGE"}
PkgMapImplements == P!Implements
=============================================================================
