# OpenADK in TLA+

OpenADK turns a configuration into a root file system: it downloads sources,
verifies, unpacks and patches them, builds a toolchain and packages, stages what
they install into a sysroot, writes package files and installs these into an
image. Nearly all of its own logic is in `mk/*.mk`, `scripts/` and `adk/`; the
several hundred directories below `package/` are data for that logic.

What makes the program hard is not any single recipe but its state, which lies in
files: cookies, stamps, flags, manifests, half-written archives. An invocation of
make may fail or die anywhere, and the next one decides from modification times
what to trust. The modules here are about that state.

## The components

| Component | State it keeps | Operations | Talks to |
|---|---|---|---|
| Fetching (`mk/fetch.mk`) | distfiles, `.nohash` files, a clone, in `DL_DIR`; `.checksum_done` | fetch, refetch, checksum | other trees, through a shared `DL_DIR`; the cookie chain |
| Cookie chain (`mk/buildhlp.mk`, `mk/pkg-bottom.mk`, `mk/package.mk`) | `WRKDIR` with its cookies, package files, the stamp `_IPKGS_COOKIE` | extract, patch, configure, build, fake, package, install, clean | fetching, staging, the package file writers |
| Top-level driver (`mk/build.mk`, `package/Makefile`) | `.rebuild.<pkg>`, `Depends.mk`, `.firstrun`, `.config.old` | world, clean, cleandir, POSTCONFIG | the cookie chain of every package |
| Staging (`mk/pkg-bottom.mk`, `mk/package.mk`) | the sysroot, manifests in `STAGING_PKG_DIR` | stage, unstage, clean | every package built later |
| Package file writers (`scripts/ipkg-build`, `scripts/tarpkg`) | package files, `IDIR/CONTROL` | build, (txz) install | the cookie chain |
| Package manager (`scripts/ipkg`) | status file, file lists, lists of feeds | update, install, remove, configure | maintainer scripts, the image |
| Rebuild detection (POSTCONFIG, `adk/tools/pkgrebuild.c`) | `.config`, `.config.old`, `.rebuild.*` | compare after each configuration | the driver, which reads the flags |
| Configuration language (`adk/config`) | symbols, expressions, menus, `.config` | calculate, set, read, write | rebuild detection, every makefile |
| Generators (`adk/tools`) | none between runs | depmaker, pkgmaker, sortfile, StrMap | the driver (`Depends.mk`), the menus |
| Host packages (`mk/host.mk`, `mk/host-bottom.mk`) | as the cookie chain, on the build host | hostpackage | the packages that need them |
| Prerequisites, toolchain, images | nothing that outlives a run, or only the cookies above | | |

Hard behaviours: an invocation that dies between any two commands, or inside an
`rm -rf`, a download, an unstaging loop; recipes that fail and are retried on what
they left; statuses that a later command hides; trees that share a download
directory without a lock; a configuration that changes under a built tree; a
`.rebuild` request that must survive until it has been carried out; manifests that
outlive the version they were written for, and subpackages that it no longer has; configuration values that are calculated
on demand and trusted afterwards; two files that are compared once and replaced by
every save; questions that answers make come back; expressions rewritten in place.
`PROJECT.json` lists each at its line.

What makes the components correct:

- *Cookie chain and driver.* Whatever make takes to be up to date is complete and
  made from complete input under the current options; a `make world` that ends
  well delivers; patches are applied once; no request to rebuild is lost; no state
  of the files is a trap.
- *Fetching.* A checksum cookie stands for the published content; no partial file
  is a trap.
- *Staging.* The sysroot holds what the current version installs, and nothing that
  an earlier one left; clean takes it all away.
- *Rebuild detection.* Every change of an option that a package depends on leaves
  its flag, once and not forever.
- *Package manager.* Dependencies come before dependents; an interrupted install
  is repeated or undone; the status file agrees with the image.
- *Configuration.* What is written to `.config` is what a calculation from the start
  gives and reads back as the same values, also through a defconfig file; what the
  programs accept takes effect; a choice has one value; `conf --oldconfig` ends for a user
  whose answers are accepted; the
  rewriting of dependencies changes no answer and hides no entry.
- *Generators.* `Depends.mk` has exactly the prerequisites the Makefiles call for; the
  string map keeps the last value of each key.

## The modules

### WorkDir: one package from distfile to image

`WorkDir.tla` is the chain

    distfile -> .checksum_done -> .extract_done -> .prepared -> .configure_done
             -> .build_done -> .fake_done -> package file -> image

of one package, with the control file beside it, driven by the goals `world`,
`patch`, `fake`, `package`, `clean` and `refetch`.

| In the model | In the code |
|---|---|
| `ck[t]` absent, stale, fresh | what GNU make derives from the times of a target and its prerequisites |
| `dist`, `tree`, `made` | what the distfile, `WRKDIST` and the products really contain |
| `stamp`, `flag`, `info` | `_IPKGS_COOKIE`, `.rebuild.<pkg>`, the package in `TARGET_DIR` |
| `goal`, `pc`, `checked`, `run` | the invocation: its goal, the sub-make it is at, what that make has considered, the recipe that runs |
| `Skip`, `Begin`, `End...` | make passes over a target; a recipe starts, ends well |
| `PackageClean` ... `StepDone` | the steps of `world`, `%-compile`, `%-install` (`mk/build.mk`, `package/Makefile`) |
| `Damage`, `Fail`, `Crash` | what a recipe leaves that fails or is killed in the middle; an invocation that dies there, in a clean, in `PKG_INSTALL`, or between two of them |
| `RmError` | the flagged `clean` failing unnoticed |
| `Reconfigure` | the user changes options of the package, POSTCONFIG leaves `.rebuild.<pkg>` |

Content (`dist`, `tree`, `made`) is kept beside the cookies, and the properties
relate the two: the cookies are what the code knows, the content is what is true.
A `rm -rf` that dies is `Residue`: any subset of the cookies survives; the one of the
checksum recipe leaves the same when it merely fails, since make ignores its status
(`EndChecksum`).
`tainted` is history: `make clean` asked for by hand has died and has not been
repeated (the checksum recipe, which removes the work directory, also ends it).
Such a clean leaves an arbitrary subset of files and nothing on disk says so;
the properties are stated for users who repeat it.

`torn` is history, too. Two files are written in place under their final name, and nothing
in `mk/` removes them when their recipe dies (there is no `.DELETE_ON_ERROR`): the package
file, by the tar of `ipkg-build` or `tarpkg`, and the control file, line by line. Cut short
they are newer than all they were made from (`PackageCut`, `ControlCut`). `torn` names those
of the two that are in this state, or made from one that is, until they are written again.

### Fetch: the download directory

`Fetch.tla` has one `make` per tree of `Tree`, all on one `DL_DIR`. Every command
that reads or writes a distfile is a step of its own: another tree's steps come in
between. `dl` is the content of the distfiles, `writer` the tree whose open file a
distfile still is, `newer` which distfiles are newer than which checksum cookies,
`sums` the variables of the checksum loop, `got` the status of the extraction loop.
The branch of git is `Backup` (the backup site, whose download can be right, wrong or
broken off), the clone, `Pack` and `Packed`: the archive is packed in place, then `.nohash` is
written and the clone removed, and the recipe may die between any two of them.
`MCFetch.tla` adds the symmetry of the trees. What `curl`, `git` and `tar` do is
modelled from how `mk/fetch.mk` uses them; `curl` is the tool that
`scripts/prereq.sh` prefers.

### Staging: the sysroot and its manifests

`Staging.tla` has one package over several versions. `sysroot` is a set of places,
`usr/<path>` and `scripts/<name>`; `man` and `sman[i]` are the manifests of the package
and of its subpackages, `scr` the list of config scripts. The actions follow the
commands of the fake recipe and of the package file recipe in their order.

Each version has its own subpackages (`Declared`), work directory, `.fake_done`, package
files and filled subpackage directories (`fakedone`, `ipks`, `idirs`). `ChangeVersion` goes to
any other version, also back to one whose `.fake_done` and package files still exist, and then
nothing is staged again. `Start` takes the subpackages of this invocation (`want`), any
selection of those the version has: what is deselected or no longer exists is not unstaged.
A subpackage that was not selected when fake ran has an empty directory (`Share`).

| In the model | In the code |
|---|---|
| `StageConfig`, `Unstage`, `Stage`, `StageScripts` | the fake recipe: spkg-install and config scripts, the old manifest, `find \| tee \| cpio`, programs that are scripts |
| `SkipSub`, `UnstageSub`, `StageSub` | a package file that is up to date; the two halves of its recipe |
| `CleanSub`, `CleanGeneric`, `RmWrkDir` | `clean-dev-<subpackage>`, `clean-dev-generic`, `rm -rf` |
| `TopClean`, `package_clean` | `make clean` of the tree; the beginning of `make world` |
| `CrashIn...` | one action per place: a loop over files cut short before its manifest goes; find, tee and cpio, which run side by side, killed with any part listed and any part copied; a part of the directories and the cookie removed |

`owner`, `ran` and `orphans` are history: the version that alone has dealt with the sysroot
since it touched its `.fake_done`; how each package file's recipe has run since (`well`, or
`amiss`: out of turn, or dead in the middle); what a build that died had copied and not listed.
`MCStaging.tla` gives it a package of two versions: a header that only fake stages, a
service file that only the first subpackage stages, a config script and the first
subpackage in the first version only, and a tool that moves from the first
subpackage to the second.

### Rebuild: from a change of `.config` to the packages built again

`Rebuild.tla` composes the sessions of `menuconfig`, the two renames of `conf_write`,
POSTCONFIG with `pkgrebuild` and its shell part, the `.rebuild` files, `Depends.mk`
and the builds. It extends `StrMap.tla` (the hash table of `adk/tools/strmap.c`, as
operators on the array of buckets) and `Depmaker.tla` (`adk/tools/depmaker.c`, a recursion
over the packages and over the lines of each Makefile; what `fpkg` and `cpkg` hold goes on
from one Makefile to the next, as in `main`). Of WorkDir it keeps the options a package was
built with.

| In the model | In the code |
|---|---|
| `config`, `config_old`, `firstrun`, `rebuild` | `.config`, `.config.old`, `.firstrun`, the `.rebuild.*` files |
| `depends`, `stale` | the text of `package/Depends.mk`; whether `.config` is newer |
| `edit`, `changed` | the configuration in mconf's memory |
| `pkgmap`, `configmap`, `configoldmap`, `todo` | the maps of `pkgrebuild`; what is ahead of the running loop |
| `SaveOld`, `SaveNew` | the renames to `.config.old` and to `.config` |
| `PutPkg`, `ReadConfigs`, `iter_disabled`, `EnumConfig`, `iter_enabled` | `main` of `pkgrebuild` and its callbacks, one `.rebuild` file a step |
| `ShellCheck`, `PostDone` | the comparisons by md5sum, and `cp .config .config.old` |
| `DependsOpen`, `DependsWritten` | the redirection, then depmaker's output |
| `CompileClean`, `CompileUnflag`, `Compile`, `Cleansystem` | `%-compile`, `cleansystem` |
| `Crash` | the running process is killed, in any of these steps |

`built`, `compared`, `lost` and `whole` are history. Options are sequences of name
parts, so that the keys pkgrebuild and depmaker put together from parts are modelled
as they put them together: the key of a string flavour matches no option, a flavour's
dependency uses the package of the last `PKG_FLAVOURS_` line with `:=`. A line with `+=`
declares flavours for make and for pkgrebuild and is nothing to depmaker. The hash of every key
is 5381, because `hash()` compares where it should assign: the buckets are one list.

`RebuildAssumption`, `MakefileAssumption` and `KeyAssumption` say what the constants are:
finitely many options and packages, Makefiles made of the lines above, settings that are
values or absent, a `Key` that has all options and all keys of the Makefiles, and no option
that begins with both `ADK_RUNTIME_INIT_` and `ADK_RUNTIME_BASE_`.

`StrMapSpec.tla` is one map as a state machine, `Assoc.tla` the promise of `strmap.h`:
a function from keys to values. The refinement mapping is `Associations`, the value
`strmap_get` returns for each key that `strmap_exists` knows.

### Tree, Expr and Finalize: dependency expressions

`Tree.tla` has the symbols and the constructors of expressions over them, `Expr.tla` the
rest of `adk/config/expr.c`: the value of an expression and the functions that
rewrite one. Trees are records, pointers into trees are paths; the functions that
walk two trees by two pointers and change both in place are folds over pairs of
paths in the order of the recursion, including the ones that go on where a `return`
is missing. `Finalize.tla` takes one entry through `menu_finalize`: `Transform`,
`Conjoin` with the parent's condition, `TransBool` for symbols that are no tristates,
and `Place`, which decides whether it becomes part of the submenu of the entry before
it. The properties quantify over all values the symbols can have.

### Kconfig: symbols, `.config`, mconf and conf

`Kconfig.tla` has the symbol table (`symbol.c`) as a record: user values, calculated
values, and the flags `SYMBOL_VALID` and `SYMBOL_WRITE` that make the calculation lazy.
Reading, calculating, setting and writing are operators from table to table that keep
the names of the C functions. The actions are what a user does: keys, dialogs, save,
load and quit in mconf; `oldconfig` with its questions; `olddefconfig`, `defconfig`,
`savedefconfig` and the all...config modes of conf. `files` are `.config` and one other
file.

`conf --oldconfig` has two loops over the menu. `check_conf` looks for an entry that is new,
from `at` on; when it finds one, `conf` goes over the whole menu, from `visit` on, and
stops at every new entry and at every choice that is y, new or not (`Stops`). A choice that is not new
is set anew with the member it has. An entry is asked for until an answer is accepted; a choice
takes one answer, and whether `sym_set_choice_value` accepted it is not looked at (`Answer`,
`Takable`). `ReturnFromConf` goes back to `check_conf`, and `PassAgain` begins again from the top when the last
pass has asked something. `conf_choice` looks for ever for a member to take when the
one the choice has is hidden and several others are shown (`Hangs`); TLC finds no such
state on the menu of the run.

`sym_check_deps` refuses recursive menus, so calculating on demand is calculating
along `Order`, in which a symbol comes after those its conditions mention. The menus and the
value of a condition, `calc_value`, are constants; `MCKconfig` makes it
`expr_calc_value` of Expr. The assumptions on them are listed with the proofs.
`stale`, `uncounted` and `own` are history. `MCKconfig.tla` is a menu with one entry of each
kind, wired so that they interact: a value of the choice, which an option selects, selects an
entry below a tristate that is itself selected with the value m, and an option follows from a
number.

## The runs

| Run | Properties | Instance | Shows |
|---|---|---|---|
| WorkDirIpkg | TypeOK, CookiesSound, WorldSound, PackageSound, PatchedOnce, FlagKept | ipkg, two faults of crash, error, download; one reconfiguration | no history of failures leaves a cookie, flag or stamp that lies, but for the two files written in place |
| WorkDirLive | EventuallyBuilt | txz, one fault of crash, download, silent, rmerror; one reconfiguration | no state of the files is a trap, even after faults nobody notices |
| WorkDirSilent | PatchSound (violated) | one silent patch failure | `patch.sh` tests the wrong status |
| WorkDirTruncate | PackageComplete (violated) | ipkg, one crash | killed in the last command of `ipkg-build`, make package leaves a truncated file that the next one takes for up to date |
| FetchShared | TypeOK, AcceptedVerified | two trees, two distfiles, one site, two faults | whatever the trees do to each other's files, none accepts content it has not verified |
| FetchAlone | CookieVouches, ExtractedGood, EventuallyExtracted | one tree, http and git, two distfiles, two sites, four faults of all kinds | cookies vouch for published content; refetch and extract get out of every state |
| FetchTrailing | AcceptedComplete (violated) | one tree, two distfiles, two sites, two site failures | a file missing at the end of the list is not noticed |
| Staging | TypeOK, Restored, NothingStale | two subpackages, two versions, two changes of the version, every selection at every build, two crashes | the sysroot follows the present version and selection |
| Rebuild | TypeOK, BuildsCurrent, DependsFaithful, FlaggedOnce, PkgMapImplements | two packages, eight options, two edits, two saves, one crash | every noticed change is followed by a rebuild, once; `Depends.mk` and the string map do what they promise |
| Finalize | TypeOK, AnswersKept, VisibilityKept, NormalForm, SubmenuShown | some 1580 dependencies over a tristate, a boolean and the modules symbol, seven parents, six prompts | rewriting is sound |
| Kconfig | TypeOK, Reloads, DefconfigReloads, OneChosen, EntryTakesEffect, SavedCurrent, QuitKeeps, OldconfigEnds | thirteen symbols, seven files to start from, four steps | the lazily calculated configuration is the configuration |
| KconfigRefused | UntilNoMoreChanges (violated) | the same menu, one file, one step | an answer that is refused brings its question back for ever |

*Why the bounds are enough.* In WorkDir a fault can do its damage, and a second one
can strike the recovery from the first; a reconfiguration between them makes what
is there outdated. More faults repeat the pattern, and for these properties the
theorems below remove the bound. In Fetch two files are what the pairing of sums with
hashes needs to go wrong, two sites what a partial file followed by a retry needs,
two trees what every interference needs. Two versions and two changes in Staging let
the Makefile go forth and back, with another selection at each build, a file move to a
subpackage that comes later and back, and a subpackage go and return; two crashes let one
strike the repair of the other. In Rebuild two edits and two saves are what it takes to switch an option and
back across POSTCONFIG, with a build between them, and a crash can strike either; four
buckets of the string map stand for 1024, since one is used. The trees of Finalize go
to depth three, where chains meet chains of the other operator, and pair every
comparison with every other, which is what the rules of `expr_join_or` and
`expr_join_and` are about; `expr_eliminate_dups2` fires on chains with the parent's condition. Four
steps of Kconfig are: start, edit, edit or save or load, quit; the files to start from
add what a longer history leaves (hidden values, two values of a choice, a number out
of range, lines of symbols that are gone, a choice without a line for the member that is
selected). Questions of oldconfig are not counted.
All bounds are constants of the modules: `MaxFaults`, `MaxReconf`, `NFiles`,
`NSites`, `NVersions`, `MaxChanges`, `MaxCrashes`, `MaxEdits`, `MaxSaves`, `MaxSteps`.

Finalize and Kconfig stop (an entry is placed; the user has used up `MaxSteps`), so
their runs do not check for deadlock. All others do.

*Properties with an exception, and why.* `CookiesSound`, `WorldSound`, `PackageSound` and
`PatchedOnce` are for `~tainted` (see above), `CookiesSound`, `PackageSound` and
`PatchedOnce` also for `~flag`: between a change of options and the next
`make world` the flag itself says that the build is outdated. `CookiesSound` and `PackageSound`
except a package or control file that is `torn`: make takes it for up to date, and a later
`make package` ends well with it (WorkDirTruncate shows this with a single crash and nothing
else). `WorldSound` needs no such exception with ipkg: `make world` removes the package files
and every fake writes the control files anew. With txz, whose packages delete the control
files, a torn control file can reach the image, and the property says so. `CookieVouches` and
`ExtractedGood` are for one tree and without `.nohash`: with a shared directory a
distfile can be replaced between its sum and its extraction, and `.nohash` waives
verification by design.

`Restored` is about builds after which this version alone has dealt with the sysroot since its
`.fake_done` (`owner`): on an old `.fake_done` make stages nothing again, and the sysroot keeps what
the version in between left. Of such a build it leaves out the files in `Taken`. A subpackage's
recipe removes what its old manifest lists *after* fake has staged the whole of the package, so a
file that has moved to an earlier subpackage or to none is gone; so is, possibly, what a
subpackage packs whose recipe ran out of turn, when a later package file is up to date and is not made
again, or that died and was not repeated. `NothingStale` leaves out
the `*-config` scripts in `usr/bin`, which no manifest lists, files that a build
that died had copied and not yet listed (`orphans`), and what the manifests of subpackages that
are not selected, for a clean those that no longer exist, still list (`Still`).
Each is what the code does, and TLC shows it when the exception is taken out. The first and the last
need no fault at all, although `docs/common-usage.txt` says that `clean` removes all
files added to the staging directory: `mk/pkg-bottom.mk` copies the scripts to `usr/bin` and
lists only their copies in `scripts/`, and `clean-dev-<subpackage>` exists for the
subpackages of the present version only.

`BuildsCurrent` is for `~lost`: every save renames `.config` to `.config.old`, so a
second save before POSTCONFIG, or a session killed before it, replaces a
configuration that was never compared, and what was built from it is not flagged. It is
about the options whose presence `pkgrebuild` compares and the BUSYBOX lines
(`Followed`); changed values of string flavours go unnoticed. `FlaggedOnce` holds because of
a slip: `.config.old` is brought up to date only when a comparison of the shell part
differs, and the one of `ADK_RUNTIME_INIT_` with `ADK_RUNTIME_BASE_` always does.
`DependsFaithful` is for a depmaker that came to its end (`whole`).

`AnswersKept` and `VisibilityKept` are about the answers y and n of a condition: the rule
of `expr_eliminate_dups2` for `(A || B) && !A && !B` takes it for n, which is wrong for an m.
`SubmenuShown` is for configurations without an m (`Definite`), since
`expr_trans_compare` takes `!A` for `A = n`. OpenADK's tristates are the kernel options
(`target/linux/config`); where only booleans are involved the properties are unconditional.

`SavedCurrent`, `Reloads` and `OneChosen` are about files not written from `stale` values:
`conf_read` resets a number out of range and does not recalculate what follows from it,
and `sym_set_string_value` ignores an entry equal to a value forgotten earlier
(`EntryTakesEffect` excepts the latter, `Ignored`). `QuitKeeps` is for `~uncounted`: a load
that fails has already reset the change count. `DefconfigReloads` leaves out
configurations in which a symbol the user set is also selected with a smaller value
(`Overridden`): `conf_write_defconfig` takes it for forced and drops the user's value.
Each exception was found as a counterexample and is what the code does.

*Fairness.* `WorkDir!Fairness`: make goes on by itself and a recipe that cannot end
well fails (weak fairness); the user, whenever make is idle, again and again gives
each of `world`, `clean` and `refetch` (strong fairness, since the goals take
turns). Faults, other goals and reconfigurations are not fair: they may happen or
not, within their bounds. `Fetch!Fairness` is the same for each tree with `extract`
and `refetch`. The code does not retry by itself, so a liveness property of it must
be about a user who does; what the properties say is that trying again is enough.
`Kconfig!Spec` has weak fairness of oldconfig: while it runs one of its steps is
enabled unless it `Hangs`, and the user who started it goes on answering, in any way. It is
written out as
`[]<>(pc # "oldconfig") \/ []<><<pc = "oldconfig">>_vars \/ <>[]Hangs`, which is the
same formula without the enabling condition that TLC would evaluate at great length. `FairSpec`
says of the steps that ask nothing separately that they are weakly fair, which follows from it. A
hang would violate `OldconfigEnds`. The property leaves out one kind of user: the
one who again and again gives a new choice an answer that is refused (`Refused`). From A=y, B=y,
V2=y without a line for V1, which B selects, the choice is new and keeps V2; V1 is refused
because it is selected (`sym_tristate_within_range`), `conf_choice` does not look, and
the question comes back after every pass. KconfigRefused shows it, against the comment
"Update until a loop caused no more changes" of `conf.c`.

## The proofs

Of every theorem the run named beside it checks the same property on a small instance;
the theorem holds for all constants that satisfy the assumptions of the module. The
inductive invariants were checked by TLC on the instances of the runs before they were
proved.

| Module | Theorem | Statement | Hypothesis | Run |
|---|---|---|---|---|
| `WorkDir_proofs` | `TypeCorrect` | `Spec => []TypeOK` | | WorkDirIpkg |
| | `CookiesVouch`, `WorldDelivers`, `PackageDelivers` | `[]CookiesSound`, `[]WorldSound`, `[]PackageSound` | `Detected` | WorkDirIpkg |
| | `PatchesOnce`, `FlagsKept` | `PatchedOnce`, `FlagKept` | `Detected` | WorkDirIpkg |
| `Fetch_proofs` | `FetchTypeCorrect`, `FetchAcceptedVerified` | `[]TypeOK`, `AcceptedVerified` | | FetchShared |
| | `FetchCookieVouches`, `FetchExtractedGood` | `[]CookieVouches`, `[]ExtractedGood` | `Alone` | FetchAlone |
| `Staging_proofs` | `StagingTypeCorrect`, `StagingRestored`, `StagingNothingStale` | `[]TypeOK`, `[]Restored`, `[]NothingStale` | | Staging |
| `Rebuild_proofs` | `RebuildTypeCorrect`, `RebuildFlaggedOnce` | `[]TypeOK`, `FlaggedOnce` | | Rebuild |
| | `RebuildBuildsCurrent` | `[]BuildsCurrent` | `Separate` | Rebuild |
| | `RebuildDependsFaithful` | `[]DependsFaithful` | `Orderly(Option)` | Rebuild |
| | `RebuildPkgMapImplements` | `PkgMapImplements` | | Rebuild |
| | `DepmakerFaithful` | `Faithful(Depends(conf), conf)` | `Orderly` | (Rebuild) |
| `Kconfig_proofs` | `KconfigInvariant`, `KconfigTypeCorrect` | `[]Inv`, `[]TypeOK` | | Kconfig |
| | `KconfigSavedCurrent`, `KconfigQuitKeeps` | `SavedCurrent`, `QuitKeeps` | | Kconfig |
| | `KconfigEntryTakesEffect` | `[](~stale => EntryTakesEffect)` | `SelectsBounded` | Kconfig |
| | `KconfigReloads`, `KconfigOneChosen` | `[]Reloads`, `[]OneChosen` | `SelectedShown` | Kconfig |
| `StrMap_proofs` | `KeysStayUnique`, `BucketsImplement` | `[]KeysUnique`, `Implements` | | (Rebuild) |

`SeqLemmas` and `StrMapLemmas` hold what these modules share.

### The hypotheses

- `Detected` (WorkDir): the faults do not include `silent` and `rmerror`, the two that the
  code does not notice; WorkDirSilent is a counterexample without it. Crashes at any
  point are included, and so is either package format.
- `Alone` (Fetch): one tree has the download directory to itself. `mk/fetch.mk` has no
  lock; with a second tree a distfile can be replaced after it was summed, and both
  properties fail. `AcceptedVerified`, which is about what a recipe has read itself, holds
  for any number of trees.
- `Separate` (Rebuild): no two Makefiles have a key of `pkgmap` in common. `strmap_put` keeps
  the package that comes last, so of two packages with the same key one is never flagged.
- `Orderly` (Depmaker): a dependency of a flavour or choice stands below the `:=` of the
  only binary package that has it, with no `:=` of another one in between (the flavour itself may
  come with `+=`); an optional host tool stands on a
  line of its own; no name is that of a libc and of a system. depmaker counts on all three:
  it remembers one `PKG_FLAVOURS_` line, gives up a whole `HOST_BUILDDEP` line for one tool,
  and decides from the name alone whether a `PKG_BUILDDEP_` is about a libc.
  A scan of the Makefiles under `package/` for the first two found one exception,
  `PKGFB_MOD_READLINE` of `package/python3`, a flavour that is nowhere declared and whose
  recipe lines are commented out.

- `SelectsBounded` (Kconfig): who is selected with a value is selected with no more than the
  condition of the select. The code does not ask for it: with `select X y` under a condition that
  is m, `sym_tristate_within_range` compares an entry with the m, and `sym_calc_value` then
  gives X the y. OpenADK's selects with a value, nine in the `Config.in` files and those that
  `pkgmaker` writes, are all with m, which no condition but n is below.
- `SelectedShown` (Kconfig): a member of a choice that is selected is visible while the choice is
  y. The code does not ask for it either: when a hidden member is selected, `sym_calc_value` makes
  it y beside the member the user chose, and the file then names two. Six members are selected in
  OpenADK (`BUSYBOX_SH_IS_ASH`, `BUSYBOX_SH_IS_HUSH`, `ADK_TOOLCHAIN_WITH_GDB`,
  `ADK_TARGET_USE_STATIC_LIBS_ONLY`, `ADK_TARGET_QEMU_WITH_BOOTLOADER`,
  `ADK_TARGET_WITHOUT_THREADS`). None of them depends on anything but its choice, so they are
  visible whenever it is y.

`MCRebuild` assumes `Orderly(Option)` and `Separate`, and `MCKconfig` assumes `SelectsBounded`
and `SelectedShown`, so TLC evaluates them on the instances.

The other theorems on Kconfig have no hypothesis beside the assumptions of the module, which say
what menus are. TLC evaluates them on the menu of `MCKconfig`; what they say of OpenADK's own
menus was looked up in the `Config.in` files.

- `ConditionAssumption`: a condition has a tristate value, which depends on nothing but the
  symbols it mentions.
- `OrderAssumption`: nothing depends on itself, which `sym_check_deps` sees to. (It does not look
  at a `select` with a value; OpenADK's nine all select drivers of `target/linux` with the
  constant m.) It excuses a member's prompt,
  to which `menu_finalize` adds the choice.
- `ChoiceAssumption`: a choice is a boolean and not optional, so `menu_finalize` lets its
  prompt select it; its members are booleans without defaults, selects with a value or
  entries below them, and hidden while the choice is n. So it is for all 66 choices and 446
  members of OpenADK.
- `NumberAssumption`: the range of a number is a pair of constants, and one of its defaults
  applies. OpenADK has no other ranges.
- `DefaultAssumption`: the default of a tristate that is visible is at most its visibility.
  `menu_finalize` adds what an entry depends on to both, and only prompts of choices
  have a condition of their own. Without it a forgotten value could make a tristate m
  that was y before.
- `FileAssumption`: the lines a user starts with fit the types of their symbols, or name none.

### WorkDir

The properties are not inductive. `IInv` adds to the types

- `Standing`: what the current make has considered is closed under prerequisites and
  fresh, and the target whose recipe runs is due and not fresh. Hence a recipe starts
  only when its input has been brought up to date.
- `Vouched`: the fresh cookies among a target's `Core` vouch for content, unless the target is
  `torn`. The core leaves out the distfile, which a refetch may remove without harm to
  what was unpacked; with the full chain instead, the invariant breaks when a distfile is
  fetched again. The control file has a part of its own, because what keeps a torn one out of
  `make world` is that every ipkg fake writes it anew. `VouchedPackage` says that from `package_clean`
  on `make world` of an ipkg package meets no torn package file.
- `OnCourse`: how far `make world` has come. At `rmflag` nothing of the old build is
  left; from `compile` on there is no flag; from `root_clean` on there is a stamp.
- `Delivered`: what the last invocation delivered is still there.

`TypeInductive`, `StandingInductive`, `VouchedInductive`, `OnCourseInductive` and
`DeliveredInductive` take one step per action; `TouchedOutdates` carries most of the weight
in the third: writing a target makes what rests on it stale, so a cookie that is fresh
afterwards was fresh before and its core untouched.

### Fetch

For any number of trees `IInv` adds `Standing` (a recipe deals with a file and a site of the
lists) and `SumsSound`: the sums the checksum loop has read belong to files it has passed, and
while its `OK` is 1 they are the published sums of the first files without a gap. Another
tree's step cannot disturb it, since `sums` is the shell's own state. From it
`AcceptedVerified` follows at the step that writes the cookie.

For a tree alone `AInv` adds what the other trees would disturb: `Considered` (make has found
the files it passed present and older than the cookie), `Summed` (the sums read are those of
the files as they are) and `Unpacking` (the status of the extraction loop is that of the last
file; either all files are good or the last is missing). The last one is needed
because the loop hides the status of every file but the last.

### Staging

`IInv` adds five parts to the types, for any versions, in any order, with any subpackages and any
selection of them at each build. `Ordered`: where an invocation stands, and that the package files of
the subpackages it has passed are there. `Emptied`: a manifest about to be written is empty, and
after a clean those it was for are. `Covered`: whatever lies in the sysroot is listed by some
manifest, but for the `*-config` scripts and the `orphans`; `NothingStale` rests on it. `Listing`: what
is listed while a version owns the sysroot belongs to that version, and what a subpackage's manifest
lists is always something it packs in some version. `Pending`: what the owner installs, or packs
into an up-to-date package file, is in the sysroot unless a subpackage's recipe may have removed it
(`MayLack`); `MayLack` is `Taken` in the middle of a build, while later recipes may still put
files back. It gives `Restored`.

### Rebuild

`IInv` has the types with, for each map, that no key has two pairs (`MapsOK`), what `todo` can
hold in each phase (`TodoOK`), when `.config` can be missing (`Present`), and that a
comparison of the shell part that differs is still ahead or has been acted on (`Checked`).
`FlaggedOnce` follows at `PostDone`: the comparison of the init lines always differs, so `rb` is set
and `.config.old` is copied.

`BuildsCurrent` needs more: `PkgMapped` and `Loaded` (the three maps have what the loops so far
have put), `Compared` (a package with an option that one file sets and the other does not is
flagged, or the option is still ahead of the enumeration) and, while nothing is `lost`, `Standing`:
what is built and not flagged was built from `.config`, or from a `.config.old` that is
still to be compared with it. The lemmas on `Load`, `PkgPairs` and `strmap_enum` say that the
maps have exactly the options of the files and that an enumeration meets each of them.

`DependsFaithful` comes from `DependsCurrent` (a complete and up to date `Depends.mk` is
`Depends(Enabled(config))`) and `DepmakerFaithful`. The latter is an induction along the lines of a
Makefile with the invariant `SoFar`: the text so far is one rule with the target in front exactly
if `prefix` is set (`OneRule`), its words are those of the wanted lines so far, and `fpkg` and `cpkg`
are the last declarations of this Makefile, if it has any yet (`Latest`). A second
induction, along the packages, shows that what an earlier Makefile leaves behind is harmless.

### StrMap

The invariant is `TypeOK` with `KeysUnique`; without uniqueness the mapping is not
stable, since `get_pair` returns the first of several pairs. `PutOwn` and `PutOther` say
what `Put` does to the value of the key itself and of every other key; from
`PutAssociates` each step of the buckets is a step of the association or a stutter.
The proofs do not use what `hash()` returns, and hold for a repaired one.
`RebuildPkgMapImplements` is the same refinement for the map that `pkgrebuild` fills, inside
the composed system; keys and values are there those of the Makefiles.

### Kconfig

conf_write calculates from the start only while no change is counted, and otherwise trusts
what was calculated. That this is sound is `SavedCurrent`; that an uncounted change is none is
`QuitKeeps`. The invariant `Inv` has three parts: `Control`, the types; `Session`, that while a
program waits for the user the table is `Complete` (every symbol calculated, numbers within
their ranges), unless `stale` also `Current` (a calculation from the start gives the same
values, visibilities and members of choices), and `Written` (what is visible or not n is marked
for the file) whenever a change is counted; and `Kept`, that without a counted change the file
mconf would save under shows the table. `Written` cannot be asked for always: a save takes
`SYMBOL_WRITE` away, and only the next calculation gives it back.

The weight is in one lemma, `Recalculation`. The programs change what the user set without
calculating anything again where they take it to make no difference: an answer that is the present
value (`sym_set_tristate_value`), hidden entries that pass for set when the menus are drawn
(`menu_is_visible`), hidden values that `conf_read` forgets, choices that are new again
(`sym_calc_choice`). `Harmless` says what all these have in common: a symbol's setting is the
same, or the symbol is hidden, or it is set to the value it has; a choice keeps its member, or
is given the visible one it has. `Recalculation` shows that such changes, any number of them at once,
make no difference to a calculation from the start. Its proof goes along `Order`: the first *i*
symbols come out the same (`AgreeStep`), because what `sym_calc_value` makes of a symbol depends
on earlier symbols only (`Local`, `Alike`), and stays until the end (`RunKeeps`). Two
cases need an argument. A choice is calculated before its members but looks at their
visibility, so a step of it also settles what the members will see (`Stage`,
`SoundKept`). A symbol that is y by being selected and is then set to y by the user gets
the same value by another path (`TriGiven`).

`RecalculationUpTo` is the same for the symbols up to a given one, when one entry beyond them
is not harmless. `EntryTakesEffect` rests on it: what comes before the symbol that is
entered, or before the choice whose member it is, keeps its value, so `sym_calc_value` finds there
the visibility and the lower bounds that the check found (`FoundAgain`), and gives what was
accepted (`EffectTri`, `EffectMember`, `EffectNumber`). The theorem is for `~stale`, the run
checks the property without: after an ignored number the checks look at values that the next
calculation may change. In the menu of the run nothing an entry is checked against depends
on a number; in other menus it may.

The rest is the lemmas on the single operations: each edit either drops all calculated values or is
harmless (`TriEdit`, `StringEdit`, `ToggleEdit`); `ReadFacts` and `CheckedFacts` that a
file that `conf_read` finds nothing to complain about is the file the table shows;
`CalculatedFacts` and `LinesFacts` that `conf_write` writes what it calculated. `NextInv`
combines them, one step per action.

`Reloads` and `OneChosen` are about files that may have been written many programs ago, so they
need an invariant of their own, `OwnFiles`: each file in `own` was written from some table that
was complete, current and written. For the sessions that is `Inv`. The modes that answer
for the user call `conf_write` on a table in which a part is calculated and the rest is not:
`set_all_choice_values` calculates up to a choice and then drops the choice alone. `Partly`
describes such tables (calculated up to *k*, as from the start), `NewSymbolsPartly` shows that
`conf_set_all_new_symbols` ends with one, `Continued` and `PartlyAll` that calculating on gives what a
calculation from the start gives.

The argument for reading back is `Recalculation` once more. A file written from a
current table has a line for every visible symbol, with the value the symbol has, and for the
member that a choice that is y has picked, which `SelectedShown` makes the only member that is y
(`OnlyPick`); so reading it (`RecalledAll`) is a harmless change of the user's values,
whatever was hidden, selected or a default before, and the new table agrees with the
old one (`Reread`). Its numbers are within their ranges, so `conf_read` resets nothing, and
`conf_write` writes the same values (`Rewritten`). `OneChosen` then follows from what
`sym_calc_choice` and `sym_calc_value` make of a choice and its members in a current table
(`CurrentChoice`).

### How inductions over data are done

The library's induction theorems take a predicate, which the provers cannot
instantiate. `SeqLemmas!Climb` states induction over an interval for a *set*: a set
that has `a`, and with each number below `b` its successor, has all of `a .. b`. It
is proved from the well-foundedness of `<` (`NatLeast`). A recursive function is first
shown to exist (`FlattenExists`, `LoadExists`, `RunExists`, `TurnsExist`, `FoldExists`), then to satisfy its
equation, and its properties follow by `Climb`.

### Only model-checked

- Liveness: `EventuallyBuilt`, `EventuallyExtracted`, `OldconfigEnds`. Fairness and `ENABLED` are
  out of the prover's reach.
- Everything about Finalize. `Expr` is built from recursive operators on trees, and the
  prover loses its SMT solver in a module that reaches one; Kconfig can be proved about
  because conditions are abstract in it.
- `DefconfigReloads` of Kconfig. `conf_write_defconfig` leaves out what is forced or the default
  anyway, so what its file restores depends on the defaults that the *other* omitted symbols get
  back; a proof would need to follow the values that `defconfig` gives to all of them at once, and
  `Overridden` shows that for a symbol the user set and a select also reaches it does not hold.
  It stays with the menu of the run.
- `EntryTakesEffect` while a number was ignored (`stale`), as said above.

## Not modelled

Formatting of control files and manifests, archive formats, stripping, permissions,
the duplicate-file warning of `DEVELOPER`; parallel make inside a package; the
`autotool`, `configure` and `build` styles, which differ in the command they run and
not in the cookies; toolchain, kernel and image recipes; the recipes and patches of the
packages; `scripts/ipkg`, the host packages, and several packages sharing staging paths.

Of the configuration language: the lexer and parser (generated), the drawing of
dialogs, the search, `conf_write_autoconf` and `conf_split_config`, randconfig, strings and
hexadecimal numbers, optional and tristate choices, `visible if`, `option env` and
`defconfig_list`, the error messages of `sym_check_deps`. Of the generators: pkgmaker and
sortfile, the lines `package-$(ADK_COMPILE_p) += p` that depmaker prints for every package whatever
is configured, and the limits of the line buffers (`MAXLINE`).

Most C in the repository is not OpenADK's: boot loaders, a bundled libpcap and minilzo,
register definitions and ELF headers under `package/` and `adk/include`. The C that is its own
logic is `adk/config` without the generated files and `adk/tools`; the makefiles and
shell scripts, where the rest of the logic lies, are modelled by WorkDir, Fetch,
Staging and Rebuild.

## Plan

1. `Ipkg`: `scripts/ipkg` on an image: status file, dependency order, maintainer scripts,
   interrupted installs; an abstract specification of a package set that it
   implements.
2. `World`: several packages with `Depends.mk`, shared staging paths and the order of
   builds; the top-level clean with capital letters.
3. Abstract specifications: a *verified store* that Fetch implements, and a *package
   goal* (requested, outdated, delivered) that WorkDir implements, by refinement.
4. Proofs: the refinements of 3; `DefconfigReloads`, with the menus for which it holds.
5. `HostPkg`: the host chain; pkgmaker and sortfile as operators.

## Running

    tlasany WorkDir.tla
    tlc -workers 2 -config WorkDirIpkg.cfg WorkDir.tla
    tlc -workers 2 -config Kconfig.cfg MCKconfig.tla
    for m in WorkDir Fetch Staging StrMap Rebuild Kconfig; do tlapm ${m}_proofs.tla; done
    tlapm SeqLemmas.tla; tlapm StrMapLemmas.tla
