------------------------------- MODULE Fetch -------------------------------
(***************************************************************************)
(* Downloading, verifying and unpacking the distfiles of one package       *)
(* (mk/fetch.mk, EXTRACT_CMD of mk/vars.mk), by one or several OpenADK     *)
(* trees that share a download directory (docs/download-location.txt).     *)
(* Every tree runs its own make; a distfile is a path that another tree    *)
(* may remove, truncate or rewrite between any two steps.  curl, the first *)
(* choice of scripts/prereq.sh, opens its output when the first byte       *)
(* arrives and stamps it with the current time.                            *)
(***************************************************************************)
EXTENDS Naturals, FiniteSets

CONSTANTS
    Tree,        \* the OpenADK trees that share DL_DIR
    NFiles,      \* how many distfiles the package has, fetched by http
    NSites,      \* how many sites are tried: PKG_SITES and the backup site
    Schemes,     \* how the package may be fetched: "http", "git"
    Faults,      \* the kinds of fault that may strike, see FaultKinds
    MaxFaults,   \* bound: how many faults one behaviour may contain
    Nobody       \* no tree

(***************************************************************************)
(* site       a site does not answer, or its answer breaks off             *)
(* wrong      a site serves another file under the name                    *)
(* clone      git clone fails                                              *)
(* submodule  git submodule update fails                                   *)
(* pack       tar fails while it writes the archive of a clone             *)
(* crash      the invocation dies                                          *)
(***************************************************************************)
FaultKinds == {"site", "wrong", "clone", "submodule", "pack", "crash"}

ASSUME TreeAssumption == IsFiniteSet(Tree) /\ Tree # {} /\ Nobody \notin Tree
ASSUME FetchBounds == NFiles \in Nat \ {0} /\ NSites \in Nat \ {0} /\ MaxFaults \in Nat
ASSUME KindsAssumption == Schemes \subseteq {"http", "git"} /\ Faults \subseteq FaultKinds

VARIABLES
    scheme,   \* how this package is fetched
    dl,       \* what each distfile holds
    writer,   \* the tree that truncated the distfile last and still writes it
    nohash,   \* distfiles with a .nohash file beside them
    dir,      \* the clone in DL_DIR
    cookie,   \* trees with a .checksum_done
    newer,    \* pairs <<t, f>>: distfile f is newer than the .checksum_done of t
    src,      \* what .extract_done of each tree vouches for, "none" without it
    goal, pc, \* the goal of each tree's make, and where it stands
    at,       \* the distfile a tree is dealing with
    site,     \* the site it tries
    redo,     \* make has found the .checksum_done of the tree out of date
    sums,     \* the checksum loop: OK, how many sums it has read, what they were
    got,      \* the extraction loop: what it has unpacked, status of its last command
    last,     \* outcome of each tree's last make
    faults

shared == <<dl, writer, nohash, dir, newer>>
local  == <<cookie, src, goal, pc, at, site, redo, sums, got, last>>
vars   == <<scheme, dl, writer, nohash, dir, cookie, newer, src, goal, pc, at, site,
            redo, sums, got, last, faults>>

\* git packages consist of one distfile, the archive make packs itself.
Last == IF scheme = "git" THEN 1 ELSE NFiles
File == 1..NFiles

\* bad: empty or broken off, no archive; wrong: an archive of other sources; packed: a
\* clone of the published sources, whose sum is not that of the published archive.
Content == {"none", "bad", "wrong", "packed", "good"}

TypeOK ==
    /\ scheme \in Schemes
    /\ dl \in [File -> Content] /\ writer \in [File -> Tree \union {Nobody}]
    /\ nohash \subseteq File /\ dir \in Content
    /\ cookie \subseteq Tree /\ newer \subseteq Tree \X File
    /\ src \in [Tree -> Content]
    /\ goal \in [Tree -> {"extract", "refetch"}]
    /\ pc \in [Tree -> {"idle", "remove", "file", "site", "get", "write", "backup",
                        "fill", "arrived", "clone", "pack", "packed", "sum", "extract"}]
    /\ at \in [Tree -> 1..NFiles + 1] /\ site \in [Tree -> 1..NSites + 1]
    /\ redo \in [Tree -> BOOLEAN]
    /\ sums \in [Tree -> [ok : {"n", "0", "1"}, count : 0..NFiles, read : [File -> Content]]]
    /\ got \in [Tree -> [part : Content, failed : BOOLEAN]]
    /\ last \in [Tree -> {"none", "ok", "fail"}]
    /\ faults \in 0..MaxFaults

NoSums == [ok |-> "n", count |-> 0, read |-> [f \in File |-> "none"]]
NoGot  == [part |-> "good", failed |-> FALSE]

Init ==
    /\ scheme \in Schemes
    /\ dl = [f \in File |-> "none"] /\ writer = [f \in File |-> Nobody]
    /\ nohash = {} /\ dir = "none"
    /\ cookie = {} /\ newer = {}
    /\ src = [t \in Tree |-> "none"]
    /\ goal = [t \in Tree |-> "extract"] /\ pc = [t \in Tree |-> "idle"]
    /\ at = [t \in Tree |-> 1] /\ site = [t \in Tree |-> 1]
    /\ redo = [t \in Tree |-> FALSE]
    /\ sums = [t \in Tree |-> NoSums] /\ got = [t \in Tree |-> NoGot]
    /\ last = [t \in Tree |-> "none"]
    /\ faults = 0

Fault(k) == k \in Faults /\ faults < MaxFaults /\ faults' = faults + 1

-----------------------------------------------------------------------------
(* Control of one make.                                                    *)

GoTo(t, p) == pc' = [pc EXCEPT ![t] = p]
\* The shells of the recipes, and make itself, forget everything when they end.
Forget(t) == /\ at' = [at EXCEPT ![t] = 1] /\ site' = [site EXCEPT ![t] = 1]
             /\ redo' = [redo EXCEPT ![t] = FALSE]
             /\ sums' = [sums EXCEPT ![t] = NoSums] /\ got' = [got EXCEPT ![t] = NoGot]
End(t, how) == GoTo(t, "idle") /\ last' = [last EXCEPT ![t] = how] /\ Forget(t)

\* The user runs "make package=p extract" or "... refetch".
Start(t, g) ==
    /\ pc[t] = "idle"
    /\ goal' = [goal EXCEPT ![t] = g]
    /\ GoTo(t, IF g = "refetch" THEN "remove" ELSE "file")
    /\ last' = [last EXCEPT ![t] = "none"]
    /\ UNCHANGED <<scheme, shared, cookie, src, at, site, redo, sums, got, faults>>

\* Variant: refetch forgets all distfiles but the first.
RmFirstDistfile(t) ==
    /\ pc[t] = "remove"
    /\ dl' = [dl EXCEPT ![1] = "none"]
    /\ writer' = [writer EXCEPT ![1] = Nobody]
    /\ GoTo(t, "file")
    /\ UNCHANGED <<scheme, nohash, dir, newer, cookie, src, goal, at, site, redo, sums,
                   got, last, faults>>

\* refetch: rm -f ${FULLDISTFILES}
RmDistfiles(t) ==
    /\ pc[t] = "remove"
    /\ dl' = [f \in File |-> IF f <= Last THEN "none" ELSE dl[f]]
    /\ writer' = [f \in File |-> Nobody]
    /\ GoTo(t, "file")
    /\ UNCHANGED <<scheme, nohash, dir, newer, cookie, src, goal, at, site, redo, sums,
                   got, last, faults>>

\* make looks whether the next distfile exists, and if so how old it is.
Consider(t) ==
    /\ pc[t] = "file" /\ at[t] <= Last
    /\ IF dl[at[t]] # "none"
       THEN /\ at' = [at EXCEPT ![t] = @ + 1]
            /\ redo' = [redo EXCEPT ![t] = @ \/ <<t, at[t]>> \in newer]
            /\ UNCHANGED pc
       ELSE /\ GoTo(t, IF scheme = "git" THEN "backup" ELSE "site")
            /\ UNCHANGED <<at, redo>>
    /\ UNCHANGED <<scheme, shared, cookie, src, goal, site, sums, got, last, faults>>

\* All distfiles considered: refetch ends, extract goes on with the cookies.  The
\* checksum recipe removes the work directory first.
Proceed(t) ==
    /\ pc[t] = "file" /\ at[t] > Last
    /\ \/ /\ goal[t] = "refetch"
          /\ End(t, "ok") /\ UNCHANGED <<cookie, src>>
       \/ /\ goal[t] = "extract" /\ (t \notin cookie \/ redo[t])
          /\ cookie' = cookie \ {t} /\ src' = [src EXCEPT ![t] = "none"]
          /\ GoTo(t, "sum") /\ Forget(t) /\ UNCHANGED last
       \/ /\ goal[t] = "extract" /\ t \in cookie /\ ~redo[t] /\ src[t] = "none"
          /\ GoTo(t, "extract") /\ Forget(t) /\ UNCHANGED <<cookie, src, last>>
       \/ /\ goal[t] = "extract" /\ t \in cookie /\ ~redo[t] /\ src[t] # "none"
          /\ End(t, "ok") /\ UNCHANGED <<cookie, src>>
    /\ UNCHANGED <<scheme, shared, goal, faults>>

\* The recipe of the current distfile has ended well.
Fetched(t) == /\ GoTo(t, "file") /\ at' = [at EXCEPT ![t] = @ + 1]
              /\ site' = [site EXCEPT ![t] = 1] /\ redo' = [redo EXCEPT ![t] = TRUE]

\* Variant: downloads keep the time stamp of the server.
ServerTime(f) == UNCHANGED newer

\* Whoever writes a distfile makes it newer than every .checksum_done.
Renewed(f) == newer' = newer \union (Tree \X {f})

-----------------------------------------------------------------------------
(* FETCH_template, http and ftp: for site in PKG_SITES MASTER_SITE_BACKUP.  *)

\* Variant: the loop goes on after the last site.
RmPartialEndless(t) ==
    /\ pc[t] = "site"
    /\ dl' = [dl EXCEPT ![at[t]] = "none"] /\ writer' = [writer EXCEPT ![at[t]] = Nobody]
    /\ GoTo(t, "get")
    /\ UNCHANGED <<scheme, nohash, dir, newer, cookie, src, goal, at, site, redo, sums,
                   got, last, faults>>

\* rm -f "$filename"
RmPartial(t) ==
    /\ pc[t] = "site" /\ site[t] <= NSites
    /\ dl' = [dl EXCEPT ![at[t]] = "none"] /\ writer' = [writer EXCEPT ![at[t]] = Nobody]
    /\ GoTo(t, "get")
    /\ UNCHANGED <<scheme, nohash, dir, newer, cookie, src, goal, at, site, redo, sums,
                   got, last, faults>>

\* No site is left: the loop, and with it the recipe, ends well all the same.
NoSiteLeft(t) ==
    /\ pc[t] = "site" /\ site[t] > NSites
    /\ Fetched(t)
    /\ UNCHANGED <<scheme, shared, cookie, src, goal, sums, got, last, faults>>

NextSite(t) == GoTo(t, "site") /\ site' = [site EXCEPT ![t] = @ + 1]

\* FETCHCMD: the site answers, the output file is created or truncated ...
Get(t) ==
    /\ pc[t] = "get"
    /\ \/ /\ dl' = [dl EXCEPT ![at[t]] = "bad"] /\ writer' = [writer EXCEPT ![at[t]] = t]
          /\ Renewed(at[t])
          /\ GoTo(t, "write") /\ UNCHANGED <<site, faults>>
       \/ /\ Fault("site")
          /\ NextSite(t) /\ UNCHANGED <<dl, writer, newer>>
    /\ UNCHANGED <<scheme, nohash, dir, cookie, src, goal, at, redo, sums, got, last>>

\* What a download that ends makes of the file: all of it, unless another tree has
\* removed or truncated it since.
Written(t, f, c) ==
    IF writer[f] = t
    THEN /\ dl' = [dl EXCEPT ![f] = c] /\ writer' = [writer EXCEPT ![f] = Nobody]
         /\ Renewed(f)
    ELSE UNCHANGED <<dl, writer, newer>>

\* ... and filled.  A site that broke off, or a file gone, means the next site.
Write(t) ==
    /\ pc[t] = "write"
    /\ \/ /\ Written(t, at[t], "good") /\ UNCHANGED faults
          /\ IF dl[at[t]] # "none" THEN Fetched(t)
                                  ELSE NextSite(t) /\ UNCHANGED <<at, redo>>
       \/ /\ Written(t, at[t], "wrong") /\ Fault("wrong")
          /\ IF dl[at[t]] # "none" THEN Fetched(t)
                                  ELSE NextSite(t) /\ UNCHANGED <<at, redo>>
       \/ /\ Written(t, at[t], "bad") /\ Fault("site")
          /\ NextSite(t) /\ UNCHANGED <<at, redo>>
    /\ UNCHANGED <<scheme, nohash, dir, cookie, src, goal, sums, got, last>>

-----------------------------------------------------------------------------
(* FETCH_template, git: the backup site first, then a clone.               *)

\* FETCHCMD from MASTER_SITE_BACKUP, which need not have the file ...
Backup(t) ==
    /\ pc[t] = "backup"
    /\ \/ /\ dl' = [dl EXCEPT ![at[t]] = "bad"] /\ writer' = [writer EXCEPT ![at[t]] = t]
          /\ Renewed(at[t])
          /\ GoTo(t, "fill")
       \/ GoTo(t, "clone") /\ UNCHANGED <<dl, writer, newer>>
    /\ UNCHANGED <<scheme, nohash, dir, cookie, src, goal, at, site, redo, sums, got, last,
                   faults>>

\* ... nor send all of it.
Fill(t) ==
    /\ pc[t] = "fill"
    /\ \/ Written(t, at[t], "good") /\ GoTo(t, "arrived") /\ UNCHANGED faults
       \/ Written(t, at[t], "wrong") /\ GoTo(t, "arrived") /\ Fault("wrong")
       \/ Written(t, at[t], "bad") /\ GoTo(t, "clone") /\ UNCHANGED faults
    /\ UNCHANGED <<scheme, nohash, dir, cookie, src, goal, at, site, redo, sums, got, last>>

\* touch .nohash: a file that arrived is never verified.
Arrived(t) ==
    /\ pc[t] = "arrived"
    /\ nohash' = nohash \union {at[t]}
    /\ IF dl[at[t]] # "none" THEN Fetched(t)
                            ELSE GoTo(t, "clone") /\ UNCHANGED <<at, site, redo>>
    /\ UNCHANGED <<scheme, dl, writer, dir, newer, cookie, src, goal, sums, got, last, faults>>

\* The status of git submodule update is not looked at.
Clone(t) ==
    /\ pc[t] = "clone"
    /\ \/ /\ \/ dir' = "good" /\ UNCHANGED faults
             \/ dir' = "wrong" /\ Fault("submodule")
          /\ GoTo(t, "pack") /\ UNCHANGED <<at, site, redo, sums, got, last>>
       \/ dir' = "bad" /\ Fault("clone") /\ End(t, "fail")
    /\ UNCHANGED <<scheme, dl, writer, nohash, newer, cookie, src, goal>>

\* tar.  A clone that another tree has removed gives an empty archive.
Pack(t) ==
    /\ pc[t] = "pack"
    /\ \/ /\ dl' = [dl EXCEPT ![at[t]] = IF dir = "good" THEN "packed" ELSE "wrong"]
          /\ UNCHANGED faults
       \/ /\ dl' = [dl EXCEPT ![at[t]] = "bad"] /\ Fault("pack")
    /\ writer' = [writer EXCEPT ![at[t]] = Nobody] /\ Renewed(at[t])
    /\ GoTo(t, "packed")
    /\ UNCHANGED <<scheme, nohash, dir, cookie, src, goal, at, site, redo, sums, got, last>>

\* The status of tar is not looked at either: touch .nohash, the clone is removed.
Packed(t) ==
    /\ pc[t] = "packed"
    /\ nohash' = nohash \union {at[t]} /\ dir' = "none"
    /\ Fetched(t)
    /\ UNCHANGED <<scheme, dl, writer, newer, cookie, src, goal, sums, got, last, faults>>

-----------------------------------------------------------------------------
(* The checksum recipe.                                                    *)

\* Variant: a match after a mismatch makes up for it.
SumForgiving(t) ==
    LET f == at[t]  s == sums[t] IN
    /\ pc[t] = "sum" /\ f <= Last /\ 1 \notin nohash
    /\ at' = [at EXCEPT ![t] = f + 1]
    /\ IF dl[f] = "none" THEN UNCHANGED sums
       ELSE sums' = [sums EXCEPT ![t] =
                [ok |-> IF dl[f] = "good" /\ s.count + 1 = f THEN "1" ELSE "0",
                 count |-> s.count + 1, read |-> [s.read EXCEPT ![f] = dl[f]]]]
    /\ UNCHANGED <<scheme, shared, cookie, src, goal, pc, site, redo, got, last, faults>>

\* One turn of "while read sum name".  The hash of a git package is that of the archive
\* on the backup site.  A file that is missing gives no line, so the
\* files after it are compared with the hashes of those before them.
Sum(t) ==
    LET f == at[t]  s == sums[t]
        match == dl[f] = "good" /\ s.count + 1 = f
    IN
    /\ pc[t] = "sum" /\ f <= Last /\ 1 \notin nohash
    /\ at' = [at EXCEPT ![t] = f + 1]
    /\ IF dl[f] = "none" THEN UNCHANGED sums
       ELSE sums' = [sums EXCEPT ![t] =
                [ok |-> IF match /\ s.ok # "0" THEN "1" ELSE "0",
                 count |-> s.count + 1, read |-> [s.read EXCEPT ![f] = dl[f]]]]
    /\ UNCHANGED <<scheme, shared, cookie, src, goal, pc, site, redo, got, last, faults>>

\* The cookie is touched: it is newer than what lies in DL_DIR at this moment.
Accept(t) ==
    /\ cookie' = cookie \union {t} /\ newer' = newer \ ({t} \X File)
    /\ GoTo(t, "extract") /\ Forget(t) /\ UNCHANGED last

\* The loop is left: with OK = 1 only the sums that were read have matched.
SumsDone(t) ==
    /\ pc[t] = "sum" /\ at[t] > Last
    /\ IF sums[t].ok = "1"
       THEN Accept(t)
       ELSE End(t, "fail") /\ UNCHANGED <<cookie, newer>>
    /\ UNCHANGED <<scheme, dl, writer, nohash, dir, src, goal, faults>>

\* A .nohash file beside the first distfile: no checksum is computed at all.
Waive(t) ==
    /\ pc[t] = "sum" /\ at[t] = 1 /\ 1 \in nohash
    /\ Accept(t)
    /\ UNCHANGED <<scheme, dl, writer, nohash, dir, src, goal, faults>>

-----------------------------------------------------------------------------
(* EXTRACT_CMD: for file in ${FULLDISTFILES}.                              *)

Worse(a, b) == IF "bad" \in {a, b} THEN "bad" ELSE IF "wrong" \in {a, b} THEN "wrong" ELSE "good"

\* Variant: a file that cannot be unpacked is passed over.
UnpackLenient(t) ==
    /\ pc[t] = "extract" /\ at[t] <= Last
    /\ at' = [at EXCEPT ![t] = @ + 1]
    /\ got' = [got EXCEPT ![t] = [part |-> Worse(@.part, IF dl[at[t]] = "none" THEN "bad" ELSE dl[at[t]]),
                                  failed |-> FALSE]]
    /\ UNCHANGED <<scheme, shared, cookie, src, goal, pc, site, redo, sums, last, faults>>

\* The status of the loop is that of its last file.
Unpack(t) ==
    /\ pc[t] = "extract" /\ at[t] <= Last
    /\ at' = [at EXCEPT ![t] = @ + 1]
    /\ got' = [got EXCEPT ![t] = [part |-> Worse(@.part, IF dl[at[t]] = "none" THEN "bad" ELSE dl[at[t]]),
                                  failed |-> dl[at[t]] \in {"none", "bad"}]]
    /\ UNCHANGED <<scheme, shared, cookie, src, goal, pc, site, redo, sums, last, faults>>

Unpacked(t) ==
    /\ pc[t] = "extract" /\ at[t] > Last
    /\ IF got[t].failed THEN End(t, "fail") /\ UNCHANGED src
       ELSE End(t, "ok") /\ src' = [src EXCEPT ![t] = got[t].part]
    /\ UNCHANGED <<scheme, shared, cookie, goal, faults>>

-----------------------------------------------------------------------------
\* The make of a tree dies; what it was writing is not completed.
Crash(t) ==
    /\ pc[t] # "idle" /\ Fault("crash")
    /\ End(t, "fail")
    /\ writer' = [f \in File |-> IF writer[f] = t THEN Nobody ELSE writer[f]]
    /\ \/ pc[t] = "pack" /\ dl' = [dl EXCEPT ![at[t]] = "bad"] /\ Renewed(at[t])
       \/ UNCHANGED <<dl, newer>>
    /\ UNCHANGED <<scheme, nohash, dir, cookie, src, goal>>

Make(t) ==
    \/ RmDistfiles(t) \/ Consider(t) \/ Proceed(t)
    \/ RmPartial(t) \/ NoSiteLeft(t) \/ Get(t) \/ Write(t)
    \/ Backup(t) \/ Fill(t) \/ Arrived(t) \/ Clone(t) \/ Pack(t) \/ Packed(t)
    \/ Sum(t) \/ SumsDone(t) \/ Waive(t)
    \/ Unpack(t) \/ Unpacked(t)

Next == \E t \in Tree : \/ \E g \in {"extract", "refetch"} : Start(t, g)
                        \/ Make(t)
                        \/ Crash(t)

Spec == Init /\ [][Next]_vars

-----------------------------------------------------------------------------
(* Properties.                                                             *)

\* .checksum_done is written only if what was read of the distfiles was the
\* published content, whatever other trees did meanwhile: no mismatch is forgotten
\* and no sum is compared with the hash of another file.  (Files that were missing
\* at the end of the list are not noticed, see AcceptedComplete.)
AcceptedVerified ==
    [][\A t \in Tree : t \notin cookie /\ t \in cookie' /\ 1 \notin nohash =>
          \E n \in 1..Last : \A f \in 1..Last :
              sums[t].read[f] = IF f <= n THEN "good" ELSE "none"]_vars

\* A tree alone: whatever downloads and invocations failed, a .checksum_done that
\* is newer than a distfile vouches for it, unless its hash has been waived.
CookieVouches ==
    nohash = {} => \A t \in cookie, f \in 1..Last :
        <<t, f>> \notin newer => dl[f] \in {"none", "good"}

\* A tree alone: .extract_done vouches for all of the published sources, though
\* the status of the extraction is that of the last distfile only.
ExtractedGood ==
    nohash = {} => \A t \in Tree : src[t] \in {"none", "good"}

\* docs: PKG_HASH is used to check if a download of a package is complete.
AcceptedComplete ==
    [][\A t \in Tree : t \notin cookie /\ t \in cookie' /\ 1 \notin nohash =>
          \A f \in 1..Last : sums[t].read[f] = "good"]_vars

\* Once faults stop, a user who extracts, and refetches when that fails, gets the
\* sources: no partial file, stale .nohash or leftover clone is a trap.
EventuallyExtracted ==
    \A t \in Tree : []<>(last[t] = "ok" /\ src[t] = "good")

\* The user gives a tree's make a goal again once it has failed: refetch, then extract.
Fairness ==
    \A t \in Tree : /\ WF_vars(Make(t))
                    /\ SF_vars(Start(t, "refetch")) /\ SF_vars(Start(t, "extract"))

FairSpec == Spec /\ Fairness
=============================================================================
