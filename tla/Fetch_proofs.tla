---------------------------- MODULE Fetch_proofs ----------------------------
(***************************************************************************)
(* Proofs about Fetch, for every number of distfiles, sites and faults.    *)
(* What concerns one recipe holds for every set of trees that share the    *)
(* download directory; that cookies vouch for the distfiles holds for a    *)
(* tree that has the directory to itself (Alone).                          *)
(***************************************************************************)
EXTENDS Fetch, TLAPS

\* One OpenADK tree with a download directory of its own.
Alone == \A t, u \in Tree : t = u

-----------------------------------------------------------------------------
(* The inductive invariant, for any number of trees.                       *)

\* Where a recipe stands: it deals with a distfile of the list and a site of the list.
Standing(t) ==
    /\ pc[t] \in {"site", "get", "write", "backup", "fill", "arrived", "clone", "pack",
                 "packed"} => at[t] <= Last
    /\ pc[t] \in {"get", "write"} => site[t] <= NSites
    /\ pc[t] \in {"idle", "remove"} => at[t] = 1

\* The checksum loop: the sums it has read belong to the files it has passed; OK = 1
\* means that they are the published ones of the first files, without a gap.
SumsSound(t) ==
    /\ sums[t].count < at[t] /\ sums[t].count <= Last
    /\ \A f \in File : f >= at[t] => sums[t].read[f] = "none"
    /\ sums[t].ok = "n" => sums[t].count = 0
    /\ sums[t].ok \in {"n", "1"} =>
         \A f \in File : sums[t].read[f] = IF f <= sums[t].count THEN "good" ELSE "none"
    /\ sums[t].ok = "1" => sums[t].count >= 1

IInv == TypeOK /\ \A t \in Tree : Standing(t) /\ SumsSound(t)

(* And for a tree alone: nobody disturbs its recipes.                      *)

Fetching == {"file", "site", "get", "write", "backup", "fill", "arrived", "clone", "pack", "packed"}

\* What make knows of the distfiles it has considered, the checksum loop of the sums
\* it has read, and the extraction of what it unpacks.
Considered(t) ==
    pc[t] \in Fetching /\ ~redo[t] =>
        \A f \in 1..Last : f < at[t] => dl[f] # "none" /\ <<t, f>> \notin newer
Summed(t) ==
    pc[t] = "sum" => \A f \in 1..Last : f < at[t] => sums[t].read[f] = dl[f]
Unpacking(t) ==
    pc[t] = "extract" =>
        /\ nohash = {} => (\A f \in 1..Last : dl[f] = "good") \/ dl[Last] = "none"
        /\ (\A f \in 1..Last : dl[f] = "good") => got[t].part = "good"
        /\ at[t] > Last => (got[t].failed <=> dl[Last] \in {"none", "bad"})

AInv ==
    /\ \A t \in Tree : Considered(t) /\ Summed(t) /\ Unpacking(t)
    /\ CookieVouches /\ ExtractedGood

-----------------------------------------------------------------------------
(* Every step keeps the invariant. *)

Step == {"idle", "remove", "file", "site", "get", "write", "backup", "fill", "arrived", "clone",
         "pack", "packed", "sum", "extract"}
Sums == [ok : {"n", "0", "1"}, count : 0..NFiles, read : [File -> Content]]
Got  == [part : Content, failed : BOOLEAN]

LEMMA LastInRange == ASSUME TypeOK PROVE Last \in 1..NFiles /\ 1..Last \subseteq File
  BY FetchBounds DEF TypeOK, Last, File

LEMMA Typed ==
    /\ {"none", "bad", "wrong", "packed", "good"} \subseteq Content
    /\ 1 \in 1..NFiles + 1 /\ 1 \in 1..NSites + 1 /\ 1 \in File
    /\ NoSums \in Sums /\ NoGot \in Got
  BY FetchBounds DEF Content, File, NoSums, NoGot, Sums, Got

\* The distfile and the site a recipe deals with, and the next ones.
LEMMA InRange ==
  ASSUME TypeOK, NEW t \in Tree, Standing(t)
  PROVE  /\ at[t] \in 1..NFiles + 1
         /\ pc[t] \in {"site", "get", "write", "backup", "fill", "arrived", "clone", "pack",
                 "packed"} => at[t] <= Last
         /\ at[t] <= Last => at[t] \in File /\ at[t] + 1 \in 1..NFiles + 1
         /\ pc[t] \in {"get", "write"} => site[t] + 1 \in 1..NSites + 1
<1>1. at[t] \in 1..NFiles + 1 /\ site[t] \in 1..NSites + 1
  BY DEF TypeOK
<1>2. NFiles \in Nat /\ NSites \in Nat
  BY FetchBounds
<1> QED
  BY <1>1, <1>2, LastInRange DEF Standing, File

LEMMA ForgetType ==
  ASSUME TypeOK, NEW t \in Tree, Forget(t)
  PROVE  /\ at' \in [Tree -> 1..NFiles + 1] /\ site' \in [Tree -> 1..NSites + 1]
         /\ redo' \in [Tree -> BOOLEAN]
         /\ sums' \in [Tree -> Sums] /\ got' \in [Tree -> Got]
  BY Typed DEF Forget, TypeOK, Sums, Got

LEMMA FetchedType ==
  ASSUME TypeOK, NEW t \in Tree, Standing(t), Fetched(t), at[t] <= Last
  PROVE  /\ pc' \in [Tree -> Step] /\ at' \in [Tree -> 1..NFiles + 1]
         /\ site' \in [Tree -> 1..NSites + 1] /\ redo' \in [Tree -> BOOLEAN]
  BY Typed, InRange DEF Fetched, GoTo, TypeOK, Step

LEMMA RenewedType ==
  ASSUME TypeOK, NEW f \in File, Renewed(f)
  PROVE  newer' \subseteq Tree \X File
  BY DEF TypeOK, Renewed

LEMMA WrittenType ==
  ASSUME TypeOK, NEW t \in Tree, NEW f \in File, NEW c \in Content, Written(t, f, c)
  PROVE  /\ dl' \in [File -> Content] /\ writer' \in [File -> Tree \union {Nobody}]
         /\ newer' \subseteq Tree \X File
  BY RenewedType DEF TypeOK, Written

\* A distfile gets a new content.
LEMMA PutType ==
  ASSUME TypeOK, NEW f \in File, NEW c \in Content, dl' = [dl EXCEPT ![f] = c]
  PROVE  dl' \in [File -> Content]
  BY DEF TypeOK

LEMMA FaultType == ASSUME TypeOK, NEW k, Fault(k) PROVE faults' \in 0..MaxFaults
  BY FetchBounds DEF TypeOK, Fault

LEMMA TypeStep ==
  ASSUME IInv, [Next]_vars
  PROVE  TypeOK'
<1> USE DEF Step, Sums, Got
<1> TypeOK /\ \A t \in Tree : Standing(t) /\ SumsSound(t)
  BY DEF IInv
<1>1. ASSUME NEW t \in Tree, NEW g \in {"extract", "refetch"}, Start(t, g) PROVE TypeOK'
  BY <1>1 DEF TypeOK, Start, GoTo, shared
<1>2. ASSUME NEW t \in Tree, RmDistfiles(t) PROVE TypeOK'
  BY <1>2, Typed DEF TypeOK, RmDistfiles, GoTo
<1>3. ASSUME NEW t \in Tree, Consider(t) PROVE TypeOK'
  BY <1>3, InRange DEF TypeOK, Consider, GoTo, shared
<1>4. ASSUME NEW t \in Tree, Proceed(t) PROVE TypeOK'
  <2>1. Forget(t)
    BY <1>4 DEF Proceed, End
  <2>2. pc' \in [Tree -> Step] /\ last' \in [Tree -> {"none", "ok", "fail"}]
    BY <1>4 DEF TypeOK, Proceed, End, GoTo
  <2>3. cookie' \subseteq Tree
    BY <1>4 DEF TypeOK, Proceed
  <2>4. src' = src \/ src' = [src EXCEPT ![t] = "none"]
    BY <1>4 DEF Proceed
  <2>5. src' \in [Tree -> Content]
    BY <2>4, Typed DEF TypeOK
  <2> QED
    BY <1>4, <2>1, <2>2, <2>3, <2>5, ForgetType DEF TypeOK, Proceed, shared
<1>5. ASSUME NEW t \in Tree, RmPartial(t) PROVE TypeOK'
  BY <1>5, Typed, InRange DEF TypeOK, RmPartial, GoTo
<1>6. ASSUME NEW t \in Tree, NoSiteLeft(t) PROVE TypeOK'
  BY <1>6, InRange, FetchedType DEF TypeOK, NoSiteLeft, shared
<1>7. ASSUME NEW t \in Tree, Get(t) PROVE TypeOK'
  <2>1. at[t] \in File /\ site[t] + 1 \in 1..NSites + 1
    BY <1>7, InRange DEF Get
  <2>2. newer' \subseteq Tree \X File
    BY <1>7, <2>1, RenewedType DEF Get, TypeOK
  <2>3. faults' \in 0..MaxFaults
    BY <1>7, FaultType DEF Get, TypeOK
  <2>4. dl' \in [File -> Content] /\ writer' \in [File -> Tree \union {Nobody}]
    <3>1. \/ dl' = dl /\ writer' = writer
          \/ dl' = [dl EXCEPT ![at[t]] = "bad"] /\ writer' = [writer EXCEPT ![at[t]] = t]
      BY <1>7 DEF Get
    <3>2. writer' \in [File -> Tree \union {Nobody}]
      BY <2>1, <3>1 DEF TypeOK
    <3>3. dl' \in [File -> Content]
      BY <2>1, <3>1, Typed, PutType DEF TypeOK
    <3> QED
      BY <3>2, <3>3
  <2>5. pc' \in [Tree -> Step] /\ site' \in [Tree -> 1..NSites + 1]
    BY <1>7, <2>1 DEF TypeOK, Get, GoTo, NextSite
  <2> QED
    BY <1>7, <2>2, <2>3, <2>4, <2>5 DEF TypeOK, Get
<1>8. ASSUME NEW t \in Tree, Write(t) PROVE TypeOK'
  <2>1. at[t] \in File /\ at[t] <= Last /\ site[t] + 1 \in 1..NSites + 1
    BY <1>8, InRange DEF Write
  <2>2. /\ dl' \in [File -> Content] /\ writer' \in [File -> Tree \union {Nobody}]
        /\ newer' \subseteq Tree \X File
    BY <1>8, <2>1, Typed, WrittenType DEF Write
  <2>3. faults' \in 0..MaxFaults
    BY <1>8, FaultType DEF Write, TypeOK
  <2>4. CASE Fetched(t)
    BY <1>8, <2>1, <2>2, <2>3, <2>4, FetchedType DEF TypeOK, Write
  <2>5. CASE NextSite(t) /\ UNCHANGED <<at, redo>>
    BY <1>8, <2>1, <2>2, <2>3, <2>5 DEF TypeOK, Write, NextSite, GoTo
  <2> QED
    BY <1>8, <2>4, <2>5 DEF Write
<1>9. ASSUME NEW t \in Tree, Backup(t) \/ Fill(t) \/ Arrived(t) PROVE TypeOK'
  <2>1. at[t] \in File /\ at[t] <= Last
    BY <1>9, InRange DEF Backup, Fill, Arrived
  <2>2. CASE Backup(t)
    <3>1. newer' \subseteq Tree \X File
      BY <2>1, <2>2, RenewedType DEF Backup, TypeOK
    <3>2. \/ dl' = dl /\ writer' = writer
          \/ dl' = [dl EXCEPT ![at[t]] = "bad"] /\ writer' = [writer EXCEPT ![at[t]] = t]
      BY <2>2 DEF Backup
    <3>3. writer' \in [File -> Tree \union {Nobody}]
      BY <2>1, <3>2 DEF TypeOK
    <3>4. dl' \in [File -> Content]
      BY <2>1, <3>2, Typed, PutType DEF TypeOK
    <3>5. pc' \in [Tree -> Step]
      <4>1. \E p \in {"fill", "arrived", "clone"} : GoTo(t, p)
        BY <2>2 DEF Backup
      <4> QED
        BY <4>1 DEF GoTo, TypeOK
    <3> QED
      BY <2>2, <3>1, <3>3, <3>4, <3>5 DEF TypeOK, Backup
  <2>3. CASE Fill(t)
    <3>1. /\ dl' \in [File -> Content] /\ writer' \in [File -> Tree \union {Nobody}]
          /\ newer' \subseteq Tree \X File
      BY <2>1, <2>3, Typed, WrittenType DEF Fill
    <3>2. faults' \in 0..MaxFaults
      BY <2>3, FaultType DEF Fill, TypeOK
    <3>3. pc' \in [Tree -> Step]
      <4>1. \E p \in {"fill", "arrived", "clone"} : GoTo(t, p)
        BY <2>3 DEF Fill
      <4> QED
        BY <4>1 DEF GoTo, TypeOK
    <3> QED
      BY <2>3, <3>1, <3>2, <3>3 DEF TypeOK, Fill
  <2>4. CASE Arrived(t)
    <3>1. nohash' \subseteq File
      BY <2>1, <2>4 DEF Arrived, TypeOK
    <3>2. CASE Fetched(t)
      BY <2>1, <2>4, <3>1, <3>2, FetchedType DEF TypeOK, Arrived
    <3>3. CASE GoTo(t, "clone") /\ UNCHANGED <<at, site, redo>>
      BY <2>4, <3>1, <3>3 DEF TypeOK, Arrived, GoTo
    <3> QED
      BY <2>4, <3>2, <3>3 DEF Arrived
  <2> QED
    BY <1>9, <2>2, <2>3, <2>4
<1>10. ASSUME NEW t \in Tree, Clone(t) PROVE TypeOK'
  <2>1. dir' \in Content /\ faults' \in 0..MaxFaults
    BY <1>10, Typed, FaultType DEF Clone, TypeOK
  <2>2. CASE GoTo(t, "pack") /\ UNCHANGED <<at, site, redo, sums, got, last>>
    BY <1>10, <2>1, <2>2 DEF TypeOK, Clone, GoTo
  <2>3. CASE End(t, "fail")
    BY <1>10, <2>1, <2>3, ForgetType DEF TypeOK, Clone, End, GoTo
  <2> QED
    BY <1>10, <2>2, <2>3 DEF Clone
<1>11. ASSUME NEW t \in Tree, Pack(t) \/ Packed(t) PROVE TypeOK'
  <2>1. at[t] \in File /\ at[t] <= Last
    BY <1>11, InRange DEF Pack, Packed
  <2>2. CASE Pack(t)
    <3>1. newer' \subseteq Tree \X File /\ faults' \in 0..MaxFaults
      BY <2>1, <2>2, RenewedType, FaultType DEF Pack, TypeOK
    <3>2. \E c \in {"packed", "wrong", "bad"} : dl' = [dl EXCEPT ![at[t]] = c]
      BY <2>2 DEF Pack
    <3>3. dl' \in [File -> Content]
      BY <2>1, <3>2, Typed, PutType
    <3>4. writer' \in [File -> Tree \union {Nobody}] /\ pc' \in [Tree -> Step]
      BY <2>1, <2>2 DEF Pack, GoTo, TypeOK
    <3> QED
      BY <2>2, <3>1, <3>3, <3>4 DEF TypeOK, Pack
  <2>3. CASE Packed(t)
    <3>1. nohash' \subseteq File /\ dir' \in Content /\ Fetched(t)
      BY <2>1, <2>3, Typed DEF Packed, TypeOK
    <3> QED
      BY <2>1, <2>3, <3>1, FetchedType DEF TypeOK, Packed
  <2> QED
    BY <1>11, <2>2, <2>3
<1>12. ASSUME NEW t \in Tree, Sum(t) PROVE TypeOK'
  <2>1. at[t] \in File /\ at[t] + 1 \in 1..NFiles + 1
    BY <1>12, InRange DEF Sum
  <2>2. sums[t].count + 1 \in 0..NFiles
    BY <2>1, FetchBounds DEF SumsSound, TypeOK, File
  <2>3. sums' \in [Tree -> Sums]
    <3>1. sums \in [Tree -> Sums] /\ dl[at[t]] \in Content
      BY <2>1 DEF TypeOK
    <3>2. [sums[t].read EXCEPT ![at[t]] = dl[at[t]]] \in [File -> Content]
      BY <2>1, <3>1
    <3>3. \A ok \in {"0", "1"} :
            [ok |-> ok, count |-> sums[t].count + 1,
             read |-> [sums[t].read EXCEPT ![at[t]] = dl[at[t]]]] \in Sums
      BY <2>2, <3>2
    <3>4. sums' = sums \/ \E ok \in {"0", "1"} : sums' = [sums EXCEPT ![t] =
            [ok |-> ok, count |-> sums[t].count + 1,
             read |-> [sums[t].read EXCEPT ![at[t]] = dl[at[t]]]]]
      BY <1>12 DEF Sum
    <3> HIDE DEF Sums
    <3> QED
      BY <3>1, <3>3, <3>4
  <2> QED
    BY <1>12, <2>1, <2>3 DEF TypeOK, Sum, shared
<1>13. ASSUME NEW t \in Tree, SumsDone(t) PROVE TypeOK'
  <2>1. Forget(t)
    BY <1>13 DEF SumsDone, Accept, End
  <2>2. pc' \in [Tree -> Step] /\ last' \in [Tree -> {"none", "ok", "fail"}]
    BY <1>13 DEF TypeOK, SumsDone, Accept, End, GoTo
  <2>3. cookie' \subseteq Tree /\ newer' \subseteq Tree \X File
    BY <1>13 DEF TypeOK, SumsDone, Accept
  <2> QED
    BY <1>13, <2>1, <2>2, <2>3, ForgetType DEF TypeOK, SumsDone
<1>14. ASSUME NEW t \in Tree, Waive(t) PROVE TypeOK'
  BY <1>14, ForgetType DEF TypeOK, Waive, Accept, GoTo
<1>15. ASSUME NEW t \in Tree, Unpack(t) PROVE TypeOK'
  <2>1. at[t] \in File /\ at[t] + 1 \in 1..NFiles + 1
    BY <1>15, InRange DEF Unpack
  <2>2. got' \in [Tree -> Got]
    BY <1>15, Typed DEF Unpack, TypeOK, Worse
  <2> QED
    BY <1>15, <2>1, <2>2 DEF TypeOK, Unpack, shared
<1>16. ASSUME NEW t \in Tree, Unpacked(t) PROVE TypeOK'
  <2>1. Forget(t)
    BY <1>16 DEF Unpacked, End
  <2>2. pc' \in [Tree -> Step] /\ last' \in [Tree -> {"none", "ok", "fail"}]
    BY <1>16 DEF TypeOK, Unpacked, End, GoTo
  <2>3. src' \in [Tree -> Content]
    <3>1. got[t].part \in Content
      BY DEF TypeOK
    <3>2. src' = src \/ src' = [src EXCEPT ![t] = got[t].part]
      BY <1>16 DEF Unpacked
    <3> QED
      BY <3>1, <3>2 DEF TypeOK
  <2> QED
    BY <1>16, <2>1, <2>2, <2>3, ForgetType DEF TypeOK, Unpacked, shared
<1>17. ASSUME NEW t \in Tree, Crash(t) PROVE TypeOK'
  <2>1. newer' \subseteq Tree \X File /\ dl' \in [File -> Content]
    <3>1. CASE /\ pc[t] = "pack" /\ dl' = [dl EXCEPT ![at[t]] = "bad"]
               /\ Renewed(at[t])
      <4>1. at[t] \in File
        BY <3>1, InRange
      <4> QED
        BY <3>1, <4>1, Typed, RenewedType DEF TypeOK
    <3>2. CASE UNCHANGED <<dl, newer>>
      BY <3>2 DEF TypeOK
    <3> QED
      BY <1>17, <3>1, <3>2 DEF Crash
  <2> QED
    BY <1>17, <2>1, ForgetType, FaultType DEF TypeOK, Crash, End, GoTo
<1>18. CASE UNCHANGED vars
  BY <1>18 DEF TypeOK, vars
<1> QED
  BY <1>1, <1>2, <1>3, <1>4, <1>5, <1>6, <1>7, <1>8, <1>9, <1>10, <1>11, <1>12, <1>13,
     <1>14, <1>15, <1>16, <1>17, <1>18 DEF Next, Make

-----------------------------------------------------------------------------
(* What a step of a tree leaves alone.                                     *)

\* The user, the make of the tree, or its death.
Acts(t) == (\E g \in {"extract", "refetch"} : Start(t, g)) \/ Make(t) \/ Crash(t)

\* Where the make of a tree stands is its own.
Kept(u) ==
    /\ scheme' = scheme
    /\ pc'[u] = pc[u] /\ at'[u] = at[u] /\ site'[u] = site[u]
    /\ redo'[u] = redo[u] /\ sums'[u] = sums[u] /\ got'[u] = got[u]

LEMMA SchemeKept == ASSUME NEW t \in Tree, Acts(t) PROVE scheme' = scheme /\ Last' = Last
<1>1. scheme' = scheme
  BY DEF Acts, Start, Make, RmDistfiles, Consider, Proceed, RmPartial, NoSiteLeft, Get,
     Write, Backup, Fill, Arrived, Clone, Pack, Packed, Sum, SumsDone, Waive, Unpack, Unpacked, Crash
<1> QED
  BY <1>1 DEF Last

LEMMA OthersKept ==
  ASSUME TypeOK, NEW t \in Tree, NEW u \in Tree, u # t, Acts(t)
  PROVE  Kept(u)
<1>1. scheme' = scheme
  BY SchemeKept
<1>2. ASSUME NEW g, Start(t, g) PROVE Kept(u)
  BY <1>1, <1>2 DEF TypeOK, Kept, Start, GoTo, shared
<1>3. CASE RmDistfiles(t)
  BY <1>1, <1>3 DEF TypeOK, Kept, RmDistfiles, GoTo
<1>4. CASE Consider(t)
  BY <1>1, <1>4 DEF TypeOK, Kept, Consider, GoTo, shared
<1>5. CASE Proceed(t)
  BY <1>1, <1>5 DEF TypeOK, Kept, Proceed, GoTo, End, Forget, shared
<1>6. CASE RmPartial(t)
  BY <1>1, <1>6 DEF TypeOK, Kept, RmPartial, GoTo
<1>7. CASE NoSiteLeft(t)
  BY <1>1, <1>7 DEF TypeOK, Kept, NoSiteLeft, Fetched, GoTo, shared
<1>8. CASE Get(t)
  BY <1>1, <1>8 DEF TypeOK, Kept, Get, GoTo, NextSite
<1>9. CASE Write(t)
  BY <1>1, <1>9 DEF TypeOK, Kept, Write, Fetched, NextSite, GoTo
<1>10. CASE Backup(t) \/ Fill(t) \/ Arrived(t)
  BY <1>1, <1>10 DEF TypeOK, Kept, Backup, Fill, Arrived, Fetched, GoTo
<1>11. CASE Clone(t)
  BY <1>1, <1>11 DEF TypeOK, Kept, Clone, GoTo, End, Forget
<1>12. CASE Pack(t) \/ Packed(t)
  BY <1>1, <1>12 DEF TypeOK, Kept, Pack, Packed, Fetched, GoTo
<1>13. CASE Sum(t)
  BY <1>1, <1>13 DEF TypeOK, Kept, Sum, shared
<1>14. CASE SumsDone(t)
  BY <1>1, <1>14 DEF TypeOK, Kept, SumsDone, Accept, End, GoTo, Forget
<1>15. CASE Waive(t)
  BY <1>1, <1>15 DEF TypeOK, Kept, Waive, Accept, GoTo, Forget
<1>16. CASE Unpack(t)
  BY <1>1, <1>16 DEF TypeOK, Kept, Unpack, shared
<1>17. CASE Unpacked(t)
  BY <1>1, <1>17 DEF TypeOK, Kept, Unpacked, End, GoTo, Forget, shared
<1>18. CASE Crash(t)
  BY <1>1, <1>18 DEF TypeOK, Kept, Crash, End, GoTo, Forget
<1> QED
  BY <1>2, <1>3, <1>4, <1>5, <1>6, <1>7, <1>8, <1>9, <1>10, <1>11, <1>12, <1>13, <1>14,
     <1>15, <1>16, <1>17, <1>18 DEF Acts, Make

-----------------------------------------------------------------------------
(* Where the make of a tree stands after its own step.                     *)

LEMMA Forgotten ==
  ASSUME TypeOK, NEW t \in Tree, Forget(t)
  PROVE  /\ at'[t] = 1 /\ site'[t] = 1 /\ redo'[t] = FALSE
         /\ sums'[t] = NoSums /\ got'[t] = NoGot
  BY DEF TypeOK, Forget

LEMMA StandingStep ==
  ASSUME TypeOK, NEW t \in Tree, Standing(t), Acts(t)
  PROVE  Standing(t)'
<1>1. Last' = Last /\ 1 <= Last
  BY SchemeKept, LastInRange, FetchBounds
<1>2. NSites \in Nat \ {0} /\ site[t] \in Nat /\ pc \in [Tree -> Step] /\ at \in [Tree -> Nat]
  BY FetchBounds DEF TypeOK, Step
<1>3. ASSUME NEW g, Start(t, g) PROVE Standing(t)'
  BY <1>1, <1>2, <1>3 DEF Standing, Start, GoTo
<1>4. CASE RmDistfiles(t)
  BY <1>1, <1>2, <1>4 DEF Standing, RmDistfiles, GoTo
<1>5. CASE Consider(t)
  BY <1>1, <1>2, <1>5 DEF Standing, Consider, GoTo
<1>6. CASE Proceed(t)
  BY <1>1, <1>2, <1>6, Forgotten DEF Standing, Proceed, GoTo, End
<1>7. CASE RmPartial(t)
  BY <1>1, <1>2, <1>7 DEF Standing, RmPartial, GoTo
<1>8. CASE NoSiteLeft(t)
  BY <1>1, <1>2, <1>8 DEF Standing, NoSiteLeft, Fetched, GoTo, TypeOK
<1>9. CASE Get(t)
  BY <1>1, <1>2, <1>9 DEF Standing, Get, GoTo, NextSite, TypeOK
<1>10. CASE Write(t)
  BY <1>1, <1>2, <1>10 DEF Standing, Write, Fetched, NextSite, GoTo, TypeOK
<1>11. CASE Backup(t) \/ Fill(t) \/ Arrived(t)
  BY <1>1, <1>2, <1>11 DEF Standing, Backup, Fill, Arrived, Fetched, GoTo, TypeOK
<1>12. CASE Clone(t)
  BY <1>1, <1>2, <1>12, Forgotten DEF Standing, Clone, GoTo, End
<1>13. CASE Pack(t) \/ Packed(t)
  BY <1>1, <1>2, <1>13 DEF Standing, Pack, Packed, Fetched, GoTo, TypeOK
<1>14. CASE Sum(t)
  BY <1>1, <1>2, <1>14 DEF Standing, Sum
<1>15. CASE SumsDone(t)
  BY <1>1, <1>2, <1>15, Forgotten DEF Standing, SumsDone, Accept, End, GoTo
<1>16. CASE Waive(t)
  BY <1>1, <1>2, <1>16, Forgotten DEF Standing, Waive, Accept, GoTo
<1>17. CASE Unpack(t)
  BY <1>1, <1>2, <1>17 DEF Standing, Unpack
<1>18. CASE Unpacked(t)
  BY <1>1, <1>2, <1>18, Forgotten DEF Standing, Unpacked, End, GoTo
<1>19. CASE Crash(t)
  BY <1>1, <1>2, <1>19, Forgotten DEF Standing, Crash, End, GoTo
<1> QED
  BY <1>3, <1>4, <1>5, <1>6, <1>7, <1>8, <1>9, <1>10, <1>11, <1>12, <1>13, <1>14, <1>15,
     <1>16, <1>17, <1>18, <1>19 DEF Acts, Make

\* A loop that has not been entered, and one that goes on without reading a sum.
LEMMA SumsFresh ==
  ASSUME TypeOK, NEW t \in Tree, at'[t] = 1, sums'[t] = NoSums, Last' = Last
  PROVE  SumsSound(t)'
<1>1. Last \in Nat /\ \A f \in File : f \in Nat /\ f >= 1
  BY LastInRange DEF File
<1> QED
  BY <1>1 DEF SumsSound, NoSums

LEMMA SumsCarried ==
  ASSUME TypeOK, NEW t \in Tree, SumsSound(t), sums'[t] = sums[t], Last' = Last,
         at'[t] \in {at[t], at[t] + 1}
  PROVE  SumsSound(t)'
<1>1. at[t] \in Nat /\ sums[t].count \in Nat /\ File \subseteq Nat
  BY DEF TypeOK, File
<1> QED
  BY <1>1 DEF SumsSound

\* One turn of the checksum loop that reads a sum.
LEMMA SumRead ==
  ASSUME TypeOK, NEW t \in Tree, SumsSound(t), Sum(t), dl[at[t]] # "none"
  PROVE  SumsSound(t)'
<1> DEFINE k == at[t]
           s == sums[t]
           r == [s.read EXCEPT ![k] = dl[k]]
<1>0. Last' = Last /\ k <= Last /\ k \in 1..NFiles + 1
  BY SchemeKept DEF Sum, Acts, Make, TypeOK
<1>1. Last' = Last /\ k <= Last /\ k \in File
  BY <1>0, LastInRange, FetchBounds DEF File
<1>2. s.count \in Nat /\ s.ok \in {"n", "0", "1"} /\ File \subseteq Nat /\ k \in Nat /\ Last \in Nat
  BY LastInRange DEF TypeOK, File
<1>3. s.read \in [File -> Content]
  BY DEF TypeOK
<1>4. at'[t] = k + 1
  BY DEF Sum, TypeOK
<1>5. sums'[t] = [ok |-> IF (dl[k] = "good" /\ s.count + 1 = k) /\ s.ok # "0" THEN "1" ELSE "0",
                  count |-> s.count + 1, read |-> r]
  BY DEF Sum, TypeOK
<1>6. /\ sums'[t].count = s.count + 1 /\ sums'[t].read = r
      /\ sums'[t].ok \in {"0", "1"}
      /\ sums'[t].ok = "1" => dl[k] = "good" /\ s.count + 1 = k /\ s.ok \in {"n", "1"}
  BY <1>2, <1>5
<1>7. s.count < k /\ (\A f \in File : f >= k => s.read[f] = "none")
  BY DEF SumsSound
<1>8. s.ok \in {"n", "1"} => \A f \in File : s.read[f] = IF f <= s.count THEN "good" ELSE "none"
  BY DEF SumsSound
<1>9. \A f \in File : r[f] = IF f = k THEN dl[k] ELSE s.read[f]
  BY <1>1, <1>3
<1> HIDE DEF r, s, k
<1>10. sums'[t].ok = "1" => \A f \in File : r[f] = IF f <= s.count + 1 THEN "good" ELSE "none"
  <2> SUFFICES ASSUME sums'[t].ok = "1", NEW f \in File
               PROVE  r[f] = IF f <= s.count + 1 THEN "good" ELSE "none"
    OBVIOUS
  <2>1. dl[k] = "good" /\ s.count + 1 = k
    BY <1>6
  <2>2. s.read[f] = IF f <= s.count THEN "good" ELSE "none"
    BY <1>6, <1>8
  <2>3. f \in Nat /\ s.count \in Nat
    BY <1>2
  <2> QED
    BY <1>9, <2>1, <2>2, <2>3
<1>11. \A f \in File : f >= k + 1 => r[f] = "none"
  BY <1>2, <1>7, <1>9
<1>12. s.count + 1 < k + 1 /\ s.count + 1 <= Last /\ s.count + 1 >= 1
  BY <1>1, <1>2, <1>7
<1> QED
  BY <1>1, <1>4, <1>6, <1>10, <1>11, <1>12 DEF SumsSound

LEMMA SumsStep ==
  ASSUME TypeOK, NEW t \in Tree, SumsSound(t), Acts(t)
  PROVE  SumsSound(t)'
<1>1. Last' = Last
  BY SchemeKept
<1>2. \/ Forget(t)
      \/ sums'[t] = sums[t] /\ at'[t] \in {at[t], at[t] + 1}
      \/ Sum(t) /\ dl[at[t]] # "none"
  <2>1. ASSUME NEW g, Start(t, g) PROVE sums' = sums /\ at' = at
    BY <2>1 DEF Start
  <2>2. ASSUME RmDistfiles(t) PROVE sums' = sums /\ at'[t] \in {at[t], at[t] + 1}
    BY <2>2 DEF RmDistfiles, TypeOK
  <2>3. ASSUME Consider(t) PROVE sums' = sums /\ at'[t] \in {at[t], at[t] + 1}
    BY <2>3 DEF Consider, TypeOK
  <2>4. ASSUME Proceed(t) PROVE Forget(t)
    BY <2>4 DEF Proceed, End
  <2>5. ASSUME RmPartial(t) PROVE sums' = sums /\ at'[t] \in {at[t], at[t] + 1}
    BY <2>5 DEF RmPartial, TypeOK
  <2>6. ASSUME NoSiteLeft(t) PROVE sums' = sums /\ at'[t] \in {at[t], at[t] + 1}
    BY <2>6 DEF NoSiteLeft, Fetched, TypeOK
  <2>7. ASSUME Get(t) PROVE sums' = sums /\ at'[t] \in {at[t], at[t] + 1}
    BY <2>7 DEF Get, NextSite, TypeOK
  <2>8. ASSUME Write(t) PROVE sums' = sums /\ at'[t] \in {at[t], at[t] + 1}
    BY <2>8 DEF Write, Fetched, NextSite, TypeOK
  <2>9. ASSUME Backup(t) \/ Fill(t) \/ Arrived(t)
        PROVE  sums' = sums /\ at'[t] \in {at[t], at[t] + 1}
    BY <2>9 DEF Backup, Fill, Arrived, Fetched, TypeOK
  <2>10. ASSUME Clone(t) PROVE Forget(t) \/ (sums' = sums /\ at' = at)
    BY <2>10 DEF Clone, End
  <2>11. ASSUME Pack(t) \/ Packed(t) PROVE sums' = sums /\ at'[t] \in {at[t], at[t] + 1}
    BY <2>11 DEF Pack, Packed, Fetched, TypeOK
  <2>12. CASE Sum(t)
    BY <2>12 DEF Sum, TypeOK
  <2>13. ASSUME SumsDone(t) PROVE Forget(t)
    BY <2>13 DEF SumsDone, Accept, End
  <2>14. ASSUME Waive(t) PROVE Forget(t)
    BY <2>14 DEF Waive, Accept
  <2>15. ASSUME Unpack(t) PROVE sums' = sums /\ at'[t] \in {at[t], at[t] + 1}
    BY <2>15 DEF Unpack, TypeOK
  <2>16. ASSUME Unpacked(t) PROVE Forget(t)
    BY <2>16 DEF Unpacked, End
  <2>17. ASSUME Crash(t) PROVE Forget(t)
    BY <2>17 DEF Crash, End
  <2> QED
    BY <2>1, <2>2, <2>3, <2>4, <2>5, <2>6, <2>7, <2>8, <2>9, <2>10, <2>11, <2>12, <2>13,
       <2>14, <2>15, <2>16, <2>17 DEF Acts, Make
<1> QED
  BY <1>1, <1>2, Forgotten, SumsFresh, SumsCarried, SumRead

-----------------------------------------------------------------------------
(* The invariant, and what it says of every set of trees.                  *)

LEMMA InvInit == Init => IInv
<1> SUFFICES ASSUME Init PROVE IInv
  OBVIOUS
<1>1. TypeOK
  <2>1. /\ scheme \in Schemes /\ nohash \subseteq File /\ dir \in Content
        /\ cookie \subseteq Tree /\ newer \subseteq Tree \X File /\ faults \in 0..MaxFaults
    BY FetchBounds, Typed DEF Init
  <2>2. dl \in [File -> Content] /\ writer \in [File -> Tree \union {Nobody}]
    BY Typed DEF Init
  <2>3. /\ src \in [Tree -> Content] /\ goal \in [Tree -> {"extract", "refetch"}]
        /\ pc \in [Tree -> Step] /\ last \in [Tree -> {"none", "ok", "fail"}]
        /\ redo \in [Tree -> BOOLEAN]
    BY Typed DEF Init, Step
  <2>4. /\ at \in [Tree -> 1..NFiles + 1] /\ site \in [Tree -> 1..NSites + 1]
        /\ sums \in [Tree -> Sums] /\ got \in [Tree -> Got]
    BY Typed DEF Init
  <2> QED
    BY <2>1, <2>2, <2>3, <2>4 DEF TypeOK, Step, Sums, Got
<1>2. Last \in 1..NFiles
  BY <1>1, LastInRange
<1>3. ASSUME NEW t \in Tree PROVE Standing(t)
  BY <1>2 DEF Init, Standing
<1>4. ASSUME NEW t \in Tree PROVE SumsSound(t)
  <2>1. at[t] = 1 /\ sums[t] = NoSums
    BY DEF Init
  <2>2. \A f \in File : f \in Nat /\ f >= 1
    BY DEF File
  <2> QED
    BY <1>2, <2>1, <2>2 DEF SumsSound, NoSums
<1> QED
  BY <1>1, <1>3, <1>4 DEF IInv

LEMMA InvStep == IInv /\ [Next]_vars => IInv'
<1> SUFFICES ASSUME IInv, [Next]_vars PROVE IInv'
  OBVIOUS
<1>0. TypeOK /\ \A t \in Tree : Standing(t) /\ SumsSound(t)
  BY DEF IInv
<1>1. TypeOK'
  BY TypeStep
<1>2. CASE Next
  <2>1. PICK t \in Tree : Acts(t)
    BY <1>2 DEF Next, Acts
  <2>2. Standing(t)' /\ SumsSound(t)'
    BY <1>0, <2>1, StandingStep, SumsStep
  <2>3. ASSUME NEW u \in Tree, u # t PROVE Standing(u)' /\ SumsSound(u)'
    <3>1. Kept(u) /\ Last' = Last
      BY <1>0, <2>1, <2>3, OthersKept, SchemeKept
    <3>2. Standing(u) /\ SumsSound(u)
      BY <1>0
    <3> QED
      BY <3>1, <3>2 DEF Kept, Standing, SumsSound
  <2> QED
    BY <1>1, <2>2, <2>3 DEF IInv
<1>3. CASE UNCHANGED vars
  BY <1>0, <1>1, <1>3 DEF IInv, vars, Standing, SumsSound, Last
<1> QED
  BY <1>2, <1>3

\* However many trees fetch at once, IInv holds.
THEOREM FetchInvariant == Spec => []IInv
  BY InvInit, InvStep, PTL DEF Spec

\* Every variable keeps its type: no recipe runs past the lists of distfiles and
\* sites, and the checksum loop never counts more sums than there are distfiles.
THEOREM FetchTypeCorrect == Spec => []TypeOK
<1>1. IInv => TypeOK
  BY DEF IInv
<1> QED
  BY <1>1, FetchInvariant, PTL

\* The only steps that touch a .checksum_done.
LEMMA CookieTouched ==
  ASSUME NEW t \in Tree, NEW u \in Tree, Acts(u), t \notin cookie, t \in cookie'
  PROVE  t = u /\ ((SumsDone(t) /\ sums[t].ok = "1") \/ Waive(t))
<1>1. ASSUME NEW g, Start(u, g) PROVE cookie' = cookie
  BY <1>1 DEF Start
<1>2. ASSUME Proceed(u) PROVE t \notin cookie'
  BY <1>2 DEF Proceed
<1>3. ASSUME \/ RmDistfiles(u) \/ Consider(u) \/ RmPartial(u) \/ NoSiteLeft(u) \/ Get(u)
             \/ Write(u) \/ Backup(u) \/ Fill(u) \/ Arrived(u) \/ Clone(u) \/ Pack(u)
             \/ Packed(u) \/ Sum(u) \/ Unpack(u) \/ Unpacked(u) \/ Crash(u)
      PROVE  cookie' = cookie
  BY <1>3 DEF RmDistfiles, Consider, RmPartial, NoSiteLeft, Get, Write, Backup, Fill,
              Arrived, Clone, Pack, Packed, Sum, Unpack, Unpacked, Crash
<1>4. SumsDone(u) \/ Waive(u)
  BY <1>1, <1>2, <1>3 DEF Acts, Make
<1>5. ASSUME SumsDone(u) PROVE t = u /\ sums[u].ok = "1"
  BY <1>5 DEF SumsDone, Accept
<1>6. ASSUME Waive(u) PROVE t = u
  BY <1>6 DEF Waive, Accept
<1> QED
  BY <1>4, <1>5, <1>6

\* A .checksum_done comes only from sums that matched: the distfiles whose sums were
\* read are the first ones of the list, without a gap, and held the published
\* content when they were read, whatever other trees did meanwhile.
THEOREM FetchAcceptedVerified == Spec => AcceptedVerified
<1>1. ASSUME IInv, Next, NEW t \in Tree, t \notin cookie, t \in cookie', 1 \notin nohash
      PROVE  \E n \in 1..Last : \A f \in 1..Last :
                 sums[t].read[f] = IF f <= n THEN "good" ELSE "none"
  <2>1. PICK u \in Tree : Acts(u)
    BY <1>1 DEF Next, Acts
  <2>2. sums[t].ok = "1"
    BY <1>1, <2>1, CookieTouched DEF Waive
  <2>3. TypeOK /\ SumsSound(t)
    BY <1>1 DEF IInv
  <2>4. sums[t].count \in 1..Last
    <3>1. sums[t].count \in Nat /\ Last \in Nat
      BY <2>3, LastInRange DEF TypeOK
    <3> QED
      BY <2>2, <2>3, <3>1 DEF SumsSound
  <2>5. \A f \in 1..Last :
            sums[t].read[f] = IF f <= sums[t].count THEN "good" ELSE "none"
    BY <2>2, <2>3, LastInRange DEF SumsSound
  <2> QED
    BY <2>4, <2>5
<1>2. IInv /\ [Next]_vars =>
        [\A t \in Tree : t \notin cookie /\ t \in cookie' /\ 1 \notin nohash =>
           \E n \in 1..Last : \A f \in 1..Last :
              sums[t].read[f] = IF f <= n THEN "good" ELSE "none"]_vars
  BY <1>1
<1> QED
  BY <1>2, FetchInvariant, PTL DEF Spec, AcceptedVerified

-----------------------------------------------------------------------------
(* What a step does to the download directory.                             *)

\* Whoever puts something into a distfile makes it newer than every .checksum_done.
Renews == \A f \in File : dl'[f] \in {dl[f], "none"} \/ \A u \in Tree : <<u, f>> \in newer'

LEMMA PutRenews ==
  ASSUME TypeOK, NEW f \in File, NEW c, dl' = [dl EXCEPT ![f] = c], Renewed(f)
  PROVE  Renews /\ newer \subseteq newer'
<1>1. \A e \in File : e # f => dl'[e] = dl[e]
  BY DEF TypeOK
<1>2. \A u \in Tree : <<u, f>> \in newer'
  BY DEF Renewed
<1>3. newer \subseteq newer'
  BY DEF Renewed
<1> QED
  BY <1>1, <1>2, <1>3 DEF Renews

LEMMA RemoveRenews ==
  ASSUME TypeOK, NEW f \in File, dl' = [dl EXCEPT ![f] = "none"]
  PROVE  Renews
  BY DEF TypeOK, Renews

LEMMA SameRenews == ASSUME dl' = dl PROVE Renews
  BY DEF Renews

LEMMA WrittenRenews ==
  ASSUME TypeOK, NEW t \in Tree, NEW f \in File, NEW c, Written(t, f, c)
  PROVE  Renews /\ newer \subseteq newer'
  BY PutRenews, SameRenews DEF Written

\* .nohash files stay, new contents are newer than the cookies, and only the touching
\* of a cookie makes a distfile older again.
LEMMA SharedStep ==
  ASSUME TypeOK, NEW t \in Tree, Standing(t), Acts(t)
  PROVE  /\ nohash \subseteq nohash'
         /\ Renews
         /\ newer \subseteq newer' \/ (SumsDone(t) /\ sums[t].ok = "1") \/ Waive(t)
<1>1. ASSUME NEW g, Start(t, g) PROVE dl' = dl /\ nohash' = nohash /\ newer' = newer
  BY <1>1 DEF Start, shared
<1>2. ASSUME \/ Consider(t) \/ Proceed(t) \/ NoSiteLeft(t) \/ Clone(t) \/ Sum(t)
             \/ Unpack(t) \/ Unpacked(t)
      PROVE  dl' = dl /\ nohash' = nohash /\ newer' = newer
  BY <1>2 DEF Consider, Proceed, NoSiteLeft, Clone, Sum, Unpack, Unpacked, shared
<1>3. ASSUME SumsDone(t) \/ Waive(t)
      PROVE  dl' = dl /\ nohash' = nohash /\ (newer' = newer \/ sums[t].ok = "1" \/ Waive(t))
  BY <1>3 DEF SumsDone, Waive
<1>4. ASSUME RmDistfiles(t) PROVE Renews /\ nohash' = nohash /\ newer' = newer
  <2>1. dl' = [f \in File |-> IF f <= Last THEN "none" ELSE dl[f]]
    BY <1>4 DEF RmDistfiles
  <2> QED
    BY <1>4, <2>1 DEF RmDistfiles, Renews
<1>5. ASSUME RmPartial(t) PROVE Renews /\ nohash' = nohash /\ newer' = newer
  BY <1>5, InRange, RemoveRenews DEF RmPartial
<1>6. ASSUME Get(t) PROVE Renews /\ nohash' = nohash /\ newer \subseteq newer'
  BY <1>6, InRange, PutRenews, SameRenews DEF Get
<1>7. ASSUME Write(t) PROVE Renews /\ nohash' = nohash /\ newer \subseteq newer'
  BY <1>7, InRange, WrittenRenews DEF Write
<1>8. ASSUME Backup(t) \/ Fill(t) PROVE Renews /\ nohash' = nohash /\ newer \subseteq newer'
  <2>1. at[t] \in File /\ nohash' = nohash
    BY <1>8, InRange DEF Backup, Fill
  <2>2. CASE Backup(t)
    BY <2>1, <2>2, PutRenews, SameRenews DEF Backup
  <2>3. CASE Fill(t)
    BY <2>1, <2>3, WrittenRenews DEF Fill
  <2> QED
    BY <1>8, <2>1, <2>2, <2>3
<1>9. ASSUME Pack(t) PROVE Renews /\ nohash' = nohash /\ newer \subseteq newer'
  <2>1. at[t] \in File
    BY <1>9, InRange DEF Pack
  <2>2. \E c : dl' = [dl EXCEPT ![at[t]] = c]
    BY <1>9 DEF Pack
  <2> QED
    BY <1>9, <2>1, <2>2, PutRenews DEF Pack
<1>11. ASSUME Arrived(t) \/ Packed(t) PROVE dl' = dl /\ nohash \subseteq nohash' /\ newer' = newer
  BY <1>11 DEF Arrived, Packed
<1>10. ASSUME Crash(t) PROVE Renews /\ nohash' = nohash /\ newer \subseteq newer'
  <2>1. CASE UNCHANGED <<dl, newer>>
    BY <1>10, <2>1, SameRenews DEF Crash
  <2>2. CASE /\ pc[t] = "pack" /\ dl' = [dl EXCEPT ![at[t]] = "bad"]
             /\ Renewed(at[t])
    BY <1>10, <2>2, InRange, PutRenews DEF Crash
  <2> QED
    BY <1>10, <2>1, <2>2 DEF Crash
<1> QED
  BY <1>1, <1>2, <1>3, <1>4, <1>5, <1>6, <1>7, <1>8, <1>9, <1>10, <1>11, SameRenews
  DEF Acts, Make

-----------------------------------------------------------------------------
(* A tree alone.                                                           *)

\* When the checksum loop ends with OK = 1, the distfiles are as published, up to
\* some at the end of the list that may be missing.
LEMMA AllRead ==
  ASSUME TypeOK, NEW t \in Tree, SumsSound(t), Summed(t), SumsDone(t), sums[t].ok = "1"
  PROVE  /\ \A f \in 1..Last : dl[f] \in {"none", "good"}
         /\ (\A f \in 1..Last : dl[f] = "good") \/ dl[Last] = "none"
<1>1. Last \in 1..Last /\ Last \in Nat /\ 1..Last \subseteq File /\ sums[t].count \in Nat
  BY LastInRange, FetchBounds DEF TypeOK
<1>2. \A f \in 1..Last : f < at[t]
  BY <1>1 DEF SumsDone, TypeOK
<1>3. \A f \in 1..Last : dl[f] = IF f <= sums[t].count THEN "good" ELSE "none"
  BY <1>1, <1>2 DEF Summed, SumsSound, SumsDone
<1>4. CASE Last <= sums[t].count
  BY <1>1, <1>3, <1>4
<1>5. CASE ~(Last <= sums[t].count)
  BY <1>1, <1>3, <1>5
<1> QED
  BY <1>4, <1>5

LEMMA VouchesStep ==
  ASSUME Alone, TypeOK, TypeOK', NEW t \in Tree, Standing(t), SumsSound(t), Summed(t),
         CookieVouches, Acts(t)
  PROVE  CookieVouches'
<1> SUFFICES ASSUME nohash' = {}, NEW u \in cookie', NEW f \in (1..Last)', <<u, f>> \notin newer'
             PROVE  dl'[f] \in {"none", "good"}
  BY DEF CookieVouches
<1>1. f \in 1..Last /\ f \in File
  BY SchemeKept, LastInRange
<1>2. /\ nohash = {} /\ Renews
      /\ newer \subseteq newer' \/ (SumsDone(t) /\ sums[t].ok = "1") \/ Waive(t)
  BY SharedStep
<1>3. u \in Tree
  BY DEF TypeOK
<1>4. u = t
  BY <1>3 DEF Alone
<1>5. CASE SumsDone(t) /\ sums[t].ok = "1"
  BY <1>1, <1>5, AllRead DEF SumsDone
<1>6. ~Waive(t)
  BY <1>2 DEF Waive
<1>7. CASE ~(SumsDone(t) /\ sums[t].ok = "1")
  <2>1. u \in cookie
    BY <1>3, <1>4, <1>6, <1>7, CookieTouched
  <2>2. newer \subseteq newer'
    BY <1>2, <1>6, <1>7
  <2> QED
    BY <1>1, <1>2, <1>3, <2>1, <2>2 DEF CookieVouches, Renews
<1> QED
  BY <1>5, <1>7

\* The recipe of a distfile leaves the distfiles before it alone.
Before(t) == \A f \in 1..Last : f < at[t] =>
                 dl'[f] = dl[f] /\ (<<t, f>> \in newer' => <<t, f>> \in newer)

LEMMA PutBefore ==
  ASSUME TypeOK, NEW t \in Tree, NEW c, dl' = [dl EXCEPT ![at[t]] = c],
         Renewed(at[t]) \/ UNCHANGED newer
  PROVE  Before(t)
<1>0. at[t] \in Nat
  BY DEF TypeOK
<1>1. \A f \in 1..Last : f < at[t] => f # at[t] /\ f \in File
  BY <1>0, LastInRange
<1>2. \A f \in 1..Last : f < at[t] => dl'[f] = dl[f]
  BY <1>1 DEF TypeOK
<1>3. ASSUME NEW f, f # at[t], <<t, f>> \in newer' PROVE <<t, f>> \in newer
  BY <1>3 DEF Renewed
<1> QED
  BY <1>1, <1>2, <1>3 DEF Before

LEMMA SameBefore == ASSUME NEW t, UNCHANGED <<dl, newer>> PROVE Before(t)
  BY DEF Before

LEMMA ConsideredStep ==
  ASSUME TypeOK, NEW t \in Tree, Standing(t), Considered(t), Acts(t)
  PROVE  Considered(t)'
<1> USE DEF Fetching
<1>0. Last' = Last /\ pc[t] \in Step /\ at[t] \in Nat
  BY SchemeKept DEF TypeOK, Step
<1>1. ASSUME pc[t] \in Fetching, at'[t] = at[t], redo'[t] = redo[t], Before(t)
      PROVE  Considered(t)'
  BY <1>0, <1>1 DEF Considered, Before
<1>2. ASSUME pc'[t] \notin Fetching \/ redo'[t] = TRUE \/ at'[t] = 1 PROVE Considered(t)'
  <2>1. \A f \in 1..Last : ~(f < 1)
    OBVIOUS
  <2> QED
    BY <1>0, <1>2, <2>1 DEF Considered
<1>3. ASSUME NEW g, Start(t, g) PROVE Considered(t)'
  BY <1>2, <1>3 DEF Start, Standing
<1>4. CASE RmDistfiles(t)
  BY <1>2, <1>4 DEF RmDistfiles, Standing
<1>5. CASE Consider(t)
  <2>1. CASE dl[at[t]] # "none"
    <3>1. dl' = dl /\ newer' = newer /\ at'[t] = at[t] + 1 /\ pc[t] = "file"
      BY <1>5, <2>1 DEF Consider, TypeOK, shared
    <3>2. redo'[t] = (redo[t] \/ <<t, at[t]>> \in newer)
      BY <1>5, <2>1 DEF Consider, TypeOK
    <3>3. \A f \in 1..Last : f < at[t] + 1 => f < at[t] \/ f = at[t]
      BY <1>0
    <3> QED
      BY <1>0, <2>1, <3>1, <3>2, <3>3 DEF Considered
  <2>2. CASE dl[at[t]] = "none"
    BY <1>1, <1>5, <2>2, SameBefore DEF Consider, shared
  <2> QED
    BY <2>1, <2>2
<1>6. CASE Proceed(t)
  BY <1>2, <1>6, Forgotten DEF Proceed, End
<1>7. CASE RmPartial(t)
  BY <1>1, <1>7, PutBefore DEF RmPartial
<1>8. ASSUME Fetched(t) PROVE Considered(t)'
  BY <1>2, <1>8 DEF Fetched, TypeOK
<1>9. CASE NoSiteLeft(t)
  BY <1>8, <1>9 DEF NoSiteLeft
<1>10. CASE Get(t)
  BY <1>1, <1>10, PutBefore, SameBefore DEF Get
<1>11. CASE Write(t)
  <2>1. Before(t) /\ pc[t] \in Fetching
    BY <1>11, PutBefore, SameBefore DEF Write, Written
  <2> QED
    BY <1>1, <1>8, <1>11, <2>1 DEF Write
<1>12. CASE Backup(t) \/ Fill(t) \/ Arrived(t)
  <2>1. CASE Backup(t)
    BY <1>1, <2>1, PutBefore, SameBefore DEF Backup
  <2>2. CASE Fill(t)
    <3>1. Before(t)
      BY <2>2, PutBefore, SameBefore DEF Fill, Written
    <3> QED
      BY <1>1, <2>2, <3>1 DEF Fill
  <2>3. CASE Arrived(t)
    BY <1>1, <1>8, <2>3, SameBefore DEF Arrived
  <2> QED
    BY <1>12, <2>1, <2>2, <2>3
<1>13. CASE Clone(t)
  BY <1>1, <1>2, <1>13, SameBefore, Forgotten DEF Clone, End
<1>14. CASE Pack(t) \/ Packed(t)
  <2>1. CASE Pack(t)
    <3>1. Before(t)
      BY <2>1, PutBefore DEF Pack
    <3> QED
      BY <1>1, <2>1, <3>1 DEF Pack
  <2>2. CASE Packed(t)
    BY <1>8, <2>2 DEF Packed
  <2> QED
    BY <1>14, <2>1, <2>2
<1>15. CASE Sum(t) \/ Unpack(t)
  BY <1>2, <1>15 DEF Sum, Unpack
<1>16. CASE SumsDone(t) \/ Waive(t) \/ Unpacked(t) \/ Crash(t)
  <2>1. Forget(t)
    BY <1>16 DEF SumsDone, Waive, Accept, Unpacked, Crash, End
  <2> QED
    BY <1>2, <2>1, Forgotten
<1> QED
  BY <1>3, <1>4, <1>5, <1>6, <1>7, <1>9, <1>10, <1>11, <1>12, <1>13, <1>14, <1>15, <1>16
  DEF Acts, Make

\* While sums are read or archives unpacked the distfiles rest.
LEMMA SummedStep ==
  ASSUME TypeOK, NEW t \in Tree, SumsSound(t), Summed(t), Acts(t)
  PROVE  Summed(t)'
<1>0. Last' = Last /\ pc[t] \in Step /\ at[t] \in Nat /\ 1..Last \subseteq File
  BY SchemeKept, LastInRange DEF TypeOK, Step
<1>1. ASSUME pc'[t] # "sum" \/ at'[t] = 1 PROVE Summed(t)'
  <2>1. \A f \in 1..Last : ~(f < 1)
    OBVIOUS
  <2> QED
    BY <1>0, <1>1, <2>1 DEF Summed
<1>2. CASE Sum(t)
  <2>1. dl' = dl /\ at'[t] = at[t] + 1 /\ pc[t] = "sum" /\ at[t] \in File
    BY <1>0, <1>2, LastInRange, FetchBounds DEF Sum, TypeOK, shared
  <2>2. \A f \in 1..Last : f < at[t] + 1 => f < at[t] \/ f = at[t]
    BY <1>0
  <2>3. \A f \in 1..Last : sums'[t].read[f] = IF f = at[t] THEN dl[f] ELSE sums[t].read[f]
    <3>1. CASE dl[at[t]] = "none"
      BY <1>0, <1>2, <2>1, <3>1 DEF Sum, SumsSound
    <3>2. CASE dl[at[t]] # "none"
      <4>1. sums'[t].read = [sums[t].read EXCEPT ![at[t]] = dl[at[t]]]
        BY <1>2, <3>2 DEF Sum, TypeOK
      <4> QED
        BY <1>0, <4>1 DEF TypeOK
    <3> QED
      BY <3>1, <3>2
  <2> QED
    BY <1>0, <2>1, <2>2, <2>3 DEF Summed
<1>3. ASSUME ~Sum(t) PROVE pc'[t] # "sum" \/ at'[t] = 1
  <2>0. pc \in [Tree -> Step]
    BY DEF TypeOK, Step
  <2>1. ASSUME NEW g, Start(t, g) PROVE pc'[t] # "sum"
    BY <2>0, <2>1 DEF Start, GoTo
  <2>2. ASSUME \/ RmDistfiles(t) \/ Consider(t) \/ RmPartial(t) \/ NoSiteLeft(t) \/ Get(t)
               \/ Write(t) \/ Backup(t) \/ Fill(t) \/ Arrived(t) \/ Pack(t) \/ Packed(t)
               \/ Unpack(t)
        PROVE  pc'[t] # "sum"
    BY <2>0, <2>2 DEF RmDistfiles, Consider, RmPartial, NoSiteLeft, Get, Write, Backup,
                 Fill, Arrived, Pack, Packed, Unpack, GoTo, NextSite, Fetched
  <2>3. CASE Proceed(t) \/ SumsDone(t) \/ Waive(t) \/ Unpacked(t) \/ Crash(t)
    BY <2>3, Forgotten DEF Proceed, SumsDone, Waive, Accept, Unpacked, Crash, End
  <2>4. CASE Clone(t)
    BY <2>0, <2>4, Forgotten DEF Clone, End, GoTo
  <2> QED
    BY <1>3, <2>1, <2>2, <2>3, <2>4 DEF Acts, Make
<1> QED
  BY <1>1, <1>2, <1>3

\* What unpacking a good distfile makes of good sources.
LEMMA WorseGood == Worse("good", "good") = "good"
  BY DEF Worse

LEMMA UnpackingStep ==
  ASSUME TypeOK, NEW t \in Tree, SumsSound(t), Considered(t), Summed(t), Unpacking(t),
         CookieVouches, Acts(t)
  PROVE  Unpacking(t)'
<1> DEFINE Sound == nohash = {} => (\A f \in 1..Last : dl[f] = "good") \/ dl[Last] = "none"
<1>0. Last' = Last /\ Last \in Nat /\ Last >= 1 /\ pc[t] \in Step /\ at[t] \in Nat
  BY SchemeKept, LastInRange DEF TypeOK, Step
<1>1. ASSUME Sound, dl' = dl, nohash' = nohash, Forget(t) PROVE Unpacking(t)'
  <2>1. at'[t] = 1 /\ got'[t] = NoGot
    BY <1>1, Forgotten
  <2>2. NoGot.part = "good"
    BY DEF NoGot
  <2> QED
    BY <1>0, <1>1, <2>1, <2>2 DEF Unpacking
<1>2. CASE Proceed(t)
  <2>1. CASE pc'[t] = "extract"
    <3>1. t \in cookie /\ ~redo[t] /\ pc[t] = "file" /\ at[t] > Last
      BY <1>2, <2>1 DEF Proceed, End, GoTo, TypeOK
    <3>2. \A f \in 1..Last : f < at[t]
      BY <1>0, <3>1
    <3>3. \A f \in 1..Last : dl[f] # "none" /\ <<t, f>> \notin newer
      BY <3>1, <3>2 DEF Considered, Fetching
    <3>4. Sound
      BY <3>1, <3>3 DEF CookieVouches
    <3>5. dl' = dl /\ nohash' = nohash /\ Forget(t)
      BY <1>2 DEF Proceed, End, shared
    <3> QED
      BY <1>1, <3>4, <3>5
  <2>2. CASE pc'[t] # "extract"
    BY <2>2 DEF Unpacking
  <2> QED
    BY <2>1, <2>2
<1>3. CASE SumsDone(t) /\ sums[t].ok = "1"
  <2>1. dl' = dl /\ nohash' = nohash /\ Forget(t)
    BY <1>3 DEF SumsDone, Accept, End
  <2>2. Sound
    BY <1>3, AllRead
  <2> QED
    BY <1>1, <2>1, <2>2
<1>4. CASE Waive(t)
  <2>1. dl' = dl /\ nohash' = nohash /\ Forget(t) /\ nohash # {}
    BY <1>4 DEF Waive, Accept
  <2> QED
    BY <1>1, <2>1
<1>5. CASE Unpack(t)
  <2>1. dl' = dl /\ nohash' = nohash /\ pc[t] = "extract" /\ at[t] <= Last /\ at'[t] = at[t] + 1
    BY <1>5 DEF Unpack, shared, TypeOK
  <2>2. Sound /\ ((\A f \in 1..Last : dl[f] = "good") => got[t].part = "good")
    BY <2>1 DEF Unpacking
  <2>3. got'[t] = [part |-> Worse(got[t].part, IF dl[at[t]] = "none" THEN "bad" ELSE dl[at[t]]),
                   failed |-> dl[at[t]] \in {"none", "bad"}]
    BY <1>5 DEF Unpack, TypeOK
  <2>4. at[t] \in 1..Last
    BY <1>0, <2>1 DEF TypeOK
  <2>5. (\A f \in 1..Last : dl[f] = "good") => got'[t].part = "good"
    BY <2>2, <2>3, <2>4, WorseGood
  <2>6. at'[t] > Last => at[t] = Last
    BY <1>0, <2>1
  <2>7. at'[t] > Last => (got'[t].failed <=> dl[Last] \in {"none", "bad"})
    <3>1. got'[t].failed = (dl[at[t]] \in {"none", "bad"})
      BY <2>3
    <3> QED
      BY <2>6, <3>1
  <2> HIDE DEF Sound
  <2> QED
    BY <1>0, <2>1, <2>2, <2>5, <2>7 DEF Unpacking, Sound
<1>6. ASSUME ~Proceed(t), ~(SumsDone(t) /\ sums[t].ok = "1"), ~Waive(t), ~Unpack(t)
      PROVE  pc'[t] # "extract"
  <2>0. pc \in [Tree -> Step]
    BY DEF TypeOK, Step
  <2>1. ASSUME NEW g, Start(t, g) PROVE pc'[t] # "extract"
    BY <2>0, <2>1 DEF Start, GoTo
  <2>2. ASSUME \/ RmDistfiles(t) \/ Consider(t) \/ RmPartial(t) \/ NoSiteLeft(t) \/ Get(t)
               \/ Write(t) \/ Backup(t) \/ Fill(t) \/ Arrived(t) \/ Pack(t) \/ Packed(t)
               \/ Sum(t)
        PROVE  pc'[t] # "extract"
    BY <2>0, <2>2 DEF RmDistfiles, Consider, RmPartial, NoSiteLeft, Get, Write, Backup,
                 Fill, Arrived, Pack, Packed, Sum, GoTo, NextSite, Fetched
  <2>3. ASSUME Clone(t) \/ Unpacked(t) \/ Crash(t) \/ (SumsDone(t) /\ sums[t].ok # "1")
        PROVE  pc'[t] # "extract"
    BY <2>0, <2>3 DEF Clone, Unpacked, Crash, SumsDone, End, GoTo
  <2> QED
    BY <1>6, <2>1, <2>2, <2>3 DEF Acts, Make
<1>7. ASSUME pc'[t] # "extract" PROVE Unpacking(t)'
  BY <1>7 DEF Unpacking
<1> QED
  BY <1>2, <1>3, <1>4, <1>5, <1>6, <1>7

LEMMA ExtractedStep ==
  ASSUME Alone, TypeOK, TypeOK', NEW t \in Tree, Standing(t), Unpacking(t), ExtractedGood, Acts(t)
  PROVE  ExtractedGood'
<1> SUFFICES ASSUME nohash' = {}, NEW u \in Tree PROVE src'[u] \in {"none", "good"}
  BY DEF ExtractedGood
<1>1. nohash = {} /\ u = t
  BY SharedStep DEF Alone
<1>2. src[t] \in {"none", "good"}
  BY <1>1 DEF ExtractedGood
<1>3. CASE Unpacked(t)
  <2>1. pc[t] = "extract" /\ at[t] > Last
    BY <1>3 DEF Unpacked
  <2>2. got[t].failed \/ got[t].part = "good"
    BY <1>1, <2>1 DEF Unpacking
  <2> QED
    BY <1>1, <1>2, <1>3, <2>2 DEF Unpacked, TypeOK
<1>4. CASE Proceed(t)
  <2>1. src' = src \/ src' = [src EXCEPT ![t] = "none"]
    BY <1>4 DEF Proceed
  <2> QED
    BY <1>1, <1>2, <2>1 DEF TypeOK
<1>5. ASSUME ~Unpacked(t), ~Proceed(t) PROVE src' = src
  BY <1>5 DEF Acts, Make, Start, RmDistfiles, Consider, RmPartial, NoSiteLeft, Get, Write,
              Backup, Fill, Arrived, Clone, Pack, Packed, Sum, SumsDone, Waive, Unpack, Crash
<1> QED
  BY <1>1, <1>2, <1>3, <1>4, <1>5

LEMMA AloneInit == Init => AInv
<1> SUFFICES ASSUME Init PROVE AInv
  OBVIOUS
<1>1. \A t \in Tree : pc[t] = "idle" /\ src[t] = "none"
  BY DEF Init
<1>2. cookie = {}
  BY DEF Init
<1> QED
  BY <1>1, <1>2 DEF AInv, Considered, Fetching, Summed, Unpacking, CookieVouches, ExtractedGood

LEMMA AloneStep == Alone /\ IInv /\ IInv' /\ AInv /\ [Next]_vars => AInv'
<1> SUFFICES ASSUME Alone, IInv, IInv', AInv, [Next]_vars PROVE AInv'
  OBVIOUS
<1>1. CASE Next
  <2>1. PICK t \in Tree : Acts(t)
    BY <1>1 DEF Next, Acts
  <2>2. TypeOK /\ TypeOK' /\ Standing(t) /\ SumsSound(t)
    BY DEF IInv
  <2>3. /\ Considered(t) /\ Summed(t) /\ Unpacking(t)
        /\ CookieVouches /\ ExtractedGood
    BY DEF AInv
  <2>4. CookieVouches' /\ ExtractedGood'
    BY <2>1, <2>2, <2>3, VouchesStep, ExtractedStep
  <2>5. Considered(t)' /\ Summed(t)' /\ Unpacking(t)'
    BY <2>1, <2>2, <2>3, ConsideredStep, SummedStep, UnpackingStep
  <2>6. \A u \in Tree : u = t
    BY DEF Alone
  <2>7. \A u \in Tree : Considered(u)' /\ Summed(u)' /\ Unpacking(u)'
    BY <2>5, <2>6
  <2> QED
    BY <2>4, <2>7 DEF AInv
<1>2. CASE UNCHANGED vars
  BY <1>2 DEF AInv, vars, Considered, Summed, Unpacking, CookieVouches, ExtractedGood, Last
<1> QED
  BY <1>1, <1>2

LEMMA AloneInvariant == ASSUME Alone PROVE Spec => []AInv
<1>1. IInv /\ IInv' /\ AInv /\ [Next]_vars => AInv'
  BY AloneStep
<1> QED
  BY <1>1, AloneInit, FetchInvariant, PTL DEF Spec

\* A tree alone: a .checksum_done that is newer than a distfile vouches for it, however
\* many distfiles and sites there are and whatever failed or crashed.
THEOREM FetchCookieVouches ==
  ASSUME Alone PROVE Spec => []CookieVouches
<1>1. AInv => CookieVouches
  BY DEF AInv
<1> QED
  BY <1>1, AloneInvariant, PTL

\* A tree alone: .extract_done vouches for all of the published sources, though the
\* status of the extraction is that of the last distfile only and the checksum loop
\* does not notice missing files at the end of the list.
THEOREM FetchExtractedGood ==
  ASSUME Alone PROVE Spec => []ExtractedGood
<1>1. AInv => ExtractedGood
  BY DEF AInv
<1> QED
  BY <1>1, AloneInvariant, PTL

=============================================================================
