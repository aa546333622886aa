------------------------ MODULE PluginInstallProofs ------------------------
(***************************************************************************)
(* The locks of acs-plugin-manager: for any number of processes, versions, *)
(* starts and kills, nobody deletes the directory of a version that is     *)
(* being executed, and the database is left with records of its type.      *)
(***************************************************************************)
EXTENDS PluginInstall, WellFoundedInduction, TLAPS

Ops == {"none", "online", "local", "file", "remove"}
Job == [op : Ops, version : Releases \cup {None}, fetched : Releases \cup {None},
        index : Ids \cup {None},
        old : [version : Releases \cup {None}, removed : BOOLEAN]]

\* The locals of a process agree with the step it is at: what it was asked for, what it is
\* about to execute or unpack, and the record in hand.
Agree(step, j) ==
    /\ step \notin {"idle", "panic"} => j.version \in Releases
    /\ step \in {"run", "running"} => j.fetched \in Releases
    /\ step \in {"drop", "forget", "lock", "uninstall", "mark"} => j.index # None
    /\ step \in {"unpack", "lock", "uninstall", "mark"} => j.old.version \in Releases
LocalInv == \A p \in Managers : Agree(stage[p], job[p])

\* A key that a process holds was given out.
KeysAreOld == \A p \in Managers : job[p].index < nextId

\* The plugin's lock: who removes is alone.
RemovesAlone == \A p, q \in Managers : p \in Removers /\ q \in Readers \cup Removers => p = q

\* The program that runs was there when it started, and is.
RunningIsThere == \A p \in Managers : stage[p] = "running" => dir[job[p].fetched] # None

InstallInv == PluginTypeOK /\ LocalInv /\ KeysAreOld /\ RemovesAlone /\ RunningIsThere

-----------------------------------------------------------------------------
\* The order of the numbers, as a relation, is well-founded.
\* A key that is free after keys were given out was free before, and is not the one given.
LEMMA KeysBeyond ==
    ASSUME NEW i \in Int, NEW m \in Int, NEW n \in Int, m <= n, i >= n
    PROVE  i >= m /\ (n = m + 1 => i # m)
OBVIOUS

LEMMA Ordered ==
    \E R : IsWellFoundedOn(R, Nat) /\ \A i, j \in Nat : (<<j, i>> \in R) <=> j < i
<1>1. \A i, j \in Nat : (<<j, i>> \in OpToRel(<, Nat)) <=> j < i
  BY Zenon DEF OpToRel
<1> QED
  BY <1>1, NatLessThanWellFounded, Zenon

\* Of the keys that are found the database answers with the first.
LEMMA FirstIsOne ==
    ASSUME NEW S \in SUBSET Nat
    PROVE  FirstOf(S) \in S \/ (S = {} /\ FirstOf(S) = None)
<1>1. CASE S = {}
  BY <1>1 DEF FirstOf
<1>2. CASE S # {}
  <2>1. PICK R : IsWellFoundedOn(R, Nat) /\ \A i, j \in Nat : (<<j, i>> \in R) <=> j < i
    BY Ordered
  <2>2. PICK i \in S : \A j \in S : ~(<<j, i>> \in R)
    BY <1>2, <2>1, WFMin
  <2>3. \A j \in S : i <= j
    <3> SUFFICES ASSUME NEW j \in S PROVE ~(j < i)
      OBVIOUS
    <3>1. ~(<<j, i>> \in R)
      BY <2>2
    <3> QED
      BY <2>1, <3>1, Zenon
  <2> QED
    BY <1>2, <2>3 DEF FirstOf
<1> QED
  BY <1>1, <1>2

LEMMA InstallBegins == InstallAssumption /\ PluginInit => InstallInv
<1> SUFFICES ASSUME InstallAssumption, PluginInit PROVE InstallInv
  OBVIOUS
<1>1. /\ records \in [Ids -> Record \cup {NoRecord}]
      /\ \A i \in Ids : i >= nextId => records[i] = NoRecord
      /\ nextId \in 1 .. MaxId + 1
  BY DEF PluginInit, InstallAssumption, Ids
<1>2. /\ dir \in [Releases -> {None, Partial} \cup Releases]
      /\ zip \in {None, Partial} \cup Releases
      /\ writers \subseteq Managers /\ torn \in BOOLEAN
  BY DEF PluginInit
<1>3. stage \in [Managers -> Steps]
  BY DEF PluginInit, Steps
<1>4. job \in [Managers -> Job]
  BY DEF PluginInit, NoJob, Job, Ops, NoRecord
<1>5. starts \in 0 .. MaxStarts /\ kills \in 0 .. MaxKills
  BY DEF PluginInit, InstallAssumption
<1>6. PluginTypeOK
  BY <1>1, <1>2, <1>3, <1>4, <1>5 DEF PluginTypeOK, Job, Ops
<1>7. LocalInv /\ KeysAreOld /\ RemovesAlone /\ RunningIsThere
  BY DEF PluginInit, NoJob, None, LocalInv, Agree, KeysAreOld, RemovesAlone, RunningIsThere,
     Removers,
     Removing
<1> QED
  BY <1>6, <1>7 DEF InstallInv

-----------------------------------------------------------------------------
(* Types: a step moves one process, and what is shared keeps its type. *)

DataTyped ==
    /\ records \in [Ids -> Record \cup {NoRecord}]
    /\ nextId \in 1 .. MaxId + 1
    /\ \A i \in Ids : i >= nextId => records[i] = NoRecord
    /\ dir \in [Releases -> {None, Partial} \cup Releases]
    /\ zip \in {None, Partial} \cup Releases
    /\ writers \subseteq Managers /\ torn \in BOOLEAN
    /\ starts \in 0 .. MaxStarts /\ kills \in 0 .. MaxKills

Moves(p) ==
    /\ stage' = [stage EXCEPT ![p] = stage'[p]]
    /\ job' = [job EXCEPT ![p] = job'[p]]
    /\ stage'[p] \in Steps /\ job'[p] \in Job
    /\ Agree(stage'[p], job'[p]) /\ job'[p].index < nextId'
    /\ nextId <= nextId'
    /\ stage[p] = "running" => stage'[p] # "running"

LEMMA Moved ==
    ASSUME InstallInv, NEW p \in Managers, Moves(p), DataTyped'
    PROVE  PluginTypeOK' /\ LocalInv' /\ KeysAreOld'
<1>1. /\ stage' \in [Managers -> Steps] /\ job' \in [Managers -> Job]
      /\ \A q \in Managers \ {p} : stage'[q] = stage[q] /\ job'[q] = job[q]
  BY DEF Moves, InstallInv, PluginTypeOK, Job, Ops
<1>2. \A q \in Managers : job[q].index \in Int
  BY DEF InstallInv, PluginTypeOK, Ids, None
<1>3. \A q \in Managers \ {p} : job'[q].index < nextId'
  BY <1>1, <1>2 DEF KeysAreOld, InstallInv, Moves, DataTyped, PluginTypeOK
<1>4. KeysAreOld'
  BY <1>3, <1>1 DEF KeysAreOld, Moves
<1>5. LocalInv'
  BY <1>1 DEF LocalInv, InstallInv, Moves
<1>6. PluginTypeOK'
  BY <1>1 DEF DataTyped, PluginTypeOK, Job, Ops
<1> QED
  BY <1>4, <1>5, <1>6

\* What is known of one process.
Known(p) ==
    /\ stage \in [Managers -> Steps] /\ job \in [Managers -> Job]
    /\ job[p] \in Job /\ Agree(stage[p], job[p]) /\ job[p].index < nextId
    /\ nextId \in Nat \ {0} /\ DataTyped

LEMMA Knows == ASSUME InstallAssumption, InstallInv, NEW p \in Managers PROVE Known(p)
<1>1. /\ stage \in [Managers -> Steps] /\ job \in [Managers -> Job] /\ job[p] \in Job
      /\ Agree(stage[p], job[p]) /\ DataTyped
  BY DEF InstallInv, PluginTypeOK, DataTyped, LocalInv, Job, Ops
<1>2. job[p].index < nextId /\ nextId \in Nat \ {0}
  BY DEF InstallInv, PluginTypeOK, KeysAreOld, InstallAssumption
<1> QED
  BY <1>1, <1>2 DEF Known

\* The keys that a look at the database returns.
LEMMA KeysFound ==
    ASSUME DataTyped, InstallAssumption
    PROVE  \A i \in {getInstalledPluginByName, getInstalledPluginNotRemovedByName} :
              /\ i \in Ids \cup {None} /\ i < nextId
              /\ i # None => records[i] \in Record
<1> DEFINE S == {i \in Ids : records[i] # NoRecord}
           T == {i \in Ids : records[i] # NoRecord /\ ~records[i].removed}
<1>1. nextId \in Nat \ {0} /\ \A i \in Ids : i \in Nat \ {0}
  BY DEF DataTyped, InstallAssumption, Ids
<1>2. \A i \in S : i < nextId /\ records[i] \in Record
  BY <1>1 DEF DataTyped
<1>3. /\ FirstOf(S) \in S \cup {None}
      /\ FirstOf(T) \in T \cup {None}
  BY <1>1, FirstIsOne
<1>4. FirstOf(S) \in S \cup {None} /\ FirstOf(T) \in S \cup {None}
  BY <1>3
<1>5. None < nextId
  BY <1>1 DEF None
<1> QED
  BY <1>2, <1>4, <1>5 DEF getInstalledPluginByName, getInstalledPluginNotRemovedByName

LEMMA Leaves ==
    ASSUME NEW p \in Managers, Known(p), Exits(p), UNCHANGED nextId
    PROVE  Moves(p)
<1>1. NoJob \in Job /\ NoJob.index = 0
  BY DEF NoJob, Job, Ops, NoRecord, None
<1>2. stage'[p] = "idle" /\ job'[p] = NoJob
  BY DEF Exits, GoesTo, Known
<1>3. stage' = [stage EXCEPT ![p] = stage'[p]] /\ job' = [job EXCEPT ![p] = job'[p]]
  BY <1>2 DEF Exits, GoesTo
<1> QED
  BY <1>1, <1>2, <1>3 DEF Moves, Known, Agree, Steps

LEMMA Stays ==
    ASSUME NEW p \in Managers, Known(p), NEW step \in Steps, GoesTo(p, step),
           UNCHANGED job, Agree(step, job[p]), nextId' \in Nat, nextId <= nextId',
           step = "running" => stage[p] # "running"
    PROVE  Moves(p)
<1>1. /\ stage'[p] = step /\ stage' = [stage EXCEPT ![p] = stage'[p]]
      /\ job' = [job EXCEPT ![p] = job'[p]]
  BY DEF GoesTo, Known
<1>2. job'[p].index < nextId'
  <2>1. job[p].index \in Int
    BY DEF Known, Job, Ids, None
  <2> QED
    BY <2>1 DEF Known
<1> QED
  BY <1>1, <1>2 DEF Moves, Known

LEMMA Fetches ==
    ASSUME NEW p \in Managers, Known(p), NEW step \in {"rlock", "run"},
           GoesToWith(p, step, "fetched", job[p].version), job[p].version \in Releases,
           nextId' \in Nat, nextId <= nextId'
    PROVE  Moves(p)
<1>1. stage'[p] = step /\ job'[p] = [job[p] EXCEPT !.fetched = job[p].version]
  BY DEF GoesToWith, GoesTo, Known
<1>2. stage' = [stage EXCEPT ![p] = stage'[p]] /\ job' = [job EXCEPT ![p] = job'[p]]
  BY DEF GoesToWith, GoesTo, Known
<1>3. /\ job'[p] \in Job /\ job'[p].index = job[p].index
      /\ job'[p].version \in Releases /\ job'[p].fetched \in Releases
  BY <1>1 DEF Known, Job
<1>4. job'[p].index < nextId'
  <2>1. job[p].index \in Int
    BY DEF Known, Job, Ids, None
  <2> QED
    BY <2>1, <1>3 DEF Known
<1> QED
  BY <1>1, <1>2, <1>3, <1>4 DEF Moves, Known, Agree, Steps, Executing, Installing

\* A process takes a key in hand, or has deleted it.
LEMMA Holds ==
    ASSUME NEW p \in Managers, Known(p), NEW i \in Ids \cup {None}, i < nextId,
           NEW step \in {"drop", "rlock", "forget", "write"}, GoesTo(p, step),
           job' = [job EXCEPT ![p].index = i], job[p].version \in Releases,
           step \in {"drop", "forget"} => i # None, UNCHANGED nextId
    PROVE  Moves(p)
<1>1. stage'[p] = step /\ job'[p] = [job[p] EXCEPT !.index = i]
  BY DEF GoesTo, Known
<1>2. stage' = [stage EXCEPT ![p] = stage'[p]] /\ job' = [job EXCEPT ![p] = job'[p]]
  BY DEF GoesTo, Known
<1>3. job'[p] \in Job /\ job'[p].index = i /\ job'[p].version \in Releases
  BY <1>1 DEF Known, Job
<1> QED
  BY <1>1, <1>2, <1>3 DEF Moves, Known, Agree, Steps, Executing, Installing

\* Processes that only read what is shared.
LEMMA Reads ==
    ASSUME InstallAssumption, InstallInv, NEW p \in Managers, Known(p),
           \/ QueriesOnlineOrLocal(p) \/ QueriesForFile(p) \/ LocksPlugin(p)
           \/ TriesVersionLock(p) \/ WaitsForVersion(p) \/ QueriesAfterInstaller(p)
           \/ Rechecks(p) \/ ChecksMd5(p) \/ UnpackFails(p) \/ FindsRecord(p)
           \/ Executes(p) \/ RunEnds(p) \/ LooksUp(p) \/ LocksForRemoval(p) \/ Uninstalls(p)
    PROVE  Moves(p) /\ DataTyped'
<1> USE DEF Agree, Steps, Executing, Installing, Removing
<1>d. UNCHANGED <<data, download, counters>>
  BY DEF QueriesOnlineOrLocal, QueriesForFile, LocksPlugin, TriesVersionLock, WaitsForVersion,
     QueriesAfterInstaller, Rechecks, ChecksMd5, UnpackFails, FindsRecord, Executes, RunEnds,
     LooksUp, LocksForRemoval, Uninstalls
<1>t. DataTyped'
  BY <1>d DEF Known, DataTyped, data, download, counters
<1> SUFFICES Moves(p)
  BY <1>t
<1>n. nextId' = nextId /\ nextId' \in Nat /\ nextId <= nextId'
  BY <1>d DEF Known, data
<1>1. CASE QueriesOnlineOrLocal(p)
  <2>1. job[p].version \in Releases
    BY <1>1 DEF Known, QueriesOnlineOrLocal
  <2>2. \/ Exits(p) \/ GoesToWith(p, "rlock", "fetched", job[p].version)
        \/ GoesTo(p, "rlock") /\ UNCHANGED job
    BY <1>1 DEF QueriesOnlineOrLocal
  <2>3. Agree("rlock", job[p])
    BY <2>1
  <2> QED
    BY <2>1, <2>2, <2>3, <1>n, Leaves, Fetches, Stays
<1>2. CASE QueriesForFile(p)
  <2>1. job[p].version \in Releases
    BY <1>2 DEF Known, QueriesForFile
  <2>2. PICK i : /\ i = getInstalledPluginByName /\ job' = [job EXCEPT ![p].index = i]
                 /\ GoesTo(p, IF i # None /\ records[i].removed THEN "drop" ELSE "rlock")
    BY <1>2 DEF QueriesForFile
  <2>3. i \in Ids \cup {None} /\ i < nextId
    BY <2>2, KeysFound DEF Known
  <2> QED
    BY <2>1, <2>2, <2>3, <1>n, Holds
<1>3. CASE LocksPlugin(p)
  <2>1. job[p].version \in Releases /\ job[p].fetched \in Releases \cup {None}
    BY <1>3 DEF Known, LocksPlugin, Job
  <2>2. \/ Exits(p)
        \/ job[p].fetched # None /\ GoesTo(p, "run") /\ UNCHANGED job
        \/ GoesTo(p, "guard") /\ UNCHANGED job
    BY <1>3 DEF LocksPlugin
  <2> QED
    BY <2>1, <2>2, <1>n, Leaves, Stays
<1>4. CASE TriesVersionLock(p)
  <2>1. job[p].version \in Releases
    BY <1>4 DEF Known, TriesVersionLock
  <2>2. (GoesTo(p, "recheck") \/ GoesTo(p, "wait")) /\ UNCHANGED job
    BY <1>4 DEF TriesVersionLock
  <2> QED
    BY <2>1, <2>2, <1>n, Stays
<1>5. CASE WaitsForVersion(p)
  <2>1. job[p].version \in Releases
    BY <1>5 DEF Known, WaitsForVersion
  <2> QED
    BY <2>1, <1>5, <1>n, Leaves, Stays DEF WaitsForVersion
<1>6. CASE QueriesAfterInstaller(p)
  <2>1. job[p].version \in Releases
    BY <1>6 DEF Known, QueriesAfterInstaller
  <2>2. \/ Exits(p) \/ GoesToWith(p, "run", "fetched", job[p].version)
        \/ GoesTo(p, "panic") /\ UNCHANGED job
    BY <1>6 DEF QueriesAfterInstaller
  <2> QED
    BY <2>1, <2>2, <1>n, Leaves, Fetches, Stays
<1>7. CASE Rechecks(p)
  <2>1. job[p].version \in Releases
    BY <1>7 DEF Known, Rechecks
  <2>2. \/ GoesToWith(p, "run", "fetched", job[p].version)
        \/ (GoesTo(p, "unzip") \/ GoesTo(p, "download")) /\ UNCHANGED job
    BY <1>7 DEF Rechecks
  <2> QED
    BY <2>1, <2>2, <1>n, Fetches, Stays
<1>8. CASE ChecksMd5(p)
  <2>1. job[p].version \in Releases
    BY <1>8 DEF Known, ChecksMd5
  <2> QED
    BY <2>1, <1>8, <1>n, Leaves, Stays DEF ChecksMd5
<1>9. CASE UnpackFails(p) \/ RunEnds(p)
  BY <1>9, <1>n, Leaves DEF UnpackFails, RunEnds
<1>10. CASE FindsRecord(p)
  <2>1. job[p].version \in Releases
    BY <1>10 DEF Known, FindsRecord
  <2>2. PICK i : /\ i = getInstalledPluginByName /\ job' = [job EXCEPT ![p].index = i]
                 /\ GoesTo(p, IF i # None /\ records[i].removed THEN "forget" ELSE "write")
    BY <1>10 DEF FindsRecord
  <2>3. i \in Ids \cup {None} /\ i < nextId
    BY <2>2, KeysFound DEF Known
  <2> QED
    BY <2>1, <2>2, <2>3, <1>n, Holds
<1>11. CASE Executes(p)
  <2>1. job[p].version \in Releases /\ job[p].fetched \in Releases
    BY <1>11 DEF Known, Executes
  <2> QED
    BY <2>1, <1>11, <1>n, Leaves, Stays DEF Executes
<1>12. CASE LooksUp(p)
  <2>1. job[p].version \in Releases
    BY <1>12 DEF Known, LooksUp
  <2>2. PICK i : /\ i = getInstalledPluginNotRemovedByName
                 /\ IF i = None THEN Exits(p)
                    ELSE /\ job' = [job EXCEPT ![p].index = i, ![p].old = records[i]]
                         /\ GoesTo(p, "lock")
    BY <1>12 DEF LooksUp
  <2>3. /\ i \in Ids \cup {None} /\ i < nextId
        /\ i # None => records[i] \in Record
    BY <2>2, KeysFound DEF Known
  <2>4. CASE i # None
    <3>1. stage'[p] = "lock" /\ stage' = [stage EXCEPT ![p] = stage'[p]]
      BY <2>2, <2>4 DEF GoesTo, Known
    <3>2. job'[p] = [job[p] EXCEPT !.index = i, !.old = records[i]]
      BY <2>2, <2>4 DEF Known
    <3>3. job' = [job EXCEPT ![p] = job'[p]]
      BY <2>2, <2>4 DEF Known
    <3>4. records[i] \in [version : Releases \cup {None}, removed : BOOLEAN]
      BY <2>3, <2>4 DEF Record
    <3>5. /\ job'[p] \in Job /\ job'[p].index = i /\ job'[p].version = job[p].version
          /\ job'[p].old = records[i]
      BY <3>2, <3>4, <2>3 DEF Known, Job
    <3>6. Agree("lock", job'[p])
      BY <3>5, <2>1, <2>3, <2>4 DEF Record
    <3> QED
      BY <3>1, <3>3, <3>5, <3>6, <2>3, <1>n DEF Moves
  <2> QED
    BY <2>2, <2>4, <1>n, Leaves
<1>13. CASE LocksForRemoval(p)
  <2>1. /\ job[p].version \in Releases /\ job[p].index # None
        /\ job[p].old.version \in Releases
    BY <1>13 DEF Known, LocksForRemoval
  <2>2. Exits(p) \/ (GoesTo(p, "uninstall") /\ UNCHANGED job)
    BY <1>13 DEF LocksForRemoval
  <2> QED
    BY <2>1, <2>2, <1>n, Leaves, Stays
<1>14. CASE Uninstalls(p)
  <2>1. /\ job[p].version \in Releases /\ job[p].index # None
        /\ job[p].old.version \in Releases
    BY <1>14 DEF Known, Uninstalls
  <2>2. Exits(p) \/ (GoesTo(p, "mark") /\ UNCHANGED job)
    BY <1>14 DEF Uninstalls
  <2> QED
    BY <2>1, <2>2, <1>n, Leaves, Stays
<1> QED
  BY <1>1, <1>2, <1>3, <1>4, <1>5, <1>6, <1>7, <1>8, <1>9, <1>10, <1>11, <1>12, <1>13, <1>14

\* Processes that write to what is shared.
LEMMA Writes ==
    ASSUME InstallAssumption, InstallInv, NEW p \in Managers, Known(p),
           \/ \E r \in Requests[p] : ManagerStarts(p, r)
           \/ DropsRemoved(p) \/ StartsDownload(p) \/ EndsDownload(p) \/ DownloadFails(p)
           \/ OpensPackage(p) \/ Unpacks(p) \/ ForgetsRemoved(p) \/ WritesRecord(p)
           \/ MarksRemoved(p) \/ DeletesDirectory(p) \/ ManagerKilled(p)
    PROVE  Moves(p) /\ DataTyped'
<1> USE DEF data, download, counters, Agree, Steps, Executing, Installing, Removing
<1>1. CASE \E r \in Requests[p] : ManagerStarts(p, r)
  <2>1. PICK r \in Requests[p] : ManagerStarts(p, r)
    BY <1>1
  <2>2. r.version \in Releases /\ r.op \in Ops
    BY <2>1 DEF InstallAssumption, Ops
  <2>3. PICK step \in {"lookup", "query"} : stage' = [stage EXCEPT ![p] = step]
    BY <2>1 DEF ManagerStarts
  <2>4. stage'[p] \in {"lookup", "query"} /\ stage' = [stage EXCEPT ![p] = stage'[p]]
    BY <2>3 DEF Known
  <2>5. job'[p] = [op |-> r.op, version |-> r.version, fetched |-> None, index |-> None,
                   old |-> NoRecord]
    BY <2>1 DEF ManagerStarts, Known
  <2>6. job' = [job EXCEPT ![p] = job'[p]]
    BY <2>1 DEF ManagerStarts, Known
  <2>7. NoRecord \in [version : Releases \cup {None}, removed : BOOLEAN]
    BY DEF NoRecord
  <2>8. job'[p] \in Job /\ job'[p].version \in Releases /\ job'[p].index = None
    BY <2>2, <2>5, <2>7 DEF Job
  <2>9. UNCHANGED <<data, download, kills>> /\ starts' \in 0 .. MaxStarts
    BY <2>1 DEF ManagerStarts, Known, DataTyped, InstallAssumption
  <2>10. DataTyped'
    BY <2>9 DEF Known, DataTyped
  <2>11. job'[p].index < nextId' /\ nextId <= nextId'
    BY <2>8, <2>9 DEF Known, None
  <2> QED
    BY <2>4, <2>6, <2>8, <2>10, <2>11 DEF Moves
<1>2. CASE DropsRemoved(p) \/ ForgetsRemoved(p)
  <2>1. job[p].version \in Releases
    BY <1>2 DEF Known, DropsRemoved, ForgetsRemoved
  <2>2. (GoesToWith(p, "rlock", "index", None) \/ GoesToWith(p, "write", "index", None))
        /\ UNCHANGED nextId
    BY <1>2 DEF DropsRemoved, ForgetsRemoved, DeleteByKey
  <2>3. Moves(p)
    BY <2>1, <2>2, Holds DEF GoesToWith, Known, None
  <2>4. DataTyped'
    BY <1>2 DEF DropsRemoved, ForgetsRemoved, DeleteByKey, Known, DataTyped
  <2> QED
    BY <2>3, <2>4
<1>3. CASE StartsDownload(p)
  <2>1. job[p].version \in Releases /\ GoesTo(p, "receive") /\ UNCHANGED job
    BY <1>3 DEF Known, StartsDownload
  <2>2. DataTyped'
    BY <1>3 DEF StartsDownload, Known, DataTyped
  <2>3. nextId' \in Nat /\ nextId <= nextId'
    BY <1>3 DEF StartsDownload, Known
  <2> QED
    BY <2>1, <2>2, <2>3, Stays
<1>4. CASE EndsDownload(p)
  <2>1. job[p].version \in Releases /\ GoesTo(p, "check") /\ UNCHANGED job
    BY <1>4 DEF Known, EndsDownload
  <2>2. DataTyped'
    BY <1>4, <2>1 DEF EndsDownload, Known, DataTyped
  <2>3. nextId' \in Nat /\ nextId <= nextId'
    BY <1>4 DEF EndsDownload, Known
  <2> QED
    BY <2>1, <2>2, <2>3, Stays
<1>5. CASE DownloadFails(p)
  <2>1. Exits(p) /\ UNCHANGED nextId
    BY <1>5 DEF DownloadFails
  <2>2. DataTyped'
    BY <1>5 DEF DownloadFails, Known, DataTyped
  <2> QED
    BY <2>1, <2>2, Leaves
<1>6. CASE OpensPackage(p)
  <2>1. job[p].version \in Releases /\ UNCHANGED nextId
    BY <1>6 DEF Known, OpensPackage
  <2>2. DataTyped'
    BY <1>6, <2>1 DEF OpensPackage, Known, DataTyped
  <2>3. CASE Exits(p)
    BY <2>1, <2>2, <2>3, Leaves
  <2>4. CASE \E v \in Releases :
               GoesToWith(p, "unpack", "old", [version |-> v, removed |-> FALSE])
    <3>1. PICK v \in Releases :
             GoesToWith(p, "unpack", "old", [version |-> v, removed |-> FALSE])
      BY <2>4
    <3>2. stage'[p] = "unpack" /\ stage' = [stage EXCEPT ![p] = stage'[p]]
      BY <3>1 DEF GoesToWith, GoesTo, Known
    <3>3. job'[p] = [job[p] EXCEPT !.old = [version |-> v, removed |-> FALSE]]
      BY <3>1 DEF GoesToWith, Known
    <3>4. job' = [job EXCEPT ![p] = job'[p]]
      BY <3>1 DEF GoesToWith, Known
    <3>5. PICK old : /\ old \in [version : Releases \cup {None}, removed : BOOLEAN]
                     /\ old.version = v /\ job'[p] = [job[p] EXCEPT !.old = old]
      BY <3>3
    <3>6. /\ job'[p] \in Job /\ job'[p].version \in Releases
          /\ job'[p].old.version \in Releases /\ job'[p].index = job[p].index
      BY <3>5, <2>1 DEF Known, Job
    <3> QED
      BY <2>1, <2>2, <3>2, <3>4, <3>6 DEF Moves, Known
  <2> QED
    BY <1>6, <2>3, <2>4 DEF OpensPackage
<1>7. CASE Unpacks(p)
  <2>1. /\ job[p].version \in Releases /\ job[p].old.version \in Releases
        /\ UNCHANGED job /\ (GoesTo(p, "write") \/ GoesTo(p, "find"))
    BY <1>7 DEF Known, Unpacks
  <2>2. DataTyped'
    BY <1>7, <2>1 DEF Unpacks, Known, DataTyped
  <2>3. nextId' \in Nat /\ nextId <= nextId'
    BY <1>7 DEF Unpacks, Known
  <2> QED
    BY <2>1, <2>2, <2>3, Stays
<1>8. CASE WritesRecord(p)
  <2> DEFINE r == [version |-> job[p].version, removed |-> FALSE]
  <2>1. job[p].version \in Releases /\ job[p].index \in Ids \cup {None}
    BY <1>8 DEF Known, WritesRecord, Job
  <2>2. r \in Record
    BY <2>1 DEF Record
  <2>3. \/ nextId \in Ids /\ records' = [records EXCEPT ![nextId] = r] /\ nextId' = nextId + 1
        \/ /\ job[p].index # None /\ nextId' = nextId
           /\ records' = [records EXCEPT ![job[p].index] = r]
    BY <1>8 DEF WritesRecord, Insert, Update
  <2>4. nextId' \in 1 .. MaxId + 1 /\ nextId <= nextId'
    BY <2>3 DEF Known, Ids, DataTyped, InstallAssumption
  <2>5. records' \in [Ids -> Record \cup {NoRecord}]
    BY <2>1, <2>2, <2>3 DEF Known, DataTyped
  <2>6. \A i \in Ids : i >= nextId' => records'[i] = NoRecord
    <3> SUFFICES ASSUME NEW i \in Ids, i >= nextId' PROVE records'[i] = NoRecord
      OBVIOUS
    <3>1. i \in Int /\ job[p].index \in Int
      BY <2>1 DEF Ids, None
    <3>2. nextId \in Int /\ nextId' \in Int /\ nextId <= nextId'
      <4>1. nextId \in Nat
        BY DEF Known
      <4>2. nextId' \in Int
        BY <2>4 DEF InstallAssumption
      <4> QED
        BY <2>4, <4>1, <4>2
    <3>3. i >= nextId /\ (nextId' = nextId + 1 => i # nextId)
      BY <3>1, <3>2, KeysBeyond
    <3>4. CASE nextId' = nextId + 1 /\ records' = [records EXCEPT ![nextId] = r]
      BY <3>3, <3>4 DEF Known, DataTyped
    <3>5. CASE records' = [records EXCEPT ![job[p].index] = r]
      BY <3>1, <3>3, <3>5 DEF Known, DataTyped
    <3> QED
      BY <2>3, <3>4, <3>5
  <2>7. DataTyped'
    BY <1>8, <2>4, <2>5, <2>6 DEF WritesRecord, Known, DataTyped
  <2>8. GoesToWith(p, "run", "fetched", job[p].version) /\ nextId' \in Nat
    BY <1>8, <2>4 DEF WritesRecord, InstallAssumption
  <2> QED
    BY <2>1, <2>4, <2>7, <2>8, Fetches
<1>9. CASE MarksRemoved(p)
  <2> DEFINE r == [job[p].old EXCEPT !.removed = TRUE]
  <2>1. /\ job[p].version \in Releases /\ job[p].index \in Ids
        /\ job[p].old.version \in Releases
    BY <1>9 DEF Known, MarksRemoved, Job
  <2>2. r \in Record
    BY <2>1 DEF Record, Known, Job
  <2>3. nextId' = nextId /\ records' = [records EXCEPT ![job[p].index] = r]
    BY <1>9 DEF MarksRemoved, Update
  <2>4. records' \in [Ids -> Record \cup {NoRecord}]
    BY <2>1, <2>2, <2>3 DEF Known, DataTyped
  <2>5. \A i \in Ids : i >= nextId' => records'[i] = NoRecord
    <3> SUFFICES ASSUME NEW i \in Ids, i >= nextId' PROVE records'[i] = NoRecord
      OBVIOUS
    <3>1. i # job[p].index /\ i >= nextId
      BY <2>1, <2>3 DEF Known, Ids
    <3> QED
      BY <3>1, <2>3 DEF Known, DataTyped
  <2>6. DataTyped'
    BY <1>9, <2>3, <2>4, <2>5 DEF MarksRemoved, Known, DataTyped
  <2>7. GoesTo(p, "delete") /\ UNCHANGED job /\ nextId' \in Nat /\ nextId <= nextId'
    BY <1>9, <2>3 DEF MarksRemoved, Known
  <2> QED
    BY <2>1, <2>6, <2>7, Stays
<1>10. CASE DeletesDirectory(p)
  <2>1. Exits(p) /\ UNCHANGED nextId
    BY <1>10 DEF DeletesDirectory
  <2>2. DataTyped'
    BY <1>10 DEF DeletesDirectory, Known, DataTyped
  <2> QED
    BY <2>1, <2>2, Leaves
<1>11. CASE ManagerKilled(p)
  <2>1. Exits(p) /\ UNCHANGED nextId
    BY <1>11 DEF ManagerKilled
  <2>2. DataTyped'
    BY <1>11 DEF ManagerKilled, Known, DataTyped, InstallAssumption
  <2> QED
    BY <2>1, <2>2, Leaves
<1> QED
  BY <1>1, <1>2, <1>3, <1>4, <1>5, <1>6, <1>7, <1>8, <1>9, <1>10, <1>11

LEMMA StepTypes ==
    ASSUME InstallAssumption, InstallInv, [PluginNext]_pluginVars
    PROVE  PluginTypeOK' /\ LocalInv' /\ KeysAreOld'
<1>1. ASSUME NEW p \in Managers, Moves(p), DataTyped'
      PROVE  PluginTypeOK' /\ LocalInv' /\ KeysAreOld'
  BY <1>1, Moved
<1>2. CASE PluginNext
  BY <1>1, <1>2, Knows, Reads, Writes DEF PluginNext
<1>3. CASE UNCHANGED pluginVars
  BY <1>3 DEF InstallInv, PluginTypeOK, LocalInv, Agree, KeysAreOld, pluginVars, data, download,
     counters
<1> QED
  BY <1>2, <1>3

-----------------------------------------------------------------------------
(* The lock: a removal and an execution exclude each other. *)

\* Who comes under the plugin's lock found it free, and what lies in a directory is
\* deleted by a removal only.
LEMMA StepLocks ==
    ASSUME InstallAssumption, InstallInv, [PluginNext]_pluginVars
    PROVE  RemovesAlone' /\ RunningIsThere'
<1> USE DEF InstallInv, PluginTypeOK, RemovesAlone, Readers, Removers, Executing, Removing,
   Installing
<1>1. ASSUME NEW p \in Managers, (\E r \in Requests[p] : ManagerStarts(p, r)) \/
   QueriesOnlineOrLocal(p) \/ QueriesForFile(p) \/ DropsRemoved(p) \/ LooksUp(p)
      PROVE  RemovesAlone' /\ RunningIsThere'
  <2>1. RemovesAlone'
    BY <1>1 DEF ManagerStarts, QueriesOnlineOrLocal, QueriesForFile, DropsRemoved, LooksUp, GoesTo,
       GoesToWith, Exits
  <2>2. RunningIsThere'
    BY <1>1 DEF ManagerStarts, QueriesOnlineOrLocal, QueriesForFile, DropsRemoved, LooksUp, GoesTo,
       GoesToWith, Exits, data, RunningIsThere, LocalInv, Agree
  <2> QED
    BY <2>1, <2>2
<1>2. ASSUME NEW p \in Managers, LocksPlugin(p) \/ TriesVersionLock(p) \/
   WaitsForVersion(p) \/ QueriesAfterInstaller(p) \/ Rechecks(p)
      PROVE  RemovesAlone' /\ RunningIsThere'
  <2>1. RemovesAlone'
    BY <1>2 DEF LocksPlugin, TriesVersionLock, WaitsForVersion, QueriesAfterInstaller,
       Rechecks, GoesTo, GoesToWith, Exits
  <2>2. RunningIsThere'
    BY <1>2 DEF LocksPlugin, TriesVersionLock, WaitsForVersion, QueriesAfterInstaller,
       Rechecks, GoesTo, GoesToWith, Exits, data, RunningIsThere, LocalInv, Agree
  <2> QED
    BY <2>1, <2>2
<1>3. ASSUME NEW p \in Managers, StartsDownload(p) \/ EndsDownload(p) \/ DownloadFails(p)
   \/ ChecksMd5(p) \/ UnpackFails(p)
      PROVE  RemovesAlone' /\ RunningIsThere'
  <2>1. RemovesAlone'
    BY <1>3 DEF StartsDownload, EndsDownload, DownloadFails, ChecksMd5, UnpackFails, GoesTo,
       GoesToWith, Exits
  <2>2. RunningIsThere'
    BY <1>3 DEF StartsDownload, EndsDownload, DownloadFails, ChecksMd5, UnpackFails, GoesTo,
       GoesToWith, Exits, data, RunningIsThere, LocalInv, Agree
  <2> QED
    BY <2>1, <2>2
<1>4. ASSUME NEW p \in Managers, FindsRecord(p) \/ ForgetsRemoved(p) \/ WritesRecord(p)
      PROVE  RemovesAlone' /\ RunningIsThere'
  <2>1. RemovesAlone'
    BY <1>4 DEF FindsRecord, ForgetsRemoved, WritesRecord, GoesTo, GoesToWith, Exits
  <2>2. RunningIsThere'
    BY <1>4 DEF FindsRecord, ForgetsRemoved, WritesRecord, GoesTo, GoesToWith, Exits, data,
       RunningIsThere, LocalInv, Agree
  <2> QED
    BY <2>1, <2>2
<1>5. ASSUME NEW p \in Managers, OpensPackage(p) \/ Unpacks(p)
      PROVE  RemovesAlone' /\ RunningIsThere'
  <2>1. RemovesAlone'
    BY <1>5 DEF OpensPackage, Unpacks, GoesTo, GoesToWith, Exits
  <2>2. PICK v, w : /\ dir' = dir \/ (w # None /\ dir' = [dir EXCEPT ![v] = w])
                    /\ stage'[p] # "running"
    <3>1. CASE OpensPackage(p)
      <4>1. dir' = dir \/ dir' = [dir EXCEPT ![job[p].version] = Partial]
        BY <3>1 DEF OpensPackage
      <4>2. stage'[p] # "running" /\ Partial # None
        BY <3>1 DEF OpensPackage, GoesTo, GoesToWith, Exits, None, Partial
      <4> QED
        BY <4>1, <4>2
    <3>2. CASE Unpacks(p)
      BY <3>2 DEF Unpacks, GoesTo, LocalInv, Agree, InstallAssumption
    <3> QED
      BY <1>5, <3>1, <3>2
  <2>3. /\ \A q \in Managers \ {p} : stage'[q] = stage[q] /\ job'[q] = job[q]
    BY <1>5 DEF OpensPackage, Unpacks, GoesTo, GoesToWith, Exits
  <2>4. RunningIsThere'
    BY <2>2, <2>3 DEF RunningIsThere, LocalInv, Agree
  <2> QED
    BY <2>1, <2>4
<1>6. ASSUME NEW p \in Managers, Executes(p) \/ RunEnds(p) \/ ManagerKilled(p)
      PROVE  RemovesAlone' /\ RunningIsThere'
  <2>1. RemovesAlone'
    BY <1>6 DEF Executes, RunEnds, ManagerKilled, GoesTo, GoesToWith, Exits
  <2>2. RunningIsThere'
    BY <1>6 DEF Executes, RunEnds, ManagerKilled, GoesTo, GoesToWith, Exits, data, RunningIsThere,
       LocalInv, Agree
  <2> QED
    BY <2>1, <2>2
<1>7. ASSUME NEW p \in Managers, LocksForRemoval(p) \/ Uninstalls(p) \/ MarksRemoved(p)
      PROVE  RemovesAlone' /\ RunningIsThere'
  <2>1. RemovesAlone'
    BY <1>7 DEF LocksForRemoval, Uninstalls, MarksRemoved, GoesTo, GoesToWith, Exits
  <2>2. RunningIsThere'
    BY <1>7 DEF LocksForRemoval, Uninstalls, MarksRemoved, GoesTo, GoesToWith, Exits, data,
       RunningIsThere, LocalInv, Agree
  <2> QED
    BY <2>1, <2>2
<1>8. ASSUME NEW p \in Managers, DeletesDirectory(p)
      PROVE  RemovesAlone' /\ RunningIsThere'
  <2>1. RemovesAlone'
    BY <1>8 DEF DeletesDirectory, GoesTo, GoesToWith, Exits
  <2>2. RunningIsThere'
    BY <1>8 DEF DeletesDirectory, GoesTo, GoesToWith, Exits, data, RunningIsThere, LocalInv,
       Agree
  <2> QED
    BY <2>1, <2>2
<1>9. CASE UNCHANGED pluginVars
  BY <1>9 DEF RunningIsThere, pluginVars, data
<1> QED
  BY <1>1, <1>2, <1>3, <1>4, <1>5, <1>6, <1>7, <1>8, <1>9 DEF PluginNext

LEMMA InstallStep == ASSUME InstallAssumption, InstallInv, [PluginNext]_pluginVars PROVE InstallInv'
  BY StepTypes, StepLocks DEF InstallInv

-----------------------------------------------------------------------------
\* The records and directories keep their types, and no key is used that was not given out.
THEOREM InstallTypes == ASSUME InstallAssumption PROVE PluginSpec => []PluginTypeOK
<1>1. InstallInv => PluginTypeOK
  BY DEF InstallInv
<1> QED
  BY <1>1, InstallBegins, InstallStep, PTL DEF PluginSpec

\* The directory of a version that is being executed is not deleted, whoever installs, removes
\* or is killed meanwhile: the removal needs the lock that the execution shares (RemovePlugin,
\* executePlugin).
THEOREM RunningIsKept == ASSUME InstallAssumption PROVE PluginSpec => RunningKept
<1>1. ASSUME InstallInv, InstallInv', [PluginNext]_pluginVars, NEW p \in Managers,
             stage[p] = "running", stage'[p] = "running"
      PROVE  dir'[job[p].fetched] # None
  <2>1. dir'[job'[p].fetched] # None
    BY <1>1 DEF InstallInv, RunningIsThere
  <2>2. job'[p] = job[p]
    <3>1. CASE UNCHANGED pluginVars
      BY <3>1 DEF pluginVars
    <3>2. CASE PluginNext
      <4>1. PICK q \in Managers : Moves(q)
        BY <1>1, <3>2, Knows, Reads, Writes DEF PluginNext
      <4>2. q # p
        BY <4>1, <1>1 DEF Moves
      <4> QED
        BY <4>1, <4>2, <1>1 DEF Moves, InstallInv, PluginTypeOK
    <3> QED
      BY <1>1, <3>1, <3>2
  <2> QED
    BY <2>1, <2>2
<1>2. InstallInv /\ InstallInv' /\ [PluginNext]_pluginVars =>
         [\A p \in Managers : stage[p] = "running" /\ stage'[p] = "running"
                                   => dir'[job[p].fetched] # None]_pluginVars
  BY <1>1
<1> QED
  BY <1>2, InstallBegins, InstallStep, PTL DEF PluginSpec, RunningKept
============================================================================
