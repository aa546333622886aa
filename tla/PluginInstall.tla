---------------------------- MODULE PluginInstall ----------------------------
(***************************************************************************)
(* Processes of acs-plugin-manager that install, execute and remove one    *)
(* plugin (src/agent/pluginmanager/acspluginmanager).                      *)
(*                                                                         *)
(* They share the records of the plugin in the database of installed       *)
(* plugins, the plugin's directory with one subdirectory per version, the  *)
(* download PLUGINDIR/<name>.zip, and two kinds of advisory file lock: the *)
(* plugin's, shared by those who execute and exclusive for the one who     *)
(* removes, and one per version, exclusive for the process that installs   *)
(* that version.  Every database operation opens, locks and closes the     *)
(* database, so each is one step and nothing is locked between two.        *)
(*                                                                         *)
(* A process may be killed at any step: its locks go with it.              *)
(***************************************************************************)
EXTENDS Integers, FiniteSets

CONSTANTS
    Managers,      \* the processes of acs-plugin-manager
    Releases,      \* the versions of the plugin, numbers
    Requests,      \* Requests[p] : what p may be started for
    Persistent,    \* the plugin is a service, which is uninstalled first
    MaxStarts,     \* bound: processes started in all
    MaxKills,      \* bound: processes killed
    MaxId          \* bound: keys of the database

Ids == 1 .. MaxId
None == 0
Partial == -1       \* what a version is not: an incomplete directory or file

InstallAssumption ==
    /\ Releases \subseteq Nat \ {None} /\ Releases # {}
    /\ Persistent \in BOOLEAN
    /\ MaxStarts \in Nat /\ MaxKills \in Nat /\ MaxId \in Nat \ {0}
    /\ Requests \in [Managers ->
                        SUBSET [op : {"online", "local", "file", "remove"},
                                version : Releases]]

Record == [version : Releases, removed : BOOLEAN]
NoRecord == [version |-> None, removed |-> TRUE]

VARIABLES
    records,    \* records[i] : what the database holds under key i
    nextId,     \* the sequence of the database's bucket
    dir,        \* dir[v] : what is in the directory of version v: None,
                \* Partial or the version whose package was unpacked there
    zip,        \* what the download file holds: None, Partial or a version
    writers,    \* the processes that write to the file which zip describes
    torn,       \* two processes have written to that file at once
    stage,         \* stage[p] : the next step of process p
    job,        \* job[p] : its local variables
    starts, kills

data == <<records, nextId, dir>>
download == <<zip, writers, torn>>
counters == <<starts, kills>>
pluginVars == <<data, download, stage, job, counters>>

NoJob == [op |-> "none", version |-> None, fetched |-> None,
         index |-> None, old |-> NoRecord]

PluginInit ==
    /\ records = [i \in Ids |-> NoRecord]
    /\ nextId = 1
    /\ dir = [v \in Releases |-> None]
    /\ zip = None /\ writers = {} /\ torn = FALSE
    /\ stage = [p \in Managers |-> "idle"]
    /\ job = [p \in Managers |-> NoJob]
    /\ starts = 0 /\ kills = 0

(***************************************************************************)
(* The locks: who holds one follows from where the processes are.          *)
(***************************************************************************)
Installing == {"recheck", "download", "receive", "check", "unzip", "unpack",
               "find", "forget", "write"}

(* Mutant: the plugin's lock is released before the plugin is executed. *)
UnlockedToRun == Installing \cup {"guard", "wait", "shared"}

Executing == Installing \cup {"guard", "wait", "shared", "run", "running"}
Removing == {"uninstall", "mark", "delete"}

Readers == {p \in Managers : stage[p] \in Executing}
Removers == {p \in Managers : stage[p] \in Removing}

Installers(v) ==
    {p \in Managers : stage[p] \in Installing /\ job[p].version = v}
Waiters(v) == {p \in Managers : stage[p] = "shared" /\ job[p].version = v}

(***************************************************************************)
(* The database: the first record, in the order of the keys, of the plugin *)
(* or of one version of it that is not removed.                            *)
(***************************************************************************)
FirstOf(ids) == IF ids = {} THEN None ELSE CHOOSE i \in ids : \A j \in ids : i <= j

getInstalledPluginByName == FirstOf({i \in Ids : records[i] # NoRecord})

getInstalledPluginNotRemovedByName ==
    FirstOf({i \in Ids : records[i] # NoRecord /\ ~records[i].removed})

\* getLocalPluginInfo: the version is installed.
IsInstalled(v) ==
    \E i \in Ids : /\ records[i] # NoRecord
                   /\ ~records[i].removed /\ records[i].version = v

\* InstalledPlugins.Insert: the next key of the sequence, never one used before.
Insert(r) ==
    /\ nextId \in Ids
    /\ records' = [records EXCEPT ![nextId] = r]
    /\ nextId' = nextId + 1

\* InstalledPlugins.Update: a Put, which makes the record if the key is gone.
Update(i, r) ==
    /\ records' = [records EXCEPT ![i] = r]
    /\ UNCHANGED nextId

DeleteByKey(i) ==
    /\ records' = [records EXCEPT ![i] = NoRecord]
    /\ UNCHANGED nextId

(***************************************************************************)
(* Control of one process.                                                 *)
(***************************************************************************)
GoesTo(p, step) == stage' = [stage EXCEPT ![p] = step]

GoesToWith(p, step, field, value) ==
    /\ GoesTo(p, step)
    /\ job' = [job EXCEPT ![p][field] = value]

\* Every return: the deferred calls release the locks.
Exits(p) ==
    /\ GoesTo(p, "idle")
    /\ job' = [job EXCEPT ![p] = NoJob]

ManagerStarts(p, r) ==
    /\ stage[p] \in {"idle", "panic"} /\ starts < MaxStarts
    /\ r \in Requests[p]
    /\ stage' = [stage EXCEPT ![p] = IF r.op = "remove" THEN "lookup" ELSE "query"]
    /\ job' = [job EXCEPT ![p] = [op |-> r.op, version |-> r.version, fetched |-> None,
                                  index |-> None, old |-> NoRecord]]
    /\ starts' = starts + 1
    /\ UNCHANGED <<data, download, kills>>

(***************************************************************************)
(* executePluginOnlineOrLocal and executePluginFromFile: what is looked up *)
(* before any lock is taken.  The request may name a version, or the       *)
(* service answers with its newest one; version stands for the answer.     *)
(***************************************************************************)
QueriesOnlineOrLocal(p) ==
    /\ stage[p] = "query" /\ job[p].op \in {"online", "local"}
    /\ \/ /\ IsInstalled(job[p].version)
          /\ GoesToWith(p, "rlock", "fetched", job[p].version)
       \/ /\ ~IsInstalled(job[p].version) /\ job[p].op = "online"
          /\ GoesTo(p, "rlock") /\ UNCHANGED job
       \/ /\ ~IsInstalled(job[p].version) /\ job[p].op = "local"
          /\ Exits(p)
       \/ job[p].op = "online" /\ Exits(p)     \* no answer from the service
    /\ UNCHANGED <<data, download, counters>>

\* The record of a removed plugin is deleted, in a step of its own.
QueriesForFile(p) ==
    /\ stage[p] = "query" /\ job[p].op = "file"
    /\ LET i == getInstalledPluginByName IN
         /\ job' = [job EXCEPT ![p].index = i]
         /\ GoesTo(p, IF i # None /\ records[i].removed THEN "drop" ELSE "rlock")
    /\ UNCHANGED <<data, download, counters>>

DropsRemoved(p) ==
    /\ stage[p] = "drop"
    /\ DeleteByKey(job[p].index)
    /\ GoesToWith(p, "rlock", "index", None)
    /\ UNCHANGED <<dir, download, counters>>

\* TryRLock on the plugin's lock: a failure ends the process.
LocksPlugin(p) ==
    /\ stage[p] = "rlock"
    /\ IF Removers # {} THEN Exits(p)
       ELSE /\ GoesTo(p, IF job[p].fetched # None THEN "run" ELSE "guard")
            /\ UNCHANGED job
    /\ UNCHANGED <<data, download, counters>>

(***************************************************************************)
(* InstallLockGuard.Do: the exclusive lock of the version if it is free at *)
(* once, or else its shared lock within the timeout of the fetch.          *)
(***************************************************************************)
TriesVersionLock(p) ==
    /\ stage[p] = "guard"
    /\ LET v == job[p].version IN
         GoesTo(p, IF Installers(v) \cup Waiters(v) = {} THEN "recheck" ELSE "wait")
    /\ UNCHANGED <<data, download, job, counters>>

WaitsForVersion(p) ==
    /\ stage[p] = "wait"
    /\ \/ /\ Installers(job[p].version) = {}
          /\ GoesTo(p, "shared") /\ UNCHANGED job
       \/ Exits(p)
    /\ UNCHANGED <<data, download, counters>>

\* onSharedLocked.  That of executePluginFromFile writes to what it fetched
\* without a look at the error: a nil pointer when there is nothing.
QueriesAfterInstaller(p) ==
    /\ stage[p] = "shared"
    /\ IF IsInstalled(job[p].version)
       THEN GoesToWith(p, "run", "fetched", job[p].version)
       ELSE IF job[p].op = "file" THEN GoesTo(p, "panic") /\ UNCHANGED job
       ELSE Exits(p)
    /\ UNCHANGED <<data, download, counters>>

\* onExclusiveLocked: another process may have installed it in the meantime.
Rechecks(p) ==
    /\ stage[p] = "recheck"
    /\ IF IsInstalled(job[p].version)
       THEN GoesToWith(p, "run", "fetched", job[p].version)
       ELSE /\ GoesTo(p, IF job[p].op = "file" THEN "unzip" ELSE "download")
            /\ UNCHANGED job
    /\ UNCHANGED <<data, download, counters>>

(***************************************************************************)
(* installFromOnline: the package goes to a file that is named for the     *)
(* plugin and not for the version.  os.Create truncates a file that exists *)
(* and makes a new one if it has been removed.                             *)
(***************************************************************************)
StartsDownload(p) ==
    /\ stage[p] = "download"
    /\ zip' = Partial
    /\ writers' = IF zip = None THEN {p} ELSE writers \cup {p}
    /\ torn' = (zip # None /\ writers # {})
    /\ GoesTo(p, "receive")
    /\ UNCHANGED <<data, job, counters>>

\* A process whose file has been removed under it goes on writing to that
\* one; two who write to one file leave either version or neither.
EndsDownload(p) ==
    /\ stage[p] = "receive"
    /\ zip' \in IF p \notin writers THEN {zip}
                ELSE IF torn THEN {Partial, job[p].version}
                ELSE {job[p].version}
    /\ writers' = writers \ {p}
    /\ GoesTo(p, "check")
    /\ UNCHANGED <<data, torn, job, counters>>

DownloadFails(p) ==
    /\ stage[p] = "receive"
    /\ writers' = writers \ {p}
    /\ Exits(p)
    /\ UNCHANGED <<data, zip, torn, counters>>

ChecksMd5(p) ==
    /\ stage[p] = "check"
    /\ IF zip = job[p].version THEN GoesTo(p, "unzip") /\ UNCHANGED job
       ELSE Exits(p)
    /\ UNCHANGED <<data, download, counters>>

(***************************************************************************)
(* UnzipContext opens the package by its name and unpacks it, in place.    *)
(* From here on old holds, in its version, what the opened package is.     *)
(***************************************************************************)
OpensPackage(p) ==
    /\ stage[p] = "unzip"
    /\ LET package == IF job[p].op = "file" THEN job[p].version ELSE zip IN
         IF package \in Releases
         THEN /\ dir' = [dir EXCEPT ![job[p].version] = Partial]
              /\ GoesToWith(p, "unpack", "old",
                          [version |-> package, removed |-> FALSE])
         ELSE Exits(p) /\ UNCHANGED dir
    /\ UNCHANGED <<records, nextId, download, counters>>

Unpacks(p) ==
    /\ stage[p] = "unpack"
    /\ dir' = [dir EXCEPT ![job[p].version] = job[p].old.version]
    /\ IF job[p].op = "file" THEN GoesTo(p, "write") /\ UNCHANGED download
       ELSE /\ GoesTo(p, "find")                   \* os.RemoveAll(filePath)
            /\ zip' = None /\ writers' = {} /\ torn' = FALSE
    /\ UNCHANGED <<records, nextId, job, counters>>

\* The time is up, or the package is not what it should be.
UnpackFails(p) ==
    /\ stage[p] = "unpack"
    /\ Exits(p)
    /\ UNCHANGED <<data, download, counters>>

(***************************************************************************)
(* The record: found, deleted if it says removed, and written, each in a   *)
(* transaction of its own.  The version's lock goes with the last of them. *)
(***************************************************************************)
FindsRecord(p) ==
    /\ stage[p] = "find"
    /\ LET i == getInstalledPluginByName IN
         /\ job' = [job EXCEPT ![p].index = i]
         /\ GoesTo(p, IF i # None /\ records[i].removed THEN "forget" ELSE "write")
    /\ UNCHANGED <<data, download, counters>>

ForgetsRemoved(p) ==
    /\ stage[p] = "forget"
    /\ DeleteByKey(job[p].index)
    /\ GoesToWith(p, "write", "index", None)
    /\ UNCHANGED <<dir, download, counters>>

WritesRecord(p) ==
    /\ stage[p] = "write"
    /\ LET r == [version |-> job[p].version, removed |-> FALSE] IN
         IF job[p].index = None THEN Insert(r) ELSE Update(job[p].index, r)
    /\ GoesToWith(p, "run", "fetched", job[p].version)
    /\ UNCHANGED <<dir, download, counters>>

(***************************************************************************)
(* executePlugin, under the plugin's shared lock.                          *)
(***************************************************************************)
Executes(p) ==
    /\ stage[p] = "run"
    /\ \/ dir[job[p].fetched] # None /\ GoesTo(p, "running") /\ UNCHANGED job
       \/ dir[job[p].fetched] \in {None, Partial} /\ Exits(p)  \* Cmd file not exist
    /\ UNCHANGED <<data, download, counters>>

RunEnds(p) ==
    /\ stage[p] = "running"
    /\ Exits(p)
    /\ UNCHANGED <<data, download, counters>>

(***************************************************************************)
(* RemovePlugin: the record is read, the exclusive lock is taken or the    *)
(* process ends, the recorded version is stopped and uninstalled, its      *)
(* record is marked and the whole directory deleted.                       *)
(***************************************************************************)
LooksUp(p) ==
    /\ stage[p] = "lookup"
    /\ LET i == getInstalledPluginNotRemovedByName IN
         IF i = None THEN Exits(p)
         ELSE /\ job' = [job EXCEPT ![p].index = i, ![p].old = records[i]]
              /\ GoesTo(p, "lock")
    /\ UNCHANGED <<data, download, counters>>

(* Mutant: the removal does not ask for the plugin's lock. *)
RemovesUnlocked(p) ==
    /\ stage[p] = "lock"
    /\ GoesTo(p, "uninstall")
    /\ UNCHANGED <<data, download, job, counters>>

LocksForRemoval(p) ==
    /\ stage[p] = "lock"
    /\ IF Readers \cup Removers # {} THEN Exits(p)
       ELSE GoesTo(p, "uninstall") /\ UNCHANGED job
    /\ UNCHANGED <<data, download, counters>>

\* Only a service is uninstalled: it may refuse, and its program may be gone.
Uninstalls(p) ==
    /\ stage[p] = "uninstall"
    /\ \/ /\ Persistent => dir[job[p].old.version] # None
          /\ GoesTo(p, "mark") /\ UNCHANGED job
       \/ Persistent /\ Exits(p)
    /\ UNCHANGED <<data, download, counters>>

MarksRemoved(p) ==
    /\ stage[p] = "mark"
    /\ Update(job[p].index, [job[p].old EXCEPT !.removed = TRUE])
    /\ GoesTo(p, "delete")
    /\ UNCHANGED <<dir, download, job, counters>>

DeletesDirectory(p) ==
    /\ stage[p] = "delete"
    /\ dir' = [v \in Releases |-> None]
    /\ Exits(p)
    /\ UNCHANGED <<records, nextId, download, counters>>

\* The process is killed, or the machine stops.
ManagerKilled(p) ==
    /\ stage[p] \notin {"idle", "panic"} /\ kills < MaxKills
    /\ kills' = kills + 1
    /\ writers' = writers \ {p}
    /\ Exits(p)
    /\ UNCHANGED <<data, zip, torn, starts>>

PluginNext == \E p \in Managers :
    \/ \E r \in Requests[p] : ManagerStarts(p, r)
    \/ QueriesOnlineOrLocal(p) \/ QueriesForFile(p) \/ DropsRemoved(p)
    \/ LocksPlugin(p) \/ TriesVersionLock(p) \/ WaitsForVersion(p)
    \/ QueriesAfterInstaller(p) \/ Rechecks(p)
    \/ StartsDownload(p) \/ EndsDownload(p) \/ DownloadFails(p) \/ ChecksMd5(p)
    \/ OpensPackage(p) \/ Unpacks(p) \/ UnpackFails(p)
    \/ FindsRecord(p) \/ ForgetsRemoved(p) \/ WritesRecord(p)
    \/ Executes(p) \/ RunEnds(p)
    \/ LooksUp(p) \/ LocksForRemoval(p) \/ Uninstalls(p)
    \/ MarksRemoved(p) \/ DeletesDirectory(p)
    \/ ManagerKilled(p)

PluginSpec == PluginInit /\ [][PluginNext]_pluginVars

(***************************************************************************)
(* Properties.                                                             *)
(***************************************************************************)
Steps == Executing \cup Removing \cup
         {"idle", "query", "drop", "rlock", "lookup", "lock", "panic"}

\* Every variable has a value of its type, and the keys that the sequence has
\* not reached are free.
PluginTypeOK ==
    /\ records \in [Ids -> Record \cup {NoRecord}]
    /\ nextId \in 1 .. MaxId + 1
    /\ \A i \in Ids : i >= nextId => records[i] = NoRecord
    /\ dir \in [Releases -> {None, Partial} \cup Releases]
    /\ zip \in {None, Partial} \cup Releases
    /\ writers \subseteq Managers /\ torn \in BOOLEAN
    /\ stage \in [Managers -> Steps]
    /\ job \in [Managers ->
                  [op : {"none", "online", "local", "file", "remove"},
                   version : Releases \cup {None},
                   fetched : Releases \cup {None},
                   index : Ids \cup {None},
                   old : [version : Releases \cup {None}, removed : BOOLEAN]]]
    /\ starts \in 0 .. MaxStarts /\ kills \in 0 .. MaxKills

Live == {i \in Ids : records[i] # NoRecord /\ ~records[i].removed}

\* What the database calls installed is on the disk, unpacked to the end: the
\* record is written after the directory and marked before it is deleted,
\* whenever a process is killed (installFromOnline, RemovePlugin).
RecordedIsWhole ==
    \A i \in Live : dir[records[i].version] = records[i].version

\* A plugin is installed once: no two processes each insert a record of it.
OneLive == Cardinality(Live) <= 1

\* The directory of a version that is being executed is not deleted: the
\* removal needs the lock that the execution shares.
RunningKept ==
    [][\A p \in Managers :
         stage[p] = "running" /\ stage'[p] = "running" => dir'[job[p].fetched] # None]_pluginVars

\* A process executes a version that has been unpacked to the end.
RunsWhole ==
    \A p \in Managers : stage[p] = "running" => dir[job[p].fetched] = job[p].fetched

\* The directory of a version holds that version's package, whose MD5 was
\* compared, or a part of it.
VersionsUnmixed == \A v \in Releases : dir[v] \in {None, Partial, v}

\* The record that a removal marks is that of the version it uninstalled.
RemovesWhatItRead ==
    [][\A p \in Managers : stage[p] = "mark" /\ stage'[p] = "delete" =>
          records[job[p].index].version = job[p].old.version]_pluginVars

\* Only Insert makes a key of the database: Update changes a record that is there.
KeysAreInserted ==
    [][\A i \in Ids : records[i] = NoRecord /\ records'[i] # NoRecord => i = nextId]_pluginVars

\* A process that waited for an installer which failed ends with an error.
NoPanic == \A p \in Managers : stage[p] # "panic"
============================================================================
