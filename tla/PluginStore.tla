----------------------------- MODULE PluginStore -----------------------------
(***************************************************************************)
(* The database of installed plugins as it is opened by the agent and the  *)
(* processes of acs-plugin-manager (src/agent/pluginmanager/installeds.go).*)
(* The first to find a JSON file and no BoltDB file creates the latter and *)
(* inserts in it, in one transaction, every plugin of the former.          *)
(*                                                                         *)
(* bolt.Open opens the file, with the flags that its caller chooses, and   *)
(* then waits, without a timeout, for the lock of the file; a file of no   *)
(* bytes becomes an empty database.  The plugins of the JSON file are one  *)
(* thing here: a database holds all of them, once or more often, or none.  *)
(***************************************************************************)
EXTENDS Integers

CONSTANTS
    Processes,
    Json,          \* "plugins", or "unreadable": absent, empty or not parsed
    MaxLoads,      \* bound: calls of LoadInstalledPlugins
    MaxFaults      \* bound: processes killed and insertions that fail

ConstantsAssumption ==
    Json \in {"plugins", "unreadable"} /\ MaxLoads \in Nat /\ MaxFaults \in Nat

VARIABLES
    exists,     \* the BoltDB file is there
    copies,     \* how often the plugins of the JSON file are in it
    at,         \* at[p] : the next step of process p
    seen,       \* seen[p] : the number of copies that p has last read, or -1
    loads, faults

vars == <<exists, copies, at, seen, loads, faults>>

Init ==
    /\ exists = FALSE /\ copies = 0
    /\ at = [p \in Processes |-> "idle"]
    /\ seen = [p \in Processes |-> -1]
    /\ loads = 0 /\ faults = 0

\* The file's lock is held from the return of bolt.Open to Close.
Unlocked == \A p \in Processes : at[p] \notin {"migrate", "opened"}

Goto(p, step) == at' = [at EXCEPT ![p] = step]

Starts(p) ==
    /\ at[p] = "idle" /\ loads < MaxLoads
    /\ loads' = loads + 1
    /\ seen' = [seen EXCEPT ![p] = -1]
    /\ Goto(p, "open")
    /\ UNCHANGED <<exists, copies, faults>>

\* Step 1: a file that exists is used; it is not created.
OpensExisting(p) ==
    /\ at[p] = "open"
    /\ Goto(p, IF exists THEN "flock" ELSE "json")
    /\ UNCHANGED <<exists, copies, seen, loads, faults>>

\* Step 2: without plugins to migrate the database starts empty.
ReadsJson(p) ==
    /\ at[p] = "json"
    /\ Goto(p, IF Json = "plugins" THEN "exclusive" ELSE "create")
    /\ UNCHANGED <<exists, copies, seen, loads, faults>>

(* Mutant: the file is opened without O_EXCL, and a file that exists is taken for new. *)
CreatesOrOpens(p) ==
    /\ at[p] = "exclusive"
    /\ exists' = TRUE
    /\ Goto(p, "flock_new")
    /\ UNCHANGED <<copies, seen, loads, faults>>

\* Step 3: O_EXCL makes one process the one that migrates.
CreatesExclusively(p) ==
    /\ at[p] = "exclusive"
    /\ IF exists THEN Goto(p, "create") /\ UNCHANGED exists
       ELSE exists' = TRUE /\ Goto(p, "flock_new")
    /\ UNCHANGED <<copies, seen, loads, faults>>

\* _loadInstalledPluginsBolt
Creates(p) ==
    /\ at[p] = "create"
    /\ exists' = TRUE
    /\ Goto(p, "flock")
    /\ UNCHANGED <<copies, seen, loads, faults>>

Locks(p) ==
    /\ at[p] \in {"flock", "flock_new"} /\ Unlocked
    /\ Goto(p, IF at[p] = "flock" THEN "opened" ELSE "migrate")
    /\ UNCHANGED <<exists, copies, seen, loads, faults>>

\* _insertInstalledPluginInfoBytes: all in one transaction.
Migrates(p) ==
    /\ at[p] = "migrate"
    /\ copies' = copies + 1
    /\ Goto(p, "opened")
    /\ UNCHANGED <<exists, seen, loads, faults>>

\* The transaction fails: the database is closed and the error returned.
MigrationFails(p) ==
    /\ at[p] = "migrate" /\ faults < MaxFaults
    /\ faults' = faults + 1
    /\ Goto(p, "idle")
    /\ UNCHANGED <<exists, copies, seen, loads>>

\* FindAll and Close.
Finds(p) ==
    /\ at[p] = "opened"
    /\ seen' = [seen EXCEPT ![p] = copies]
    /\ Goto(p, "idle")
    /\ UNCHANGED <<exists, copies, loads, faults>>

\* The process is killed, and its locks are gone.
Killed(p) ==
    /\ at[p] # "idle" /\ faults < MaxFaults
    /\ faults' = faults + 1
    /\ Goto(p, "idle")
    /\ UNCHANGED <<exists, copies, seen, loads>>

Next == \E p \in Processes :
    \/ Starts(p) \/ OpensExisting(p) \/ ReadsJson(p) \/ CreatesExclusively(p)
    \/ Creates(p) \/ Locks(p) \/ Migrates(p) \/ MigrationFails(p) \/ Finds(p)
    \/ Killed(p)

Spec == Init /\ [][Next]_vars
            /\ \A p \in Processes :
                 /\ WF_vars(OpensExisting(p) \/ ReadsJson(p) \/ CreatesExclusively(p))
                 /\ WF_vars(Creates(p) \/ Migrates(p) \/ Finds(p))
                 /\ SF_vars(Locks(p))

(***************************************************************************)
(* Properties.                                                             *)
(***************************************************************************)
\* The variables have their types, and bolt.Open lets one process in at a time.
TypeOK ==
    /\ exists \in BOOLEAN /\ copies \in Nat
    /\ at \in [Processes -> {"idle", "open", "json", "exclusive", "create", "flock",
                             "flock_new", "migrate", "opened"}]
    /\ seen \in [Processes -> Nat \cup {-1}]
    /\ loads \in 0 .. MaxLoads /\ faults \in 0 .. MaxFaults
    /\ copies > 0 => exists
    /\ \A p, q \in Processes : {at[p], at[q]} \subseteq {"migrate", "opened"} => p = q

\* The plugins are migrated by one process, whatever the order of the steps of
\* several and whichever of them is killed (LoadInstalledPlugins, step 3).
MigratedOnce == copies <= 1

\* Once the database is there and nobody is on the way to fill it, the plugins
\* of the JSON file are in it: they are not left behind.
MigrationKeeps ==
    exists /\ (\A p \in Processes : at[p] \notin {"flock_new", "migrate"})
        /\ Json = "plugins" => copies > 0

\* Who lists the plugins finds those of the JSON file.
ListComplete == \A p \in Processes : Json = "plugins" => seen[p] # 0

\* Who starts to load, and is not killed, has the list or an error.
LoadEnds == \A p \in Processes : at[p] = "open" ~> at[p] = "idle"
=============================================================================
