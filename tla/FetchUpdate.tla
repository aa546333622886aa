----------------------------- MODULE FetchUpdate -----------------------------
(***************************************************************************)
(* Fetching tasks against updating the agent.  An update ends with a script*)
(* that kills the process, so it must not run while a task is fetched or a *)
(* non-periodic task is registered; fetches must not wait for each other.  *)
(*                                                                         *)
(*   agent/taskengine/scheduletask.go  Fetch, EnableFetchingTask           *)
(*   agent/update/routine.go           executeUpdateScript                 *)
(*   agent/channel/channel_manager.go  OnRecvMsg, which starts a Fetch     *)
(*   rootcmd.go                        run, which starts the first one     *)
(*                                                                         *)
(* One step is one operation on an atomic variable, on FetchingTaskLock or *)
(* on TaskFactory.  What a fetch dispatches is abstracted to the ids of the*)
(* non-periodic tasks it adds to TaskFactory (module TaskEngine has the    *)
(* rest): tasks is what IsAnyNonPeriodicTaskRunning looks at.              *)
(***************************************************************************)
EXTENDS Naturals, FiniteSets

CONSTANTS Kicks,     \* goroutines started for kick_vm messages
          Main,      \* the goroutine executing run, which fetches once
          TaskIds,   \* ids of non-periodic tasks
          MaxKicks,  \* bound on the number of messages
          SlowGap,   \* may the step from FetchingTaskLock.Unlock to
                     \* FetchingTaskCounter.Add outlast the updater's sleep of 5s?
          Updater,   \* the goroutine of the update check timer
          NoOne      \* the holder of a free lock

Fetchers == Kicks \cup {Main}

ASSUME FetchAssumption ==
    /\ IsFiniteSet(Kicks)
    /\ Main \notin Kicks
    /\ Updater \notin Fetchers
    /\ NoOne \notin Fetchers \cup {Updater}
    /\ MaxKicks \in Nat
    /\ SlowGap \in BOOLEAN

VARIABLES
    enabled,         \* _neverDirectWrite_Atomic_FetchingTaskEnabled
    startupFetched,  \* _startupFetched
    lock,            \* holder of FetchingTaskLock
    counter,         \* FetchingTaskCounter
    critical,        \* _criticalActionRunning
    tasks,           \* ids of the non-periodic tasks in TaskFactory
    fpc,             \* control state of each fetching goroutine
    whole,           \* its taskId is "" and its type NormalTaskType
    upc,             \* control state of executeUpdateScript
    startups,        \* history: fetches sent with reason startup
    kicks            \* messages received so far

fetchVars == <<enabled, startupFetched, fpc, whole, startups, kicks>>
vars == <<fetchVars, lock, counter, critical, tasks, upc>>

FetchStates == {"idle", "boot", "startup", "entry", "tryLock", "unlock", "gap",
                "reason", "fetch"}
UpdateStates == {"idle", "check", "checkTasks", "tryLock", "sleep", "recheck",
                 "recheckTasks", "script"}

\* The type invariant: every variable stays within the values the code gives it.
TypeOK ==
    /\ enabled \in BOOLEAN
    /\ startupFetched \in BOOLEAN
    /\ lock \in Fetchers \cup {Updater, NoOne}
    /\ counter \in Nat
    /\ critical \in BOOLEAN
    /\ tasks \subseteq TaskIds
    /\ fpc \in [Fetchers -> FetchStates]
    /\ whole \in [Fetchers -> BOOLEAN]
    /\ upc \in UpdateStates
    /\ startups \in Nat
    /\ kicks \in Nat

Init ==
    /\ enabled = FALSE
    /\ startupFetched = FALSE
    /\ lock = NoOne
    /\ counter = 0
    /\ critical = FALSE
    /\ tasks = {}
    /\ fpc = [f \in Fetchers |-> IF f = Main THEN "boot" ELSE "idle"]
    /\ whole = [f \in Fetchers |-> f = Main]
    /\ upc = "idle"
    /\ startups = 0
    /\ kicks = 0

Goto(f, label) == fpc' = [fpc EXCEPT ![f] = label]

-----------------------------------------------------------------------------
(* Mutants: what a plausible slip in the code would make of the action below   *)
(* whose name each extends.  They are no part of the specification; they show  *)
(* that the properties can fail.                                               *)

\* The counter is decreased although it was not increased.
FetchTimeoutCounted(f) ==
    /\ fpc[f] = "tryLock"
    /\ lock # NoOne
    /\ counter' = counter - 1
    /\ Goto(f, "idle")
    /\ UNCHANGED <<enabled, startupFetched, whole, startups, kicks, lock,
                   critical, tasks, upc>>

\* Any fetch uses the startup flag up.
FetchReasonAny(f) ==
    /\ fpc[f] = "reason"
    /\ startupFetched' = TRUE
    /\ startups' = IF whole[f] /\ ~startupFetched THEN startups + 1 ELSE startups
    /\ Goto(f, "fetch")
    /\ UNCHANGED <<enabled, whole, kicks, lock, counter, critical, tasks, upc>>

\* The Unlock is not deferred to the return after the double check.
UpdateAgainLocked == critical' = FALSE /\ upc' = "check" /\ UNCHANGED lock

\* The double check looks at the tasks only.
UpdateRecheckSkipped ==
    /\ upc = "recheck"
    /\ upc' = "recheckTasks"
    /\ UNCHANGED <<fetchVars, lock, counter, critical, tasks>>

-----------------------------------------------------------------------------
(* Who calls Fetch. *)

\* run: EnableFetchingTask, the last step of the start.
EnableFetchingTask ==
    /\ fpc[Main] = "boot"
    /\ enabled' = TRUE
    /\ Goto(Main, "startup")
    /\ UNCHANGED <<startupFetched, whole, startups, kicks, lock, counter,
                   critical, tasks, upc>>

\* run: the startup fetch, unless a kick has taken it over.
StartupFetch ==
    /\ fpc[Main] = "startup"
    /\ Goto(Main, IF startupFetched THEN "idle" ELSE "entry")
    /\ UNCHANGED <<enabled, startupFetched, whole, startups, kicks, lock,
                   counter, critical, tasks, upc>>

\* OnRecvMsg: a kick is refused while a critical action runs, otherwise
\* accepted and left to a goroutine; "kick_vm" fetches everything, the other
\* messages name a task or a session.
OnRecvMsg(f, all) ==
    /\ fpc[f] = "idle"
    /\ kicks < MaxKicks
    /\ kicks' = kicks + 1
    /\ IF critical
       THEN UNCHANGED <<fpc, whole>>
       ELSE Goto(f, "entry") /\ whole' = [whole EXCEPT ![f] = all]
    /\ UNCHANGED <<enabled, startupFetched, startups, lock, counter, critical,
                   tasks, upc>>

-----------------------------------------------------------------------------
(* Fetch. *)

\* isEnabledFetchingTask.
FetchEntry(f) ==
    /\ fpc[f] = "entry"
    /\ Goto(f, IF enabled THEN "tryLock" ELSE "idle")
    /\ UNCHANGED <<enabled, startupFetched, whole, startups, kicks, lock,
                   counter, critical, tasks, upc>>

\* FetchingTaskLock.TryLockWithTimeout succeeds, ...
FetchLock(f) ==
    /\ fpc[f] = "tryLock"
    /\ lock = NoOne
    /\ lock' = f
    /\ Goto(f, "unlock")
    /\ UNCHANGED <<enabled, startupFetched, whole, startups, kicks, counter,
                   critical, tasks, upc>>

\* ... or times out: ErrUpdatingProcedureRunning.
FetchTimeout(f) ==
    /\ fpc[f] = "tryLock"
    /\ lock # NoOne
    /\ Goto(f, "idle")
    /\ UNCHANGED <<enabled, startupFetched, whole, startups, kicks, lock,
                   counter, critical, tasks, upc>>

\* FetchingTaskLock.Unlock, at once.
FetchUnlock(f) ==
    /\ fpc[f] = "unlock"
    /\ lock' = NoOne
    /\ Goto(f, "gap")
    /\ UNCHANGED <<enabled, startupFetched, whole, startups, kicks, counter,
                   critical, tasks, upc>>

\* FetchingTaskCounter.Add(1).
FetchCount(f) ==
    /\ fpc[f] = "gap"
    /\ counter' = counter + 1
    /\ Goto(f, "reason")
    /\ UNCHANGED <<enabled, startupFetched, whole, startups, kicks, lock,
                   critical, tasks, upc>>

\* _startupFetched.Swap(true): the first whole fetch has reason startup.
FetchReason(f) ==
    /\ fpc[f] = "reason"
    /\ IF whole[f] /\ ~startupFetched
       THEN startupFetched' = TRUE /\ startups' = startups + 1
       ELSE UNCHANGED <<startupFetched, startups>>
    /\ Goto(f, "fetch")
    /\ UNCHANGED <<enabled, whole, kicks, lock, counter, critical, tasks, upc>>

\* fetchTasks adds a non-periodic task to TaskFactory; the retry of a kick that
\* found nothing only makes the fetch longer.
FetchDispatch(f, t) ==
    /\ fpc[f] = "fetch"
    /\ t \notin tasks
    /\ tasks' = tasks \cup {t}
    /\ UNCHANGED <<fetchVars, lock, counter, critical, upc>>

\* FetchingTaskCounter.Add(-1), deferred to the return of Fetch.
FetchReturn(f) ==
    /\ fpc[f] = "fetch"
    /\ counter' = counter - 1
    /\ Goto(f, "idle")
    /\ UNCHANGED <<enabled, startupFetched, whole, startups, kicks, lock,
                   critical, tasks, upc>>

\* A task ends and leaves TaskFactory.
TaskEnds(t) ==
    /\ t \in tasks
    /\ tasks' = tasks \ {t}
    /\ UNCHANGED <<fetchVars, lock, counter, critical, upc>>

-----------------------------------------------------------------------------
(* executeUpdateScript. *)

\* SafeUpdate has prepared an update.
UpdateStart ==
    /\ upc = "idle"
    /\ upc' = "check"
    /\ UNCHANGED <<fetchVars, lock, counter, critical, tasks>>

\* The first look at FetchingTaskCounter; a running fetch means sleep and retry.
UpdateCheck ==
    /\ upc = "check"
    /\ counter = 0
    /\ upc' = "checkTasks"
    /\ UNCHANGED <<fetchVars, lock, counter, critical, tasks>>

\* The first look at TaskFactory, and _criticalActionRunning.Set.
UpdateCheckTasks ==
    /\ upc = "checkTasks"
    /\ upc' = IF tasks = {} THEN "tryLock" ELSE "check"
    /\ critical' = (tasks = {})
    /\ UNCHANGED <<fetchVars, lock, counter, tasks>>

\* FetchingTaskLock.TryLock; on failure the deferred Clear runs.
UpdateTryLock ==
    /\ upc = "tryLock"
    /\ IF lock = NoOne
       THEN lock' = Updater /\ upc' = "sleep" /\ UNCHANGED critical
       ELSE critical' = FALSE /\ upc' = "check" /\ UNCHANGED lock
    /\ UNCHANGED <<fetchVars, counter, tasks>>

\* Five seconds later.  Unless SlowGap, a goroutine that released the lock
\* before the updater took it has long increased the counter.
UpdateWake ==
    /\ upc = "sleep"
    /\ SlowGap \/ \A f \in Fetchers : fpc[f] # "gap"
    /\ upc' = "recheck"
    /\ UNCHANGED <<fetchVars, lock, counter, critical, tasks>>

\* The deferred Unlock and Clear, then the next round.
UpdateAgain ==
    /\ lock' = NoOne
    /\ critical' = FALSE
    /\ upc' = "check"

\* The double check: FetchingTaskCounter first ...
UpdateRecheck ==
    /\ upc = "recheck"
    /\ IF counter > 0
       THEN UpdateAgain
       ELSE upc' = "recheckTasks" /\ UNCHANGED <<lock, critical>>
    /\ UNCHANGED <<fetchVars, counter, tasks>>

\* ... then TaskFactory, then the script.
UpdateRecheckTasks ==
    /\ upc = "recheckTasks"
    /\ IF tasks # {}
       THEN UpdateAgain
       ELSE upc' = "script" /\ UNCHANGED <<lock, critical>>
    /\ UNCHANGED <<fetchVars, counter, tasks>>

\* The script failed to kill the agent: the function returns and the deferred
\* calls run.  That it kills the agent is the end of the behaviour.
ScriptReturns ==
    /\ upc = "script"
    /\ lock' = NoOne
    /\ critical' = FALSE
    /\ upc' = "idle"
    /\ UNCHANGED <<fetchVars, counter, tasks>>

-----------------------------------------------------------------------------
FetchStep(f) ==
    \/ FetchEntry(f) \/ FetchLock(f) \/ FetchTimeout(f) \/ FetchUnlock(f)
    \/ FetchCount(f) \/ FetchReason(f) \/ FetchReturn(f)

UpdateStep ==
    \/ UpdateCheck \/ UpdateCheckTasks \/ UpdateTryLock \/ UpdateWake
    \/ UpdateRecheck \/ UpdateRecheckTasks

MainStep == EnableFetchingTask \/ StartupFetch

Next ==
    \/ MainStep
    \/ \E f \in Kicks, all \in BOOLEAN : OnRecvMsg(f, all)
    \/ \E f \in Fetchers : FetchStep(f)
    \/ \E f \in Fetchers, t \in TaskIds : FetchDispatch(f, t)
    \/ \E t \in TaskIds : TaskEnds(t)
    \/ UpdateStart \/ UpdateStep \/ ScriptReturns

Spec == Init /\ [][Next]_vars

\* Goroutines are scheduled and tasks end; nothing makes a message arrive, a
\* fetch find tasks, an update be due or the script return.
Fairness ==
    /\ WF_vars(MainStep)
    /\ \A f \in Fetchers : WF_vars(FetchStep(f))
    /\ \A t \in TaskIds : WF_vars(TaskEnds(t))
    /\ WF_vars(UpdateStep)

LiveSpec == Spec /\ Fairness

-----------------------------------------------------------------------------
(* Properties. *)

\* While the update script runs, "Mutex lock acquired and no running tasks":
\* no Fetch is under way past the lock and no non-periodic task is registered,
\* so the script kills nothing the server believes to be running.
ScriptRunsAlone ==
    upc = "script" =>
        /\ lock = Updater
        /\ tasks = {}
        /\ \A f \in Fetchers : fpc[f] \notin {"gap", "reason", "fetch"}

\* The fetches that passed FetchingTaskLock and have not returned.
Active == {f \in Fetchers : fpc[f] \in {"unlock", "gap", "reason", "fetch"}}

\* executeUpdateScript and Fetch implement the gate: in one atomic step each, a
\* fetch begins unless the script runs, and the script starts unless a fetch or
\* a task is there, although the code looks at the lock, the counter and the
\* factory one after the other.
Gate == INSTANCE UpdateGate WITH active <- Active, script <- (upc = "script")
ImplementsGate == Gate!Spec

\* The startup fetch, the only one to return periodic tasks, is sent once per
\* process however kicks and the main goroutine interleave, and the flag is
\* never set without it: a Fetch that was turned away does not use it up.
StartupOnce == startups = IF startupFetched THEN 1 ELSE 0

\* The updater does not wait for ever once kicks stop arriving: its attempts
\* and those of the fetches do not keep turning each other away.
UpdateGetsThrough == []<>(upc \in {"idle", "script"})

\* Every Fetch returns.
FetchesReturn == \A f \in Fetchers : []<>(fpc[f] = "idle")

\* The two together: fetches do not starve the updater, nor the updater them, and
\* neither leaves its types.
NeitherStarves == UpdateGetsThrough /\ FetchesReturn /\ []TypeOK
=============================================================================
