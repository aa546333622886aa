---------------------------- MODULE StateManager ----------------------------
(***************************************************************************)
(* State configurations (agent/statemanager): a timer refreshes them from  *)
(* the server, keeps one timer per configuration, and the callbacks of     *)
(* those apply or monitor the configuration and report the result.  The    *)
(* performance monitor looks at the refresh timer from a goroutine of its  *)
(* own (agent/perfmon).                                                    *)
(*                                                                         *)
(* Time is the number of definitions the server has changed: a definition  *)
(* carries the time it was updated, a report the time it was made, and a   *)
(* checkpoint the time of the answer it came with.                         *)
(***************************************************************************)
EXTENDS Integers, FiniteSets

CONSTANTS Configs, Jobs,     \* configurations, goroutines of their callbacks
          Modes, Schedules,  \* those in use; the schedule "bad" is invalid
          Intervals,         \* refresh intervals the server may ask for
          MaxChange, MaxCrash,   \* bounds
          Monitored,         \* whether the performance monitor is running
          None

StateManagerAssumption ==
    /\ Modes \subseteq {"ApplyOnly", "ApplyAndMonitor", "ApplyAndAutoCorrect"}
    /\ Schedules \subseteq {"rate", "cron", "bad"}
    /\ Intervals \subseteq Nat \ {0} /\ 1 \in Intervals
    /\ MaxChange \in Nat /\ MaxCrash \in Nat /\ Monitored \in BOOLEAN
    /\ None \notin Configs

VARIABLES time,       \* changes of definitions so far
          srv,        \* the server's definitions
          applied,    \* SuccessfulApplyTime, as the server knows it
          srvInterval,
          cached, file, \* stateConfigCache, and the cache file
          known,      \* stateConfigs
          timers,     \* stateConfigTimers: the schedule each was made for
          interval,   \* refreshIntervalSeconds
          mtimer,     \* _stateManageTimer
          lock,       \* _statemanageTimerInitLock
          rpc,        \* the callback of the refresh timer
          job,        \* callbacks of the configurations' timers
          perf,       \* a check of the performance monitor
          real,       \* history: the definition each was last applied with
          crashes

srvVars == <<time, srv, applied, srvInterval>>
cache == <<cached, file>>
configs == <<known, timers>>
refresh == <<interval, mtimer, lock, rpc>>
stateVars == <<srvVars, cache, configs, refresh, job, perf, real, crashes>>

Definition == [time : 1..MaxChange, mode : Modes, sched : Schedules]
\* hasApplied, with the answer's SuccessfulApplyTime and DefinitionUpdateTime.
Config == [time : 1..MaxChange, mode : Modes, sched : Schedules, done : BOOLEAN]
Answer == [checkpoint : 0..MaxChange, interval : Intervals,
           configs : [Configs -> Config \cup {None}]]

\* The interval of a region that does not offer the service.
OneDay == 24 * 60 * 60

RefreshPlaces == {"idle", "loaded", "cancel", "canceling", "init",
                  "initializing", "timers"}
IdleJob == [pc |-> "idle", id |-> None, config |-> None, own |-> FALSE]

\* The type invariant.
StatesTypeOK ==
    /\ time \in 0..MaxChange
    /\ srv \in [Configs -> Definition \cup {None}]
    /\ applied \in [Configs -> 0..MaxChange] /\ real \in [Configs -> 0..MaxChange]
    /\ srvInterval \in Intervals /\ interval \in Intervals \cup {OneDay}
    /\ cached \in Answer \cup {None} /\ file \in Answer \cup {None}
    /\ known \in [Configs -> Config \cup {None}]
    /\ timers \in [Configs -> Schedules \cup {None}]
    /\ mtimer \in {"nil", "drift", "run"}
    /\ lock \in {"free", "refresh", "perf"}
    /\ rpc \in RefreshPlaces
    /\ job \in [Jobs -> [pc : {"idle", "drift", "wait", "enforce", "report"},
                         id : Configs \cup {None},
                         config : Config \cup {None}, own : BOOLEAN]]
    /\ perf \in {"idle", "locking", "running", "panicked"}
    /\ crashes \in 0..MaxCrash

StatesInit ==
    /\ time = 0
    /\ srv = [c \in Configs |-> None]
    /\ applied = [c \in Configs |-> 0] /\ real = [c \in Configs |-> 0]
    /\ srvInterval = 1
    /\ file = None
    \* InitStateManagerTimer has been called.
    /\ cached = None
    /\ known = [c \in Configs |-> None] /\ timers = known
    /\ interval = 1 /\ mtimer = "drift" /\ lock = "free" /\ rpc = "idle"
    /\ job = [j \in Jobs |-> IdleJob]
    /\ perf = "idle"
    /\ crashes = 0

(* ------------------------------ the server ------------------------------ *)

ServerChanges(c) ==
    /\ time < MaxChange
    /\ time' = time + 1
    /\ \/ srv[c] # None /\ srv' = [srv EXCEPT ![c] = None]
       \/ \E m \in Modes, s \in Schedules :
            srv' = [srv EXCEPT ![c] = [time |-> time + 1, mode |-> m, sched |-> s]]
    /\ srvInterval' \in Intervals
    /\ UNCHANGED <<applied, cache, configs, refresh, job, perf, real, crashes>>

\* What ListInstanceStateConfigurations answers in full.
FullAnswer ==
    [checkpoint |-> time, interval |-> srvInterval,
     configs |-> [c \in Configs |->
        IF srv[c] = None THEN None
        ELSE [time |-> srv[c].time, mode |-> srv[c].mode,
              sched |-> srv[c].sched, done |-> applied[c] >= srv[c].time]]]

RefreshGoto(from, to) == rpc = from /\ rpc' = to

(* ------------------------------- Mutants -------------------------------- *)

\* Callbacks that enforce without stateConfigEnforceLock.
JobUnlocked(j) ==
    /\ job[j].pc = "wait"
    /\ job' = [job EXCEPT ![j].pc = "enforce"]
    /\ UNCHANGED <<srvVars, cache, configs, refresh, perf, real, crashes>>

\* A reschedule that only cancels.
CanceledForGood ==
    /\ lock = "refresh" /\ RefreshGoto("canceling", "idle")
    /\ lock' = "free" /\ mtimer' = "nil"
    /\ UNCHANGED <<srvVars, cache, configs, interval, job, perf, real, crashes>>

(* --------------------------- refreshStateConfigs ------------------------ *)

\* The goroutine that InitStateManagerTimer started has slept, and runs it.
DriftEnds ==
    /\ mtimer = "drift"
    /\ mtimer' = "run"
    /\ UNCHANGED <<srvVars, cache, configs, interval, lock, rpc, job, perf, real,
                   crashes>>

\* LoadConfigCache: from memory, else from the file.
RefreshStarts ==
    /\ mtimer = "run" /\ RefreshGoto("idle", "loaded")
    /\ cached' = IF cached = None THEN file ELSE cached
    /\ UNCHANGED <<srvVars, file, configs, interval, mtimer, lock, job, perf, real,
                   crashes>>

\* With the configurations of r: another interval means starting over.
Uses(r) ==
    IF r.interval # interval
    THEN /\ interval' = r.interval
         /\ rpc' = "cancel"
         /\ known' = known
    ELSE /\ interval' = interval
         /\ rpc' = "timers"
         /\ known' = r.configs

\* The checkpoint is less than a minute old.
UsesCache ==
    /\ rpc = "loaded" /\ cached # None
    /\ Uses(cached)
    /\ UNCHANGED <<srvVars, cache, timers, mtimer, lock, job, perf, real, crashes>>

\* The answer: Changed if a definition is younger than the checkpoint (and
\* possibly otherwise).  The cache file may fail to be written.
Fetches ==
    /\ rpc = "loaded"
    /\ cached' = FullAnswer
    /\ file' \in {file, FullAnswer}
    /\ Uses(FullAnswer)
    /\ UNCHANGED <<srvVars, timers, mtimer, lock, job, perf, real, crashes>>

NotChanged ==
    /\ rpc = "loaded" /\ cached # None /\ cached.checkpoint = time
    /\ Uses(cached)
    /\ UNCHANGED <<srvVars, cache, timers, mtimer, lock, job, perf, real, crashes>>

\* The instance's data or the server is not available.
FetchFails ==
    /\ RefreshGoto("loaded", "idle")
    /\ UNCHANGED <<srvVars, cache, configs, interval, mtimer, lock, job, perf, real,
                   crashes>>

\* ServiceNotSupported: ask once a day, and keep what is known.
NotSupported ==
    /\ rpc = "loaded"
    /\ rpc' = IF interval = OneDay THEN "idle" ELSE "cancel"
    /\ interval' = OneDay
    /\ UNCHANGED <<srvVars, cache, configs, mtimer, lock, job, perf, real, crashes>>

\* CancelStateManagerTimer.
LocksToCancel ==
    /\ lock = "free" /\ RefreshGoto("cancel", "canceling")
    /\ lock' = "refresh"
    /\ UNCHANGED <<srvVars, cache, configs, interval, mtimer, job, perf, real,
                   crashes>>
Cancels ==
    /\ lock = "refresh" /\ RefreshGoto("canceling", "init")
    /\ lock' = "free" /\ mtimer' = "nil"
    /\ UNCHANGED <<srvVars, cache, configs, interval, job, perf, real, crashes>>

\* InitStateManagerTimer; the old timer's callback has nothing left to do.
LocksToInit ==
    /\ lock = "free" /\ RefreshGoto("init", "initializing")
    /\ lock' = "refresh"
    /\ UNCHANGED <<srvVars, cache, configs, interval, mtimer, job, perf, real,
                   crashes>>
Inits ==
    /\ lock = "refresh" /\ RefreshGoto("initializing", "idle")
    /\ lock' = "free" /\ mtimer' = "drift"
    /\ UNCHANGED <<srvVars, cache, configs, interval, job, perf, real, crashes>>

\* refreshStateConfigTimers: a timer whose schedule has changed is torn down and
\* set up again, and those of other configurations are torn down.
NewTimer(c) ==
    IF known[c] = None \/ known[c].sched = "bad" THEN None ELSE known[c].sched
RefreshTimers ==
    /\ RefreshGoto("timers", "idle")
    /\ timers' = [c \in Configs |-> NewTimer(c)]
    /\ job' = [j \in Jobs |->
           IF job[j].own /\ NewTimer(job[j].id) # timers[job[j].id]
           THEN [job[j] EXCEPT !.own = FALSE] ELSE job[j]]
    /\ UNCHANGED <<srvVars, cache, known, interval, mtimer, lock, perf, real, crashes>>

RefreshStep ==
    \/ RefreshStarts \/ UsesCache \/ Fetches \/ NotChanged \/ FetchFails \/ NotSupported
    \/ LocksToCancel \/ Cancels \/ LocksToInit \/ Inits \/ RefreshTimers

(* -------------------- callbacks of the configurations ------------------- *)

\* One goroutine per timer, as runTimer sees to.  Without a configuration the
\* callback returns at once; a cron schedule first drifts.
JobStarts(j, c) ==
    /\ timers[c] # None /\ known[c] # None /\ job[j].pc = "idle"
    /\ \A i \in Jobs : ~(job[i].own /\ job[i].id = c)
    /\ job' = [job EXCEPT ![j] =
           [pc |-> IF known[c].sched = "cron" THEN "drift" ELSE "wait",
            id |-> c, config |-> known[c], own |-> TRUE]]
    /\ UNCHANGED <<srvVars, cache, configs, refresh, perf, real, crashes>>

JobDrifts(j) ==
    /\ job[j].pc = "drift"
    /\ job' = [job EXCEPT ![j].pc = "wait"]
    /\ UNCHANGED <<srvVars, cache, configs, refresh, perf, real, crashes>>

Enforcing == {j \in Jobs : job[j].pc \in {"enforce", "report"}}

JobLocks(j) ==
    /\ job[j].pc = "wait" /\ Enforcing = {}
    /\ job' = [job EXCEPT ![j].pc = "enforce"]
    /\ UNCHANGED <<srvVars, cache, configs, refresh, perf, real, crashes>>

\* getMode of the configuration the callback read at its start.
WillApply(config) == config.mode = "ApplyAndAutoCorrect" \/ ~config.done

Applies(j) ==
    /\ job[j].pc = "enforce" /\ WillApply(job[j].config)
    /\ real' = [real EXCEPT ![job[j].id] = job[j].config.time]
    /\ job' = [job EXCEPT ![j].pc = "report"]
    /\ UNCHANGED <<srvVars, cache, configs, refresh, perf, crashes>>

\* The report reaches the server: it has an id, a status and a time.
Reports(j) ==
    /\ job[j].pc = "report"
    /\ applied' = [applied EXCEPT ![job[j].id] = time]
    /\ job' = [job EXCEPT ![j] = IdleJob]
    /\ UNCHANGED <<time, srv, srvInterval, cache, configs, refresh, perf, real,
                   crashes>>

\* Skip, Monitor, a template that is not available, a state that cannot be
\* applied, or a report that is lost.
JobEnds(j) ==
    /\ job[j].pc \in {"enforce", "report"}
    /\ job' = [job EXCEPT ![j] = IdleJob]
    /\ UNCHANGED <<srvVars, cache, configs, refresh, perf, real, crashes>>

JobStep(j) == JobDrifts(j) \/ JobLocks(j) \/ Applies(j) \/ Reports(j) \/ JobEnds(j)

(* -------------------- IsStateManagerTimerRunning ------------------------ *)

PerfChecks ==
    /\ Monitored /\ perf = "idle"
    /\ perf' = IF mtimer = "nil" THEN "idle" ELSE "locking"
    /\ UNCHANGED <<srvVars, cache, configs, refresh, job, real, crashes>>

PerfLocks ==
    /\ perf = "locking" /\ lock = "free"
    /\ lock' = "perf" /\ perf' = "running"
    /\ UNCHANGED <<srvVars, cache, configs, interval, mtimer, rpc, job, real, crashes>>

\* _stateManageTimer.IsRunning(), without another look at the pointer.
PerfReads ==
    /\ perf = "running"
    /\ perf' = IF mtimer = "nil" THEN "panicked" ELSE "idle"
    /\ lock' = "free"
    /\ UNCHANGED <<srvVars, cache, configs, interval, mtimer, rpc, job, real, crashes>>

(* -------------------------------- crashes ------------------------------- *)

\* The process ends and starts again; a cache file that was being written is
\* not valid JSON, and is ignored.
Restart ==
    /\ crashes < MaxCrash
    /\ crashes' = crashes + 1
    /\ file' \in {file, None}
    /\ cached' = None
    /\ known' = [c \in Configs |-> None] /\ timers' = known'
    /\ interval' = 1 /\ mtimer' = "drift" /\ lock' = "free" /\ rpc' = "idle"
    /\ job' = [j \in Jobs |-> IdleJob]
    /\ perf' = "idle"
    /\ UNCHANGED <<srvVars, real>>

\* A panic in the goroutine of the check ends the process.
StatesNext ==
    \/ /\ perf # "panicked"
       /\ \/ \E c \in Configs : ServerChanges(c) \/ \E j \in Jobs : JobStarts(j, c)
          \/ DriftEnds \/ RefreshStep
          \/ \E j \in Jobs : JobStep(j)
          \/ PerfChecks \/ PerfLocks \/ PerfReads
    \/ Restart

StatesSpec == StatesInit /\ [][StatesNext]_stateVars

\* Timers fire, goroutines are scheduled, and mutexes are starvation-free.  A
\* request that is made again and again succeeds now and then (what happens where it
\* is also refused for good is left to Offered), and so is a state applied that
\* keeps being tried.
StatesFairness ==
    /\ WF_stateVars(DriftEnds) /\ WF_stateVars(RefreshStep) /\ SF_stateVars(Fetches)
    /\ SF_stateVars(LocksToCancel \/ LocksToInit) /\ WF_stateVars(PerfLocks \/ PerfReads)
    /\ \A c \in Configs : SF_stateVars(\E j \in Jobs : JobStarts(j, c))
    /\ \A j \in Jobs : /\ WF_stateVars(JobStep(j))
                       /\ SF_stateVars(JobLocks(j)) /\ SF_stateVars(Applies(j))
StatesLiveSpec == StatesSpec /\ StatesFairness

(* ------------------------------ properties ------------------------------ *)

\* States are applied by one callback at a time, even while the timer of a
\* configuration is replaced and the callback of the old one goes on.
OneEnforces == Cardinality(Enforcing) <= 1

\* Between refreshes the timers are those of the configurations the agent
\* knows, each with its schedule.
TimersFollow ==
    rpc # "timers" => \A c \in Configs : timers[c] = NewTimer(c)

\* A callback that a timer waits for is the only one it has started, and the
\* timer is still there: one that was torn down leaves its callback to itself.
CallbacksOwned ==
    \A j \in Jobs : job[j].own =>
        /\ timers[job[j].id] # None
        /\ \A i \in Jobs : job[i].own /\ job[i].id = job[j].id => i = j

StatesInStep == OneEnforces /\ TimersFollow /\ CallbacksOwned

\* From some time on the region offers the service.  Until then an answer may find the
\* interval of a day, and only reschedule: a region that changes its mind between any
\* two answers keeps the agent from using one.
Offered == <>[][~NotSupported]_stateVars

\* The server's definition is applied in the end, whatever requests fail, whether the
\* agent restarts, and though the service may not have been supported before, if it is
\* one to be corrected automatically.
DefinitionApplied == Offered =>
    \A c \in Configs, t \in 1..MaxChange :
        (srv[c] # None /\ srv[c].time = t) ~>
            (srv[c] = None \/ srv[c].time # t \/ real[c] = t)

\* A configuration the server has deleted is no longer run, once the service is offered.
DeletedStops == Offered =>
    \A c \in Configs : (srv[c] = None) ~> (srv[c] # None \/ timers[c] = None)

\* "Agent applies the configuration and does nothing further unless the
\* configuration (template and parameters) is updated." (statemanager.go)
AppliedOnce ==
    [][\A j \in Jobs :
         Applies(j) /\ job[j].config.mode = "ApplyOnly" =>
             applied[job[j].id] < job[j].config.time]_stateVars

\* While configurations are pulled performance is not monitored (perfmon.go):
\* the check that sees to it returns.
PerfReturns == perf # "panicked"
=============================================================================
