----------------------------- MODULE SessionTask -----------------------------
(***************************************************************************)
(* Sessions as the agent runs them: the task of a session, the factory that*)
(* knows the running ones (taskengine/session.go, sessionfactory.go), the  *)
(* shell plugin it starts (session/shell/shell.go), the cancel flag and the*)
(* kick that stops a session (kickvmhandle/sessionhandle.go).              *)
(*                                                                         *)
(* A run of a session waits for its plugin, three hours at most, then      *)
(* reports, closes the channel and leaves the factory.  The plugin ends    *)
(* when its shell does or when the watcher of the cancel flag wakes it.    *)
(* The flag is set to Completed by a kick and to Canceled by the timer of  *)
(* the channel (module SessionChannel) - the later of them wins - and the  *)
(* watcher asks it twice.                                                  *)
(***************************************************************************)
EXTENDS Naturals, FiniteSets

CONSTANTS
    Runs,        \* the sessions that are fetched, one run for each
    none,        \* no run: nil
    Duplicates,  \* do they all have the same session id?
    MaxKicks,    \* bound on the kicks that stop a session
    FlowLimits,  \* the limits a session may come with, in bits per second
    ThreeHours   \* may the three hours of a run pass?

SessionAssumption ==
    /\ none \notin Runs /\ MaxKicks \in Nat /\ FlowLimits \subseteq Nat
    /\ {Duplicates, ThreeHours} \subseteq BOOLEAN

VARIABLES
    factory,  \* SessionFactory.tasks: the run registered under an id
    at,       \* the goroutine of RunTask
    plugin,   \* that of Execute
    woken,    \* is there something in the channel "cancelled"?
    watcher,  \* the goroutine that waits for the cancel flag
    flag,     \* the cancel flag
    timed,    \* has the timer of the channel fired?
    kick,     \* the handler of a kick and the session it is about
    kicks,
    crashed

session == <<at, plugin, woken, watcher, flag, timed>>
taskVars == <<factory, session, kick, kicks, crashed>>

Id(r) == IF Duplicates THEN CHOOSE x \in Runs : TRUE ELSE r
Ids == {Id(r) : r \in Runs}

\* The type invariant.
TaskTypeOK ==
    /\ factory \in [Ids -> Runs \cup {none}]
    /\ at \in [Runs -> {"idle", "check", "add", "open", "run", "report", "remove", "over"}]
    /\ plugin \in [Runs -> {"none", "start", "run", "end"}]
    /\ {woken, timed} \subseteq [Runs -> BOOLEAN]
    /\ watcher \in [Runs -> {"none", "wait", "first", "second", "end"}]
    /\ flag \in [Runs -> {"none", "Canceled", "Completed"}]
    /\ kick \in [at : {"idle", "look", "get"}, id : Ids]
    /\ kicks \in 0 .. MaxKicks /\ crashed \in BOOLEAN

TaskInit ==
    /\ factory = [i \in Ids |-> none]
    /\ at = [r \in Runs |-> "idle"] /\ plugin = [r \in Runs |-> "none"]
    /\ woken = [r \in Runs |-> FALSE] /\ watcher = [r \in Runs |-> "none"]
    /\ flag = [r \in Runs |-> "none"] /\ timed = [r \in Runs |-> FALSE]
    /\ kick \in [at : {"idle"}, id : Ids]
    /\ kicks = 0 /\ crashed = FALSE

Go(r, place) == ~crashed /\ at' = [at EXCEPT ![r] = place]
Others == <<kick, kicks, crashed>>

(***************************************************************************)
(* RunTask.                                                                *)
(***************************************************************************)
\* DoSessionTask, for a session that was fetched.
Fetched(r) ==
    /\ at[r] = "idle"
    /\ Go(r, "check")
    /\ UNCHANGED <<factory, plugin, woken, watcher, flag, timed, Others>>

\* ContainsTask: a duplicate is reported as Session_id_duplicate.
Checks(r) ==
    /\ at[r] = "check"
    /\ Go(r, IF factory[Id(r)] = none THEN "add" ELSE "report")
    /\ UNCHANGED <<factory, plugin, woken, watcher, flag, timed, Others>>

\* NewShellPlugin divides by the packages the flow limit allows in a second;
\* nothing recovers.  AddSessionTask.
TooSlow(limit) == limit > 0 /\ (limit \div 8) \div 1024 = 0
Adds(r) ==
    /\ at[r] = "add" /\ ~crashed
    /\ \E limit \in FlowLimits :
          IF TooSlow(limit) THEN crashed' = TRUE /\ UNCHANGED <<factory, at>>
          ELSE /\ Go(r, "open") /\ UNCHANGED crashed
               /\ factory' = [factory EXCEPT ![Id(r)] = r]
    /\ UNCHANGED <<plugin, woken, watcher, flag, timed, kick, kicks>>

\* NewSessionChannel and Open; the goroutine of Execute starts.
OpensChannel(r) ==
    /\ at[r] = "open"
    /\ \/ Go(r, "report") /\ UNCHANGED plugin
       \/ Go(r, "run") /\ plugin' = [plugin EXCEPT ![r] = "start"]
    /\ UNCHANGED <<factory, woken, watcher, flag, timed, Others>>

(* Mutant: the session leaves the factory before it reports. *)
LeavesThenReports(r) ==
    /\ at[r] = "run" /\ plugin[r] = "end"
    /\ Go(r, "report")
    /\ factory' = [factory EXCEPT ![Id(r)] = none]
    /\ UNCHANGED <<plugin, woken, watcher, flag, timed, Others>>

PluginIsDone(r) ==
    /\ at[r] = "run" /\ plugin[r] = "end"
    /\ Go(r, "report")
    /\ UNCHANGED <<factory, plugin, woken, watcher, flag, timed, Others>>

\* The plugin is left to itself, and the cancel flag as it is.
RunTimesOut(r) ==
    /\ ThreeHours
    /\ at[r] = "run"
    /\ Go(r, "report")
    /\ UNCHANGED <<factory, plugin, woken, watcher, flag, timed, Others>>

\* ReportSessionResult, then Close of the channel.
Reports(r) ==
    /\ at[r] = "report"
    /\ Go(r, "remove")
    /\ UNCHANGED <<factory, plugin, woken, watcher, flag, timed, Others>>

\* RemoveTask, whoever is registered under the id.
Removes(r) ==
    /\ at[r] = "remove"
    /\ Go(r, "over")
    /\ factory' = [factory EXCEPT ![Id(r)] = none]
    /\ UNCHANGED <<plugin, woken, watcher, flag, timed, Others>>

(***************************************************************************)
(* Execute of the shell plugin, and its watcher.                           *)
(***************************************************************************)
PluginStarts(r) ==
    /\ plugin[r] = "start" /\ ~crashed
    /\ \/ plugin' = [plugin EXCEPT ![r] = "end"] /\ UNCHANGED watcher   \* no pty
       \/ /\ plugin' = [plugin EXCEPT ![r] = "run"]
          /\ watcher' = [watcher EXCEPT ![r] = "wait"]
    /\ UNCHANGED <<factory, at, woken, flag, timed, Others>>

\* writePump returns: the shell has exited, or its output cannot be sent.
ShellExits(r) ==
    /\ plugin[r] = "run" /\ ~crashed
    /\ plugin' = [plugin EXCEPT ![r] = "end"]
    /\ UNCHANGED <<factory, at, woken, watcher, flag, timed, Others>>

\* The session was cancelled: waitPid kills the shell.
PluginWakes(r) ==
    /\ plugin[r] = "run" /\ woken[r] /\ ~crashed
    /\ plugin' = [plugin EXCEPT ![r] = "end"]
    /\ woken' = [woken EXCEPT ![r] = FALSE]
    /\ UNCHANGED <<factory, at, watcher, flag, timed, Others>>

WatcherWaits(r) ==
    /\ watcher[r] = "wait" /\ flag[r] # "none" /\ ~crashed
    /\ watcher' = [watcher EXCEPT ![r] = "first"]
    /\ UNCHANGED <<factory, at, plugin, woken, flag, timed, Others>>

\* Is the state Canceled?  And then: is it Completed?  Each that is wakes the
\* plugin, once there is room in the channel.
WatcherAsks(r, now, state, next) ==
    /\ watcher[r] = now /\ ~crashed
    /\ IF flag[r] = state THEN ~woken[r] /\ woken' = [woken EXCEPT ![r] = TRUE]
       ELSE UNCHANGED woken
    /\ watcher' = [watcher EXCEPT ![r] = next]
    /\ UNCHANGED <<factory, at, plugin, flag, timed, Others>>

WatcherAsksBoth(r) ==
    \/ WatcherAsks(r, "first", "Canceled", "second")
    \/ WatcherAsks(r, "second", "Completed", "end")

\* The timer of the channel, three minutes after the last input, whether the
\* session is over or not.
TimerFires(r) ==
    /\ at[r] \in {"run", "report", "remove", "over"} /\ plugin[r] # "none"
    /\ ~timed[r] /\ ~crashed
    /\ timed' = [timed EXCEPT ![r] = TRUE]
    /\ flag' = [flag EXCEPT ![r] = "Canceled"]
    /\ UNCHANGED <<factory, at, plugin, woken, watcher, Others>>

(***************************************************************************)
(* "kick_vm session stop": stopSession.                                    *)
(***************************************************************************)
KickComes ==
    /\ kick.at = "idle" /\ kicks < MaxKicks /\ ~crashed
    /\ \E i \in Ids : kick' = [at |-> "look", id |-> i]
    /\ kicks' = kicks + 1
    /\ UNCHANGED <<factory, session, crashed>>

KickLooks ==
    /\ kick.at = "look" /\ ~crashed
    /\ kick' = [kick EXCEPT !.at = IF factory[kick.id] = none THEN "idle" ELSE "get"]
    /\ UNCHANGED <<factory, session, kicks, crashed>>

\* GetTask, whose second result is not looked at, then StopTask.
KickStops ==
    /\ kick.at = "get" /\ ~crashed
    /\ kick' = [kick EXCEPT !.at = "idle"]
    /\ LET r == factory[kick.id]
       IN  IF r = none THEN crashed' = TRUE /\ UNCHANGED flag
           ELSE flag' = [flag EXCEPT ![r] = "Completed"] /\ UNCHANGED crashed
    /\ UNCHANGED <<factory, at, plugin, woken, watcher, timed, kicks>>

Run(r) ==
    \/ Checks(r) \/ Adds(r) \/ OpensChannel(r) \/ PluginIsDone(r) \/ Reports(r) \/ Removes(r)
Watcher(r) == WatcherWaits(r) \/ WatcherAsksBoth(r)
Plugin(r) == PluginStarts(r) \/ PluginWakes(r)

TaskNext ==
    \/ \E r \in Runs :
          Fetched(r) \/ Run(r) \/ RunTimesOut(r) \/ Plugin(r) \/ ShellExits(r)
          \/ Watcher(r) \/ TimerFires(r)
    \/ KickComes \/ KickLooks \/ KickStops

TaskSpec == TaskInit /\ [][TaskNext]_taskVars

\* Goroutines get on.  A client may go on typing and a shell running for ever,
\* but a channel that is closed has no input: its timer fires.
TaskFairness ==
    \A r \in Runs :
        /\ WF_taskVars(Run(r)) /\ WF_taskVars(Watcher(r)) /\ WF_taskVars(Plugin(r))
        /\ WF_taskVars(at[r] \in {"remove", "over"} /\ TimerFires(r))
TaskLiveSpec == TaskSpec /\ TaskFairness

(***************************************************************************)
(* Properties.                                                             *)
(***************************************************************************)
\* SessionFactory.tasks should have the runs between AddSessionTask and RemoveTask.
Registered(r) == at[r] \in {"open", "run", "report", "remove"}

\* A session that runs is in the factory, where a kick can stop it and the monitor of the
\* agent's load sees it (GetSessionFactory().IsAnyTaskRunning), unless another of the
\* same id passed ContainsTask as well and is there instead, or took it out as it ended
\* (a refused duplicate does that too).  And the factory never keeps one that is over,
\* for which every later session of the id would be refused.
RunningIsKnown ==
    /\ \A i \in Ids : factory[i] # none => Id(factory[i]) = i /\ Registered(factory[i])
    /\ \A r \in Runs :
          at[r] \in {"open", "run", "report"} /\ factory[Id(r)] # r =>
             \E q \in Runs \ {r} : Id(q) = Id(r) /\ (factory[Id(r)] = q \/ at[q] = "over")

\* No shell outlives its session for good, even when the run gave up waiting
\* after three hours: "Wait ... the go routine wakes up the running job".
PluginEnds == \A r \in Runs : at[r] = "over" ~> plugin[r] \in {"none", "end"}

\* perfmon.go:150 wants the load watched only while no task runs, and asks the
\* factory: while a session runs the factory is not empty.
SessionsAreSeen == (\E r \in Runs : at[r] = "run") => \E i \in Ids : factory[i] # none

\* "stop session failed": a kick for a session that is gone is an error in the
\* log, not the end of the agent.
LateKickIsHarmless == ~crashed

\* "Panic in session port plugin SHOULD NOT disturb the whole agent process":
\* the making of a plugin does not end the agent.
PanicIsContained == (\E r \in Runs : at[r] = "add") => ~crashed
=============================================================================
