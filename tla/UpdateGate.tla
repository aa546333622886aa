------------------------------ MODULE UpdateGate ------------------------------
(***************************************************************************)
(* What FetchingTaskLock, FetchingTaskCounter, _criticalActionRunning and  *)
(* the double check are for, without any of them: fetches run side by side *)
(* and leave tasks behind; the update script runs alone.  FetchUpdate      *)
(* implements this module.                                                 *)
(***************************************************************************)
CONSTANTS Fetchers,  \* goroutines that call Fetch
          TaskIds    \* ids of non-periodic tasks

VARIABLES active,    \* the fetches that passed the lock
          tasks,     \* the non-periodic tasks that are registered
          script     \* the update script runs

vars == <<active, tasks, script>>

Init == active = {} /\ tasks = {} /\ script = FALSE

\* A fetch begins, which it may do beside others but not beside the script.
Begin(f) ==
    /\ f \notin active
    /\ ~script
    /\ active' = active \cup {f}
    /\ UNCHANGED <<tasks, script>>

\* A fetch that is under way registers a task.
Dispatch(f, t) ==
    /\ f \in active
    /\ t \notin tasks
    /\ tasks' = tasks \cup {t}
    /\ UNCHANGED <<active, script>>

\* A fetch ends.
End(f) ==
    /\ f \in active
    /\ active' = active \ {f}
    /\ UNCHANGED <<tasks, script>>

\* A task ends, with or without a fetch under way.
TaskEnds(t) ==
    /\ t \in tasks
    /\ tasks' = tasks \ {t}
    /\ UNCHANGED <<active, script>>

\* The script is started when there is nothing it could kill.
ScriptStarts ==
    /\ ~script /\ active = {} /\ tasks = {}
    /\ script' = TRUE
    /\ UNCHANGED <<active, tasks>>

\* The script fails and returns.
ScriptReturns ==
    /\ script
    /\ script' = FALSE
    /\ UNCHANGED <<active, tasks>>

Next ==
    \/ \E f \in Fetchers : Begin(f) \/ End(f)
    \/ \E f \in Fetchers, t \in TaskIds : Dispatch(f, t)
    \/ \E t \in TaskIds : TaskEnds(t)
    \/ ScriptStarts \/ ScriptReturns

Spec == Init /\ [][Next]_vars
=============================================================================
