------------------------------ MODULE CronTask ------------------------------
(***************************************************************************)
(* A cron task: the timer of its schedule composed with the invocations    *)
(* its callback starts and with the completion event that the last of them *)
(* sends.  The timer's goroutine sets isNoNextRun; the worker that ends an *)
(* invocation reads it (onFinish in agent/taskengine/scheduletask.go).     *)
(***************************************************************************)
EXTENDS Timer

VARIABLES registered,   \* the TaskId is in the TaskFactory
          queued,       \* invocations in the queue of the pool
          wpc,          \* the worker executing Task.Run
          cstep,        \* how far each callback goroutine got
          completed     \* completion events sent

taskVars == <<registered, queued, wpc, cstep, completed>>
allVars == <<vars, taskVars>>

CronTypeOK ==
    /\ TypeOK
    /\ registered \in BOOLEAN
    /\ queued \in Nat
    /\ wpc \in {"idle", "exec", "onFinish", "cleanup"}
    /\ cstep \in [Callbacks -> {"contains", "add", "enqueue", "return"}]
    /\ completed \in Nat

CronInit ==
    /\ Init
    /\ registered = FALSE /\ queued = 0 /\ wpc = "idle" /\ completed = 0
    /\ cstep = [c \in Callbacks |-> "contains"]

(* ------------------------------- Mutants -------------------------------- *)

\* An invocation started without a look at the one that still runs.
ContainsIgnored(c) ==
    /\ cbpc[c] = "run" /\ cstep[c] = "contains"
    /\ cstep' = [cstep EXCEPT ![c] = "add"]
    /\ UNCHANGED <<vars, registered, queued, wpc, completed>>

\* A worker that ends an invocation and leaves it in the factory.
WorkerForgets ==
    /\ wpc = "cleanup" /\ wpc' = "idle"
    /\ UNCHANGED <<vars, registered, queued, cstep, completed>>

(* -------------------- startExclusiveInvocation ------------------------- *)

StartContains(c) ==
    /\ cbpc[c] = "run" /\ cstep[c] = "contains"
    /\ cstep' = [cstep EXCEPT ![c] = IF registered THEN "return" ELSE "add"]
    /\ UNCHANGED <<vars, registered, queued, wpc, completed>>

StartAdds(c) ==
    /\ cbpc[c] = "run" /\ cstep[c] = "add"
    /\ registered' = TRUE
    /\ cstep' = [cstep EXCEPT ![c] = "enqueue"]
    /\ UNCHANGED <<vars, queued, wpc, completed>>

StartEnqueues(c) ==
    /\ cbpc[c] = "run" /\ cstep[c] = "enqueue"
    /\ queued' = queued + 1
    /\ cstep' = [cstep EXCEPT ![c] = "return"]
    /\ UNCHANGED <<vars, registered, wpc, completed>>

StartReturns(c) ==
    /\ cstep[c] = "return"
    /\ CallbackEnds(c)
    /\ cstep' = [cstep EXCEPT ![c] = "contains"]
    /\ UNCHANGED <<registered, queued, wpc, completed>>

(* ----------------------------- the worker ------------------------------- *)

WorkerTakes ==
    /\ wpc = "idle" /\ queued > 0
    /\ queued' = queued - 1
    /\ wpc' = "exec"
    /\ UNCHANGED <<vars, registered, cstep, completed>>

\* The command ends and its last output is sent, a request to the server; both
\* last longer than the timer's goroutine takes to compute its next run.
RunReports ==
    /\ wpc = "exec"
    /\ Prompt => loop # "compute"
    /\ wpc' = "onFinish"
    /\ UNCHANGED <<vars, registered, queued, cstep, completed>>

\* sendOutput ends with the callback onFinish.
OnFinish ==
    /\ wpc = "onFinish"
    /\ wpc' = "cleanup"
    /\ completed' = IF noNext THEN completed + 1 ELSE completed
    /\ UNCHANGED <<vars, registered, queued, cstep>>

\* Run cleans up after the report; then the task leaves the factory.
WorkerRemoves ==
    /\ wpc = "cleanup"
    /\ wpc' = "idle"
    /\ registered' = FALSE
    /\ UNCHANGED <<vars, queued, cstep, completed>>

WorkerStep == WorkerTakes \/ RunReports \/ OnFinish \/ WorkerRemoves

CronCallbackStep(c) ==
    \/ StartContains(c) \/ StartAdds(c) \/ StartEnqueues(c) \/ StartReturns(c)
    \/ /\ RunTimerChecks(c) \/ RunTimerSets(c) \/ RunTimerResets(c)
       /\ UNCHANGED taskVars

CronNext ==
    \/ /\ TimerStep \/ Tick
       /\ UNCHANGED taskVars
    \/ \E c \in Callbacks : CronCallbackStep(c)
    \/ WorkerStep

CronSpec ==
    /\ CronInit /\ [][CronNext]_allVars
    /\ WF_allVars(TimerStep /\ UNCHANGED taskVars)
    /\ WF_allVars(Tick /\ UNCHANGED taskVars)
    /\ \A c \in Callbacks : WF_allVars(CronCallbackStep(c))
    /\ WF_allVars(WorkerTakes \/ OnFinish \/ WorkerRemoves) /\ SF_allVars(RunReports)

(* ------------------------------ properties ------------------------------ *)

\* "Skip invocation since overlapped with existing invocation": the one object
\* a schedule reuses for its invocations is in the pool at most once, though
\* the check and the addition are two operations on the factory.
OneInvocation == queued + (IF wpc = "idle" THEN 0 ELSE 1) <= 1

\* Every invocation ends and frees the TaskId, so that a later firing is not
\* skipped for ever.
InvocationEnds == []<>~registered

\* "Sent completion event for cron task on last invocation finished"
\* (scheduletask.go): when the schedule has ended, the invocation that is
\* still known is followed by a completion event.
CompletionIsSent == (registered /\ noNext) ~> (completed > 0)

\* The same words: no invocation begins once the event was sent.
CompletionIsLast ==
    [][wpc = "idle" /\ wpc' = "exec" => completed = 0]_allVars
=============================================================================
