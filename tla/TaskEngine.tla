----------------------------- MODULE TaskEngine -----------------------------
(***************************************************************************)
(* The task engine of the agent: how tasks fetched from the server are     *)
(* registered, scheduled, executed in the pool, cancelled and reported.    *)
(*                                                                         *)
(*   agent/taskengine/scheduletask.go   dispatching, periodic schedules    *)
(*   agent/taskengine/taskfactory.go    the registry of live invocations   *)
(*   agent/taskengine/taskpool.go       the bounded pool of workers        *)
(*   agent/taskengine/basetask.go       Run, Cancel and their reports      *)
(*   agent/taskengine/timermanager      the timer of a periodic schedule   *)
(*                                                                         *)
(* Four kinds of goroutine interleave: the dispatchers (one per Fetch), a  *)
(* timer goroutine and a callback goroutine per schedule, and the workers  *)
(* of the pool.  A step is what a goroutine does between two operations on *)
(* shared state: each method of TaskFactory runs under its mutex and is    *)
(* one step, and so is a section under _periodicTaskSchedulesLock up to    *)
(* the next operation on the factory.                                      *)
(*                                                                         *)
(* A Task object is an element of Tasks.  An element is reused once nothing*)
(* references it any more, as memory is: behaviours are unbounded although *)
(* Tasks is finite.  A schedule (PeriodicTaskSchedule) is named by the     *)
(* Task object it owns, reusableInvocation.                                *)
(***************************************************************************)
EXTENDS Naturals, Sequences, FiniteSets, TLC

CONSTANTS OnceIds,      \* TaskIds of RunTaskOnce/NextRebootOnly/EveryReboot tasks
          PeriodicIds,  \* TaskIds of RunTaskCron/Rate/At tasks
          Versions,     \* values of InvokeVersion
          Tasks,        \* Task objects; bounds how many are live at a time
          Dispatchers,  \* goroutines executing Fetch
          Workers,      \* maxRunningTasks goroutines of the pool
          MaxPending,   \* maxPendingTasks, the capacity of taskQueue
          NoTask,       \* nil *Task
          NoOne         \* the holder of a free mutex

Ids == OnceIds \cup PeriodicIds

ASSUME EngineAssumption ==
    /\ OnceIds \cap PeriodicIds = {}
    /\ Versions \subseteq Nat
    /\ NoTask \notin Tasks \cup Ids
    /\ NoOne \notin Dispatchers
    /\ MaxPending \in Nat \ {0}

\* For TLC: the names of objects, dispatchers and workers carry no meaning.
Symmetry == Permutations(Tasks) \cup Permutations(Dispatchers)
              \cup Permutations(Workers)

VARIABLES
    (* What an object was made from and what happened to it. *)
    taskId, taskVer,  \* Task.taskInfo.TaskId, .InvokeVersion
    canceled,         \* Task.canceled
    sent,             \* reports sent for the object ("ended": for the invocation
                      \* that a worker is finishing)
    (* Shared registries. *)
    factory,          \* TaskFactory.tasks: TaskId -> Task or NoTask
    schedules,        \* _periodicTaskSchedules: TaskId -> Task or NoTask
    schedLock,        \* holder of _periodicTaskSchedulesLock
    (* The timer of a schedule and the goroutine running its callback. *)
    timer,            \* "off" | "wait" | "fired" | "done"
    quit,             \* an element is in the quit channel
    cb,               \* "idle" | "check" | "add" | "enqueue"
    (* The pool. *)
    queue,            \* taskQueue
    wpc, wtask,       \* control state and task of each worker
    (* Dispatchers. *)
    pc,               \* control state
    jid,              \* TaskId of the job, NoTask when idle
    jnew,             \* the object of a run job, NoTask for a stop job
    jold,             \* the object Cancel is about to be called on
    panicked,         \* a goroutine dereferenced nil: the process dies
    dereg             \* history: ids whose schedule was ever deregistered

objVars  == <<taskId, taskVer, canceled, sent>>
cbVars   == <<timer, quit, cb>>
poolVars == <<queue, wpc, wtask>>
jobVars  == <<jid, jnew, jold>>
vars == <<objVars, factory, schedules, schedLock, cbVars, poolVars, pc,
          jobVars, panicked, dereg>>

TaskOrNone == Tasks \cup {NoTask}
\* "ended" stands for the finished, timeout, failed and invalid reports.
Reports == {"ended", "canceled"}
TimerStates == {"off", "wait", "fired", "done"}
CbStates == {"idle", "check", "add", "enqueue"}
WorkerStates == {"idle", "run", "starting", "exec", "isCanceled", "finish",
                 "remove"}
PCs == {"idle", "getTask", "getPeriodic", "addTask", "runTask", "schedule",
        "cancelPeriodic", "cancelGet", "cancelTask", "stopGet", "cancelOnce"}

\* The type invariant: every variable stays within the values the code gives it.
TypeOK ==
    /\ taskId \in [Tasks -> Ids \cup {NoTask}]
    /\ taskVer \in [Tasks -> Nat]
    /\ canceled \in [Tasks -> BOOLEAN]
    /\ sent \in [Tasks -> SUBSET Reports]
    /\ factory \in [Ids -> TaskOrNone]
    /\ schedules \in [PeriodicIds -> TaskOrNone]
    /\ schedLock \in Dispatchers \cup {NoOne}
    /\ timer \in [Tasks -> TimerStates]
    /\ quit \in [Tasks -> BOOLEAN]
    /\ cb \in [Tasks -> CbStates]
    /\ queue \in Seq(Tasks)
    /\ wpc \in [Workers -> WorkerStates]
    /\ wtask \in [Workers -> TaskOrNone]
    /\ pc \in [Dispatchers -> PCs]
    /\ jid \in [Dispatchers -> Ids \cup {NoTask}]
    /\ jnew \in [Dispatchers -> TaskOrNone]
    /\ jold \in [Dispatchers -> TaskOrNone]
    /\ panicked \in BOOLEAN
    /\ dereg \subseteq PeriodicIds

Init ==
    /\ taskId = [t \in Tasks |-> NoTask]
    /\ taskVer = [t \in Tasks |-> 0]
    /\ canceled = [t \in Tasks |-> FALSE]
    /\ sent = [t \in Tasks |-> {}]
    /\ factory = [i \in Ids |-> NoTask]
    /\ schedules = [i \in PeriodicIds |-> NoTask]
    /\ schedLock = NoOne
    /\ timer = [t \in Tasks |-> "off"]
    /\ quit = [t \in Tasks |-> FALSE]
    /\ cb = [t \in Tasks |-> "idle"]
    /\ queue = <<>>
    /\ wpc = [w \in Workers |-> "idle"]
    /\ wtask = [w \in Workers |-> NoTask]
    /\ pc = [d \in Dispatchers |-> "idle"]
    /\ jid = [d \in Dispatchers |-> NoTask]
    /\ jnew = [d \in Dispatchers |-> NoTask]
    /\ jold = [d \in Dispatchers |-> NoTask]
    /\ panicked = FALSE
    /\ dereg = {}

-----------------------------------------------------------------------------
(* Helpers. *)

\* The object is unreferenced, hence its memory may become a new Task.
Free(t) ==
    /\ \A i \in Ids : factory[i] # t
    /\ \A i \in PeriodicIds : schedules[i] # t
    /\ timer[t] \in {"off", "done"} /\ cb[t] = "idle"
    /\ \A k \in DOMAIN queue : queue[k] # t
    /\ \A w \in Workers : wtask[w] # t
    /\ \A d \in Dispatchers : jnew[d] # t /\ jold[d] # t

\* The dispatcher moves on within its job.
Goto(d, label) == pc' = [pc EXCEPT ![d] = label]

\* The dispatcher is through with its job.
Return(d) ==
    /\ Goto(d, "idle")
    /\ jid' = [jid EXCEPT ![d] = NoTask]
    /\ jnew' = [jnew EXCEPT ![d] = NoTask]
    /\ jold' = [jold EXCEPT ![d] = NoTask]

Report(t, kind) == sent' = [sent EXCEPT ![t] = @ \cup {kind}]

\* taskFactory.AddNamedTask: refuses a name that is in use.
AddTask(i, t) ==
    factory' = [factory EXCEPT ![i] = IF @ = NoTask THEN t ELSE @]

\* taskFactory.RemoveTaskByName: removes whatever the name stands for.
RemoveTaskByName(i) == factory' = [factory EXCEPT ![i] = NoTask]

\* taskPool.RunTask: a send on taskQueue, blocking while it is full.
RunTask(t) ==
    /\ Len(queue) < MaxPending
    /\ queue' = Append(queue, t)

-----------------------------------------------------------------------------
(* Mutants: what a plausible slip in the code would make of the action below   *)
(* whose name each extends.  They are no part of the specification; they show  *)
(* that the properties can fail.                                               *)

\* The error of AddTask is ignored.
DispatchAddIgnored(d) ==
    /\ pc[d] = "addTask"
    /\ AddTask(jid[d], jnew[d])
    /\ Goto(d, "runTask")
    /\ UNCHANGED <<objVars, schedules, schedLock, cbVars, poolVars, jobVars,
                   panicked, dereg>>

\* A registered id is scheduled again.
SchedulePeriodicTwice(d) ==
    /\ pc[d] = "schedule"
    /\ schedLock = NoOne
    /\ schedules' = [schedules EXCEPT ![jid[d]] = jnew[d]]
    /\ timer' = [timer EXCEPT ![jnew[d]] = "wait"]
    /\ Return(d)
    /\ UNCHANGED <<objVars, factory, schedLock, quit, cb, poolVars, panicked,
                   dereg>>

\* Cancel reports only if there is a command to kill.
CancelIfRunning(t, quietly) ==
    LET running == \E w \in Workers : wtask[w] = t /\ wpc[w] = "exec" IN
    /\ canceled' = [canceled EXCEPT ![t] = TRUE]
    /\ IF canceled[t] \/ quietly \/ ~running
       THEN UNCHANGED sent ELSE Report(t, "canceled")
    /\ UNCHANGED panicked

\* An invocation that overlaps a live one is not skipped.
InvocationCheckSkipped(t) ==
    /\ cb[t] = "check"
    /\ cb' = [cb EXCEPT ![t] = "add"]
    /\ UNCHANGED <<objVars, factory, schedules, schedLock, timer, quit,
                   poolVars, pc, jobVars, panicked, dereg>>

\* The id is free as soon as the task starts.
RunStartsUnregistered(w) ==
    /\ wpc[w] = "run"
    /\ RemoveTaskByName(taskId[wtask[w]])
    /\ wpc' = [wpc EXCEPT ![w] = "starting"]
    /\ UNCHANGED <<objVars, queue, wtask, schedules, schedLock, cbVars, pc,
                   jobVars, panicked, dereg>>

\* The task function ends without freeing the id.
WorkerRemovesNothing(w) ==
    /\ wpc[w] = "remove"
    /\ wpc' = [wpc EXCEPT ![w] = "idle"]
    /\ wtask' = [wtask EXCEPT ![w] = NoTask]
    /\ sent' = [sent EXCEPT ![wtask[w]] = @ \ {"ended"}]
    /\ UNCHANGED <<taskId, taskVer, canceled, queue, factory, schedules,
                   schedLock, cbVars, pc, jobVars, panicked, dereg>>

-----------------------------------------------------------------------------
(* dispatchRunTask. *)

\* A task to run is fetched.  NewTask is called later, but the object it will
\* return is chosen, and initialised, here.
FetchRun(d, i, v, t) ==
    /\ pc[d] = "idle"
    /\ Free(t)
    /\ taskId' = [taskId EXCEPT ![t] = i]
    /\ taskVer' = [taskVer EXCEPT ![t] = v]
    /\ canceled' = [canceled EXCEPT ![t] = FALSE]
    /\ sent' = [sent EXCEPT ![t] = {}]
    /\ timer' = [timer EXCEPT ![t] = "off"]
    /\ quit' = [quit EXCEPT ![t] = FALSE]
    /\ Goto(d, "getTask")
    /\ jid' = [jid EXCEPT ![d] = i]
    /\ jnew' = [jnew EXCEPT ![d] = t]
    /\ UNCHANGED <<factory, schedules, schedLock, cb, poolVars, jold, panicked,
                   dereg>>

\* What dispatchRunTask does once it knows the task that already has the id:
\* the same version, or a non-periodic task, is ignored as a duplicate; another
\* version of a periodic task is cancelled quietly first.
Existed(d, old) ==
    IF jid[d] \in PeriodicIds /\ taskVer[old] # taskVer[jnew[d]]
    THEN Goto(d, "cancelPeriodic") /\ UNCHANGED jobVars
    ELSE Return(d)

\* taskFactory.GetTask in dispatchRunTask.
LookupFactory(d) ==
    /\ pc[d] = "getTask"
    /\ IF factory[jid[d]] # NoTask
       THEN Existed(d, factory[jid[d]])
       ELSE Goto(d, "getPeriodic") /\ UNCHANGED jobVars
    /\ UNCHANGED <<objVars, factory, schedules, schedLock, cbVars, poolVars,
                   panicked, dereg>>

\* getPeriodicTask: the schedule lock is taken and released.
LookupSchedules(d) ==
    /\ pc[d] = "getPeriodic"
    /\ schedLock = NoOne
    /\ CASE jid[d] \in OnceIds -> Goto(d, "addTask") /\ UNCHANGED jobVars
         [] jid[d] \in PeriodicIds /\ schedules[jid[d]] = NoTask ->
                Goto(d, "schedule") /\ UNCHANGED jobVars
         [] OTHER -> Existed(d, schedules[jid[d]])
    /\ UNCHANGED <<objVars, factory, schedules, schedLock, cbVars, poolVars,
                   panicked, dereg>>

\* taskFactory.AddTask of a non-periodic task; a duplicate ends the job.
DispatchAdd(d) ==
    /\ pc[d] = "addTask"
    /\ AddTask(jid[d], jnew[d])
    /\ IF factory[jid[d]] = NoTask
       THEN Goto(d, "runTask") /\ UNCHANGED jobVars
       ELSE Return(d)
    /\ UNCHANGED <<objVars, schedules, schedLock, cbVars, poolVars, panicked,
                   dereg>>

\* pool.RunTask of a non-periodic task.
DispatchEnqueue(d) ==
    /\ pc[d] = "runTask"
    /\ RunTask(jnew[d])
    /\ Return(d)
    /\ UNCHANGED <<objVars, factory, schedules, schedLock, cbVars, wpc, wtask,
                   panicked, dereg>>

\* schedulePeriodicTask, all of it under the schedule lock: an id that is
\* registered is left alone; otherwise the schedule is registered and its
\* timer started, ...
SchedulePeriodic(d) ==
    /\ pc[d] = "schedule"
    /\ schedLock = NoOne
    /\ IF schedules[jid[d]] = NoTask
       THEN /\ schedules' = [schedules EXCEPT ![jid[d]] = jnew[d]]
            /\ timer' = [timer EXCEPT ![jnew[d]] = "wait"]
       ELSE UNCHANGED <<schedules, timer>>
    /\ Return(d)
    /\ UNCHANGED <<objVars, factory, schedLock, quit, cb, poolVars, panicked,
                   dereg>>

\* ... or its expression is invalid, which is reported, or already expired
\* when timer.Run is called, which takes the registration back.
ScheduleFails(d) ==
    /\ pc[d] = "schedule"
    /\ schedLock = NoOne
    /\ schedules[jid[d]] = NoTask
    /\ Return(d)
    /\ UNCHANGED <<objVars, factory, schedules, schedLock, cbVars, poolVars,
                   panicked, dereg>>

-----------------------------------------------------------------------------
(* dispatchStopTask and cancelPeriodicTask. *)

\* A task to stop is fetched.
FetchStop(d, i) ==
    /\ pc[d] = "idle"
    /\ Goto(d, IF i \in OnceIds THEN "stopGet" ELSE "cancelPeriodic")
    /\ jid' = [jid EXCEPT ![d] = i]
    /\ UNCHANGED <<objVars, factory, schedules, schedLock, cbVars, poolVars,
                   jnew, jold, panicked, dereg>>

\* taskFactory.GetTask in dispatchStopTask.  A task that is not found is
\* acknowledged as stopped (sendStoppedOutput) without an object.
StopLookup(d) ==
    /\ pc[d] = "stopGet"
    /\ IF factory[jid[d]] # NoTask
       THEN /\ Goto(d, "cancelOnce")
            /\ jold' = [jold EXCEPT ![d] = factory[jid[d]]]
            /\ UNCHANGED <<jid, jnew>>
       ELSE Return(d)
    /\ UNCHANGED <<objVars, factory, schedules, schedLock, cbVars, poolVars,
                   panicked, dereg>>

\* Task.Cancel, under cancelMut: only the first call does anything.  Killing a
\* command that runs needs no state, as a command may end at any time; but a
\* command that is allocated and not started yet has a nil Process to kill.
Cancel(t, quietly) ==
    /\ canceled' = [canceled EXCEPT ![t] = TRUE]
    /\ IF canceled[t] \/ quietly THEN UNCHANGED sent ELSE Report(t, "canceled")
    /\ panicked' = (~canceled[t] /\ \E w \in Workers :
                        wtask[w] = t /\ wpc[w] = "starting")

\* scheduledTask.Cancel(false) of a non-periodic task.
CancelOnce(d) ==
    /\ pc[d] = "cancelOnce"
    /\ Cancel(jold[d], FALSE)
    /\ Return(d)
    /\ UNCHANGED <<taskId, taskVer, factory, schedules, schedLock, cbVars,
                   poolVars, dereg>>

\* cancelPeriodicTask up to the deregistration.  A stop of an id that is not
\* registered is acknowledged and done; a quiet cancel goes on, and
\* periodicTaskSchedule.timer dereferences nil.
CancelPeriodic(d) ==
    /\ pc[d] = "cancelPeriodic"
    /\ schedLock = NoOne
    /\ LET s == schedules[jid[d]] IN
       CASE s = NoTask /\ jnew[d] = NoTask ->
              /\ Return(d)
              /\ UNCHANGED <<schedules, schedLock, quit, panicked, dereg>>
         [] s = NoTask /\ jnew[d] # NoTask ->
              /\ panicked' = TRUE
              /\ UNCHANGED <<schedules, schedLock, quit, pc, jobVars, dereg>>
         [] s # NoTask ->
              /\ quit' = [quit EXCEPT ![s] = TRUE]
              /\ schedules' = [schedules EXCEPT ![jid[d]] = NoTask]
              /\ dereg' = dereg \cup {jid[d]}
              /\ schedLock' = d
              /\ jold' = [jold EXCEPT ![d] = s]
              /\ Goto(d, "cancelGet")
              /\ UNCHANGED <<jid, jnew, panicked>>
    /\ UNCHANGED <<objVars, factory, timer, cb, poolVars>>

\* After a quiet cancel the new version is scheduled; a stop is over.
CancelDone(d) ==
    /\ schedLock' = NoOne
    /\ IF jnew[d] = NoTask
       THEN Return(d)
       ELSE /\ Goto(d, "schedule")
            /\ jold' = [jold EXCEPT ![d] = NoTask]
            /\ UNCHANGED <<jid, jnew>>

\* taskFactory.GetTask in cancelPeriodicTask.  Without a live invocation a stop
\* is acknowledged with the output of the last one.
CancelGetRunning(d) ==
    /\ pc[d] = "cancelGet"
    /\ IF factory[jid[d]] # NoTask
       THEN /\ jold' = [jold EXCEPT ![d] = factory[jid[d]]]
            /\ Goto(d, "cancelTask")
            /\ UNCHANGED <<schedLock, jid, jnew, sent>>
       ELSE /\ IF jnew[d] = NoTask
               THEN Report(jold[d], "canceled") ELSE UNCHANGED sent
            /\ CancelDone(d)
    /\ UNCHANGED <<taskId, taskVer, canceled, factory, schedules, cbVars,
                   poolVars, panicked, dereg>>

\* runningInvocation.Cancel(quietly) in cancelPeriodicTask.
CancelRunning(d) ==
    /\ pc[d] = "cancelTask"
    /\ Cancel(jold[d], jnew[d] # NoTask)
    /\ CancelDone(d)
    /\ UNCHANGED <<taskId, taskVer, factory, schedules, cbVars, poolVars,
                   dereg>>

-----------------------------------------------------------------------------
(* The timer of a schedule and its callback, startExclusiveInvocation. *)

\* The timer fires, which it may do even if quit is pending: select chooses
\* freely.  runTimer returns at once while a callback is still running.
TimerFires(t) ==
    /\ timer[t] = "wait"
    /\ timer' = [timer EXCEPT ![t] = "fired"]
    /\ cb' = [cb EXCEPT ![t] = IF @ = "idle" THEN "check" ELSE @]
    /\ UNCHANGED <<objVars, factory, schedules, schedLock, quit, poolVars, pc,
                   jobVars, panicked, dereg>>

\* The timer goroutine computes its next run: there is one, or the schedule
\* has come to its end (NoNextRun) and the goroutine returns.
TimerNextRun(t) ==
    /\ timer[t] = "fired"
    /\ \E next \in {"wait", "done"} : timer' = [timer EXCEPT ![t] = next]
    /\ UNCHANGED <<objVars, factory, schedules, schedLock, quit, cb, poolVars,
                   pc, jobVars, panicked, dereg>>

\* The timer goroutine receives from quit and returns.
TimerQuits(t) ==
    /\ timer[t] = "wait" /\ quit[t]
    /\ timer' = [timer EXCEPT ![t] = "off"]
    /\ quit' = [quit EXCEPT ![t] = FALSE]
    /\ UNCHANGED <<objVars, factory, schedules, schedLock, cb, poolVars, pc,
                   jobVars, panicked, dereg>>

\* ContainsTaskByName: an invocation that overlaps a live one is skipped.
InvocationCheck(t) ==
    /\ cb[t] = "check"
    /\ cb' = [cb EXCEPT ![t] = IF factory[taskId[t]] = NoTask
                               THEN "add" ELSE "idle"]
    /\ UNCHANGED <<objVars, factory, schedules, schedLock, timer, quit,
                   poolVars, pc, jobVars, panicked, dereg>>

\* AddTask, whose error is ignored.
InvocationAdd(t) ==
    /\ cb[t] = "add"
    /\ AddTask(taskId[t], t)
    /\ cb' = [cb EXCEPT ![t] = "enqueue"]
    /\ UNCHANGED <<objVars, schedules, schedLock, timer, quit, poolVars, pc,
                   jobVars, panicked, dereg>>

\* pool.RunTask, then the callback returns.
InvocationEnqueue(t) ==
    /\ cb[t] = "enqueue"
    /\ RunTask(t)
    /\ cb' = [cb EXCEPT ![t] = "idle"]
    /\ UNCHANGED <<objVars, factory, schedules, schedLock, timer, quit, wpc,
                   wtask, pc, jobVars, panicked, dereg>>

-----------------------------------------------------------------------------
(* A worker of the pool: Task.Run, then RemoveTaskByName. *)

WorkerGoto(w, label) == wpc' = [wpc EXCEPT ![w] = label]

engineVars == <<factory, schedules, schedLock, cbVars, pc, jobVars, panicked,
                dereg>>

\* slave receives a task function from taskQueue.
WorkerTakes(w) ==
    /\ wpc[w] = "idle"
    /\ queue # <<>>
    /\ queue' = Tail(queue)
    /\ wtask' = [wtask EXCEPT ![w] = Head(queue)]
    /\ WorkerGoto(w, "run")
    /\ UNCHANGED <<objVars, engineVars>>

\* PreCheck, parameter resolution or Prepare fails, which SendInvalidTask or
\* SendError reports.  (Every error of the processors is of a reported kind.)
RunRefused(w) ==
    /\ wpc[w] = "run"
    /\ Report(wtask[w], "ended")
    /\ WorkerGoto(w, "remove")
    /\ UNCHANGED <<taskId, taskVer, canceled, queue, wtask, engineVars>>

\* sendTaskStart, then processer.SyncRun allocates the command.  Run does not
\* look at canceled here.
RunStarts(w) ==
    /\ wpc[w] = "run"
    /\ WorkerGoto(w, "starting")
    /\ UNCHANGED <<objVars, queue, wtask, engineVars>>

\* command.Start succeeds: command.Process is no longer nil.
CommandStarts(w) ==
    /\ wpc[w] = "starting"
    /\ WorkerGoto(w, "exec")
    /\ UNCHANGED <<objVars, queue, wtask, engineVars>>

\* The command cannot be started or waited for, or it times out.  Both are
\* reported whether or not the task was canceled.
CommandFails(w) ==
    /\ wpc[w] \in {"starting", "exec"}
    /\ Report(wtask[w], "ended")
    /\ WorkerGoto(w, "remove")
    /\ UNCHANGED <<taskId, taskVer, canceled, queue, wtask, engineVars>>

\* The command exits, by itself or killed.
CommandExits(w) ==
    /\ wpc[w] = "exec"
    /\ WorkerGoto(w, "isCanceled")
    /\ UNCHANGED <<objVars, queue, wtask, engineVars>>

\* IsCancled, under cancelMut.
RunChecksCanceled(w) ==
    /\ wpc[w] = "isCanceled"
    /\ WorkerGoto(w, IF canceled[wtask[w]] THEN "remove" ELSE "finish")
    /\ UNCHANGED <<objVars, queue, wtask, engineVars>>

\* sendOutput("finished"), no longer under cancelMut.
RunFinishes(w) ==
    /\ wpc[w] = "finish"
    /\ Report(wtask[w], "ended")
    /\ WorkerGoto(w, "remove")
    /\ UNCHANGED <<taskId, taskVer, canceled, queue, wtask, engineVars>>

\* taskFactory.RemoveTaskByName at the end of the task function.
WorkerRemoves(w) ==
    /\ wpc[w] = "remove"
    /\ RemoveTaskByName(taskId[wtask[w]])
    /\ WorkerGoto(w, "idle")
    /\ wtask' = [wtask EXCEPT ![w] = NoTask]
    /\ sent' = [sent EXCEPT ![wtask[w]] = @ \ {"ended"}]
    /\ UNCHANGED <<taskId, taskVer, canceled, queue, schedules, schedLock,
                   cbVars, pc, jobVars, panicked, dereg>>

-----------------------------------------------------------------------------
\* The steps of a dispatcher within a job.
DispatchStep(d) ==
    \/ LookupFactory(d) \/ LookupSchedules(d) \/ DispatchAdd(d)
    \/ DispatchEnqueue(d) \/ SchedulePeriodic(d) \/ ScheduleFails(d)
    \/ StopLookup(d) \/ CancelOnce(d) \/ CancelPeriodic(d)
    \/ CancelGetRunning(d) \/ CancelRunning(d)

CallbackStep(t) == InvocationCheck(t) \/ InvocationAdd(t) \/ InvocationEnqueue(t)

TimerStep(t) == TimerFires(t) \/ TimerNextRun(t) \/ TimerQuits(t)

WorkerStep(w) ==
    \/ WorkerTakes(w) \/ RunRefused(w) \/ RunStarts(w) \/ CommandStarts(w)
    \/ CommandFails(w) \/ CommandExits(w) \/ RunChecksCanceled(w) \/ RunFinishes(w)
    \/ WorkerRemoves(w)

Job(d) ==
    \/ \E i \in Ids, v \in Versions, t \in Tasks : FetchRun(d, i, v, t)
    \/ \E i \in Ids : FetchStop(d, i)
    \/ DispatchStep(d)

\* A panic ends the process, and the behaviour: nothing here survives a restart,
\* which is a behaviour of its own.
Next ==
    /\ ~panicked
    /\ \/ \E d \in Dispatchers : Job(d)
       \/ \E t \in Tasks : CallbackStep(t) \/ TimerStep(t)
       \/ \E w \in Workers : WorkerStep(w)

Spec == Init /\ [][Next]_vars

\* Goroutines are scheduled, so a step that stays possible is taken; a command
\* ends or is killed by its timeout.  A mutex (starvation mode) and a channel
\* send serve those who wait in order, hence strong fairness for the goroutines
\* that lock and enqueue.  Nothing makes the server send a job.
Fairness ==
    /\ \A d \in Dispatchers : SF_vars(~panicked /\ DispatchStep(d))
    /\ \A t \in Tasks : SF_vars(~panicked /\ CallbackStep(t))
    /\ \A w \in Workers : WF_vars(~panicked /\ WorkerStep(w))

LiveSpec == Spec /\ Fairness

-----------------------------------------------------------------------------
(* Properties. *)

\* The objects whose task function was handed to the pool, or is about to be:
\* an invocation of each of them is under way.
InHand(t) ==
    \/ \E d \in Dispatchers : pc[d] = "runTask" /\ jnew[d] = t
    \/ \E k \in DOMAIN queue : queue[k] = t
    \/ \E w \in Workers : wtask[w] = t

\* A non-periodic task that waits for the pool, or runs in it, is in
\* TaskFactory under its id.  This is what makes a stop find it, a duplicate be
\* refused, and the updater (IsAnyNonPeriodicTaskRunning) wait for it.
OnceRegistered ==
    \A t \in Tasks : InHand(t) /\ taskId[t] \in OnceIds => factory[taskId[t]] = t

\* A non-periodic task fetched once is executed once: its object is in one
\* place only, and no other object with its id is anywhere.
OnceExclusive ==
    /\ \A k, l \in DOMAIN queue :
         taskId[queue[k]] \in OnceIds /\ taskId[queue[k]] = taskId[queue[l]] => k = l
    /\ \A v, w \in Workers :
         wtask[v] # NoTask /\ wtask[w] # NoTask /\ taskId[wtask[v]] \in OnceIds
           /\ taskId[wtask[v]] = taskId[wtask[w]] => v = w
    /\ \A w \in Workers, k \in DOMAIN queue :
         wtask[w] # NoTask /\ taskId[wtask[w]] \in OnceIds
           => taskId[wtask[w]] # taskId[queue[k]]

\* The two together, with the types: however many fetches and stops deal with an id, what
\* the pool holds of it is the one object that TaskFactory knows.
OnceKnownOnce == TypeOK /\ OnceRegistered /\ OnceExclusive

\* Where the registered task of an id is, and what was reported of it.
Life(i) ==
    IF factory[i] = NoTask THEN "absent"
    ELSE IF \E w \in Workers : wtask[w] = factory[i] /\ wpc[w] = "remove" THEN "over"
    ELSE IF \E w \in Workers : wtask[w] = factory[i] THEN "running"
    ELSE "waiting"

Told(i) == IF factory[i] = NoTask THEN {} ELSE sent[factory[i]]

\* The engine implements the life of a non-periodic task: a task is accepted only
\* when its id is free, executed once, and gone only after the server was told,
\* whatever duplicates and stops the dispatchers fetch meanwhile.
Once == INSTANCE OnceTask WITH life <- [i \in OnceIds |-> Life(i)],
                               told <- [i \in OnceIds |-> Told(i)]
ImplementsOnceTask == Once!Spec

\* A timer that keeps firing belongs to a registered schedule: otherwise no
\* stop could ever reach it.  (cancelPeriodicTask, schedulePeriodicTask)
NoOrphanTimer ==
    \A t \in Tasks : timer[t] \in {"wait", "fired"} /\ ~quit[t]
                       => schedules[taskId[t]] = t

\* How many invocations of a task are under way in the pool or on their way in.
Invocations(i) ==
    Cardinality({k \in DOMAIN queue : taskId[queue[k]] = i})
    + Cardinality({w \in Workers : wtask[w] # NoTask /\ taskId[wtask[w]] = i})
    + Cardinality({t \in Tasks : cb[t] = "enqueue" /\ taskId[t] = i})

\* Invocations of a periodic task whose schedule was never deregistered do not
\* overlap, and the one under way is in TaskFactory.
PeriodicExclusive ==
    \A i \in PeriodicIds \ dereg :
        /\ Invocations(i) <= 1
        /\ Invocations(i) = 1 => factory[i] # NoTask

\* Invocations of a periodic task never overlap, whatever was fetched: the
\* comment in schedulePeriodicTask that justifies reusing the Task struct.
PeriodicNeverOverlaps == \A i \in PeriodicIds : Invocations(i) <= 1

\* A non-periodic task does not leave the engine without a report: one that
\* keeps silent at its end because it was canceled was reported as canceled.
OnceReported ==
    \A w \in Workers : wpc[w] = "remove" /\ taskId[wtask[w]] \in OnceIds
                         => sent[wtask[w]] # {}

\* A task known to the server as canceled does not start its command later.
CanceledNeverStarts ==
    [][\A w \in Workers : wpc[w] = "run" /\ wpc'[w] = "starting"
                            => "canceled" \notin sent[wtask[w]]]_vars

\* A stop of a non-periodic task that is found is acknowledged: when the
\* dispatcher is through, the task was reported as canceled.
StopOnceAcknowledged ==
    [][\A d \in Dispatchers : pc[d] = "cancelOnce" /\ pc'[d] = "idle"
                                => "canceled" \in sent'[jold[d]]]_vars

\* A stop that deregisters a periodic task is acknowledged.
StopPeriodicAcknowledged ==
    [][\A d \in Dispatchers :
          pc[d] \in {"cancelGet", "cancelTask"} /\ pc'[d] = "idle"
            => "canceled" \in sent'[jold[d]]]_vars

\* A registered non-periodic task is eventually over and its id free again,
\* however the pool is shared: it never stays behind as "running", which would
\* block the updater for ever.
OnceEnds == \A i \in OnceIds : []<>(factory[i] = NoTask \/ panicked)

\* Every job is eventually dealt with: no dispatcher is left waiting for the
\* schedule lock or for room in taskQueue, so FetchingTaskCounter comes down.
JobsEnd == \A d \in Dispatchers : []<>(pc[d] = "idle" \/ panicked)

\* cancelPeriodicTask uses a schedule only after checking that it is registered.
NoNilSchedule ==
    ~ \E d \in Dispatchers : panicked /\ pc[d] = "cancelPeriodic"
=============================================================================
