-------------------------- MODULE TaskEngineProofs --------------------------
(***************************************************************************)
(* Proofs about TaskEngine, for any number of tasks, dispatchers, workers  *)
(* and any capacity of the queue: its invariants, that invocations of a    *)
(* periodic task do not overlap, and that it implements OnceTask.          *)
(***************************************************************************)
EXTENDS TaskEngine, SequenceTheorems, FiniteSetTheorems, TLAPS

\* The part of TypeOK that is about the dispatchers.
JobsTyped ==
    /\ pc \in [Dispatchers -> PCs]
    /\ jid \in [Dispatchers -> Ids \cup {NoTask}]
    /\ jnew \in [Dispatchers -> TaskOrNone]
    /\ jold \in [Dispatchers -> TaskOrNone]

\* The locals of a dispatcher agree with the place it is at.
JobInv ==
    \A d \in Dispatchers :
        /\ pc[d] = "idle" => jnew[d] = NoTask /\ jold[d] = NoTask
        /\ pc[d] # "idle" => jid[d] \in Ids
        /\ pc[d] \in {"getTask", "getPeriodic", "addTask", "runTask", "schedule"}
             => jnew[d] \in Tasks
        /\ pc[d] \in {"addTask", "runTask", "stopGet", "cancelOnce"}
             => jid[d] \in OnceIds
        /\ pc[d] \in {"schedule", "cancelPeriodic", "cancelGet", "cancelTask"}
             => jid[d] \in PeriodicIds
        /\ pc[d] \in {"stopGet", "cancelOnce"} => jnew[d] = NoTask
        /\ pc[d] \in {"cancelGet", "cancelTask", "cancelOnce"} => jold[d] \in Tasks

\* An object is registered, cancelled or on its way under its own id.
RegisteredIds ==
    /\ \A i \in Ids : factory[i] # NoTask => taskId[factory[i]] = i
    /\ \A i \in PeriodicIds : schedules[i] # NoTask => taskId[schedules[i]] = i

LocalIds ==
    \A d \in Dispatchers :
        /\ jnew[d] # NoTask => taskId[jnew[d]] = jid[d]
        /\ jold[d] # NoTask => taskId[jold[d]] = jid[d]

TimerIds ==
    \A t \in Tasks : cb[t] # "idle" \/ timer[t] \in {"wait", "fired"}
                       => taskId[t] \in PeriodicIds

IdInv == RegisteredIds /\ LocalIds /\ TimerIds

\* Nobody but its dispatcher knows the object of a run job.
FreshInv ==
    \A d \in Dispatchers : jnew[d] # NoTask =>
        /\ \A e \in Dispatchers : jnew[e] = jnew[d] => e = d
        /\ \A i \in PeriodicIds : schedules[i] # jnew[d]
        /\ \A i \in Ids : factory[i] = jnew[d] => pc[d] = "runTask"
        /\ \A k \in DOMAIN queue : queue[k] # jnew[d]
        /\ \A w \in Workers : wtask[w] # jnew[d]
        /\ cb[jnew[d]] = "idle"
        /\ timer[jnew[d]] \notin {"wait", "fired"}

\* A worker has a task exactly while it is busy.
WorkerInv == \A w \in Workers : wpc[w] = "idle" <=> wtask[w] = NoTask

\* The object of a non-periodic task is in one place at a time.
PlaceInv ==
    /\ \A k, l \in DOMAIN queue :
         queue[k] = queue[l] /\ taskId[queue[k]] \in OnceIds => k = l
    /\ \A v, w \in Workers :
         wtask[v] = wtask[w] /\ wtask[v] # NoTask /\ taskId[wtask[v]] \in OnceIds
           => v = w
    /\ \A w \in Workers, k \in DOMAIN queue :
         wtask[w] # NoTask /\ taskId[wtask[w]] \in OnceIds => wtask[w] # queue[k]

\* A non-periodic task is never cancelled quietly.
AckInv ==
    \A t \in Tasks : taskId[t] \in OnceIds /\ canceled[t] => "canceled" \in sent[t]

\* The inductive invariant behind the theorems.
EngineInv ==
    /\ TypeOK /\ JobInv /\ IdInv /\ FreshInv /\ WorkerInv
    /\ PlaceInv /\ OnceRegistered /\ AckInv /\ OnceReported

-----------------------------------------------------------------------------

(* The steps that actions share, and the types they keep. *)

\* Report adds a report of a known kind.
LEMMA ReportTyped ==
    ASSUME TypeOK, NEW t \in Tasks, NEW k \in Reports, Report(t, k)
    PROVE  sent' \in [Tasks -> SUBSET Reports]
BY DEF Report, TypeOK

\* Cancel keeps the types of what it changes.
LEMMA CancelTyped ==
    ASSUME TypeOK, NEW t \in Tasks, NEW q, Cancel(t, q)
    PROVE  /\ canceled' \in [Tasks -> BOOLEAN]
           /\ sent' \in [Tasks -> SUBSET Reports]
           /\ panicked' \in BOOLEAN
<1>1. canceled' \in [Tasks -> BOOLEAN] /\ panicked' \in BOOLEAN
  BY DEF Cancel, TypeOK
<1>2. CASE canceled[t] \/ q
  BY <1>1, <1>2 DEF Cancel, TypeOK
<1>3. CASE ~(canceled[t] \/ q)
  <2>1. Report(t, "canceled") /\ "canceled" \in Reports
    BY <1>3 DEF Cancel, Reports
  <2> QED
    BY <1>1, <2>1, ReportTyped
<1> QED
  BY <1>2, <1>3

\* A dispatcher that goes on or returns keeps the types of the locals.
LEMMA GotoTyped ==
    ASSUME JobsTyped, NEW d \in Dispatchers, NEW l \in PCs, Goto(d, l),
           UNCHANGED jobVars
    PROVE  JobsTyped'
BY DEF JobsTyped, Goto, jobVars

\* A dispatcher that returns keeps the types of the locals.
LEMMA ReturnTyped ==
    ASSUME JobsTyped, NEW d \in Dispatchers, Return(d)
    PROVE  JobsTyped'
BY DEF JobsTyped, Return, Goto, PCs, TaskOrNone

\* What dispatchRunTask does about an existing task keeps the types of the locals.
LEMMA ExistedTyped ==
    ASSUME JobsTyped, NEW d \in Dispatchers, NEW old, Existed(d, old)
    PROVE  JobsTyped'
<1>1. "cancelPeriodic" \in PCs
  BY DEF PCs
<1> QED
  BY <1>1, GotoTyped, ReturnTyped DEF Existed

\* The end of cancelPeriodicTask keeps the types and releases the schedule lock.
LEMMA CancelDoneTyped ==
    ASSUME JobsTyped, NEW d \in Dispatchers, CancelDone(d)
    PROVE  JobsTyped' /\ schedLock' = NoOne
<1>1. CASE jnew[d] = NoTask
  BY <1>1, ReturnTyped DEF CancelDone
<1>2. CASE jnew[d] # NoTask
  BY <1>2 DEF CancelDone, JobsTyped, Goto, PCs, TaskOrNone
<1> QED
  BY <1>1, <1>2

\* Every variable of TaskEngine keeps its type.
LEMMA TypeStep == TypeOK /\ JobInv /\ [Next]_vars => TypeOK'
<1> SUFFICES ASSUME TypeOK, JobInv, [Next]_vars PROVE TypeOK'
  OBVIOUS
<1> USE EngineAssumption DEF TypeOK, TaskOrNone, objVars, cbVars, poolVars,
        jobVars, engineVars
<1>1. ASSUME NEW d \in Dispatchers, NEW i \in Ids, NEW v \in Versions,
             NEW t \in Tasks, FetchRun(d, i, v, t)
      PROVE  TypeOK'
  <2>1. JobsTyped'
    BY <1>1 DEF FetchRun, Goto, JobsTyped, PCs
  <2>2. /\ taskId' \in [Tasks -> Ids \cup {NoTask}]
        /\ taskVer' \in [Tasks -> Nat]
        /\ canceled' \in [Tasks -> BOOLEAN]
        /\ sent' \in [Tasks -> SUBSET Reports]
    BY <1>1 DEF FetchRun
  <2> QED
    BY <1>1, <2>1, <2>2 DEF FetchRun, JobsTyped, TimerStates
<1>2. ASSUME NEW d \in Dispatchers, NEW i \in Ids, FetchStop(d, i)
      PROVE  TypeOK'
  <2>1. JobsTyped'
    BY <1>2 DEF FetchStop, Goto, JobsTyped, PCs
  <2> QED
    BY <1>2, <2>1 DEF FetchStop, JobsTyped
<1>3. ASSUME NEW d \in Dispatchers, DispatchStep(d) PROVE TypeOK'
  <2>1. CASE LookupFactory(d)
    <3>1. JobsTyped'
      <4>1. "getPeriodic" \in PCs /\ JobsTyped
        BY DEF PCs, JobsTyped
      <4> QED
        BY <2>1, <4>1, GotoTyped, ExistedTyped DEF LookupFactory
    <3> QED
      BY <2>1, <3>1 DEF LookupFactory, JobsTyped
  <2>2. CASE LookupSchedules(d)
    <3>1. JobsTyped'
      <4>1. "addTask" \in PCs /\ "schedule" \in PCs /\ JobsTyped
        BY DEF PCs, JobsTyped
      <4> QED
        BY <2>2, <4>1, GotoTyped, ExistedTyped DEF LookupSchedules
    <3> QED
      BY <2>2, <3>1 DEF LookupSchedules, JobsTyped
  <2>3. CASE DispatchAdd(d)
    <3>0. jid[d] \in OnceIds /\ jnew[d] \in Tasks
      BY <2>3 DEF DispatchAdd, JobInv
    <3>1. JobsTyped'
      BY <2>3, <3>0 DEF DispatchAdd, Return, Goto, JobsTyped, PCs, Ids
    <3> QED
      BY <2>3, <3>0, <3>1 DEF DispatchAdd, AddTask, JobsTyped, Ids
  <2>4. CASE DispatchEnqueue(d)
    <3>0. jid[d] \in OnceIds /\ jnew[d] \in Tasks
      BY <2>4 DEF DispatchEnqueue, JobInv
    <3>1. JobsTyped'
      BY <2>4, <3>0 DEF DispatchEnqueue, Return, Goto, JobsTyped, PCs,
         Ids
    <3> QED
      BY <2>4, <3>0, <3>1 DEF DispatchEnqueue, RunTask, JobsTyped, Ids
  <2>5. CASE SchedulePeriodic(d)
    <3>0. jid[d] \in PeriodicIds /\ jnew[d] \in Tasks
      BY <2>5 DEF SchedulePeriodic, JobInv
    <3>1. JobsTyped'
      BY <2>5, ReturnTyped DEF SchedulePeriodic, JobsTyped
    <3>2. /\ schedules' \in [PeriodicIds -> TaskOrNone]
          /\ timer' \in [Tasks -> TimerStates]
      BY <2>5, <3>0 DEF SchedulePeriodic, TimerStates
    <3> QED
      BY <2>5, <3>1, <3>2 DEF SchedulePeriodic, JobsTyped
  <2>6. CASE ScheduleFails(d)
    <3>0. jid[d] \in PeriodicIds /\ jnew[d] \in Tasks
      BY <2>6 DEF ScheduleFails, JobInv
    <3>1. JobsTyped'
      BY <2>6, <3>0 DEF ScheduleFails, Return, Goto, JobsTyped, PCs, Ids
    <3> QED
      BY <2>6, <3>0, <3>1 DEF ScheduleFails, JobsTyped, Ids
  <2>7. CASE StopLookup(d)
    <3>0. jid[d] \in OnceIds
      BY <2>7 DEF StopLookup, JobInv
    <3>1. JobsTyped'
      BY <2>7, <3>0 DEF StopLookup, Return, Goto, JobsTyped, PCs, Ids
    <3> QED
      BY <2>7, <3>0, <3>1 DEF StopLookup, JobsTyped, Ids
  <2>8. CASE CancelOnce(d)
    <3>0. jid[d] \in OnceIds /\ jold[d] \in Tasks
      BY <2>8 DEF CancelOnce, JobInv
    <3>1. JobsTyped'
      BY <2>8, ReturnTyped DEF CancelOnce, JobsTyped
    <3>2. /\ canceled' \in [Tasks -> BOOLEAN]
          /\ sent' \in [Tasks -> SUBSET Reports]
          /\ panicked' \in BOOLEAN
      BY <2>8, <3>0, CancelTyped DEF CancelOnce
    <3> QED
      BY <2>8, <3>1, <3>2 DEF CancelOnce, JobsTyped
  <2>9. CASE CancelPeriodic(d)
    <3>0. jid[d] \in PeriodicIds
      BY <2>9 DEF CancelPeriodic, JobInv
    <3>1. JobsTyped'
      BY <2>9, <3>0 DEF CancelPeriodic, Return, Goto, JobsTyped, PCs, Ids
    <3>2. /\ quit' \in [Tasks -> BOOLEAN]
          /\ schedules' \in [PeriodicIds -> TaskOrNone]
      BY <2>9, <3>0 DEF CancelPeriodic
    <3>3. /\ schedLock' \in Dispatchers \cup {NoOne}
          /\ panicked' \in BOOLEAN
          /\ dereg' \subseteq PeriodicIds
      <4>1. \/ UNCHANGED <<schedLock, dereg, panicked>>
            \/ UNCHANGED <<schedLock, dereg>> /\ panicked' = TRUE
            \/ /\ schedLock' = d /\ dereg' = dereg \cup {jid[d]}
               /\ UNCHANGED panicked
        BY <2>9 DEF CancelPeriodic
      <4> QED
        BY <3>0, <4>1
    <3>4. UNCHANGED <<objVars, factory, timer, cb, poolVars>>
      BY <2>9 DEF CancelPeriodic
    <3> QED
      BY <3>1, <3>2, <3>3, <3>4 DEF JobsTyped
  <2>10. CASE CancelGetRunning(d)
    <3>0. jid[d] \in PeriodicIds /\ jold[d] \in Tasks
      BY <2>10 DEF CancelGetRunning, JobInv
    <3>1. JobsTyped' /\ schedLock' \in Dispatchers \cup {NoOne}
      <4>1. CASE factory[jid[d]] # NoTask
        BY <2>10, <3>0, <4>1 DEF CancelGetRunning, Goto, JobsTyped, PCs, Ids
      <4>2. CASE factory[jid[d]] = NoTask
        BY <2>10, <4>2, CancelDoneTyped DEF CancelGetRunning, JobsTyped
      <4> QED
        BY <4>1, <4>2
    <3>2. sent' \in [Tasks -> SUBSET Reports]
      <4>1. "canceled" \in Reports
        BY DEF Reports
      <4> QED
        BY <2>10, <3>0, <4>1, ReportTyped DEF CancelGetRunning
    <3> QED
      BY <2>10, <3>1, <3>2 DEF CancelGetRunning, JobsTyped
  <2>11. CASE CancelRunning(d)
    <3>0. jid[d] \in PeriodicIds /\ jold[d] \in Tasks
      BY <2>11 DEF CancelRunning, JobInv
    <3>1. JobsTyped' /\ schedLock' = NoOne
      BY <2>11, CancelDoneTyped DEF CancelRunning, JobsTyped
    <3>2. /\ canceled' \in [Tasks -> BOOLEAN]
          /\ sent' \in [Tasks -> SUBSET Reports]
          /\ panicked' \in BOOLEAN
      BY <2>11, <3>0, CancelTyped DEF CancelRunning
    <3> QED
      BY <2>11, <3>1, <3>2 DEF CancelRunning, JobsTyped
  <2> QED
    BY <1>3, <2>1, <2>2, <2>3, <2>4, <2>5, <2>6, <2>7, <2>8, <2>9, <2>10,
       <2>11 DEF DispatchStep
<1>4. ASSUME NEW t \in Tasks, CallbackStep(t) PROVE TypeOK'
  <2>1. CASE InvocationCheck(t)
    BY <2>1 DEF InvocationCheck, CbStates
  <2>2. CASE InvocationAdd(t)
    BY <2>2 DEF InvocationAdd, AddTask, CbStates
  <2>3. CASE InvocationEnqueue(t)
    BY <2>3 DEF InvocationEnqueue, RunTask, CbStates
  <2> QED
    BY <1>4, <2>1, <2>2, <2>3 DEF CallbackStep
<1>5. ASSUME NEW t \in Tasks, TimerStep(t) PROVE TypeOK'
  <2>1. CASE TimerFires(t)
    BY <2>1 DEF TimerFires, TimerStates, CbStates
  <2>2. CASE TimerNextRun(t)
    BY <2>2 DEF TimerNextRun, TimerStates, CbStates
  <2>3. CASE TimerQuits(t)
    BY <2>3 DEF TimerQuits, TimerStates, CbStates
  <2> QED
    BY <1>5, <2>1, <2>2, <2>3 DEF TimerStep
<1>6. ASSUME NEW w \in Workers, WorkerStep(w) PROVE TypeOK'
  <2>1. CASE WorkerTakes(w)
    BY <2>1 DEF WorkerTakes, WorkerGoto, WorkerStates
  <2>2. CASE RunRefused(w)
    BY <2>2 DEF RunRefused, WorkerGoto, Report, WorkerStates, Reports
  <2>3. CASE RunStarts(w)
    BY <2>3 DEF RunStarts, WorkerGoto, WorkerStates
  <2>4. CASE CommandStarts(w)
    BY <2>4 DEF CommandStarts, WorkerGoto, WorkerStates
  <2>5. CASE CommandFails(w)
    BY <2>5 DEF CommandFails, WorkerGoto, Report, WorkerStates, Reports
  <2>6. CASE CommandExits(w)
    BY <2>6 DEF CommandExits, WorkerGoto, WorkerStates
  <2>7. CASE RunChecksCanceled(w)
    BY <2>7 DEF RunChecksCanceled, WorkerGoto, WorkerStates
  <2>8. CASE RunFinishes(w)
    BY <2>8 DEF RunFinishes, WorkerGoto, Report, WorkerStates, Reports
  <2>9. CASE WorkerRemoves(w)
    BY <2>9 DEF WorkerRemoves, WorkerGoto, RemoveTaskByName, WorkerStates
  <2> QED
    BY <1>6, <2>1, <2>2, <2>3, <2>4, <2>5, <2>6, <2>7, <2>8, <2>9 DEF
       WorkerStep
<1>7. CASE UNCHANGED vars
  BY <1>7 DEF vars
<1> QED
  BY <1>1, <1>2, <1>3, <1>4, <1>5, <1>6, <1>7 DEF Next, Job

-----------------------------------------------------------------------------

(* The locals of the dispatchers. *)

\* A dispatcher that returns has no locals left.
LEMMA ReturnJob ==
    ASSUME JobsTyped, JobInv, NEW d \in Dispatchers, Return(d)
    PROVE  JobInv'
BY DEF JobsTyped, JobInv, Return, Goto

\* Existed is called for a periodic id before its version is compared.
LEMMA ExistedJob ==
    ASSUME JobsTyped, JobInv, NEW d \in Dispatchers, NEW old, Existed(d, old),
           jid[d] \in Ids
    PROVE  JobInv'
<1>1. CASE jid[d] \in PeriodicIds /\ taskVer[old] # taskVer[jnew[d]]
  BY <1>1 DEF Existed, JobsTyped, JobInv, Goto, jobVars
<1>2. CASE ~(jid[d] \in PeriodicIds /\ taskVer[old] # taskVer[jnew[d]])
  BY <1>2, ReturnJob DEF Existed
<1> QED
  BY <1>1, <1>2

\* After a cancel there is a new version to schedule or nothing more to do.
LEMMA CancelDoneJob ==
    ASSUME JobsTyped, JobInv, NEW d \in Dispatchers, CancelDone(d),
           jid[d] \in PeriodicIds
    PROVE  JobInv'
<1>1. CASE jnew[d] = NoTask
  BY <1>1, ReturnJob DEF CancelDone
<1>2. CASE jnew[d] # NoTask
  <2>1. jnew[d] \in Tasks /\ jid[d] \in Ids
    BY <1>2 DEF JobsTyped, TaskOrNone, Ids
  <2> QED
    BY <1>2, <2>1 DEF CancelDone, JobsTyped, JobInv, Goto
<1> QED
  BY <1>1, <1>2

\* The locals of the dispatchers keep agreeing with their places.
LEMMA JobStep == TypeOK /\ JobInv /\ [Next]_vars => JobInv'
<1> SUFFICES ASSUME TypeOK, JobInv, [Next]_vars PROVE JobInv'
  OBVIOUS
<1> USE EngineAssumption DEF objVars, cbVars, poolVars, jobVars, engineVars
<1>1. ASSUME NEW d \in Dispatchers, NEW i \in Ids, NEW v \in Versions,
             NEW t \in Tasks, FetchRun(d, i, v, t)
      PROVE  JobInv'
  BY <1>1 DEF FetchRun, Goto, TypeOK, JobInv
<1>2. ASSUME NEW d \in Dispatchers, NEW i \in Ids, FetchStop(d, i)
      PROVE  JobInv'
  BY <1>2 DEF FetchStop, Goto, TypeOK, JobInv, Ids
<1>3. ASSUME NEW d \in Dispatchers, DispatchStep(d) PROVE JobInv'
  <2>1. CASE LookupFactory(d)
    <3>0. JobsTyped /\ jid[d] \in Ids /\ jnew[d] \in Tasks
      BY <2>1 DEF LookupFactory, JobInv, TypeOK, JobsTyped
    <3>1. CASE factory[jid[d]] # NoTask
      BY <2>1, <3>0, <3>1, ExistedJob DEF LookupFactory
    <3>2. CASE factory[jid[d]] = NoTask
      BY <2>1, <3>0, <3>2 DEF LookupFactory, Goto, JobsTyped, JobInv, jobVars
    <3> QED
      BY <3>1, <3>2
  <2>2. CASE LookupSchedules(d)
    <3>0. JobsTyped /\ jid[d] \in Ids /\ jnew[d] \in Tasks
      BY <2>2 DEF LookupSchedules, JobInv, TypeOK, JobsTyped
    <3>1. CASE jid[d] \in OnceIds
      BY <2>2, <3>0, <3>1 DEF LookupSchedules, Goto, JobsTyped, JobInv, jobVars
    <3>2. CASE jid[d] \notin OnceIds /\ schedules[jid[d]] = NoTask
      <4>1. jid[d] \in PeriodicIds
        BY <3>0, <3>2 DEF Ids
      <4>2. Goto(d, "schedule") /\ UNCHANGED jobVars
        BY <2>2, <3>2, <4>1 DEF LookupSchedules
      <4> QED
        BY <2>2, <3>0, <4>1, <4>2
           DEF LookupSchedules, Goto, JobsTyped, JobInv, jobVars
    <3>3. CASE jid[d] \notin OnceIds /\ schedules[jid[d]] # NoTask
      BY <2>2, <3>0, <3>3, ExistedJob DEF LookupSchedules
    <3> QED
      BY <3>1, <3>2, <3>3
  <2>3. CASE DispatchAdd(d)
    <3>0. JobsTyped /\ jid[d] \in OnceIds /\ jnew[d] \in Tasks
      BY <2>3 DEF DispatchAdd, JobInv, TypeOK, JobsTyped
    <3>1. CASE factory[jid[d]] = NoTask
      BY <2>3, <3>0, <3>1 DEF DispatchAdd, Goto, JobsTyped, JobInv, jobVars
    <3>2. CASE factory[jid[d]] # NoTask
      BY <2>3, <3>0, <3>2, ReturnJob DEF DispatchAdd
    <3> QED
      BY <3>1, <3>2
  <2>4. CASE DispatchEnqueue(d)
    <3>0. JobsTyped /\ jid[d] \in OnceIds /\ jnew[d] \in Tasks
      BY <2>4 DEF DispatchEnqueue, JobInv, TypeOK, JobsTyped
    <3> QED
      BY <2>4, <3>0, ReturnJob DEF DispatchEnqueue
  <2>5. CASE SchedulePeriodic(d)
    <3>0. JobsTyped /\ jid[d] \in PeriodicIds /\ jnew[d] \in Tasks
      BY <2>5 DEF SchedulePeriodic, JobInv, TypeOK, JobsTyped
    <3> QED
      BY <2>5, <3>0, ReturnJob DEF SchedulePeriodic
  <2>6. CASE ScheduleFails(d)
    <3>0. JobsTyped /\ jid[d] \in PeriodicIds /\ jnew[d] \in Tasks
      BY <2>6 DEF ScheduleFails, JobInv, TypeOK, JobsTyped
    <3> QED
      BY <2>6, <3>0, ReturnJob DEF ScheduleFails
  <2>7. CASE StopLookup(d)
    <3>0. JobsTyped /\ jid[d] \in OnceIds
      BY <2>7 DEF StopLookup, JobInv, TypeOK, JobsTyped
    <3>1. CASE factory[jid[d]] # NoTask
      <4>1. factory[jid[d]] \in Tasks
        BY <3>0, <3>1 DEF TypeOK, TaskOrNone, Ids
      <4> QED
        BY <2>7, <3>0, <3>1, <4>1 DEF StopLookup, Goto, JobsTyped, JobInv
    <3>2. CASE factory[jid[d]] = NoTask
      BY <2>7, <3>0, <3>2, ReturnJob DEF StopLookup
    <3> QED
      BY <3>1, <3>2
  <2>8. CASE CancelOnce(d)
    <3>0. JobsTyped /\ jid[d] \in OnceIds /\ jold[d] \in Tasks
      BY <2>8 DEF CancelOnce, JobInv, TypeOK, JobsTyped
    <3> QED
      BY <2>8, <3>0, ReturnJob DEF CancelOnce
  <2>9. CASE CancelPeriodic(d)
    <3>0. JobsTyped /\ jid[d] \in PeriodicIds
      BY <2>9 DEF CancelPeriodic, JobInv, TypeOK, JobsTyped
    <3>1. CASE schedules[jid[d]] = NoTask /\ jnew[d] = NoTask
      BY <2>9, <3>0, <3>1, ReturnJob DEF CancelPeriodic
    <3>2. CASE schedules[jid[d]] = NoTask /\ jnew[d] # NoTask
      BY <2>9, <3>2 DEF CancelPeriodic, JobInv, jobVars
    <3>3. CASE schedules[jid[d]] # NoTask
      <4>1. schedules[jid[d]] \in Tasks
        BY <3>0, <3>3 DEF TypeOK, TaskOrNone
      <4>2. /\ jold' = [jold EXCEPT ![d] = schedules[jid[d]]]
            /\ Goto(d, "cancelGet")
            /\ UNCHANGED <<jid, jnew>>
        BY <2>9, <3>3 DEF CancelPeriodic
      <4> QED
        BY <2>9, <3>0, <4>1, <4>2 DEF CancelPeriodic, Goto, JobsTyped, JobInv
    <3> QED
      BY <3>1, <3>2, <3>3
  <2>10. CASE CancelGetRunning(d)
    <3>0. JobsTyped /\ jid[d] \in PeriodicIds /\ jold[d] \in Tasks
      BY <2>10 DEF CancelGetRunning, JobInv, TypeOK, JobsTyped
    <3>1. CASE factory[jid[d]] # NoTask
      <4>1. factory[jid[d]] \in Tasks
        BY <3>0, <3>1 DEF TypeOK, TaskOrNone, Ids
      <4>2. /\ jold' = [jold EXCEPT ![d] = factory[jid[d]]]
            /\ Goto(d, "cancelTask")
            /\ UNCHANGED <<jid, jnew>>
        BY <2>10, <3>1 DEF CancelGetRunning
      <4> QED
        BY <2>10, <3>0, <4>1, <4>2 DEF CancelGetRunning, Goto, JobsTyped, JobInv
    <3>2. CASE factory[jid[d]] = NoTask
      BY <2>10, <3>0, <3>2, CancelDoneJob DEF CancelGetRunning
    <3> QED
      BY <3>1, <3>2
  <2>11. CASE CancelRunning(d)
    <3>0. JobsTyped /\ jid[d] \in PeriodicIds /\ jold[d] \in Tasks
      BY <2>11 DEF CancelRunning, JobInv, TypeOK, JobsTyped
    <3> QED
      BY <2>11, <3>0, CancelDoneJob DEF CancelRunning
  <2> QED
    BY <1>3, <2>1, <2>2, <2>3, <2>4, <2>5, <2>6, <2>7, <2>8, <2>9, <2>10,
       <2>11 DEF DispatchStep
<1>4. ASSUME NEW t \in Tasks, CallbackStep(t) PROVE JobInv'
  <2>1. CASE InvocationCheck(t) \/ InvocationAdd(t) \/ InvocationEnqueue(t)
    BY <2>1 DEF InvocationCheck, JobInv, InvocationAdd, InvocationEnqueue
  <2> QED
    BY <1>4, <2>1 DEF CallbackStep
<1>5. ASSUME NEW t \in Tasks, TimerStep(t) PROVE JobInv'
  <2>1. CASE TimerFires(t) \/ TimerNextRun(t) \/ TimerQuits(t)
    BY <2>1 DEF TimerFires, JobInv, TimerNextRun, TimerQuits
  <2> QED
    BY <1>5, <2>1 DEF TimerStep
<1>6. ASSUME NEW w \in Workers, WorkerStep(w) PROVE JobInv'
  <2>1. CASE WorkerTakes(w) \/ RunRefused(w) \/ RunStarts(w) \/ CommandStarts(w) \/
            CommandFails(w) \/ CommandExits(w) \/ RunChecksCanceled(w) \/
            RunFinishes(w) \/ WorkerRemoves(w)
    BY <2>1 DEF WorkerTakes, JobInv, RunRefused, RunStarts,
       CommandStarts, CommandFails, CommandExits, RunChecksCanceled,
       RunFinishes, WorkerRemoves
  <2> QED
    BY <1>6, <2>1 DEF WorkerStep
<1>7. CASE UNCHANGED vars
  BY <1>7 DEF vars, JobInv
<1> QED
  BY <1>1, <1>2, <1>3, <1>4, <1>5, <1>6, <1>7 DEF Next, Job

-----------------------------------------------------------------------------

(* The ids of objects. *)

\* A dispatcher that returns knows no object under a wrong id.
LEMMA ReturnIds ==
    ASSUME JobsTyped, LocalIds, NEW d \in Dispatchers, Return(d), UNCHANGED taskId
    PROVE  LocalIds'
BY DEF JobsTyped, LocalIds, Return, Goto

\* What dispatchRunTask does about an existing task gives no object another id.
LEMMA ExistedIds ==
    ASSUME JobsTyped, LocalIds, NEW d \in Dispatchers, NEW old, Existed(d, old),
           UNCHANGED taskId
    PROVE  LocalIds'
BY ReturnIds DEF LocalIds, Existed, jobVars

\* The end of cancelPeriodicTask gives no object another id.
LEMMA CancelDoneIds ==
    ASSUME JobsTyped, LocalIds, NEW d \in Dispatchers, CancelDone(d),
           UNCHANGED taskId
    PROVE  LocalIds'
<1>1. CASE jnew[d] = NoTask
  BY <1>1, ReturnIds DEF CancelDone
<1>2. CASE jnew[d] # NoTask
  BY <1>2 DEF CancelDone, JobsTyped, LocalIds
<1> QED
  BY <1>1, <1>2

\* A task that is added was made for the id it is added under.
LEMMA AddTaskIds ==
    ASSUME TypeOK, RegisteredIds, NEW i \in Ids, NEW t \in Tasks,
           taskId[t] = i, AddTask(i, t), UNCHANGED <<taskId, schedules>>
    PROVE  RegisteredIds'
BY EngineAssumption DEF TypeOK, RegisteredIds, AddTask

\* Objects keep being known under their own id.
LEMMA IdStep == TypeOK /\ JobInv /\ IdInv /\ [Next]_vars => IdInv'
<1> SUFFICES ASSUME TypeOK, JobInv, IdInv, [Next]_vars PROVE IdInv'
  OBVIOUS
<1> USE EngineAssumption DEF objVars, cbVars, poolVars, jobVars, engineVars
<1>1. ASSUME NEW d \in Dispatchers, NEW i \in Ids, NEW v \in Versions,
             NEW t \in Tasks, FetchRun(d, i, v, t)
      PROVE  IdInv'
  <2>1. Free(t) /\ i \in Ids /\ t # NoTask
    BY <1>1, EngineAssumption DEF FetchRun
  <2>2. RegisteredIds'
    BY <1>1, <2>1 DEF FetchRun, Free, TypeOK, IdInv, RegisteredIds
  <2>0. jold[d] = NoTask
    BY <1>1 DEF FetchRun, JobInv
  <2>3. LocalIds'
    BY <1>1, <2>0, <2>1 DEF FetchRun, Free, TypeOK, IdInv, LocalIds
  <2>4. TimerIds'
    BY <1>1, <2>1 DEF FetchRun, Free, TypeOK, IdInv, TimerIds
  <2> QED
    BY <2>2, <2>3, <2>4 DEF IdInv
<1>2. ASSUME NEW d \in Dispatchers, NEW i \in Ids, FetchStop(d, i)
      PROVE  IdInv'
  <2>1. jnew[d] = NoTask /\ jold[d] = NoTask
    BY <1>2 DEF FetchStop, JobInv
  <2> QED
    BY <1>2, <2>1 DEF FetchStop, TypeOK, IdInv, RegisteredIds, LocalIds,
       TimerIds, objVars, cbVars
<1>3. ASSUME NEW d \in Dispatchers, DispatchStep(d) PROVE IdInv'
  <2>1. CASE LookupFactory(d)
    <3>0. JobsTyped /\ jid[d] \in Ids /\ jnew[d] \in Tasks
      BY <2>1 DEF LookupFactory, JobInv, TypeOK, JobsTyped
    <3>1. UNCHANGED taskId /\ TimerIds'
      BY <2>1 DEF LookupFactory, IdInv, TimerIds, cbVars, objVars
    <3>2. RegisteredIds'
      BY <2>1 DEF LookupFactory, IdInv, RegisteredIds, objVars
    <3>3. LocalIds'
      <4>1. CASE factory[jid[d]] # NoTask
        BY <2>1, <3>0, <3>1, <4>1, ExistedIds DEF LookupFactory, IdInv
      <4>2. CASE factory[jid[d]] = NoTask
        BY <2>1, <3>1, <4>2 DEF LookupFactory, IdInv, LocalIds, jobVars
      <4> QED
        BY <4>1, <4>2
    <3> QED
      BY <3>1, <3>2, <3>3 DEF IdInv
  <2>2. CASE LookupSchedules(d)
    <3>0. JobsTyped /\ jid[d] \in Ids /\ jnew[d] \in Tasks
      BY <2>2 DEF LookupSchedules, JobInv, TypeOK, JobsTyped
    <3>1. UNCHANGED taskId /\ TimerIds'
      BY <2>2 DEF LookupSchedules, IdInv, TimerIds, cbVars, objVars
    <3>2. RegisteredIds'
      BY <2>2 DEF LookupSchedules, IdInv, RegisteredIds, objVars
    <3>3. LocalIds'
      <4>1. UNCHANGED jobVars \/ Existed(d, schedules[jid[d]])
        BY <2>2 DEF LookupSchedules
      <4> QED
        BY <3>0, <3>1, <4>1, ExistedIds DEF IdInv, LocalIds, jobVars
    <3> QED
      BY <3>1, <3>2, <3>3 DEF IdInv
  <2>3. CASE DispatchAdd(d)
    <3>0. JobsTyped /\ jid[d] \in OnceIds /\ jnew[d] \in Tasks
      BY <2>3 DEF DispatchAdd, JobInv, TypeOK, JobsTyped
    <3>1. UNCHANGED taskId /\ TimerIds'
      BY <2>3 DEF DispatchAdd, IdInv, TimerIds, cbVars, objVars
    <3>2. RegisteredIds'
      <4>1. taskId[jnew[d]] = jid[d] /\ jid[d] \in Ids
        BY <3>0, EngineAssumption DEF IdInv, LocalIds, Ids
      <4> QED
        BY <2>3, <3>0, <3>1, <4>1, AddTaskIds DEF DispatchAdd, IdInv
    <3>3. LocalIds'
      <4>1. UNCHANGED jobVars \/ Return(d)
        BY <2>3 DEF DispatchAdd
      <4> QED
        BY <3>0, <3>1, <4>1, ReturnIds DEF IdInv, LocalIds, jobVars
    <3> QED
      BY <3>1, <3>2, <3>3 DEF IdInv
  <2>4. CASE DispatchEnqueue(d)
    <3>0. JobsTyped /\ jid[d] \in OnceIds /\ jnew[d] \in Tasks
      BY <2>4 DEF DispatchEnqueue, JobInv, TypeOK, JobsTyped
    <3>1. UNCHANGED taskId /\ TimerIds'
      BY <2>4 DEF DispatchEnqueue, IdInv, TimerIds, cbVars, objVars
    <3>2. RegisteredIds'
      BY <2>4 DEF DispatchEnqueue, IdInv, RegisteredIds, objVars
    <3>3. LocalIds'
      BY <2>4, <3>0, <3>1, ReturnIds DEF DispatchEnqueue, IdInv
    <3> QED
      BY <3>1, <3>2, <3>3 DEF IdInv
  <2>5. CASE SchedulePeriodic(d)
    <3>0. /\ JobsTyped /\ jid[d] \in PeriodicIds /\ jnew[d] \in Tasks
          /\ UNCHANGED taskId
      BY <2>5 DEF SchedulePeriodic, JobInv, TypeOK, JobsTyped, objVars
    <3>1. taskId[jnew[d]] = jid[d]
      BY <3>0, EngineAssumption DEF IdInv, LocalIds
    <3>2. RegisteredIds'
      BY <2>5, <3>0, <3>1 DEF SchedulePeriodic, IdInv, RegisteredIds, TypeOK
    <3>3. LocalIds'
      BY <2>5, <3>0, ReturnIds DEF SchedulePeriodic, IdInv
    <3>4. TimerIds'
      BY <2>5, <3>0, <3>1 DEF SchedulePeriodic, IdInv, TimerIds, TypeOK
    <3> QED
      BY <3>2, <3>3, <3>4 DEF IdInv
  <2>6. CASE ScheduleFails(d)
    <3>0. JobsTyped /\ jid[d] \in PeriodicIds /\ jnew[d] \in Tasks
      BY <2>6 DEF ScheduleFails, JobInv, TypeOK, JobsTyped
    <3>1. UNCHANGED taskId /\ TimerIds'
      BY <2>6 DEF ScheduleFails, IdInv, TimerIds, cbVars, objVars
    <3>2. RegisteredIds'
      BY <2>6 DEF ScheduleFails, IdInv, RegisteredIds, objVars
    <3>3. LocalIds'
      BY <2>6, <3>0, <3>1, ReturnIds DEF ScheduleFails, IdInv
    <3> QED
      BY <3>1, <3>2, <3>3 DEF IdInv
  <2>7. CASE StopLookup(d)
    <3>0. JobsTyped /\ jid[d] \in OnceIds
      BY <2>7 DEF StopLookup, JobInv, TypeOK, JobsTyped
    <3>1. UNCHANGED taskId /\ TimerIds'
      BY <2>7 DEF StopLookup, IdInv, TimerIds, cbVars, objVars
    <3>2. RegisteredIds'
      BY <2>7 DEF StopLookup, IdInv, RegisteredIds, objVars
    <3>3. LocalIds'
      <4>1. CASE factory[jid[d]] # NoTask
        <5>1. taskId[factory[jid[d]]] = jid[d]
          BY <3>0, <4>1 DEF IdInv, RegisteredIds, Ids
        <5> QED
          BY <2>7, <3>0, <3>1, <4>1, <5>1
             DEF StopLookup, IdInv, LocalIds, JobsTyped
      <4>2. CASE factory[jid[d]] = NoTask
        BY <2>7, <3>0, <3>1, <4>2, ReturnIds DEF StopLookup, IdInv
      <4> QED
        BY <4>1, <4>2
    <3> QED
      BY <3>1, <3>2, <3>3 DEF IdInv
  <2>8. CASE CancelOnce(d)
    <3>0. JobsTyped /\ jid[d] \in OnceIds /\ jold[d] \in Tasks
      BY <2>8 DEF CancelOnce, JobInv, TypeOK, JobsTyped
    <3>1. UNCHANGED taskId /\ TimerIds'
      BY <2>8 DEF CancelOnce, IdInv, TimerIds, cbVars, objVars
    <3>2. RegisteredIds'
      BY <2>8 DEF CancelOnce, IdInv, RegisteredIds, objVars
    <3>3. LocalIds'
      BY <2>8, <3>0, <3>1, ReturnIds DEF CancelOnce, IdInv
    <3> QED
      BY <3>1, <3>2, <3>3 DEF IdInv
  <2>9. CASE CancelPeriodic(d)
    <3>0. JobsTyped /\ jid[d] \in PeriodicIds
      BY <2>9 DEF CancelPeriodic, JobInv, TypeOK, JobsTyped
    <3>1. UNCHANGED taskId /\ TimerIds'
      BY <2>9 DEF CancelPeriodic, IdInv, TimerIds, cbVars, objVars
    <3>2. RegisteredIds'
      <4>1. \A i \in PeriodicIds : schedules'[i] \in {schedules[i], NoTask}
        BY <2>9, <3>0 DEF CancelPeriodic, TypeOK
      <4> QED
        BY <2>9, <3>1, <4>1 DEF CancelPeriodic, IdInv, RegisteredIds
    <3>3. LocalIds'
      <4>1. CASE schedules[jid[d]] # NoTask
        <5>1. taskId[schedules[jid[d]]] = jid[d]
          BY <3>0, <4>1 DEF IdInv, RegisteredIds
        <5>2. jold' = [jold EXCEPT ![d] = schedules[jid[d]]] /\ UNCHANGED <<jid, jnew>>
          BY <2>9, <4>1 DEF CancelPeriodic
        <5> QED
          BY <3>0, <3>1, <5>1, <5>2 DEF IdInv, LocalIds, JobsTyped
      <4>2. CASE schedules[jid[d]] = NoTask
        <5>1. UNCHANGED jobVars \/ Return(d)
          BY <2>9, <4>2 DEF CancelPeriodic
        <5> QED
          BY <3>0, <3>1, <5>1, ReturnIds DEF IdInv, LocalIds, jobVars
      <4> QED
        BY <4>1, <4>2
    <3> QED
      BY <3>1, <3>2, <3>3 DEF IdInv
  <2>10. CASE CancelGetRunning(d)
    <3>0. JobsTyped /\ jid[d] \in PeriodicIds /\ jold[d] \in Tasks
      BY <2>10 DEF CancelGetRunning, JobInv, TypeOK, JobsTyped
    <3>1. UNCHANGED taskId /\ TimerIds'
      BY <2>10 DEF CancelGetRunning, IdInv, TimerIds, cbVars, objVars
    <3>2. RegisteredIds'
      BY <2>10 DEF CancelGetRunning, IdInv, RegisteredIds, objVars
    <3>3. LocalIds'
      <4>1. CASE factory[jid[d]] # NoTask
        <5>1. taskId[factory[jid[d]]] = jid[d]
          BY <3>0, <4>1 DEF IdInv, RegisteredIds, Ids
        <5>2. jold' = [jold EXCEPT ![d] = factory[jid[d]]] /\ UNCHANGED <<jid, jnew>>
          BY <2>10, <4>1 DEF CancelGetRunning
        <5> QED
          BY <3>0, <3>1, <5>1, <5>2 DEF IdInv, LocalIds, JobsTyped
      <4>2. CASE factory[jid[d]] = NoTask
        BY <2>10, <3>0, <3>1, <4>2, CancelDoneIds DEF CancelGetRunning, IdInv
      <4> QED
        BY <4>1, <4>2
    <3> QED
      BY <3>1, <3>2, <3>3 DEF IdInv
  <2>11. CASE CancelRunning(d)
    <3>0. JobsTyped /\ jid[d] \in PeriodicIds /\ jold[d] \in Tasks
      BY <2>11 DEF CancelRunning, JobInv, TypeOK, JobsTyped
    <3>1. UNCHANGED taskId /\ TimerIds'
      BY <2>11 DEF CancelRunning, IdInv, TimerIds, cbVars, objVars
    <3>2. RegisteredIds'
      BY <2>11 DEF CancelRunning, IdInv, RegisteredIds, objVars
    <3>3. LocalIds'
      BY <2>11, <3>0, <3>1, CancelDoneIds DEF CancelRunning, IdInv
    <3> QED
      BY <3>1, <3>2, <3>3 DEF IdInv
  <2> QED
    BY <1>3, <2>1, <2>2, <2>3, <2>4, <2>5, <2>6, <2>7, <2>8, <2>9, <2>10,
       <2>11 DEF DispatchStep
<1>4. ASSUME NEW t \in Tasks, CallbackStep(t) PROVE IdInv'
  <2>1. CASE InvocationCheck(t) \/ InvocationEnqueue(t)
    BY <2>1 DEF InvocationCheck, TypeOK, IdInv, RegisteredIds, LocalIds,
       TimerIds, InvocationEnqueue
  <2>2. CASE InvocationAdd(t)
    <3>1. taskId[t] \in Ids
      BY <2>2 DEF InvocationAdd, IdInv, TimerIds, Ids
    <3>2. RegisteredIds'
      BY <2>2, <3>1, AddTaskIds DEF InvocationAdd, IdInv
    <3> QED
      BY <2>2, <3>2 DEF InvocationAdd, TypeOK, IdInv, LocalIds, TimerIds
  <2> QED
    BY <1>4, <2>1, <2>2 DEF CallbackStep
<1>5. ASSUME NEW t \in Tasks, TimerStep(t) PROVE IdInv'
  <2>1. CASE TimerFires(t) \/ TimerNextRun(t) \/ TimerQuits(t)
    BY <2>1 DEF TimerFires, TypeOK, IdInv, RegisteredIds, LocalIds,
       TimerIds, TimerNextRun, TimerQuits
  <2> QED
    BY <1>5, <2>1 DEF TimerStep
<1>6. ASSUME NEW w \in Workers, WorkerStep(w) PROVE IdInv'
  <2>1. CASE WorkerTakes(w) \/ RunRefused(w) \/ RunStarts(w) \/ CommandStarts(w) \/
            CommandFails(w) \/ CommandExits(w) \/ RunChecksCanceled(w) \/
            RunFinishes(w)
    BY <2>1 DEF WorkerTakes, IdInv, RegisteredIds, LocalIds, TimerIds,
       RunRefused, RunStarts, CommandStarts, CommandFails, CommandExits,
       RunChecksCanceled, RunFinishes
  <2>2. CASE WorkerRemoves(w)
    <3>1. \A i \in Ids : factory'[i] \in {factory[i], NoTask}
      BY <2>2 DEF WorkerRemoves, RemoveTaskByName, TypeOK
    <3> QED
      BY <2>2, <3>1 DEF WorkerRemoves, IdInv, RegisteredIds, LocalIds,
         TimerIds
  <2> QED
    BY <1>6, <2>1, <2>2 DEF WorkerStep
<1>7. CASE UNCHANGED vars
  BY <1>7 DEF vars, IdInv, RegisteredIds, LocalIds, TimerIds
<1> QED
  BY <1>1, <1>2, <1>3, <1>4, <1>5, <1>6, <1>7 DEF Next, Job

-----------------------------------------------------------------------------

(* Who knows an object. *)

\* The jobs in hand at most end, and a job that goes on stays at the pool if it
\* was there: every step of a dispatcher but FetchRun and DispatchAdd.
JobsShrink ==
    \A e \in Dispatchers : jnew'[e] # NoTask =>
        jnew'[e] = jnew[e] /\ (pc'[e] = "runTask" <=> pc[e] = "runTask")

\* A dispatcher that returns gives its job up and takes no other.
LEMMA ReturnShrinks ==
    ASSUME JobsTyped, NEW d \in Dispatchers, Return(d)
    PROVE  JobsShrink
BY DEF JobsTyped, Return, Goto, JobsShrink

\* A dispatcher that goes on elsewhere than to or from the pool keeps its job.
LEMMA GotoShrinks ==
    ASSUME JobsTyped, NEW d \in Dispatchers, NEW l, Goto(d, l), UNCHANGED jnew,
           l # "runTask", pc[d] # "runTask"
    PROVE  JobsShrink
BY DEF JobsTyped, Goto, JobsShrink

\* FreshInv holds on while the jobs shrink and nothing else is touched.
LEMMA FreshKept ==
    ASSUME FreshInv, JobsShrink,
           UNCHANGED <<factory, schedules, timer, cb, queue, wtask>>
    PROVE  FreshInv'
BY DEF FreshInv, JobsShrink

\* Every step of a job but the registration of a non-periodic task.
LEMMA DispatchShrinks ==
    ASSUME TypeOK, NEW d \in Dispatchers, DispatchStep(d), ~DispatchAdd(d)
    PROVE  JobsShrink
<1>1. JobsTyped
  BY DEF TypeOK, JobsTyped
<1>2. CASE DispatchEnqueue(d) \/ SchedulePeriodic(d) \/ ScheduleFails(d) \/ CancelOnce(d)
  BY <1>1, <1>2, ReturnShrinks
     DEF DispatchEnqueue, SchedulePeriodic, ScheduleFails, CancelOnce
<1>3. CASE LookupFactory(d)
  BY <1>1, <1>3, ReturnShrinks, GotoShrinks DEF LookupFactory, Existed, jobVars
<1>4. CASE LookupSchedules(d)
  BY <1>1, <1>4, ReturnShrinks, GotoShrinks DEF LookupSchedules, Existed, jobVars
<1>5. CASE StopLookup(d)
  BY <1>1, <1>5, ReturnShrinks, GotoShrinks DEF StopLookup
<1>6. CASE CancelPeriodic(d)
  <2>1. pc[d] # "runTask"
    BY <1>6 DEF CancelPeriodic
  <2>2. \/ Return(d)
        \/ UNCHANGED <<pc, jnew>>
        \/ Goto(d, "cancelGet") /\ UNCHANGED jnew
    BY <1>6 DEF CancelPeriodic, jobVars
  <2> QED
    BY <1>1, <2>1, <2>2, ReturnShrinks, GotoShrinks DEF JobsShrink
<1>7. CASE CancelGetRunning(d) \/ CancelRunning(d)
  <2>1. pc[d] # "runTask"
    BY <1>7 DEF CancelGetRunning, CancelRunning
  <2>2. \/ Return(d)
        \/ Goto(d, "cancelTask") /\ UNCHANGED jnew
        \/ Goto(d, "schedule") /\ UNCHANGED jnew
    BY <1>7 DEF CancelGetRunning, CancelRunning, CancelDone
  <2> QED
    BY <1>1, <2>1, <2>2, ReturnShrinks, GotoShrinks
<1> QED
  BY <1>2, <1>3, <1>4, <1>5, <1>6, <1>7 DEF DispatchStep

(* Sequences: what Append and Tail do to the places of a queue. *)

\* Append leaves every element where it is and puts the new one last.
LEMMA AppendPlaces ==
    ASSUME NEW S, NEW s \in Seq(S), NEW x \in S
    PROVE  \A k \in DOMAIN Append(s, x) :
             \/ k \in DOMAIN s /\ Append(s, x)[k] = s[k]
             \/ k = Len(s) + 1 /\ Append(s, x)[k] = x
OBVIOUS

\* Tail moves every element but the first one place forward.
LEMMA TailPlaces ==
    ASSUME NEW S, NEW s \in Seq(S), s # <<>>
    PROVE  /\ 1 \in DOMAIN s /\ Head(s) = s[1] /\ Head(s) \in S
           /\ \A k \in DOMAIN Tail(s) :
                k \in Nat /\ k >= 1 /\ k + 1 \in DOMAIN s /\ Tail(s)[k] = s[k + 1]
OBVIOUS

\* Nobody gets to know the object of a run job before it is handed over.
LEMMA FreshStep == TypeOK /\ JobInv /\ FreshInv /\ [Next]_vars => FreshInv'
<1> SUFFICES ASSUME TypeOK, JobInv, FreshInv, [Next]_vars PROVE FreshInv'
  OBVIOUS
<1> USE EngineAssumption DEF objVars, cbVars, poolVars, jobVars, engineVars
<1>1. ASSUME NEW d \in Dispatchers, NEW i \in Ids, NEW v \in Versions,
             NEW t \in Tasks, FetchRun(d, i, v, t)
      PROVE  FreshInv'
  <2>1. /\ Free(t) /\ t # NoTask /\ jnew' = [jnew EXCEPT ![d] = t]
        /\ pc' = [pc EXCEPT ![d] = "getTask"] /\ jnew[d] = NoTask
        /\ timer' = [timer EXCEPT ![t] = "off"]
        /\ UNCHANGED <<factory, schedules, cb, queue, wtask>>
    BY <1>1, EngineAssumption DEF FetchRun, Goto, JobInv, poolVars
  <2>2. t \in Tasks /\ \A e \in Dispatchers : jnew[e] # NoTask => jnew[e] \in Tasks
    BY DEF TypeOK, TaskOrNone
  <2> QED
    BY <2>1, <2>2 DEF Free, TypeOK, FreshInv
<1>2. ASSUME NEW d \in Dispatchers, NEW i \in Ids, FetchStop(d, i)
      PROVE  FreshInv'
  <2>1. pc[d] # "runTask" /\ jnew' = jnew
    BY <1>2 DEF FetchStop
  <2>2. JobsShrink
    BY <1>2, <2>1, GotoShrinks DEF FetchStop, TypeOK, JobsTyped
  <2> QED
    BY <1>2, <2>2, FreshKept DEF FetchStop, cbVars, poolVars
<1>3. ASSUME NEW d \in Dispatchers, DispatchStep(d) PROVE FreshInv'
  <2>1. CASE LookupFactory(d) \/ LookupSchedules(d) \/ ScheduleFails(d) \/
            StopLookup(d) \/ CancelOnce(d) \/ CancelGetRunning(d) \/
            CancelRunning(d)
    <3>1. JobsShrink
      BY <2>1, DispatchShrinks DEF DispatchStep, DispatchAdd,
         LookupFactory, LookupSchedules, ScheduleFails, StopLookup,
         CancelOnce, CancelGetRunning, CancelRunning
    <3> QED
      BY <2>1, <3>1, FreshKept DEF LookupFactory, LookupSchedules,
         ScheduleFails, StopLookup, CancelOnce, CancelGetRunning,
         CancelRunning, cbVars, poolVars
  <2>2. CASE DispatchAdd(d)
    <3>1. jid[d] \in Ids /\ jnew[d] \in Tasks /\ jnew[d] # NoTask
      BY <2>2, EngineAssumption DEF DispatchAdd, JobInv
    <3>2. CASE factory[jid[d]] = NoTask
      <4>1. /\ factory' = [factory EXCEPT ![jid[d]] = jnew[d]]
            /\ pc' = [pc EXCEPT ![d] = "runTask"]
            /\ UNCHANGED <<jnew, schedules, timer, cb, queue, wtask>>
        BY <2>2, <3>1, <3>2 DEF DispatchAdd, AddTask, Goto, TypeOK, jobVars,
           cbVars, poolVars
      <4> QED
        BY <3>1, <4>1 DEF FreshInv, TypeOK
    <3>3. CASE factory[jid[d]] # NoTask
      <4>1. Return(d) /\ UNCHANGED <<factory, schedules, timer, cb, queue, wtask>>
        BY <2>2, <3>1, <3>3 DEF DispatchAdd, AddTask, TypeOK, cbVars, poolVars
      <4> QED
        BY <4>1, ReturnShrinks, FreshKept DEF TypeOK, JobsTyped
    <3> QED
      BY <3>2, <3>3
  <2>3. CASE DispatchEnqueue(d)
    <3>1. JobsShrink
      BY <2>3, DispatchShrinks DEF DispatchStep, DispatchAdd,
         DispatchEnqueue
    <3>2. /\ jnew[d] \in Tasks /\ jnew[d] # NoTask /\ queue \in Seq(Tasks)
          /\ jnew'[d] = NoTask /\ queue' = Append(queue, jnew[d])
      BY <2>3, EngineAssumption
         DEF DispatchEnqueue, RunTask, Return, JobInv, TypeOK
    <3>3. \A k \in DOMAIN queue' :
            (k \in DOMAIN queue /\ queue'[k] = queue[k]) \/ queue'[k] = jnew[d]
      BY <3>2, AppendPlaces
    <3> QED
      BY <2>3, <3>1, <3>2, <3>3
         DEF DispatchEnqueue, FreshInv, JobsShrink, cbVars
  <2>4. CASE SchedulePeriodic(d)
    <3>1. JobsShrink
      BY <2>4, DispatchShrinks DEF DispatchStep, DispatchAdd,
         SchedulePeriodic
    <3>2. /\ jid[d] \in PeriodicIds /\ jnew[d] \in Tasks /\ jnew[d] # NoTask
          /\ jnew'[d] = NoTask
      BY <2>4, EngineAssumption DEF SchedulePeriodic, Return, JobInv, TypeOK
    <3>3. \A i \in PeriodicIds : schedules'[i] \in {schedules[i], jnew[d]}
      BY <2>4, <3>2 DEF SchedulePeriodic, TypeOK
    <3>4. \A t \in Tasks : t # jnew[d] => timer'[t] = timer[t]
      BY <2>4, <3>2 DEF SchedulePeriodic, TypeOK
    <3>5. \A e \in Dispatchers : jnew'[e] # NoTask => jnew'[e] \in Tasks
      BY <3>1 DEF JobsShrink, TypeOK, TaskOrNone
    <3> QED
      BY <2>4, <3>1, <3>2, <3>3, <3>4, <3>5
         DEF SchedulePeriodic, FreshInv, JobsShrink, poolVars
  <2>5. CASE CancelPeriodic(d)
    <3>1. JobsShrink
      BY <2>5, DispatchShrinks DEF DispatchStep, DispatchAdd,
         CancelPeriodic
    <3>2. jid[d] \in PeriodicIds
      BY <2>5 DEF CancelPeriodic, JobInv
    <3>3. \A i \in PeriodicIds : schedules'[i] \in {schedules[i], NoTask}
      BY <2>5, <3>2 DEF CancelPeriodic, TypeOK
    <3> QED
      BY <2>5, <3>1, <3>3 DEF CancelPeriodic, FreshInv, JobsShrink, poolVars
  <2> QED
    BY <1>3, <2>1, <2>2, <2>3, <2>4, <2>5 DEF DispatchStep
<1>4. ASSUME NEW t \in Tasks, CallbackStep(t) PROVE FreshInv'
  <2>1. CASE InvocationCheck(t)
    BY <2>1 DEF InvocationCheck, FreshInv, TypeOK
  <2>2. CASE InvocationAdd(t)
    <3>1. \A i \in Ids : factory'[i] \in {factory[i], t}
      BY <2>2 DEF InvocationAdd, AddTask, TypeOK
    <3> QED
      BY <2>2, <3>1 DEF InvocationAdd, FreshInv, TypeOK
  <2>3. CASE InvocationEnqueue(t)
    <3>0. \A d \in Dispatchers : jnew[d] # t
      BY <2>3, EngineAssumption DEF InvocationEnqueue, FreshInv
    <3>1. queue \in Seq(Tasks) /\ queue' = Append(queue, t)
      BY <2>3 DEF InvocationEnqueue, RunTask, TypeOK
    <3>2. \A k \in DOMAIN queue' :
            (k \in DOMAIN queue /\ queue'[k] = queue[k]) \/ queue'[k] = t
      BY <3>1, AppendPlaces
    <3> QED
      BY <2>3, <3>0, <3>1, <3>2 DEF InvocationEnqueue, FreshInv, TypeOK
  <2> QED
    BY <1>4, <2>1, <2>2, <2>3 DEF CallbackStep
<1>5. ASSUME NEW t \in Tasks, TimerStep(t) PROVE FreshInv'
  <2>1. CASE TimerFires(t)
    BY <2>1 DEF TimerFires, FreshInv, TypeOK
  <2>2. CASE TimerNextRun(t)
    BY <2>2 DEF TimerNextRun, FreshInv, TypeOK
  <2>3. CASE TimerQuits(t)
    BY <2>3 DEF TimerQuits, FreshInv, TypeOK
  <2> QED
    BY <1>5, <2>1, <2>2, <2>3 DEF TimerStep
<1>6. ASSUME NEW w \in Workers, WorkerStep(w) PROVE FreshInv'
  <2>1. CASE RunRefused(w) \/ RunStarts(w) \/ CommandStarts(w) \/ CommandFails(w) \/
            CommandExits(w) \/ RunChecksCanceled(w) \/ RunFinishes(w)
    BY <2>1 DEF RunRefused, RunStarts, CommandStarts, CommandFails,
       CommandExits, RunChecksCanceled, RunFinishes, FreshInv
  <2>2. CASE WorkerTakes(w)
    <3>1. /\ 1 \in DOMAIN queue /\ Head(queue) = queue[1]
          /\ \A k \in DOMAIN queue' :
               k + 1 \in DOMAIN queue /\ queue'[k] = queue[k + 1]
      BY <2>2, TailPlaces DEF WorkerTakes, TypeOK
    <3>2. \A v \in Workers : wtask'[v] \in {wtask[v], queue[1]}
      BY <2>2, <3>1 DEF WorkerTakes, TypeOK
    <3> QED
      BY <2>2, <3>1, <3>2 DEF WorkerTakes, FreshInv
  <2>3. CASE WorkerRemoves(w)
    <3>1. \A i \in Ids : factory'[i] \in {factory[i], NoTask}
      BY <2>3 DEF WorkerRemoves, RemoveTaskByName, TypeOK
    <3>2. \A v \in Workers : wtask'[v] \in {wtask[v], NoTask}
      BY <2>3 DEF WorkerRemoves, TypeOK
    <3> QED
      BY <2>3, <3>1, <3>2 DEF WorkerRemoves, FreshInv
  <2> QED
    BY <1>6, <2>1, <2>2, <2>3 DEF WorkerStep
<1>7. CASE UNCHANGED vars
  BY <1>7 DEF vars, FreshInv
<1> QED
  BY <1>1, <1>2, <1>3, <1>4, <1>5, <1>6, <1>7 DEF Next, Job

-----------------------------------------------------------------------------

(* The places of non-periodic tasks. *)

\* WorkerInv: a worker gets a task when it gets busy and gives it back at the end.
LEMMA WorkerInvStep == TypeOK /\ WorkerInv /\ [Next]_vars => WorkerInv'
<1> SUFFICES ASSUME TypeOK, WorkerInv, [Next]_vars PROVE WorkerInv'
  OBVIOUS
<1>1. ASSUME NEW w \in Workers, WorkerTakes(w) PROVE WorkerInv'
  <2>1. Head(queue) # NoTask
    BY <1>1, TailPlaces, EngineAssumption DEF WorkerTakes, TypeOK
  <2> QED
    BY <1>1, <2>1 DEF WorkerTakes, WorkerGoto, TypeOK, WorkerInv
<1>2. ASSUME NEW w \in Workers, WorkerStep(w), ~WorkerTakes(w) PROVE WorkerInv'
  BY <1>2 DEF WorkerStep, RunRefused, RunStarts, CommandStarts, CommandFails,
     CommandExits, RunChecksCanceled, RunFinishes, WorkerRemoves, WorkerGoto,
     TypeOK, WorkerInv
<1>3. ASSUME UNCHANGED <<wpc, wtask>> PROVE WorkerInv'
  BY <1>3 DEF WorkerInv
<1> QED
  <2>1. ASSUME NEW d \in Dispatchers, Job(d) PROVE UNCHANGED <<wpc, wtask>>
    BY <2>1 DEF Job, DispatchStep, FetchRun, FetchStop, LookupFactory,
       LookupSchedules, DispatchAdd, DispatchEnqueue, SchedulePeriodic,
       ScheduleFails, StopLookup, CancelOnce, CancelPeriodic,
       CancelGetRunning, CancelRunning, poolVars
  <2>2. ASSUME NEW t \in Tasks, CallbackStep(t) \/ TimerStep(t)
        PROVE  UNCHANGED <<wpc, wtask>>
    BY <2>2 DEF CallbackStep, TimerStep, InvocationCheck, InvocationAdd,
       InvocationEnqueue, TimerFires, TimerNextRun, TimerQuits, poolVars
  <2>3. CASE UNCHANGED vars
    BY <2>3, <1>3 DEF vars, poolVars
  <2> QED
    BY <1>1, <1>2, <1>3, <2>1, <2>2, <2>3 DEF Next

\* PlaceInv is about the queue, the workers and the ids of objects only.
LEMMA PlaceKept ==
    ASSUME PlaceInv, UNCHANGED <<queue, wtask, taskId>>
    PROVE  PlaceInv'
BY DEF PlaceInv

\* The object of a non-periodic task stays in one place.
LEMMA PlaceStep == TypeOK /\ JobInv /\ IdInv /\ FreshInv /\ PlaceInv /\
        [Next]_vars => PlaceInv'
<1> SUFFICES ASSUME TypeOK, JobInv, IdInv, FreshInv, PlaceInv, [Next]_vars
        PROVE PlaceInv'
  OBVIOUS
<1> USE EngineAssumption DEF objVars, cbVars, poolVars, jobVars, engineVars
<1>1. ASSUME NEW d \in Dispatchers, NEW i \in Ids, NEW v \in Versions,
             NEW t \in Tasks, FetchRun(d, i, v, t)
      PROVE  PlaceInv'
  <2>1. /\ Free(t) /\ taskId' = [taskId EXCEPT ![t] = i]
        /\ UNCHANGED <<queue, wtask>>
    BY <1>1 DEF FetchRun
  <2>2. \A k \in DOMAIN queue : queue[k] # t /\ queue[k] \in Tasks
    BY <2>1, ElementOfSeq DEF Free, TypeOK
  <2>3. \A w \in Workers : wtask[w] # t /\ wtask[w] \in Tasks \cup {NoTask}
    BY <2>1 DEF Free, TypeOK, TaskOrNone
  <2>4. \A o \in Tasks : o # t => taskId'[o] = taskId[o]
    BY <2>1 DEF TypeOK
  <2> QED
    BY <2>1, <2>2, <2>3, <2>4 DEF PlaceInv
<1>2. ASSUME NEW d \in Dispatchers, NEW i \in Ids, FetchStop(d, i)
      PROVE  PlaceInv'
  BY <1>2, PlaceKept DEF FetchStop
<1>3. ASSUME NEW d \in Dispatchers, DispatchStep(d) PROVE PlaceInv'
  <2>1. CASE LookupFactory(d) \/ LookupSchedules(d) \/ DispatchAdd(d) \/
            SchedulePeriodic(d) \/ ScheduleFails(d) \/ StopLookup(d) \/
            CancelOnce(d) \/ CancelPeriodic(d) \/ CancelGetRunning(d)
    BY <2>1, PlaceKept DEF LookupFactory, LookupSchedules, DispatchAdd,
       SchedulePeriodic, ScheduleFails, StopLookup, CancelOnce,
       CancelPeriodic, CancelGetRunning
  <2>2. CASE DispatchEnqueue(d)
    <3>1. /\ jnew[d] \in Tasks /\ jnew[d] # NoTask /\ queue \in Seq(Tasks)
          /\ queue' = Append(queue, jnew[d]) /\ UNCHANGED <<taskId, wtask>>
      BY <2>2, EngineAssumption
         DEF DispatchEnqueue, RunTask, JobInv, TypeOK, objVars
    <3>2. \A k \in DOMAIN queue' :
            \/ k \in DOMAIN queue /\ queue'[k] = queue[k]
            \/ k = Len(queue) + 1 /\ queue'[k] = jnew[d]
      BY <3>1, AppendPlaces
    <3>3. /\ \A k \in DOMAIN queue : queue[k] # jnew[d]
          /\ \A w \in Workers : wtask[w] # jnew[d]
      BY <3>1 DEF FreshInv
    <3> QED
      BY <3>1, <3>2, <3>3 DEF PlaceInv
  <2>3. CASE CancelRunning(d)
    BY <2>3, PlaceKept DEF CancelRunning
  <2> QED
    BY <1>3, <2>1, <2>2, <2>3 DEF DispatchStep
<1>4. ASSUME NEW t \in Tasks, CallbackStep(t) PROVE PlaceInv'
  <2>1. CASE InvocationCheck(t) \/ InvocationAdd(t)
    BY <2>1, PlaceKept DEF InvocationCheck, InvocationAdd
  <2>2. CASE InvocationEnqueue(t)
    <3>1. /\ taskId[t] \notin OnceIds /\ queue \in Seq(Tasks)
          /\ queue' = Append(queue, t) /\ UNCHANGED <<taskId, wtask>>
      BY <2>2, EngineAssumption
         DEF InvocationEnqueue, RunTask, IdInv, TimerIds, TypeOK, objVars
    <3>2. \A k \in DOMAIN queue' :
            \/ k \in DOMAIN queue /\ queue'[k] = queue[k]
            \/ k = Len(queue) + 1 /\ queue'[k] = t
      BY <3>1, AppendPlaces
    <3> QED
      BY <3>1, <3>2 DEF PlaceInv
  <2> QED
    BY <1>4, <2>1, <2>2 DEF CallbackStep
<1>5. ASSUME NEW t \in Tasks, TimerStep(t) PROVE PlaceInv'
  <2>1. CASE TimerFires(t) \/ TimerNextRun(t) \/ TimerQuits(t)
    BY <2>1, PlaceKept DEF TimerFires, TimerNextRun, TimerQuits
  <2> QED
    BY <1>5, <2>1 DEF TimerStep
<1>6. ASSUME NEW w \in Workers, WorkerStep(w) PROVE PlaceInv'
  <2>1. CASE WorkerTakes(w)
    <3>1. /\ 1 \in DOMAIN queue /\ Head(queue) = queue[1] /\ queue[1] \in Tasks
          /\ \A k \in DOMAIN queue' :
               /\ k \in Nat /\ k >= 1 /\ k + 1 \in DOMAIN queue
               /\ queue'[k] = queue[k + 1]
      BY <2>1, TailPlaces DEF WorkerTakes, TypeOK
    <3>2. wtask' = [wtask EXCEPT ![w] = queue[1]] /\ UNCHANGED taskId
      BY <2>1, <3>1 DEF WorkerTakes, objVars
    <3>3. \A v \in Workers : v # w => wtask'[v] = wtask[v]
      BY <3>2 DEF TypeOK
    <3>4. wtask'[w] = queue[1]
      BY <3>2 DEF TypeOK
    <3>5. \A k \in DOMAIN queue' : k + 1 # 1
      BY <3>1
    <3>6. \A k, l \in DOMAIN queue' : k + 1 = l + 1 => k = l
      BY <3>1
    <3> QED
      BY <3>1, <3>2, <3>3, <3>4, <3>5, <3>6 DEF PlaceInv
  <2>2. CASE RunRefused(w) \/ RunStarts(w) \/ CommandStarts(w) \/ CommandFails(w) \/
            CommandExits(w) \/ RunChecksCanceled(w) \/ RunFinishes(w)
    BY <2>2, PlaceKept DEF RunRefused, RunStarts, CommandStarts,
       CommandFails, CommandExits, RunChecksCanceled, RunFinishes
  <2>3. CASE WorkerRemoves(w)
    <3>1. \A v \in Workers : wtask'[v] \in {wtask[v], NoTask}
      BY <2>3 DEF WorkerRemoves, TypeOK
    <3> QED
      BY <2>3, <3>1 DEF WorkerRemoves, PlaceInv
  <2> QED
    BY <1>6, <2>1, <2>2, <2>3 DEF WorkerStep
<1>7. CASE UNCHANGED vars
  BY <1>7, PlaceKept DEF vars
<1> QED
  BY <1>1, <1>2, <1>3, <1>4, <1>5, <1>6, <1>7 DEF Next, Job

\* OnceRegistered holds on while nothing new gets in hand and no id in use is
\* given to another object.
LEMMA RegisteredKept ==
    ASSUME OnceRegistered, EngineAssumption, UNCHANGED taskId,
           \A t \in Tasks : taskId[t] \in OnceIds /\ InHand(t)' => InHand(t),
           \A i \in OnceIds : factory[i] # NoTask => factory'[i] = factory[i]
    PROVE  OnceRegistered'
BY DEF OnceRegistered, EngineAssumption

\* The jobs that shrink put nothing in the pool.
LEMMA RegisteredShrinks ==
    ASSUME OnceRegistered, EngineAssumption, JobsShrink,
           UNCHANGED <<taskId, factory, queue, wtask>>
    PROVE  OnceRegistered'
<1>1. \A t \in Tasks : InHand(t)' => InHand(t)
  BY DEF InHand, JobsShrink, EngineAssumption
<1> QED
  BY <1>1, RegisteredKept

\* A non-periodic task in hand stays registered.
LEMMA RegisteredStep == TypeOK /\ JobInv /\ IdInv /\ FreshInv /\ WorkerInv /\
        PlaceInv /\ OnceRegistered /\ [Next]_vars => OnceRegistered'
<1> SUFFICES ASSUME TypeOK, JobInv, IdInv, FreshInv, WorkerInv, PlaceInv,
        OnceRegistered, [Next]_vars PROVE OnceRegistered'
  OBVIOUS
<1> USE EngineAssumption DEF objVars, cbVars, poolVars, jobVars, engineVars
<1>1. ASSUME NEW d \in Dispatchers, NEW i \in Ids, NEW v \in Versions,
             NEW t \in Tasks, FetchRun(d, i, v, t)
      PROVE  OnceRegistered'
  <2>1. /\ Free(t) /\ taskId' = [taskId EXCEPT ![t] = i]
        /\ pc' = [pc EXCEPT ![d] = "getTask"] /\ jnew' = [jnew EXCEPT ![d] = t]
        /\ UNCHANGED <<factory, queue, wtask>>
    BY <1>1 DEF FetchRun, Goto, poolVars
  <2>2. \A o \in Tasks : InHand(o)' => InHand(o) /\ o # t
    BY <2>1 DEF InHand, Free, TypeOK
  <2> QED
    BY <2>1, <2>2 DEF OnceRegistered, TypeOK
<1>2. ASSUME NEW d \in Dispatchers, NEW i \in Ids, FetchStop(d, i)
      PROVE  OnceRegistered'
  <2>1. JobsShrink
    BY <1>2, GotoShrinks DEF FetchStop, TypeOK, JobsTyped
  <2> QED
    BY <1>2, <2>1, RegisteredShrinks DEF FetchStop
<1>3. ASSUME NEW d \in Dispatchers, DispatchStep(d) PROVE OnceRegistered'
  <2>1. CASE LookupFactory(d) \/ LookupSchedules(d) \/ ScheduleFails(d) \/
            StopLookup(d) \/ CancelOnce(d) \/ CancelGetRunning(d) \/
            CancelRunning(d) \/ SchedulePeriodic(d) \/ CancelPeriodic(d)
    <3>1. JobsShrink
      BY <2>1, DispatchShrinks DEF DispatchStep, DispatchAdd,
         DispatchEnqueue, LookupFactory, LookupSchedules,
         ScheduleFails, StopLookup, CancelOnce, CancelGetRunning,
         CancelRunning, SchedulePeriodic, CancelPeriodic
    <3> QED
      BY <2>1, <3>1, RegisteredShrinks DEF LookupFactory,
         LookupSchedules, ScheduleFails, StopLookup, CancelOnce,
         CancelGetRunning, CancelRunning, SchedulePeriodic,
         CancelPeriodic
  <2>2. CASE DispatchAdd(d)
    <3>1. /\ jid[d] \in OnceIds /\ jid[d] \in Ids
          /\ jnew[d] \in Tasks /\ jnew[d] # NoTask
          /\ UNCHANGED <<taskId, queue, wtask>>
      BY <2>2, EngineAssumption DEF DispatchAdd, JobInv, Ids
    <3>2. CASE factory[jid[d]] = NoTask
      <4>1. /\ factory' = [factory EXCEPT ![jid[d]] = jnew[d]]
            /\ pc' = [pc EXCEPT ![d] = "runTask"]
            /\ UNCHANGED jnew
        BY <2>2, <3>1, <3>2 DEF DispatchAdd, AddTask, Goto, TypeOK
      <4>2. \A t \in Tasks : InHand(t)' => InHand(t) \/ t = jnew[d]
        BY <3>1, <4>1 DEF InHand, TypeOK
      <4>3. taskId[jnew[d]] = jid[d]
        BY <3>1 DEF IdInv, LocalIds
      <4> QED
        BY <3>1, <3>2, <4>1, <4>2, <4>3, EngineAssumption
           DEF OnceRegistered, TypeOK
    <3>3. CASE factory[jid[d]] # NoTask
      <4>1. Return(d) /\ UNCHANGED factory
        BY <2>2, <3>1, <3>3 DEF DispatchAdd, AddTask, TypeOK
      <4> QED
        BY <3>1, <4>1, ReturnShrinks, RegisteredShrinks DEF TypeOK, JobsTyped
    <3> QED
      BY <3>2, <3>3
  <2>3. CASE DispatchEnqueue(d)
    <3>1. /\ jnew[d] \in Tasks /\ jnew[d] # NoTask /\ queue \in Seq(Tasks)
          /\ queue' = Append(queue, jnew[d]) /\ UNCHANGED <<taskId, wtask>>
      BY <2>3, EngineAssumption
         DEF DispatchEnqueue, RunTask, JobInv, TypeOK, objVars
    <3>2. \A k \in DOMAIN queue' :
            \/ k \in DOMAIN queue /\ queue'[k] = queue[k]
            \/ k = Len(queue) + 1 /\ queue'[k] = jnew[d]
      BY <3>1, AppendPlaces
    <3>3. JobsShrink /\ UNCHANGED factory /\ pc[d] = "runTask"
      BY <2>3, DispatchShrinks DEF DispatchStep, DispatchAdd, DispatchEnqueue
    <3>4. \A t \in Tasks : InHand(t)' => InHand(t)
      BY <3>1, <3>2, <3>3, EngineAssumption DEF InHand, JobsShrink
    <3> QED
      BY <3>1, <3>3, <3>4, RegisteredKept
  <2> QED
    BY <1>3, <2>1, <2>2, <2>3 DEF DispatchStep
<1>4. ASSUME NEW t \in Tasks, CallbackStep(t) PROVE OnceRegistered'
  <2>1. CASE InvocationCheck(t)
    <3>1. \A o \in Tasks : InHand(o)' => InHand(o)
      BY <2>1 DEF InvocationCheck, InHand
    <3> QED
      BY <2>1, <3>1, RegisteredKept DEF InvocationCheck
  <2>2. CASE InvocationAdd(t)
    <3>1. \A o \in Tasks : InHand(o)' => InHand(o)
      BY <2>2 DEF InvocationAdd, InHand
    <3>2. \A i \in OnceIds : factory'[i] = factory[i]
      BY <2>2, EngineAssumption
         DEF InvocationAdd, AddTask, IdInv, TimerIds, TypeOK, Ids
    <3> QED
      BY <2>2, <3>1, <3>2, RegisteredKept DEF InvocationAdd
  <2>3. CASE InvocationEnqueue(t)
    <3>1. /\ taskId[t] \notin OnceIds /\ queue \in Seq(Tasks)
          /\ queue' = Append(queue, t) /\ UNCHANGED <<taskId, wtask>>
      BY <2>3, EngineAssumption
         DEF InvocationEnqueue, RunTask, IdInv, TimerIds, TypeOK, objVars
    <3>2. \A k \in DOMAIN queue' :
            \/ k \in DOMAIN queue /\ queue'[k] = queue[k]
            \/ k = Len(queue) + 1 /\ queue'[k] = t
      BY <3>1, AppendPlaces
    <3>3. UNCHANGED <<factory, pc, jnew>>
      BY <2>3 DEF InvocationEnqueue
    <3>4. \A o \in Tasks : taskId[o] \in OnceIds /\ InHand(o)' => InHand(o)
      BY <3>1, <3>2, <3>3 DEF InHand
    <3> QED
      BY <3>1, <3>3, <3>4, RegisteredKept
  <2> QED
    BY <1>4, <2>1, <2>2, <2>3 DEF CallbackStep
<1>5. ASSUME NEW t \in Tasks, TimerStep(t) PROVE OnceRegistered'
  <2>1. CASE TimerFires(t) \/ TimerNextRun(t) \/ TimerQuits(t)
    <3>1. \A o \in Tasks : InHand(o)' => InHand(o)
      BY <2>1 DEF TimerFires, TimerNextRun, TimerQuits, InHand
    <3> QED
      BY <2>1, <3>1, RegisteredKept DEF TimerFires, TimerNextRun,
         TimerQuits
  <2> QED
    BY <1>5, <2>1 DEF TimerStep
<1>6. ASSUME NEW w \in Workers, WorkerStep(w) PROVE OnceRegistered'
  <2>1. CASE RunRefused(w) \/ RunStarts(w) \/ CommandStarts(w) \/ CommandFails(w) \/
            CommandExits(w) \/ RunChecksCanceled(w) \/ RunFinishes(w)
    <3>1. \A o \in Tasks : InHand(o)' => InHand(o)
      BY <2>1 DEF RunRefused, RunStarts, CommandStarts, CommandFails,
         CommandExits, RunChecksCanceled, RunFinishes, InHand
    <3> QED
      BY <2>1, <3>1, RegisteredKept DEF RunRefused, RunStarts,
         CommandStarts, CommandFails, CommandExits, RunChecksCanceled,
         RunFinishes
  <2>2. CASE WorkerTakes(w)
    <3>1. /\ 1 \in DOMAIN queue /\ Head(queue) = queue[1] /\ queue[1] \in Tasks
          /\ \A k \in DOMAIN queue' :
               /\ k \in Nat /\ k >= 1 /\ k + 1 \in DOMAIN queue
               /\ queue'[k] = queue[k + 1]
      BY <2>2, TailPlaces DEF WorkerTakes, TypeOK
    <3>2. wtask' = [wtask EXCEPT ![w] = queue[1]] /\ UNCHANGED taskId
      BY <2>2, <3>1 DEF WorkerTakes, objVars
    <3>3. UNCHANGED <<factory, pc, jnew>>
      BY <2>2 DEF WorkerTakes
    <3>4. \A v \in Workers : wtask'[v] \in {wtask[v], queue[1]}
      BY <3>2 DEF TypeOK
    <3>5. \A o \in Tasks : InHand(o)' => InHand(o)
      BY <3>1, <3>3, <3>4 DEF InHand
    <3> QED
      BY <3>2, <3>3, <3>5, RegisteredKept
  <2>3. CASE WorkerRemoves(w)
    <3>1. /\ wtask[w] \in Tasks /\ wtask' = [wtask EXCEPT ![w] = NoTask]
          /\ factory' = [factory EXCEPT ![taskId[wtask[w]]] = NoTask]
          /\ UNCHANGED <<taskId, queue, pc, jnew>>
      BY <2>3 DEF WorkerRemoves, RemoveTaskByName, TypeOK, TaskOrNone, WorkerInv
    <3>2. \A t \in Tasks : InHand(t)' => InHand(t)
      BY <3>1, EngineAssumption DEF InHand, TypeOK
    <3>3. ASSUME NEW t \in Tasks, InHand(t)', taskId[t] \in OnceIds
          PROVE  t # wtask[w]
      <4>1. CASE \E d \in Dispatchers : pc[d] = "runTask" /\ jnew[d] = t
        BY <3>1, <4>1, EngineAssumption DEF FreshInv
      <4>2. CASE \E k \in DOMAIN queue : queue[k] = t
        BY <3>1, <3>3, <4>2, EngineAssumption DEF PlaceInv
      <4>3. CASE \E v \in Workers : wtask'[v] = t
        <5>1. PICK v \in Workers : wtask'[v] = t
          BY <4>3
        <5>2. v # w /\ wtask[v] = t
          BY <3>1, <5>1, EngineAssumption DEF TypeOK
        <5> QED
          BY <3>1, <3>3, <5>2, EngineAssumption DEF PlaceInv
      <4> QED
        BY <3>1, <3>3, <4>1, <4>2, <4>3 DEF InHand
    <3>4. ASSUME NEW t \in Tasks, InHand(t)', taskId[t] \in OnceIds
          PROVE  factory'[taskId[t]] = t
      <4>1. factory[taskId[t]] = t /\ taskId[t] \in Ids
        BY <3>2, <3>4 DEF OnceRegistered, Ids
      <4>2. CASE taskId[t] # taskId[wtask[w]]
        BY <3>1, <4>1, <4>2 DEF TypeOK
      <4>3. CASE taskId[t] = taskId[wtask[w]]
        <5>1. InHand(wtask[w])
          BY DEF InHand
        <5>2. factory[taskId[t]] = wtask[w]
          BY <3>1, <3>4, <4>3, <5>1 DEF OnceRegistered
        <5> QED
          BY <3>3, <3>4, <4>1, <5>2
      <4> QED
        BY <4>2, <4>3
    <3> QED
      BY <3>1, <3>4 DEF OnceRegistered
  <2> QED
    BY <1>6, <2>1, <2>2, <2>3 DEF WorkerStep
<1>7. CASE UNCHANGED vars
  <2>1. \A o \in Tasks : InHand(o)' => InHand(o)
    BY <1>7 DEF vars, InHand
  <2> QED
    BY <1>7, <2>1, RegisteredKept DEF vars
<1> QED
  BY <1>1, <1>2, <1>3, <1>4, <1>5, <1>6, <1>7 DEF Next, Job

-----------------------------------------------------------------------------

(* Cancellations and reports. *)

\* A cancel that is not quiet leaves a canceled task that was reported, and no
\* report is taken back.
LEMMA CancelReports ==
    ASSUME TypeOK, AckInv, NEW t \in Tasks, NEW q \in BOOLEAN, Cancel(t, q),
           q => taskId[t] \notin OnceIds, UNCHANGED taskId
    PROVE  AckInv' /\ \A o \in Tasks : sent[o] \subseteq sent'[o]
<1>1. canceled' = [canceled EXCEPT ![t] = TRUE]
  BY DEF Cancel
<1>2. CASE canceled[t] \/ q
  <2>1. sent' = sent
    BY <1>2 DEF Cancel
  <2>2. taskId[t] \in OnceIds => canceled[t]
    BY <1>2
  <2> QED
    BY <1>1, <2>1, <2>2 DEF AckInv, TypeOK
<1>3. CASE ~(canceled[t] \/ q)
  <2>1. sent' = [sent EXCEPT ![t] = @ \cup {"canceled"}]
    BY <1>3 DEF Cancel, Report
  <2> QED
    BY <1>1, <2>1 DEF AckInv, TypeOK
<1> QED
  BY <1>2, <1>3

\* AckInv holds on while reports are only added and nothing is
\* canceled.
LEMMA AckKept ==
    ASSUME AckInv, UNCHANGED <<taskId, canceled>>,
           \A o \in Tasks : sent[o] \subseteq sent'[o]
    PROVE  AckInv'
BY DEF AckInv

\* OnceReported holds on while reports are only added and no worker moves.
LEMMA ReportedKept ==
    ASSUME TypeOK, WorkerInv, OnceReported, UNCHANGED <<taskId, wpc, wtask>>,
           \A o \in Tasks : sent[o] \subseteq sent'[o]
    PROVE  OnceReported'
<1>1. \A w \in Workers : wpc[w] = "remove" => wtask[w] \in Tasks
  BY DEF TypeOK, WorkerInv, TaskOrNone
<1> QED
  BY <1>1 DEF OnceReported

\* Report adds a report.
LEMMA ReportAdds ==
    ASSUME TypeOK, NEW t \in Tasks, NEW k, Report(t, k)
    PROVE  k \in sent'[t] /\ \A o \in Tasks : sent[o] \subseteq sent'[o]
BY DEF TypeOK, Report

\* The end of a task function comes with a report.
LEMMA Reported ==
    ASSUME TypeOK, WorkerInv, AckInv, OnceReported, NEW w \in Workers,
           wtask[w] \in Tasks, Report(wtask[w], "ended"),
           wpc' = [wpc EXCEPT ![w] = "remove"],
           UNCHANGED <<taskId, canceled, wtask>>
    PROVE  AckInv' /\ OnceReported'
<1>1. "ended" \in sent'[wtask[w]] /\ \A o \in Tasks : sent[o] \subseteq sent'[o]
  BY ReportAdds
<1>2. \A v \in Workers : wpc[v] = "remove" => wtask[v] \in Tasks
  BY DEF TypeOK, WorkerInv, TaskOrNone
<1> QED
  BY <1>1, <1>2, AckKept DEF OnceReported, TypeOK

\* What is canceled for a non-periodic task is reported, and what ends was.
LEMMA AckStep == TypeOK /\ JobInv /\ IdInv /\ WorkerInv /\ PlaceInv /\ AckInv
        /\ OnceReported /\ [Next]_vars => (AckInv /\ OnceReported)'
<1> SUFFICES ASSUME TypeOK, JobInv, IdInv, WorkerInv, PlaceInv, AckInv,
        OnceReported, [Next]_vars PROVE (AckInv /\ OnceReported)'
  OBVIOUS
<1> USE EngineAssumption DEF objVars, cbVars, poolVars, jobVars, engineVars
<1>1. ASSUME NEW d \in Dispatchers, NEW i \in Ids, NEW v \in Versions,
             NEW t \in Tasks, FetchRun(d, i, v, t)
      PROVE  (AckInv /\ OnceReported)'
  <2>1. /\ Free(t) /\ taskId' = [taskId EXCEPT ![t] = i]
        /\ canceled' = [canceled EXCEPT ![t] = FALSE]
        /\ sent' = [sent EXCEPT ![t] = {}] /\ UNCHANGED <<wpc, wtask>>
    BY <1>1 DEF FetchRun, poolVars
  <2>2. AckInv'
    BY <2>1 DEF AckInv, TypeOK
  <2>3. \A w \in Workers : wpc[w] = "remove" => wtask[w] \in Tasks /\ wtask[w] # t
    BY <2>1 DEF TypeOK, TaskOrNone, WorkerInv, Free
  <2> QED
    BY <2>1, <2>2, <2>3 DEF OnceReported, TypeOK
<1>2. ASSUME NEW d \in Dispatchers, NEW i \in Ids, FetchStop(d, i)
      PROVE  (AckInv /\ OnceReported)'
  BY <1>2, AckKept, ReportedKept DEF FetchStop, objVars, poolVars
<1>3. ASSUME NEW d \in Dispatchers, DispatchStep(d) PROVE (AckInv /\ OnceReported)'
  <2>1. CASE LookupFactory(d) \/ LookupSchedules(d) \/ DispatchAdd(d) \/
            DispatchEnqueue(d) \/ SchedulePeriodic(d) \/ ScheduleFails(d) \/
            StopLookup(d) \/ CancelPeriodic(d)
    BY <2>1, AckKept, ReportedKept DEF LookupFactory, objVars, poolVars,
       LookupSchedules, DispatchAdd, DispatchEnqueue, SchedulePeriodic,
       ScheduleFails, StopLookup, CancelPeriodic
  <2>2. CASE CancelOnce(d)
    <3>1. jold[d] \in Tasks /\ Cancel(jold[d], FALSE)
      BY <2>2 DEF CancelOnce, JobInv
    <3>2. UNCHANGED <<taskId, wpc, wtask>>
      BY <2>2 DEF CancelOnce, poolVars
    <3> QED
      BY <3>1, <3>2, CancelReports, ReportedKept
  <2>3. CASE CancelGetRunning(d)
    <3>1. jold[d] \in Tasks /\ UNCHANGED <<taskId, canceled, wpc, wtask>>
      BY <2>3 DEF CancelGetRunning, JobInv, poolVars
    <3>2. sent' = sent \/ Report(jold[d], "canceled")
      BY <2>3 DEF CancelGetRunning
    <3> QED
      BY <3>1, <3>2, ReportAdds, AckKept, ReportedKept
  <2>4. CASE CancelRunning(d)
    <3>1. /\ jold[d] \in Tasks /\ taskId[jold[d]] \notin OnceIds
          /\ Cancel(jold[d], jnew[d] # NoTask)
      BY <2>4, EngineAssumption DEF CancelRunning, JobInv, IdInv, LocalIds
    <3>2. UNCHANGED <<taskId, wpc, wtask>>
      BY <2>4 DEF CancelRunning, poolVars
    <3>3. (jnew[d] # NoTask) \in BOOLEAN
      OBVIOUS
    <3> QED
      BY <3>1, <3>2, <3>3, CancelReports, ReportedKept
  <2> QED
    BY <1>3, <2>1, <2>2, <2>3, <2>4 DEF DispatchStep
<1>4. ASSUME NEW t \in Tasks, CallbackStep(t) PROVE (AckInv /\ OnceReported)'
  <2>1. CASE InvocationCheck(t) \/ InvocationAdd(t) \/ InvocationEnqueue(t)
    BY <2>1, AckKept, ReportedKept DEF InvocationCheck, objVars,
       poolVars, InvocationAdd, InvocationEnqueue
  <2> QED
    BY <1>4, <2>1 DEF CallbackStep
<1>5. ASSUME NEW t \in Tasks, TimerStep(t) PROVE (AckInv /\ OnceReported)'
  <2>1. CASE TimerFires(t) \/ TimerNextRun(t) \/ TimerQuits(t)
    BY <2>1, AckKept, ReportedKept DEF TimerFires, objVars, poolVars,
       TimerNextRun, TimerQuits
  <2> QED
    BY <1>5, <2>1 DEF TimerStep
<1>6. ASSUME NEW w \in Workers, WorkerStep(w) PROVE (AckInv /\ OnceReported)'
  <2>1. CASE WorkerTakes(w)
    <3>1. /\ wpc' = [wpc EXCEPT ![w] = "run"]
          /\ wtask' = [wtask EXCEPT ![w] = Head(queue)]
          /\ UNCHANGED <<taskId, canceled, sent>>
      BY <2>1 DEF WorkerTakes, WorkerGoto, objVars
    <3> QED
      BY <3>1, AckKept DEF OnceReported, TypeOK
  <2>2. CASE RunRefused(w)
    <3>1. /\ wtask[w] \in Tasks /\ Report(wtask[w], "ended")
          /\ wpc' = [wpc EXCEPT ![w] = "remove"]
          /\ UNCHANGED <<taskId, canceled, wtask>>
      BY <2>2 DEF RunRefused, WorkerGoto, TypeOK, TaskOrNone, WorkerInv
    <3> QED
      BY <3>1, Reported
  <2>3. CASE RunStarts(w)
    <3>1. /\ wpc' = [wpc EXCEPT ![w] = "starting"]
          /\ UNCHANGED <<taskId, canceled, sent, wtask>>
      BY <2>3 DEF RunStarts, WorkerGoto, objVars
    <3> QED
      BY <3>1, AckKept DEF OnceReported, TypeOK
  <2>4. CASE CommandStarts(w)
    <3>1. /\ wpc' = [wpc EXCEPT ![w] = "exec"]
          /\ UNCHANGED <<taskId, canceled, sent, wtask>>
      BY <2>4 DEF CommandStarts, WorkerGoto, objVars
    <3> QED
      BY <3>1, AckKept DEF OnceReported, TypeOK
  <2>5. CASE CommandFails(w)
    <3>1. /\ wtask[w] \in Tasks /\ Report(wtask[w], "ended")
          /\ wpc' = [wpc EXCEPT ![w] = "remove"]
          /\ UNCHANGED <<taskId, canceled, wtask>>
      BY <2>5 DEF CommandFails, WorkerGoto, TypeOK, TaskOrNone, WorkerInv
    <3> QED
      BY <3>1, Reported
  <2>6. CASE CommandExits(w)
    <3>1. /\ wpc' = [wpc EXCEPT ![w] = "isCanceled"]
          /\ UNCHANGED <<taskId, canceled, sent, wtask>>
      BY <2>6 DEF CommandExits, WorkerGoto, objVars
    <3> QED
      BY <3>1, AckKept DEF OnceReported, TypeOK
  <2>7. CASE RunChecksCanceled(w)
    <3>1. wtask[w] \in Tasks /\ UNCHANGED <<taskId, canceled, sent, wtask>>
      BY <2>7 DEF RunChecksCanceled, TypeOK, TaskOrNone, WorkerInv, objVars
    <3>2. CASE canceled[wtask[w]]
      <4>1. wpc' = [wpc EXCEPT ![w] = "remove"]
        BY <2>7, <3>2 DEF RunChecksCanceled, WorkerGoto
      <4>2. taskId[wtask[w]] \in OnceIds => sent[wtask[w]] # {}
        BY <3>1, <3>2 DEF AckInv
      <4> QED
        BY <3>1, <4>1, <4>2, AckKept DEF OnceReported, TypeOK
    <3>3. CASE ~canceled[wtask[w]]
      <4>1. wpc' = [wpc EXCEPT ![w] = "finish"]
        BY <2>7, <3>3 DEF RunChecksCanceled, WorkerGoto
      <4> QED
        BY <3>1, <4>1, AckKept DEF OnceReported, TypeOK
    <3> QED
      BY <3>2, <3>3
  <2>8. CASE RunFinishes(w)
    <3>1. /\ wtask[w] \in Tasks /\ Report(wtask[w], "ended")
          /\ wpc' = [wpc EXCEPT ![w] = "remove"]
          /\ UNCHANGED <<taskId, canceled, wtask>>
      BY <2>8 DEF RunFinishes, WorkerGoto, TypeOK, TaskOrNone, WorkerInv
    <3> QED
      BY <3>1, Reported
  <2>9. CASE WorkerRemoves(w)
    <3>1. /\ wtask[w] \in Tasks
          /\ sent' = [sent EXCEPT ![wtask[w]] = @ \ {"ended"}]
          /\ UNCHANGED <<taskId, canceled>>
      BY <2>9 DEF WorkerRemoves, TypeOK, TaskOrNone, WorkerInv
    <3>2. /\ wpc' = [wpc EXCEPT ![w] = "idle"]
          /\ wtask' = [wtask EXCEPT ![w] = NoTask]
      BY <2>9 DEF WorkerRemoves, WorkerGoto
    <3>3. AckInv'
      BY <3>1 DEF AckInv, TypeOK
    <3>4. ASSUME NEW v \in Workers, wpc'[v] = "remove", taskId[wtask'[v]] \in OnceIds
          PROVE  sent'[wtask'[v]] # {}
      <4>1. v # w /\ wpc[v] = "remove" /\ wtask'[v] = wtask[v]
        BY <3>2, <3>4 DEF TypeOK
      <4>2. wtask[v] \in Tasks /\ wtask[v] # wtask[w]
        BY <3>1, <3>4, <4>1, EngineAssumption
           DEF PlaceInv, WorkerInv, TypeOK, TaskOrNone
      <4> QED
        BY <3>1, <3>4, <4>1, <4>2 DEF OnceReported, TypeOK
    <3> QED
      BY <3>1, <3>3, <3>4 DEF OnceReported
  <2> QED
    BY <1>6, <2>1, <2>2, <2>3, <2>4, <2>5, <2>6, <2>7, <2>8, <2>9 DEF
       WorkerStep
<1>7. CASE UNCHANGED vars
  BY <1>7, AckKept, ReportedKept DEF vars, objVars, poolVars
<1> QED
  BY <1>1, <1>2, <1>3, <1>4, <1>5, <1>6, <1>7 DEF Next, Job

-----------------------------------------------------------------------------

(* The theorems. *)

\* The initial state satisfies the inductive invariant.
LEMMA EngineInit == Init => EngineInv /\ NoOrphanTimer
<1> SUFFICES ASSUME Init PROVE EngineInv /\ NoOrphanTimer
  OBVIOUS
<1> USE EngineAssumption DEF Init
<1>1. TypeOK
  <2>1. /\ queue \in Seq(Tasks) /\ schedLock \in Dispatchers \cup {NoOne}
        /\ dereg \subseteq PeriodicIds
    OBVIOUS
  <2>2. JobsTyped
    BY DEF JobsTyped, PCs, TaskOrNone
  <2> QED
    BY <2>1, <2>2 DEF TypeOK, JobsTyped, TaskOrNone, Reports, TimerStates, CbStates,
       WorkerStates
<1>2. JobInv /\ IdInv /\ FreshInv /\ WorkerInv
  BY DEF JobInv, IdInv, RegisteredIds, LocalIds, TimerIds, FreshInv, WorkerInv
<1>3. PlaceInv /\ AckInv /\ OnceReported
  BY DEF PlaceInv, AckInv, OnceReported
<1>4. OnceRegistered
  BY DEF OnceRegistered, InHand
<1>5. NoOrphanTimer
  BY DEF NoOrphanTimer
<1> QED
  BY <1>1, <1>2, <1>3, <1>4, <1>5 DEF EngineInv

\* The inductive invariant is one.
LEMMA EngineStep == EngineInv /\ [Next]_vars => EngineInv'
BY TypeStep, JobStep, IdStep, FreshStep, WorkerInvStep, PlaceStep,
   RegisteredStep, AckStep DEF EngineInv

\* Every reachable state satisfies the inductive invariant.
LEMMA EngineInductive == Spec => []EngineInv
<1>1. Init => EngineInv
  BY EngineInit
<1> QED
  BY <1>1, EngineStep, PTL DEF Spec

\* Every variable stays within its type, in any instance.
THEOREM TypeCorrect == Spec => []TypeOK
<1>1. EngineInv => TypeOK
  BY DEF EngineInv
<1> QED
  BY <1>1, EngineInductive, PTL

\* A non-periodic task in hand is in TaskFactory under its id, however many
\* dispatchers, workers and stops interleave.
THEOREM OnceIsRegistered == Spec => []OnceRegistered
<1>1. EngineInv => OnceRegistered
  BY DEF EngineInv
<1> QED
  BY <1>1, EngineInductive, PTL

\* A non-periodic task is executed once at a time, and never queued twice.
THEOREM OnceIsExclusive == Spec => []OnceExclusive
<1>1. ASSUME EngineInv PROVE OnceExclusive
  <2> USE <1>1, EngineAssumption DEF EngineInv
  <2>1. ASSUME NEW s \in Tasks, NEW t \in Tasks, InHand(s), InHand(t),
               taskId[s] \in OnceIds, taskId[s] = taskId[t]
        PROVE  s = t
    BY <2>1 DEF OnceRegistered
  <2>2. \A k \in DOMAIN queue : queue[k] \in Tasks /\ InHand(queue[k])
    BY ElementOfSeq DEF TypeOK, InHand
  <2>3. \A w \in Workers : wtask[w] # NoTask => wtask[w] \in Tasks /\ InHand(wtask[w])
    BY DEF TypeOK, TaskOrNone, InHand
  <2> QED
    BY <2>1, <2>2, <2>3 DEF OnceExclusive, PlaceInv
<1> QED
  BY <1>1, EngineInductive, PTL

\* What the pool holds of an id is the one object that TaskFactory knows.
THEOREM OnceIsKnownOnce == Spec => []OnceKnownOnce
<1>1. TypeOK /\ OnceRegistered /\ OnceExclusive => OnceKnownOnce
  BY DEF OnceKnownOnce
<1> QED
  BY <1>1, TypeCorrect, OnceIsRegistered, OnceIsExclusive, PTL

\* No non-periodic task ends in silence: one that reports nothing at its end
\* because it was canceled was reported as canceled.
THEOREM OnceIsReported == Spec => []OnceReported
<1>1. EngineInv => OnceReported
  BY DEF EngineInv
<1> QED
  BY <1>1, EngineInductive, PTL

\* A stop of a non-periodic task that is found is acknowledged.
THEOREM StopOnceIsAcknowledged == Spec => StopOnceAcknowledged
<1>1. ASSUME EngineInv, EngineInv', [Next]_vars, NEW d \in Dispatchers,
             pc[d] = "cancelOnce", pc'[d] = "idle"
      PROVE  "canceled" \in sent'[jold[d]]
  <2>1. CancelOnce(d)
    <3> USE <1>1 DEF Goto, Return, EngineInv, TypeOK
    <3>1. ASSUME NEW e \in Dispatchers, Job(e) PROVE CancelOnce(d)
      <4>1. ASSUME e # d PROVE pc'[d] = pc[d]
        <5>1. CASE DispatchStep(e)
          BY <4>1, <5>1 DEF DispatchStep, LookupFactory, LookupSchedules,
             Existed, DispatchAdd, DispatchEnqueue, SchedulePeriodic,
             ScheduleFails, StopLookup, CancelOnce, CancelPeriodic,
             CancelGetRunning, CancelRunning, CancelDone
        <5> QED
          BY <3>1, <4>1, <5>1 DEF Job, FetchRun, FetchStop
      <4> QED
        BY <3>1, <4>1 DEF Job, FetchRun, FetchStop, DispatchStep,
           LookupFactory, LookupSchedules, DispatchAdd, DispatchEnqueue,
           SchedulePeriodic, ScheduleFails, StopLookup, CancelPeriodic,
           CancelGetRunning, CancelRunning
    <3>2. ASSUME NEW t \in Tasks, CallbackStep(t) \/ TimerStep(t) PROVE pc' = pc
      BY <3>2 DEF CallbackStep, TimerStep, InvocationCheck, InvocationAdd,
         InvocationEnqueue, TimerFires, TimerNextRun, TimerQuits
    <3>3. ASSUME NEW w \in Workers, WorkerStep(w) PROVE pc' = pc
      BY <3>3 DEF WorkerStep, WorkerTakes, RunRefused, RunStarts,
         CommandStarts, CommandFails, CommandExits, RunChecksCanceled,
         RunFinishes, WorkerRemoves, engineVars
    <3>4. UNCHANGED vars => pc' = pc
      BY DEF vars
    <3> QED
      BY <3>1, <3>2, <3>3, <3>4 DEF Next
  <2>2. jold[d] \in Tasks /\ jid[d] \in OnceIds /\ jold[d] # NoTask
    BY <1>1, EngineAssumption DEF EngineInv, JobInv
  <2>3. taskId'[jold[d]] \in OnceIds
    BY <1>1, <2>1, <2>2 DEF EngineInv, IdInv, LocalIds, CancelOnce
  <2>4. canceled'[jold[d]]
    BY <1>1, <2>1, <2>2 DEF CancelOnce, Cancel, EngineInv, TypeOK
  <2> QED
    BY <1>1, <2>2, <2>3, <2>4 DEF EngineInv, AckInv
<1>2. EngineInv /\ EngineInv' /\ [Next]_vars =>
        [\A d \in Dispatchers : pc[d] = "cancelOnce" /\ pc'[d] = "idle"
                                  => "canceled" \in sent'[jold[d]]]_vars
  BY <1>1
<1> QED
  BY <1>2, EngineInductive, PTL DEF Spec, StopOnceAcknowledged

\* A timer that keeps firing belongs to a registered schedule, so that a stop
\* can reach it: cancelPeriodicTask asks the timer to quit in the critical
\* section in which it deregisters the schedule.
THEOREM TimersAreOwned == Spec => []NoOrphanTimer
<1>1. EngineInv /\ NoOrphanTimer /\ [Next]_vars => NoOrphanTimer'
  <2> SUFFICES ASSUME EngineInv, NoOrphanTimer, [Next]_vars PROVE NoOrphanTimer'
    OBVIOUS
  <2> USE DEF EngineInv, NoOrphanTimer
  <2>0. TypeOK
    OBVIOUS
  <2>1. ASSUME UNCHANGED <<taskId, timer, quit, schedules>> PROVE NoOrphanTimer'
    BY <2>1
  <2>2. ASSUME NEW d \in Dispatchers, Job(d) PROVE NoOrphanTimer'
    <3>1. ASSUME NEW i \in Ids, NEW v \in Versions, NEW t \in Tasks,
                 FetchRun(d, i, v, t)
          PROVE  NoOrphanTimer'
      BY <3>1 DEF FetchRun, TypeOK
    <3>2. CASE SchedulePeriodic(d)
      <4>1. jid[d] \in PeriodicIds /\ jnew[d] \in Tasks /\ taskId[jnew[d]] = jid[d]
        BY <3>2, EngineAssumption
           DEF SchedulePeriodic, JobInv, IdInv, LocalIds
      <4>2. UNCHANGED <<taskId, quit>>
        BY <3>2 DEF SchedulePeriodic, objVars
      <4>3. CASE schedules[jid[d]] = NoTask
        <5>1. /\ schedules' = [schedules EXCEPT ![jid[d]] = jnew[d]]
              /\ timer' = [timer EXCEPT ![jnew[d]] = "wait"]
          BY <3>2, <4>3 DEF SchedulePeriodic
        <5>2. \A t \in Tasks : t # NoTask
          BY EngineAssumption
        <5> QED
          BY <4>1, <4>2, <4>3, <5>1, <5>2 DEF TypeOK
      <4>4. CASE schedules[jid[d]] # NoTask
        BY <2>1, <3>2, <4>2, <4>4 DEF SchedulePeriodic
      <4> QED
        BY <4>3, <4>4
    <3>3. CASE CancelPeriodic(d)
      <4>1. jid[d] \in PeriodicIds /\ UNCHANGED <<taskId, timer>>
        BY <3>3 DEF CancelPeriodic, JobInv, objVars
      <4>2. CASE schedules[jid[d]] = NoTask
        BY <2>1, <3>3, <4>1, <4>2 DEF CancelPeriodic
      <4>3. CASE schedules[jid[d]] # NoTask
        <5>1. /\ quit' = [quit EXCEPT ![schedules[jid[d]]] = TRUE]
              /\ schedules' = [schedules EXCEPT ![jid[d]] = NoTask]
          BY <3>3, <4>3 DEF CancelPeriodic
        <5>2. \A t \in Tasks : quit'[t] = FALSE => quit[t] = FALSE /\ t # schedules[jid[d]]
          BY <4>1, <4>3, <5>1 DEF TypeOK, TaskOrNone
        <5> QED
          BY <4>1, <5>1, <5>2 DEF TypeOK
      <4> QED
        BY <4>2, <4>3
    <3>4. CASE DispatchStep(d) /\ ~SchedulePeriodic(d) /\ ~CancelPeriodic(d)
      BY <2>1, <3>4 DEF DispatchStep, LookupFactory, LookupSchedules,
         DispatchAdd, DispatchEnqueue, ScheduleFails, StopLookup, CancelOnce,
         CancelGetRunning, CancelRunning, objVars, cbVars
    <3>5. ASSUME NEW i \in Ids, FetchStop(d, i) PROVE NoOrphanTimer'
      BY <2>1, <3>5 DEF FetchStop, objVars, cbVars
    <3> QED
      BY <2>2, <3>1, <3>2, <3>3, <3>4, <3>5 DEF Job
  <2>3. ASSUME NEW t \in Tasks, CallbackStep(t) \/ TimerStep(t) PROVE NoOrphanTimer'
    <3>1. CASE CallbackStep(t)
      BY <2>1, <3>1 DEF CallbackStep, InvocationCheck, InvocationAdd,
         InvocationEnqueue, objVars
    <3>2. CASE TimerStep(t)
      BY <2>0, <3>2 DEF TimerStep, TimerFires, TimerNextRun, TimerQuits, objVars,
         TypeOK
    <3> QED
      BY <2>3, <3>1, <3>2
  <2>4. ASSUME NEW w \in Workers, WorkerStep(w) PROVE NoOrphanTimer'
    BY <2>1, <2>4 DEF WorkerStep, WorkerTakes, RunRefused, RunStarts,
       CommandStarts, CommandFails, CommandExits, RunChecksCanceled,
       RunFinishes, WorkerRemoves, engineVars, objVars, cbVars
  <2>5. CASE UNCHANGED vars
    BY <2>1, <2>5 DEF vars, objVars, cbVars
  <2> QED
    BY <2>2, <2>3, <2>4, <2>5 DEF Next
<1>2. Init => NoOrphanTimer
  BY EngineInit
<1> QED
  BY <1>1, <1>2, EngineInductive, PTL DEF Spec

(***************************************************************************)
(* Periodic tasks exclude themselves.  Deregistering a schedule clears its *)
(* slot at once, but its object may still have a callback or an invocation *)
(* under way, and a new schedule of the same id then has another object.   *)
(* For an id that was never deregistered the slot names the only object    *)
(* that can be Busy (OwnerInv), its callbacks run one after the other and  *)
(* each looks the task up in TaskFactory before it adds it, so that an     *)
(* invocation is in one place only (OnePlace) and the next is not added    *)
(* before the worker removed the last (Registered).                        *)
(***************************************************************************)

\* The timer of the object fires, or an invocation of it is under way.
Busy(t) ==
    \/ timer[t] \in {"wait", "fired"} \/ cb[t] # "idle"
    \/ \E k \in DOMAIN queue : queue[k] = t
    \/ \E w \in Workers : wtask[w] = t

\* A schedule that was never deregistered is the only one its id ever had.
OwnerInv ==
    \A i \in PeriodicIds \ dereg, t \in Tasks :
        taskId[t] = i /\ Busy(t) => schedules[i] = t

\* An invocation of the object is in one place, and registered once it is past AddTask.
OnePlace(t) ==
    /\ cb[t] = "enqueue" => /\ \A k \in DOMAIN queue : queue[k] # t
                            /\ \A w \in Workers : wtask[w] # t
    /\ \A k, l \in DOMAIN queue : queue[k] = t /\ queue[l] = t => k = l
    /\ \A v, w \in Workers : wtask[v] = t /\ wtask[w] = t => v = w
    /\ \A k \in DOMAIN queue, w \in Workers : queue[k] = t => wtask[w] # t
Registered(t) ==
    /\ cb[t] = "add" => factory[taskId[t]] = NoTask
    /\ factory[taskId[t]] = NoTask =>
          /\ cb[t] # "enqueue"
          /\ \A k \in DOMAIN queue : queue[k] # t
          /\ \A w \in Workers : wtask[w] # t
InvocationInv ==
    \A t \in Tasks : taskId[t] \in PeriodicIds \ dereg => OnePlace(t) /\ Registered(t)

PeriodicInv == OwnerInv /\ InvocationInv

\* Nothing of a schedule or an invocation changes.
LEMMA PeriodicKept ==
    ASSUME PeriodicInv, UNCHANGED <<taskId, timer, cb, queue, wtask, factory, schedules, dereg>>
    PROVE  PeriodicInv'
BY DEF PeriodicInv, OwnerInv, InvocationInv, Busy, OnePlace, Registered

\* The steps of dispatchers.
LEMMA PeriodicJob ==
    ASSUME EngineInv, PeriodicInv, NEW d \in Dispatchers, Job(d)
    PROVE  PeriodicInv'
<1> USE EngineAssumption DEF EngineInv
<1>1. ASSUME NEW i \in Ids, NEW v \in Versions, NEW t \in Tasks, FetchRun(d, i, v, t)
      PROVE  PeriodicInv'
  <2>1. /\ ~Busy(t) /\ cb[t] = "idle"
        /\ \A k \in DOMAIN queue : queue[k] # t
        /\ \A w \in Workers : wtask[w] # t
    BY <1>1 DEF FetchRun, Free, Busy
  <2>2. /\ taskId' = [taskId EXCEPT ![t] = i] /\ timer' = [timer EXCEPT ![t] = "off"]
        /\ UNCHANGED <<cb, queue, wtask, factory, schedules, dereg>>
    BY <1>1 DEF FetchRun, poolVars
  <2>3. \A u \in Tasks \ {t} : taskId'[u] = taskId[u] /\ timer'[u] = timer[u]
    BY <2>2 DEF TypeOK
  <2>4. timer'[t] = "off" /\ taskId'[t] = i
    BY <2>2 DEF TypeOK
  <2>5. OwnerInv'
    BY <2>1, <2>2, <2>3, <2>4 DEF PeriodicInv, OwnerInv, Busy
  <2>6. InvocationInv'
    BY <2>1, <2>2, <2>3, <2>4 DEF PeriodicInv, InvocationInv, OnePlace, Registered
  <2> QED
    BY <2>5, <2>6 DEF PeriodicInv
<1>2. CASE DispatchAdd(d)
  <2>1. /\ jid[d] \in OnceIds /\ factory' \in [Ids -> TaskOrNone]
        /\ \A i \in Ids : i # jid[d] => factory'[i] = factory[i]
    BY <1>2 DEF DispatchAdd, AddTask, JobInv, TypeOK, TaskOrNone, Ids
  <2>2. \A i \in PeriodicIds : factory'[i] = factory[i]
    BY <2>1 DEF Ids
  <2>3. UNCHANGED <<taskId, timer, cb, queue, wtask, schedules, dereg>>
    BY <1>2 DEF DispatchAdd, objVars, cbVars, poolVars
  <2> QED
    BY <2>2, <2>3 DEF PeriodicInv, OwnerInv, InvocationInv, Busy, OnePlace, Registered
<1>3. CASE DispatchEnqueue(d)
  <2>1. /\ queue' = Append(queue, jnew[d]) /\ queue \in Seq(Tasks) /\ jnew[d] \in Tasks
        /\ UNCHANGED <<taskId, timer, cb, wtask, factory, schedules, dereg>>
    BY <1>3 DEF DispatchEnqueue, RunTask, JobInv, TypeOK, objVars, cbVars
  <2>2. taskId[jnew[d]] \notin PeriodicIds
    BY <1>3, <2>1 DEF DispatchEnqueue, JobInv, IdInv, LocalIds
  <2>3. \A k \in DOMAIN queue' :
           \/ k \in DOMAIN queue /\ queue'[k] = queue[k]
           \/ queue'[k] = jnew[d]
    BY <2>1, AppendPlaces
  <2> QED
    BY <2>1, <2>2, <2>3 DEF PeriodicInv, OwnerInv, InvocationInv, Busy, OnePlace, Registered
<1>4. CASE SchedulePeriodic(d)
  <2>1. /\ jid[d] \in PeriodicIds /\ jnew[d] \in Tasks /\ taskId[jnew[d]] = jid[d]
        /\ UNCHANGED <<taskId, cb, queue, wtask, factory, dereg>>
    BY <1>4 DEF SchedulePeriodic, JobInv, IdInv, LocalIds, objVars, poolVars
  <2>2. CASE schedules[jid[d]] = NoTask
    <3>1. /\ schedules' = [schedules EXCEPT ![jid[d]] = jnew[d]]
          /\ timer' = [timer EXCEPT ![jnew[d]] = "wait"]
      BY <1>4, <2>2 DEF SchedulePeriodic
    <3>2. \A t \in Tasks : t # jnew[d] => timer'[t] = timer[t]
      BY <2>1, <3>1 DEF TypeOK
    <3>3. \A i \in PeriodicIds : i # jid[d] => schedules'[i] = schedules[i]
      BY <2>1, <3>1 DEF TypeOK
    <3>4. schedules'[jid[d]] = jnew[d]
      BY <2>1, <3>1 DEF TypeOK
    <3>5. \A t \in Tasks : t # NoTask
      OBVIOUS
    <3>6. OwnerInv'
      BY <2>1, <2>2, <3>2, <3>3, <3>4, <3>5 DEF PeriodicInv, OwnerInv, Busy
    <3> QED
      BY <2>1, <3>6 DEF PeriodicInv, InvocationInv, OnePlace, Registered
  <2>3. CASE schedules[jid[d]] # NoTask
    BY <1>4, <2>1, <2>3, PeriodicKept DEF SchedulePeriodic
  <2> QED
    BY <2>2, <2>3
<1>5. CASE CancelPeriodic(d)
  <2>1. jid[d] \in PeriodicIds /\ UNCHANGED <<taskId, timer, cb, queue, wtask, factory>>
    BY <1>5 DEF CancelPeriodic, JobInv, objVars, poolVars
  <2>2. CASE schedules[jid[d]] = NoTask
    BY <1>5, <2>1, <2>2, PeriodicKept DEF CancelPeriodic
  <2>3. CASE schedules[jid[d]] # NoTask
    <3>1. /\ schedules' = [schedules EXCEPT ![jid[d]] = NoTask]
          /\ dereg' = dereg \cup {jid[d]}
      BY <1>5, <2>3 DEF CancelPeriodic
    <3>2. \A i \in PeriodicIds \ dereg' : i \notin dereg /\ schedules'[i] = schedules[i]
      BY <2>1, <3>1 DEF TypeOK
    <3> QED
      BY <2>1, <3>2 DEF PeriodicInv, OwnerInv, InvocationInv, Busy, OnePlace, Registered
  <2> QED
    BY <2>2, <2>3
<1>6. CASE /\ DispatchStep(d) /\ ~DispatchAdd(d) /\ ~DispatchEnqueue(d)
           /\ ~SchedulePeriodic(d) /\ ~CancelPeriodic(d)
  BY <1>6, PeriodicKept DEF DispatchStep, LookupFactory, LookupSchedules, ScheduleFails,
     StopLookup, CancelOnce, CancelGetRunning, CancelRunning, objVars, cbVars, poolVars
<1>7. ASSUME NEW i \in Ids, FetchStop(d, i) PROVE PeriodicInv'
  BY <1>7, PeriodicKept DEF FetchStop, objVars, cbVars, poolVars
<1> QED
  BY <1>1, <1>2, <1>3, <1>4, <1>5, <1>6, <1>7 DEF Job

\* The steps of timers and callbacks.
LEMMA PeriodicTimer ==
    ASSUME EngineInv, PeriodicInv, NEW t \in Tasks, CallbackStep(t) \/ TimerStep(t)
    PROVE  PeriodicInv'
<1> USE EngineAssumption DEF EngineInv
<1>1. CASE TimerStep(t)
  <2>1. UNCHANGED <<taskId, queue, wtask, factory, schedules, dereg>>
    BY <1>1 DEF TimerStep, TimerFires, TimerNextRun, TimerQuits, objVars, poolVars
  <2>2. /\ \A u \in Tasks \ {t} : timer'[u] = timer[u] /\ cb'[u] = cb[u]
        /\ timer[t] \in {"wait", "fired"}
        /\ cb'[t] \in {cb[t], "check"}
    BY <1>1 DEF TimerStep, TimerFires, TimerNextRun, TimerQuits, TypeOK
  <2>3. OwnerInv'
    BY <2>1, <2>2 DEF PeriodicInv, OwnerInv, Busy
  <2>4. InvocationInv'
    BY <2>1, <2>2 DEF PeriodicInv, InvocationInv, OnePlace, Registered
  <2> QED
    BY <2>3, <2>4 DEF PeriodicInv
<1>2. CASE InvocationCheck(t)
  <2>1. UNCHANGED <<taskId, timer, queue, wtask, factory, schedules, dereg>>
    BY <1>2 DEF InvocationCheck, objVars, poolVars
  <2>2. /\ \A u \in Tasks \ {t} : cb'[u] = cb[u]
        /\ cb[t] = "check"
        /\ cb'[t] = IF factory[taskId[t]] = NoTask THEN "add" ELSE "idle"
    BY <1>2 DEF InvocationCheck, TypeOK
  <2>3. OwnerInv'
    BY <2>1, <2>2 DEF PeriodicInv, OwnerInv, Busy
  <2>4. InvocationInv'
    BY <2>1, <2>2 DEF PeriodicInv, InvocationInv, OnePlace, Registered
  <2> QED
    BY <2>3, <2>4 DEF PeriodicInv
<1>3. CASE InvocationAdd(t)
  <2>1. /\ UNCHANGED <<taskId, timer, queue, wtask, schedules, dereg>>
        /\ taskId[t] \in PeriodicIds
    BY <1>3 DEF InvocationAdd, objVars, poolVars, IdInv, TimerIds
  <2>2. /\ \A u \in Tasks \ {t} : cb'[u] = cb[u]
        /\ cb[t] = "add" /\ cb'[t] = "enqueue"
    BY <1>3 DEF InvocationAdd, TypeOK
  <2>3. OwnerInv'
    BY <2>1, <2>2 DEF PeriodicInv, OwnerInv, Busy
  <2>4. /\ \A i \in Ids : i # taskId[t] => factory'[i] = factory[i]
        /\ factory'[taskId[t]] # NoTask
    BY <1>3, <2>1 DEF InvocationAdd, AddTask, TypeOK, Ids
  <2>5. ASSUME taskId[t] \notin dereg
        PROVE  /\ \A k \in DOMAIN queue : queue[k] # t
               /\ \A w \in Workers : wtask[w] # t
    BY <2>1, <2>2, <2>5 DEF PeriodicInv, InvocationInv, Registered
  <2>6. ASSUME NEW u \in Tasks, taskId[u] = taskId[t], taskId[t] \notin dereg, u # t
        PROVE  ~Busy(u)
    BY <2>1, <2>2, <2>6 DEF PeriodicInv, OwnerInv, Busy
  <2>7. ASSUME NEW u \in Tasks, taskId'[u] \in PeriodicIds \ dereg'
        PROVE  OnePlace(u)' /\ Registered(u)'
    <3>1. CASE u = t
      BY <2>1, <2>2, <2>4, <2>5, <2>7, <3>1
         DEF PeriodicInv, InvocationInv, OnePlace, Registered
    <3>2. CASE u # t /\ taskId[u] = taskId[t]
      BY <2>1, <2>2, <2>4, <2>6, <2>7, <3>2 DEF Busy, OnePlace, Registered
    <3>3. CASE u # t /\ taskId[u] # taskId[t]
      BY <2>1, <2>2, <2>4, <2>7, <3>3
         DEF PeriodicInv, InvocationInv, OnePlace, Registered, Ids
    <3> QED
      BY <3>1, <3>2, <3>3
  <2> QED
    BY <2>3, <2>7 DEF PeriodicInv, InvocationInv
<1>4. CASE InvocationEnqueue(t)
  <2>1. /\ UNCHANGED <<taskId, timer, wtask, factory, schedules, dereg>>
        /\ queue' = Append(queue, t) /\ queue \in Seq(Tasks)
    BY <1>4 DEF InvocationEnqueue, RunTask, TypeOK, objVars
  <2>2. /\ \A u \in Tasks \ {t} : cb'[u] = cb[u]
        /\ cb[t] = "enqueue" /\ cb'[t] = "idle"
    BY <1>4 DEF InvocationEnqueue, TypeOK
  <2>3. \A k \in DOMAIN queue' :
           \/ k \in DOMAIN queue /\ queue'[k] = queue[k]
           \/ k = Len(queue) + 1 /\ queue'[k] = t
    BY <2>1, AppendPlaces
  <2>4. OwnerInv'
    BY <2>1, <2>2, <2>3 DEF PeriodicInv, OwnerInv, Busy
  <2>5. InvocationInv'
    BY <2>1, <2>2, <2>3 DEF PeriodicInv, InvocationInv, OnePlace, Registered
  <2> QED
    BY <2>4, <2>5 DEF PeriodicInv
<1> QED
  BY <1>1, <1>2, <1>3, <1>4 DEF CallbackStep

\* The steps of workers.
LEMMA PeriodicWorker ==
    ASSUME EngineInv, PeriodicInv, NEW w \in Workers, WorkerStep(w)
    PROVE  PeriodicInv'
<1> USE EngineAssumption DEF EngineInv
<1>1. CASE WorkerTakes(w)
  <2>1. UNCHANGED <<taskId, timer, cb, factory, schedules, dereg>>
    BY <1>1 DEF WorkerTakes, objVars, engineVars, cbVars
  <2>2. /\ 1 \in DOMAIN queue
        /\ \A k \in DOMAIN queue' :
              k \in Nat /\ k >= 1 /\ k + 1 \in DOMAIN queue /\ queue'[k] = queue[k + 1]
    BY <1>1, TailPlaces DEF WorkerTakes, TypeOK
  <2>3. /\ \A v \in Workers \ {w} : wtask'[v] = wtask[v]
        /\ wtask'[w] = queue[1] /\ wtask[w] = NoTask
    BY <1>1, TailPlaces DEF WorkerTakes, TypeOK, WorkerInv
  <2>4. OwnerInv'
    <3>1. \A t \in Tasks : Busy(t)' => Busy(t)
      BY <2>1, <2>2, <2>3 DEF Busy
    <3> QED
      BY <2>1, <3>1 DEF PeriodicInv, OwnerInv
  <2>5. ASSUME NEW t \in Tasks, OnePlace(t) PROVE OnePlace(t)'
    <3>1. \A k \in DOMAIN queue' : k + 1 # 1
      BY <2>2
    <3>2. \A k, l \in DOMAIN queue' : k + 1 = l + 1 => k = l
      BY <2>2
    <3>3. (cb[t] = "enqueue" => /\ \A k \in DOMAIN queue : queue[k] # t
                               /\ \A v \in Workers : wtask[v] # t)'
      BY <2>1, <2>2, <2>3, <2>5 DEF OnePlace
    <3>4. (\A k, l \in DOMAIN queue : queue[k] = t /\ queue[l] = t => k = l)'
      BY <2>2, <2>5, <3>2 DEF OnePlace
    <3>5. (\A u, v \in Workers : wtask[u] = t /\ wtask[v] = t => u = v)'
      BY <2>2, <2>3, <2>5 DEF OnePlace
    <3>6. (\A k \in DOMAIN queue, v \in Workers : queue[k] = t => wtask[v] # t)'
      BY <2>2, <2>3, <2>5, <3>1 DEF OnePlace
    <3> QED
      BY <3>3, <3>4, <3>5, <3>6 DEF OnePlace
  <2>6. ASSUME NEW t \in Tasks, Registered(t) PROVE Registered(t)'
    BY <2>1, <2>2, <2>3, <2>6 DEF Registered
  <2> QED
    BY <2>1, <2>4, <2>5, <2>6 DEF PeriodicInv, InvocationInv
<1>2. CASE WorkerRemoves(w)
  <2>1. /\ UNCHANGED <<taskId, timer, cb, queue, schedules, dereg>>
        /\ wtask[w] \in Tasks
        /\ wtask' = [wtask EXCEPT ![w] = NoTask]
        /\ factory' = [factory EXCEPT ![taskId[wtask[w]]] = NoTask]
    BY <1>2 DEF WorkerRemoves, RemoveTaskByName, WorkerInv, TypeOK, TaskOrNone, cbVars
  <2>2. /\ \A v \in Workers \ {w} : wtask'[v] = wtask[v]
        /\ wtask'[w] = NoTask
    BY <2>1 DEF TypeOK
  <2>3. \A i \in Ids : i # taskId[wtask[w]] => factory'[i] = factory[i]
    BY <2>1 DEF TypeOK
  <2>4. OwnerInv'
    BY <2>1, <2>2 DEF PeriodicInv, OwnerInv, Busy
  <2>5. ASSUME NEW t \in Tasks, taskId'[t] \in PeriodicIds \ dereg'
        PROVE  OnePlace(t)' /\ Registered(t)'
    <3>1. OnePlace(t) /\ Registered(t) /\ t # NoTask
      BY <2>1, <2>5 DEF PeriodicInv, InvocationInv
    <3>2. OnePlace(t)'
      BY <2>1, <2>2, <3>1 DEF OnePlace
    <3>3. CASE taskId[t] # taskId[wtask[w]]
      BY <2>1, <2>2, <2>3, <2>5, <3>1, <3>2, <3>3 DEF Registered, Ids
    <3>4. CASE taskId[t] = taskId[wtask[w]]
      <4>1. Busy(t) => t = wtask[w]
        BY <2>1, <2>5, <3>4 DEF PeriodicInv, OwnerInv, Busy
      <4>2. CASE t = wtask[w]
        BY <2>1, <2>2, <3>1, <3>2, <3>4, <4>2 DEF Registered, OnePlace, TypeOK, Ids
      <4>3. CASE ~Busy(t)
        BY <2>1, <2>2, <3>1, <3>2, <4>3 DEF Registered, Busy
      <4> QED
        BY <4>1, <4>2, <4>3
    <3> QED
      BY <3>2, <3>3, <3>4
  <2> QED
    BY <2>4, <2>5 DEF PeriodicInv, InvocationInv
<1>3. CASE ~WorkerTakes(w) /\ ~WorkerRemoves(w)
  BY <1>3, PeriodicKept DEF WorkerStep, RunRefused, RunStarts, CommandStarts, CommandFails,
     CommandExits, RunChecksCanceled, RunFinishes, objVars, engineVars, cbVars
<1> QED
  BY <1>1, <1>2, <1>3

\* A set with one element at most is finite.
LEMMA AtMostOne ==
    ASSUME NEW S, \A x, y \in S : x = y
    PROVE  /\ Cardinality(S) \in {0, 1}
           /\ Cardinality(S) = 1 => S # {}
           /\ S # {} => Cardinality(S) = 1
<1>1. CASE S = {}
  BY <1>1, FS_EmptySet
<1>2. CASE S # {}
  <2>1. PICK x \in S : S = {x}
    BY <1>2
  <2> QED
    BY <2>1, FS_Singleton
<1> QED
  BY <1>1, <1>2

\* Invocations of a periodic task whose schedule was never deregistered do not
\* overlap, and the one under way is in TaskFactory: what the callback of
\* doTaskWorkflow relies on when it looks the task up before it adds it.
THEOREM PeriodicIsExclusive == Spec => []PeriodicExclusive
<1>1. Init => PeriodicInv
  BY EngineAssumption DEF Init, PeriodicInv, OwnerInv, InvocationInv, Busy, OnePlace, Registered
<1>2. EngineInv /\ PeriodicInv /\ [Next]_vars => PeriodicInv'
  BY PeriodicJob, PeriodicTimer, PeriodicWorker, PeriodicKept
     DEF Next, vars, objVars, cbVars, poolVars
<1>3. ASSUME EngineInv, PeriodicInv PROVE PeriodicExclusive
  <2> SUFFICES ASSUME NEW i \in PeriodicIds \ dereg
               PROVE  /\ Invocations(i) <= 1
                      /\ Invocations(i) = 1 => factory[i] # NoTask
    BY DEF PeriodicExclusive
  <2> DEFINE Q == {k \in DOMAIN queue : taskId[queue[k]] = i}
             W == {w \in Workers : wtask[w] # NoTask /\ taskId[wtask[w]] = i}
             E == {t \in Tasks : cb[t] = "enqueue" /\ taskId[t] = i}
             s == schedules[i]
  <2> USE <1>3, EngineAssumption DEF EngineInv, PeriodicInv
  <2>1. /\ \A k \in Q : queue[k] \in Tasks /\ queue[k] = s
        /\ \A w \in W : wtask[w] \in Tasks /\ wtask[w] = s
        /\ \A t \in E : t = s
    <3>1. \A k \in DOMAIN queue : queue[k] \in Tasks
      BY ElementOfSeq DEF TypeOK
    <3> QED
      BY <3>1 DEF OwnerInv, Busy, TypeOK, TaskOrNone
  <2>2. ASSUME Q # {} \/ W # {} \/ E # {}
        PROVE  s \in Tasks /\ taskId[s] = i /\ OnePlace(s) /\ Registered(s)
    BY <2>1, <2>2 DEF InvocationInv
  <2>3. /\ \A x, y \in Q : x = y
        /\ \A x, y \in W : x = y
        /\ \A x, y \in E : x = y
        /\ Q # {} => W = {} /\ E = {}
        /\ W # {} => E = {}
    BY <2>1, <2>2 DEF OnePlace
  <2>4. Q # {} \/ W # {} \/ E # {} => factory[i] # NoTask
    BY <2>1, <2>2 DEF Registered
  <2>5. Invocations(i) = Cardinality(Q) + Cardinality(W) + Cardinality(E)
    BY DEF Invocations
  <2> HIDE DEF Q, W, E
  <2>6. /\ Cardinality(Q) \in {0, 1} /\ (Q # {} <=> Cardinality(Q) = 1)
        /\ Cardinality(W) \in {0, 1} /\ (W # {} <=> Cardinality(W) = 1)
        /\ Cardinality(E) \in {0, 1} /\ (E # {} <=> Cardinality(E) = 1)
    BY <2>3, AtMostOne
  <2> QED
    BY <2>3, <2>4, <2>5, <2>6
<1> QED
  BY <1>1, <1>2, <1>3, EngineInductive, PTL DEF Spec

-----------------------------------------------------------------------------
(***************************************************************************)
(* TaskEngine implements OnceTask.  The invariant is strengthened by       *)
(* UnsentInv: nothing was reported of a task that is not registered yet.   *)
(***************************************************************************)
\* The object of a run job that is not registered was never reported, and no
\* dispatcher is about to cancel it.
UnsentInv ==
    \A d \in Dispatchers : jnew[d] # NoTask /\ pc[d] # "runTask" =>
        /\ sent[jnew[d]] = {}
        /\ \A e \in Dispatchers : jold[e] # jnew[d]

LifeInv == EngineInv /\ UnsentInv

-----------------------------------------------------------------------------
(* The part of the invariant about new objects. *)

\* Reports are sent for tasks that a worker has or a dispatcher cancels.
SentByOwner ==
    \A t \in Tasks :
        \/ sent'[t] = sent[t] \/ sent'[t] = {}
        \/ \E w \in Workers : wtask[w] = t
        \/ \E e \in Dispatchers : jold[e] = t

\* A dispatcher finds what it cancels in a registry.
OldFromRegistry ==
    \A e \in Dispatchers :
        \/ jold'[e] \in {jold[e], NoTask}
        \/ \E i \in Ids : jold'[e] = factory[i]
        \/ \E i \in PeriodicIds : jold'[e] = schedules[i]

\* UnsentInv holds on while reports and cancels keep to what others can know.
LEMMA UnsentKept ==
    ASSUME TypeOK, FreshInv, UnsentInv, SentByOwner, OldFromRegistry,
           \A d \in Dispatchers : jnew'[d] # NoTask /\ pc'[d] # "runTask"
             => jnew'[d] = jnew[d] /\ pc[d] # "runTask"
    PROVE  UnsentInv'
<1> SUFFICES ASSUME NEW d \in Dispatchers, jnew'[d] # NoTask, pc'[d] # "runTask"
             PROVE  sent'[jnew'[d]] = {} /\ \A e \in Dispatchers : jold'[e] # jnew'[d]
  BY DEF UnsentInv
<1>1. jnew'[d] = jnew[d] /\ pc[d] # "runTask" /\ jnew[d] # NoTask /\ jnew[d] \in Tasks
  BY DEF TypeOK, TaskOrNone
<1>2. sent[jnew[d]] = {} /\ \A e \in Dispatchers : jold[e] # jnew[d]
  BY <1>1 DEF UnsentInv
<1>3. /\ \A w \in Workers : wtask[w] # jnew[d]
      /\ \A i \in Ids : factory[i] # jnew[d]
      /\ \A i \in PeriodicIds : schedules[i] # jnew[d]
  BY <1>1 DEF FreshInv
<1>4. sent'[jnew[d]] = {}
  BY <1>1, <1>2, <1>3 DEF SentByOwner
<1>5. \A e \in Dispatchers : jold'[e] # jnew[d]
  BY <1>1, <1>2, <1>3 DEF OldFromRegistry
<1> QED BY <1>1, <1>4, <1>5

\* Cancel reports for the task it cancels only.
LEMMA CancelOwner ==
    ASSUME TypeOK, NEW d \in Dispatchers, NEW q, Cancel(jold[d], q)
    PROVE  SentByOwner
BY DEF Cancel, Report, TypeOK, SentByOwner

\* The objects that no dispatcher has registered stay unknown to the server.
LEMMA UnsentStep == EngineInv /\ UnsentInv /\ [Next]_vars => UnsentInv'
<1> SUFFICES ASSUME EngineInv, UnsentInv, [Next]_vars PROVE UnsentInv'
  OBVIOUS
<1>t. TypeOK /\ JobsTyped /\ FreshInv /\ JobInv
  BY DEF EngineInv, TypeOK, JobsTyped
<1>1. ASSUME NEW d \in Dispatchers, NEW i \in Ids, NEW v \in Versions,
             NEW t \in Tasks, FetchRun(d, i, v, t)
      PROVE  UnsentInv'
  <2>1. /\ jnew' = [jnew EXCEPT ![d] = t]
        /\ pc' = [pc EXCEPT ![d] = "getTask"]
        /\ sent' = [sent EXCEPT ![t] = {}]
        /\ jold' = jold
        /\ \A e \in Dispatchers : jnew[e] # t /\ jold[e] # t
    BY <1>1 DEF FetchRun, Goto, Free
  <2>2. t # NoTask
    BY EngineAssumption
  <2>3. ASSUME NEW e \in Dispatchers, jnew'[e] # NoTask, pc'[e] # "runTask"
        PROVE  sent'[jnew'[e]] = {} /\ \A f \in Dispatchers : jold'[f] # jnew'[e]
    <3>1. CASE e = d
      <4>1. jnew'[e] = t
        BY <2>1, <3>1, <1>t DEF TypeOK
      <4>2. sent'[t] = {}
        BY <2>1, <1>t DEF TypeOK
      <4> QED BY <2>1, <4>1, <4>2
    <3>2. CASE e # d
      <4>1. jnew'[e] = jnew[e] /\ pc'[e] = pc[e] /\ jnew[e] \in Tasks /\ jnew[e] # t
        BY <2>1, <2>3, <3>2, <1>t DEF TypeOK, TaskOrNone
      <4>2. sent'[jnew[e]] = sent[jnew[e]]
        BY <2>1, <4>1, <1>t DEF TypeOK
      <4> QED BY <2>1, <2>3, <4>1, <4>2 DEF UnsentInv
    <3> QED BY <3>1, <3>2
  <2> QED BY <2>3 DEF UnsentInv
<1>2. ASSUME NEW d \in Dispatchers, NEW i \in Ids, FetchStop(d, i)
      PROVE  UnsentInv'
  BY <1>2, <1>t DEF FetchStop, objVars, Goto, UnsentInv, TypeOK
<1>3. ASSUME NEW d \in Dispatchers, DispatchStep(d) PROVE UnsentInv'
  <2>1. \A e \in Dispatchers : jnew'[e] # NoTask /\ pc'[e] # "runTask"
          => jnew'[e] = jnew[e] /\ pc[e] # "runTask"
    <3>1. CASE DispatchAdd(d)
      BY <3>1, <1>t DEF DispatchAdd, Goto, Return, jobVars, TypeOK
    <3>2. CASE ~DispatchAdd(d)
      BY <1>3, <3>2, <1>t, DispatchShrinks DEF JobsShrink
    <3> QED BY <3>1, <3>2
  <2>2. SentByOwner
    <3>1. CASE CancelOnce(d) \/ CancelRunning(d)
      BY <3>1, <1>t, CancelOwner DEF CancelOnce, CancelRunning
    <3>2. CASE CancelGetRunning(d)
      BY <3>2, <1>t DEF CancelGetRunning, Report, TypeOK, SentByOwner
    <3>3. CASE ~CancelOnce(d) /\ ~CancelRunning(d) /\ ~CancelGetRunning(d)
      <4>1. sent' = sent
        BY <1>3, <3>3 DEF DispatchStep, LookupFactory, LookupSchedules,
           DispatchAdd, DispatchEnqueue, SchedulePeriodic, ScheduleFails,
           StopLookup, CancelPeriodic, objVars
      <4> QED BY <4>1 DEF SentByOwner
    <3> QED BY <3>1, <3>2, <3>3
  <2>3. OldFromRegistry
    <3> USE DEF OldFromRegistry
    <3>r. Return(d) => OldFromRegistry
      BY <1>t DEF Return, TypeOK
    <3>c. CancelDone(d) => OldFromRegistry
      BY <1>t DEF CancelDone, Return, TypeOK
    <3>1. CASE StopLookup(d)
      <4>1. jid[d] \in Ids
        BY <3>1, <1>t DEF StopLookup, JobInv
      <4> QED BY <3>1, <3>r, <4>1, <1>t DEF StopLookup, TypeOK
    <3>2. CASE CancelPeriodic(d)
      <4>1. jid[d] \in PeriodicIds
        BY <3>2, <1>t DEF CancelPeriodic, JobInv
      <4> QED BY <3>2, <3>r, <4>1, <1>t DEF CancelPeriodic, jobVars, TypeOK
    <3>3. CASE CancelGetRunning(d)
      <4>1. jid[d] \in Ids
        BY <3>3, <1>t DEF CancelGetRunning, JobInv
      <4> QED BY <3>3, <3>c, <4>1, <1>t DEF CancelGetRunning, TypeOK
    <3>4. CASE CancelRunning(d)
      BY <3>4, <3>c DEF CancelRunning
    <3>5. CASE CancelOnce(d) \/ DispatchEnqueue(d) \/ SchedulePeriodic(d)
                 \/ ScheduleFails(d)
      BY <3>5, <3>r DEF CancelOnce, DispatchEnqueue, SchedulePeriodic, ScheduleFails
    <3>6. CASE LookupFactory(d) \/ LookupSchedules(d) \/ DispatchAdd(d)
      BY <3>6, <3>r DEF LookupFactory, LookupSchedules, DispatchAdd, Existed, jobVars
    <3> QED BY <1>3, <3>1, <3>2, <3>3, <3>4, <3>5, <3>6 DEF DispatchStep
  <2> QED BY <2>1, <2>2, <2>3, <1>t, UnsentKept
<1>4. ASSUME NEW t \in Tasks, CallbackStep(t) \/ TimerStep(t) PROVE UnsentInv'
  BY <1>4 DEF CallbackStep, TimerStep, InvocationCheck, InvocationAdd,
     InvocationEnqueue, TimerFires, TimerNextRun, TimerQuits, objVars, jobVars,
     UnsentInv
<1>5. ASSUME NEW w \in Workers, WorkerStep(w) PROVE UnsentInv'
  <2>1. UNCHANGED <<pc, jnew, jold>>
    BY <1>5 DEF WorkerStep, WorkerTakes, RunRefused, RunStarts, CommandStarts,
       CommandFails, CommandExits, RunChecksCanceled, RunFinishes,
       WorkerRemoves, engineVars, jobVars
  <2>2. SentByOwner
    <3>1. CASE RunRefused(w) \/ CommandFails(w) \/ RunFinishes(w)
      BY <3>1, <1>t DEF RunRefused, CommandFails, RunFinishes, Report, TypeOK,
         SentByOwner
    <3>2. CASE WorkerRemoves(w)
      BY <3>2, <1>t DEF WorkerRemoves, TypeOK, SentByOwner
    <3>3. CASE WorkerTakes(w) \/ RunStarts(w) \/ CommandStarts(w)
                 \/ CommandExits(w) \/ RunChecksCanceled(w)
      BY <3>3 DEF WorkerTakes, RunStarts, CommandStarts, CommandExits,
         RunChecksCanceled, objVars, SentByOwner
    <3> QED BY <1>5, <3>1, <3>2, <3>3 DEF WorkerStep
  <2>3. OldFromRegistry
    BY <2>1 DEF OldFromRegistry
  <2> QED BY <2>1, <2>2, <2>3, <1>t, UnsentKept
<1>6. CASE UNCHANGED vars
  BY <1>6 DEF vars, objVars, jobVars, UnsentInv
<1> QED
  BY <1>1, <1>2, <1>3, <1>4, <1>5, <1>6 DEF Next, Job
-----------------------------------------------------------------------------
(* The stages of a life. *)

\* Nothing about the task of an id has moved.
Still(i) ==
    /\ factory'[i] = factory[i]
    /\ factory[i] # NoTask =>
         /\ sent'[factory[i]] = sent[factory[i]]
         /\ \A w \in Workers :
              /\ (wtask'[w] = factory[i]) = (wtask[w] = factory[i])
              /\ wtask[w] = factory[i] => (wpc'[w] = "remove") = (wpc[w] = "remove")

\* Then its life is as it was.
LEMMA StillLife ==
    ASSUME NEW i \in OnceIds, Still(i)
    PROVE  Life(i)' = Life(i) /\ Told(i)' = Told(i)
<1>1. CASE factory[i] = NoTask
  BY <1>1 DEF Life, Told, Still
<1>2. CASE factory[i] # NoTask
  BY <1>2 DEF Life, Told, Still
<1> QED BY <1>1, <1>2

\* A step that moves no task is none of OnceTask.
LEMMA NobodyMoves ==
    ASSUME \A i \in OnceIds : Still(i)
    PROVE  UNCHANGED Once!vars
BY StillLife DEF Once!vars

\* A step that moves one task is a step of OnceTask if the move is one.
LEMMA OneMoves ==
    ASSUME NEW i \in OnceIds, \A j \in OnceIds \ {i} : Still(j),
           \/ Life(i) = "absent" /\ Life(i)' = "waiting" /\ Told(i)' = Told(i)
           \/ Life(i) = "waiting" /\ Life(i)' = "running" /\ Told(i)' = Told(i)
           \/ /\ Life(i) = "running" /\ Life(i)' = "over"
              /\ \/ Told(i)' = Told(i) \cup {"ended"}
                 \/ "canceled" \in Told(i) /\ Told(i)' = Told(i)
           \/ /\ Life(i) # "absent" /\ Life(i)' = Life(i)
              /\ Told(i)' = Told(i) \cup {"canceled"}
           \/ /\ Life(i) = "over" /\ Life(i)' = "absent"
              /\ Told(i) # {} /\ Told(i)' = {}
    PROVE  Once!Next
<1>1. \A j \in OnceIds \ {i} : Life(j)' = Life(j) /\ Told(j)' = Told(j)
  BY StillLife
<1>2. ASSUME Told(i)' = Told(i)
      PROVE  [j \in OnceIds |-> Told(j)]' = [j \in OnceIds |-> Told(j)]
  BY <1>1, <1>2
<1>3. ASSUME Life(i)' = Life(i)
      PROVE  [j \in OnceIds |-> Life(j)]' = [j \in OnceIds |-> Life(j)]
  BY <1>1, <1>3
<1>4. [j \in OnceIds |-> Life(j)]'
        = [[j \in OnceIds |-> Life(j)] EXCEPT ![i] = Life(i)']
  BY <1>1
<1>5. [j \in OnceIds |-> Told(j)]'
        = [[j \in OnceIds |-> Told(j)] EXCEPT ![i] = Told(i)']
  BY <1>1
<1>6. [j \in OnceIds |-> Life(j)][i] = Life(i) /\ [j \in OnceIds |-> Told(j)][i] = Told(i)
  OBVIOUS
<1> USE DEF Once!Move, Once!Tell
<1>7. CASE Life(i) = "absent" /\ Life(i)' = "waiting" /\ Told(i)' = Told(i)
  <2>1. Once!Accept(i)
    BY <1>2, <1>4, <1>6, <1>7 DEF Once!Accept
  <2> QED BY <2>1 DEF Once!Next
<1>8. CASE Life(i) = "waiting" /\ Life(i)' = "running" /\ Told(i)' = Told(i)
  <2>1. Once!Start(i)
    BY <1>2, <1>4, <1>6, <1>8 DEF Once!Start
  <2> QED BY <2>1 DEF Once!Next
<1>9. CASE /\ Life(i) = "running" /\ Life(i)' = "over"
           /\ \/ Told(i)' = Told(i) \cup {"ended"}
              \/ "canceled" \in Told(i) /\ Told(i)' = Told(i)
  <2>1. Once!Finish(i)
    BY <1>2, <1>4, <1>5, <1>6, <1>9 DEF Once!Finish
  <2> QED BY <2>1 DEF Once!Next
<1>10. CASE /\ Life(i) # "absent" /\ Life(i)' = Life(i)
            /\ Told(i)' = Told(i) \cup {"canceled"}
  <2>1. Once!Cancel(i)
    BY <1>3, <1>5, <1>6, <1>10 DEF Once!Cancel
  <2> QED BY <2>1 DEF Once!Next
<1>11. CASE /\ Life(i) = "over" /\ Life(i)' = "absent"
            /\ Told(i) # {} /\ Told(i)' = {}
  <2>1. Once!Leave(i)
    BY <1>4, <1>5, <1>6, <1>11 DEF Once!Leave
  <2> QED BY <2>1 DEF Once!Next
<1> QED BY <1>7, <1>8, <1>9, <1>10, <1>11

-----------------------------------------------------------------------------
(* Which steps move a task. *)

\* An object that is registered under the id of a non-periodic task is
\* registered under no other, and an object with another id is not.
LEMMA OwnId ==
    ASSUME IdInv, NEW i \in OnceIds, NEW t \in Tasks, taskId[t] # i
    PROVE  factory[i] # t
BY EngineAssumption DEF IdInv, RegisteredIds, Ids

\* A step that touches neither factory nor workers, and reports nothing for the
\* registered tasks, moves nobody.
LEMMA QuietStep ==
    ASSUME UNCHANGED <<factory, wpc, wtask>>,
           \A i \in OnceIds : factory[i] # NoTask => sent'[factory[i]] = sent[factory[i]]
    PROVE  UNCHANGED Once!vars
<1>1. \A i \in OnceIds : Still(i)
  BY DEF Still
<1> QED BY <1>1, NobodyMoves

\* The steps of the dispatchers.
LEMMA DispatchLife ==
    ASSUME LifeInv, NEW d \in Dispatchers, Job(d)
    PROVE  Once!Next \/ UNCHANGED Once!vars
<1> USE DEF LifeInv, EngineInv
<1>t. TypeOK /\ JobInv /\ IdInv /\ FreshInv
  OBVIOUS
<1>o. OnceIds \subseteq Ids /\ \A i \in OnceIds : factory[i] # NoTask => factory[i] \in Tasks
  BY <1>t DEF Ids, TypeOK, TaskOrNone
<1>1. ASSUME NEW i \in Ids, NEW v \in Versions, NEW t \in Tasks, FetchRun(d, i, v, t)
      PROVE  UNCHANGED Once!vars
  <2>1. UNCHANGED <<factory, wpc, wtask>> /\ sent' = [sent EXCEPT ![t] = {}]
    BY <1>1 DEF FetchRun, poolVars
  <2>2. \A j \in Ids : factory[j] # t
    BY <1>1 DEF FetchRun, Free
  <2>3. \A j \in OnceIds : factory[j] # NoTask => sent'[factory[j]] = sent[factory[j]]
    BY <2>1, <2>2, <1>o, <1>t DEF TypeOK
  <2> QED BY <2>1, <2>3, QuietStep
<1>2. ASSUME NEW i \in Ids, FetchStop(d, i) PROVE UNCHANGED Once!vars
  BY <1>2, QuietStep DEF FetchStop, objVars, poolVars
<1>3. CASE DispatchAdd(d)
  <2>1. /\ jid[d] \in OnceIds /\ jnew[d] \in Tasks /\ jnew[d] # NoTask
        /\ pc[d] # "runTask"
    BY <1>3, <1>t, EngineAssumption DEF DispatchAdd, JobInv
  <2>2. UNCHANGED <<sent, wpc, wtask>>
    BY <1>3 DEF DispatchAdd, objVars, poolVars
  <2>3. CASE factory[jid[d]] # NoTask
    <3>1. factory' = factory
      BY <1>3, <2>1, <2>3, <1>t DEF DispatchAdd, AddTask, TypeOK
    <3> QED BY <2>2, <3>1, QuietStep
  <2>4. ASSUME NEW i \in OnceIds, i = jid[d], factory[i] = NoTask PROVE Once!Next
    <3>1. factory' = [factory EXCEPT ![i] = jnew[d]]
      BY <1>3, <2>4 DEF DispatchAdd, AddTask
    <3>2. \A j \in OnceIds \ {i} : Still(j)
      BY <2>2, <3>1, <1>t, <1>o DEF Still, TypeOK
    <3>3. factory'[i] = jnew[d]
      BY <3>1, <2>1, <1>o, <1>t DEF TypeOK
    <3>4. \A w \in Workers : wtask'[w] # jnew[d]
      BY <2>1, <2>2, <1>t DEF FreshInv
    <3>5. Life(i) = "absent" /\ Told(i) = {}
      BY <2>4 DEF Life, Told
    <3>6. Life(i)' = "waiting"
      BY <3>3, <3>4, <2>1 DEF Life
    <3>7. Told(i)' = {}
      BY <3>3, <2>1, <2>2 DEF Told, UnsentInv
    <3> QED BY <3>2, <3>5, <3>6, <3>7, OneMoves
  <2> QED BY <2>1, <2>3, <2>4
<1>4. CASE CancelOnce(d)
  <2>1. UNCHANGED <<factory, wpc, wtask>> /\ Cancel(jold[d], FALSE)
    BY <1>4 DEF CancelOnce, poolVars
  <2>2. jold[d] \in Tasks /\ jold[d] # NoTask
    BY <1>4, <1>t, EngineAssumption DEF CancelOnce, JobInv
  <2>3. CASE canceled[jold[d]]
    <3>1. sent' = sent
      BY <2>1, <2>3 DEF Cancel
    <3> QED BY <2>1, <3>1, QuietStep
  <2>4. CASE ~canceled[jold[d]]
    <3>1. sent' = [sent EXCEPT ![jold[d]] = @ \cup {"canceled"}]
      BY <2>1, <2>4 DEF Cancel, Report
    <3>2. ASSUME NEW i \in OnceIds, factory[i] # jold[d] PROVE Still(i)
      BY <2>1, <3>1, <3>2, <1>o, <1>t DEF Still, TypeOK
    <3>3. ASSUME NEW i \in OnceIds, factory[i] = jold[d] PROVE Once!Next
      <4>1. \A j \in OnceIds \ {i} : Still(j)
        <5>1. \A j \in OnceIds \ {i} : factory[j] # jold[d]
          BY <3>3, <2>2, <1>t, <1>o DEF IdInv, RegisteredIds
        <5> QED BY <5>1, <3>2
      <4>2. Life(i) # "absent" /\ Life(i)' = Life(i)
        BY <2>1, <2>2, <3>3 DEF Life
      <4>3. sent'[jold[d]] = sent[jold[d]] \cup {"canceled"}
        BY <3>1, <2>2, <1>t DEF TypeOK
      <4>4. Told(i)' = Told(i) \cup {"canceled"}
        BY <2>1, <2>2, <3>3, <4>3 DEF Told
      <4> QED BY <4>1, <4>2, <4>4, OneMoves
    <3> QED BY <3>2, <3>3, NobodyMoves
  <2> QED BY <2>3, <2>4
<1>5. CASE CancelGetRunning(d) \/ CancelRunning(d)
  <2>1. UNCHANGED <<factory, wpc, wtask>>
    BY <1>5 DEF CancelGetRunning, CancelRunning, poolVars
  <2>2. jold[d] \in Tasks /\ taskId[jold[d]] \in PeriodicIds
    BY <1>5, <1>t, EngineAssumption
       DEF CancelGetRunning, CancelRunning, JobInv, IdInv, LocalIds
  <2>3. \A i \in OnceIds : factory[i] # jold[d]
    BY <2>2, <1>t, EngineAssumption, OwnId
  <2>4. \A t \in Tasks : t # jold[d] => sent'[t] = sent[t]
    BY <1>5, <2>2, <1>t
       DEF CancelGetRunning, CancelRunning, Cancel, Report, TypeOK
  <2> QED BY <2>1, <2>3, <2>4, <1>o, QuietStep
<1>6. CASE LookupFactory(d) \/ LookupSchedules(d) \/ DispatchEnqueue(d)
             \/ SchedulePeriodic(d) \/ ScheduleFails(d) \/ StopLookup(d)
             \/ CancelPeriodic(d)
  <2>1. UNCHANGED <<factory, wpc, wtask, sent>>
    BY <1>6 DEF LookupFactory, LookupSchedules, DispatchEnqueue, SchedulePeriodic,
       ScheduleFails, StopLookup, CancelPeriodic, objVars, poolVars
  <2> QED BY <2>1, QuietStep
<1> QED
  BY <1>1, <1>2, <1>3, <1>4, <1>5, <1>6 DEF Job, DispatchStep

\* The steps of the timers and their callbacks.
LEMMA TimerLife ==
    ASSUME LifeInv, NEW t \in Tasks, CallbackStep(t) \/ TimerStep(t)
    PROVE  UNCHANGED Once!vars
<1> USE DEF LifeInv, EngineInv
<1>1. UNCHANGED <<sent, wpc, wtask>>
  BY DEF CallbackStep, TimerStep, InvocationCheck, InvocationAdd,
     InvocationEnqueue, TimerFires, TimerNextRun, TimerQuits, objVars, poolVars
<1>2. \A i \in OnceIds : factory'[i] = factory[i]
  <2>1. CASE InvocationAdd(t)
    <3>1. taskId[t] \in PeriodicIds
      BY <2>1 DEF InvocationAdd, IdInv, TimerIds
    <3> QED BY <2>1, <3>1, EngineAssumption DEF InvocationAdd, AddTask, TypeOK, Ids
  <2>2. CASE ~InvocationAdd(t)
    BY <2>2 DEF CallbackStep, TimerStep, InvocationCheck, InvocationEnqueue,
       TimerFires, TimerNextRun, TimerQuits
  <2> QED BY <2>1, <2>2
<1>3. \A i \in OnceIds : Still(i)
  BY <1>1, <1>2 DEF Still
<1> QED BY <1>3, NobodyMoves

\* A worker that reports for its task, or moves, touches one id at most.
LEMMA WorkerLife ==
    ASSUME LifeInv, NEW w \in Workers, WorkerStep(w)
    PROVE  Once!Next \/ UNCHANGED Once!vars
<1> USE DEF LifeInv, EngineInv
<1>t. TypeOK /\ IdInv /\ WorkerInv /\ PlaceInv
  OBVIOUS
<1>o. OnceIds \subseteq Ids /\ \A i \in OnceIds : factory[i] # NoTask => factory[i] \in Tasks
  BY <1>t DEF Ids, TypeOK, TaskOrNone
\* An id whose task is not the one in hand stays as it is.
<1>s. ASSUME NEW t \in Tasks, NEW i \in OnceIds, factory[i] # t, factory'[i] = factory[i],
             \A o \in Tasks : o # t => sent'[o] = sent[o],
             wtask[w] \in {t, NoTask}, wtask'[w] \in {t, NoTask},
             \A v \in Workers : v # w => wtask'[v] = wtask[v] /\ wpc'[v] = wpc[v]
      PROVE  Still(i)
  BY <1>s, <1>o, EngineAssumption DEF Still
<1>1. CASE WorkerTakes(w)
  <2>1. queue \in Seq(Tasks) /\ queue # <<>> /\ wpc[w] = "idle" /\ wtask[w] = NoTask
    BY <1>1, <1>t DEF WorkerTakes, TypeOK, WorkerInv
  <2>2. 1 \in DOMAIN queue /\ Head(queue) = queue[1] /\ Head(queue) \in Tasks
    BY <2>1, TailPlaces
  <2> DEFINE t == Head(queue)
  <2>3. /\ wtask' = [wtask EXCEPT ![w] = t] /\ wpc' = [wpc EXCEPT ![w] = "run"]
        /\ UNCHANGED <<factory, sent>>
    BY <1>1 DEF WorkerTakes, WorkerGoto, objVars, engineVars
  <2> HIDE DEF t
  <2>5. wtask'[w] = t /\ wpc'[w] = "run"
        /\ \A v \in Workers : v # w => wtask'[v] = wtask[v] /\ wpc'[v] = wpc[v]
    BY <2>3, <1>t DEF TypeOK
  <2>6. ASSUME NEW i \in OnceIds, factory[i] # t PROVE Still(i)
    BY <2>1, <2>2, <2>3, <2>5, <2>6, <1>s DEF t
  <2>7. ASSUME NEW i \in OnceIds, factory[i] = t PROVE Once!Next
    <3>1. t \in Tasks /\ t # NoTask /\ taskId[t] = i
      BY <2>2, <2>7, <1>t, <1>o, EngineAssumption DEF t, IdInv, RegisteredIds
    <3>2. \A v \in Workers : wtask[v] # t
      <4>1. \A v \in Workers : wtask[v] = t => wtask[v] # queue[1]
        BY <2>2, <3>1, <1>t DEF PlaceInv
      <4> QED BY <4>1, <2>2 DEF t
    <3>3. Life(i) = "waiting"
      BY <2>7, <3>1, <3>2 DEF Life
    <3>4. Life(i)' = "running"
      BY <2>3, <2>5, <2>7, <3>1, <3>2 DEF Life
    <3>5. Told(i)' = Told(i)
      BY <2>3 DEF Told
    <3>6. \A j \in OnceIds \ {i} : Still(j)
      <4>1. \A j \in OnceIds \ {i} : factory[j] # t
        BY <3>1, <1>t, OwnId
      <4> QED BY <4>1, <2>6
    <3> QED BY <3>3, <3>4, <3>5, <3>6, OneMoves
  <2> QED BY <2>6, <2>7, NobodyMoves
<1>2. CASE RunRefused(w) \/ CommandFails(w) \/ RunFinishes(w) \/ RunChecksCanceled(w)
              \/ WorkerRemoves(w)
  <2>1. wpc[w] # "idle"
    BY <1>2 DEF RunRefused, CommandFails, RunFinishes, RunChecksCanceled, WorkerRemoves
  <2>2. PICK t \in Tasks : wtask[w] = t
    BY <2>1, <1>t DEF TypeOK, WorkerInv, TaskOrNone
  <2>3. t # NoTask
    BY EngineAssumption
  <2>4. \A v \in Workers : v # w => wtask'[v] = wtask[v] /\ wpc'[v] = wpc[v]
    BY <1>2, <1>t DEF RunRefused, CommandFails, RunFinishes, RunChecksCanceled,
       WorkerRemoves, WorkerGoto, TypeOK
  <2>5. wtask'[w] \in {t, NoTask} /\ \A o \in Tasks : o # t => sent'[o] = sent[o]
    BY <1>2, <2>2, <1>t DEF RunRefused, CommandFails, RunFinishes,
       RunChecksCanceled, WorkerRemoves, Report, objVars, TypeOK
  <2>6. \A j \in OnceIds : j # taskId[t] => factory'[j] = factory[j]
    BY <1>2, <2>2, <1>o, <1>t DEF RunRefused, CommandFails, RunFinishes,
       RunChecksCanceled, WorkerRemoves, RemoveTaskByName, engineVars, TypeOK
  <2>7. \A j \in OnceIds : j # taskId[t] => Still(j)
    BY <2>2, <2>4, <2>5, <2>6, <1>t, OwnId, <1>s
  <2>8. CASE taskId[t] \notin OnceIds
    BY <2>7, <2>8, NobodyMoves
  <2>9. ASSUME NEW i \in OnceIds, taskId[t] = i PROVE Once!Next \/ UNCHANGED Once!vars
    <3>1. factory[i] = t
      BY <2>2, <2>9 DEF OnceRegistered, InHand
    <3>2. \A v \in Workers : wtask[v] = t => v = w
      BY <2>2, <2>3, <2>9, <1>t DEF PlaceInv
    <3>3. Life(i) = IF wpc[w] = "remove" THEN "over" ELSE "running"
      BY <3>1, <3>2, <2>2, <2>3 DEF Life
    <3>4. Told(i) = sent[t]
      BY <3>1, <2>3 DEF Told
    <3>5. CASE WorkerRemoves(w)
      <4>1. wpc[w] = "remove" /\ factory'[i] = NoTask
        BY <3>5, <2>2, <2>9, <1>o, <1>t DEF WorkerRemoves, RemoveTaskByName, TypeOK
      <4>2. sent[t] # {}
        BY <4>1, <2>2, <2>9 DEF OnceReported
      <4>3. Life(i)' = "absent" /\ Told(i)' = {}
        BY <4>1 DEF Life, Told
      <4> QED BY <4>1, <4>2, <4>3, <3>3, <3>4, <2>7, <2>9, OneMoves
    <3>6. CASE RunRefused(w) \/ CommandFails(w) \/ RunFinishes(w)
      <4>1. /\ wpc[w] # "remove" /\ wpc'[w] = "remove"
            /\ UNCHANGED <<factory, wtask>>
            /\ sent'[t] = sent[t] \cup {"ended"}
        BY <3>6, <2>2, <1>t DEF RunRefused, CommandFails, RunFinishes, WorkerGoto,
           Report, engineVars, TypeOK
      <4>2. Life(i)' = "over"
        BY <4>1, <3>1, <2>2, <2>3 DEF Life
      <4>3. Told(i)' = sent[t] \cup {"ended"}
        BY <4>1, <3>1, <2>3 DEF Told
      <4> QED BY <4>1, <4>2, <4>3, <3>3, <3>4, <2>7, <2>9, OneMoves
    <3>7. CASE RunChecksCanceled(w)
      <4>1. /\ wpc[w] = "isCanceled" /\ UNCHANGED <<factory, wtask, sent>>
            /\ wpc'[w] = IF canceled[t] THEN "remove" ELSE "finish"
        BY <3>7, <2>2, <1>t DEF RunChecksCanceled, WorkerGoto, objVars, engineVars, TypeOK
      <4>2. CASE canceled[t]
        <5>1. "canceled" \in sent[t]
          BY <4>2, <2>9 DEF AckInv
        <5>2. Life(i)' = "over"
          BY <4>1, <4>2, <3>1, <2>2, <2>3 DEF Life
        <5>3. Told(i)' = Told(i)
          BY <4>1 DEF Told
        <5> QED BY <4>1, <5>1, <5>2, <5>3, <3>3, <3>4, <2>7, <2>9, OneMoves
      <4>3. CASE ~canceled[t]
        <5>1. Still(i)
          BY <4>1, <4>3, <3>1, <3>2 DEF Still
        <5> QED BY <5>1, <2>7, <2>9, NobodyMoves
      <4> QED BY <4>2, <4>3
    <3> QED BY <1>2, <3>5, <3>6, <3>7
  <2> QED BY <2>8, <2>9
<1>3. CASE RunStarts(w) \/ CommandStarts(w) \/ CommandExits(w)
  <2>1. /\ UNCHANGED <<factory, wtask, sent>>
        /\ \A v \in Workers : (wpc'[v] = "remove") = (wpc[v] = "remove")
    BY <1>3, <1>t DEF RunStarts, CommandStarts, CommandExits, WorkerGoto, objVars,
       engineVars, TypeOK
  <2>2. \A i \in OnceIds : Still(i)
    BY <2>1 DEF Still
  <2> QED BY <2>2, NobodyMoves
<1> QED
  BY <1>1, <1>2, <1>3 DEF WorkerStep

-----------------------------------------------------------------------------
\* The task engine keeps its promise of a non-periodic task: whatever duplicates
\* and stops are fetched and however the pool is shared, the id is accepted only
\* when it is free, executed once, and free again only after the server was told.
THEOREM EngineImplementsOnceTask == Spec => ImplementsOnceTask
<1>1. Init => Once!Init
  BY DEF Init, Once!Init, Life, Told, Ids
<1>2. Init => LifeInv
  <2>1. Init => UnsentInv
    BY DEF Init, UnsentInv
  <2> QED BY <2>1, EngineInit DEF LifeInv
<1>3. LifeInv /\ [Next]_vars => LifeInv'
  BY EngineStep, UnsentStep DEF LifeInv
<1>4. LifeInv /\ [Next]_vars => [Once!Next]_(Once!vars)
  <2>1. ASSUME UNCHANGED vars PROVE UNCHANGED Once!vars
    BY <2>1, QuietStep DEF vars, objVars, poolVars
  <2> QED BY <2>1, DispatchLife, TimerLife, WorkerLife DEF Next
<1> QED
  BY <1>1, <1>2, <1>3, <1>4, PTL DEF Spec, ImplementsOnceTask, Once!Spec
=============================================================================
