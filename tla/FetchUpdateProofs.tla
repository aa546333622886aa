-------------------------- MODULE FetchUpdateProofs --------------------------
(***************************************************************************)
(* Proofs about FetchUpdate, for any number of kicks and tasks.            *)
(***************************************************************************)
EXTENDS FetchUpdate, FiniteSetTheorems, TLAPS

\* The fetches FetchingTaskCounter stands for.
Counted == {f \in Fetchers : fpc[f] \in {"reason", "fetch"}}

\* FetchingTaskCounter is the number of fetches between its two Adds.
CounterInv == counter = Cardinality(Counted)

\* FetchingTaskLock is held exactly where the control states say so.
LockInv ==
    /\ \A f \in Fetchers : fpc[f] = "unlock" <=> lock = f
    /\ upc \in {"sleep", "recheck", "recheckTasks", "script"} <=> lock = Updater

\* What each stage of the double check has established.  It stays true because
\* nobody passes the lock, hence enters the gap, while the updater holds it.
StageInv ==
    /\ upc \in {"recheck", "recheckTasks", "script"}
         => \A f \in Fetchers : fpc[f] # "gap"
    /\ upc \in {"recheckTasks", "script"} => Counted = {}
    /\ upc = "script" => tasks = {}

\* The inductive invariant behind ScriptRunsAlone.
AloneInv == TypeOK /\ CounterInv /\ LockInv /\ StageInv

-----------------------------------------------------------------------------
\* A set of fetches is finite, so that counting it makes sense.
LEMMA CountedFinite == IsFiniteSet(Counted) /\ Cardinality(Counted) \in Nat
<1>1. IsFiniteSet(Fetchers)
  BY FetchAssumption, FS_AddElement DEF Fetchers
<1>2. IsFiniteSet(Counted)
  BY <1>1, FS_Subset DEF Counted
<1> QED BY <1>2, FS_CardinalityType

\* Every variable of FetchUpdate keeps its type.  The only case with anything
\* to it is the decrement of FetchingTaskCounter, which needs CounterInv: the
\* counter never goes below zero because the fetch that leaves was counted.
LEMMA TypeStep == TypeOK /\ CounterInv /\ [Next]_vars => TypeOK'
<1> SUFFICES ASSUME TypeOK, CounterInv, [Next]_vars PROVE TypeOK'
  OBVIOUS
<1> USE DEF TypeOK, FetchStates, UpdateStates, Goto, fetchVars
<1>m. Main \in Fetchers /\ Kicks \subseteq Fetchers
  BY DEF Fetchers
<1>1. CASE MainStep
  BY <1>1, <1>m DEF MainStep, EnableFetchingTask, StartupFetch
<1>2. ASSUME NEW f \in Kicks, NEW all \in BOOLEAN, OnRecvMsg(f, all)
      PROVE TypeOK'
  BY <1>2, <1>m DEF OnRecvMsg
<1>3. ASSUME NEW f \in Fetchers, FetchStep(f) PROVE TypeOK'
  <2>1. CASE FetchEntry(f)
    BY <2>1 DEF FetchEntry
  <2>2. CASE FetchLock(f)
    BY <2>2 DEF FetchLock
  <2>3. CASE FetchTimeout(f)
    BY <2>3 DEF FetchTimeout
  <2>4. CASE FetchUnlock(f)
    BY <2>4 DEF FetchUnlock
  <2>5. CASE FetchCount(f)
    BY <2>5 DEF FetchCount
  <2>6. CASE FetchReason(f)
    <3>1. /\ startupFetched' \in BOOLEAN
          /\ startups' = startups \/ startups' = startups + 1
      BY <2>6, Zenon DEF FetchReason
    <3> QED BY <2>6, <3>1 DEF FetchReason
  <2>7. CASE FetchReturn(f)
    <3>1. f \in Counted
      BY <2>7 DEF FetchReturn, Counted
    <3>2. Cardinality(Counted) # 0
      BY <3>1, CountedFinite, FS_EmptySet
    <3>3. counter - 1 \in Nat
      BY <3>2, CountedFinite DEF CounterInv
    <3> QED BY <2>7, <3>3 DEF FetchReturn
  <2> QED
    BY <1>3, <2>1, <2>2, <2>3, <2>4, <2>5, <2>6, <2>7 DEF FetchStep
<1>4. ASSUME NEW f \in Fetchers, NEW t \in TaskIds, FetchDispatch(f, t)
      PROVE TypeOK'
  BY <1>4 DEF FetchDispatch
<1>5. ASSUME NEW t \in TaskIds, TaskEnds(t) PROVE TypeOK'
  BY <1>5 DEF TaskEnds
<1>6. CASE UpdateStart \/ UpdateStep \/ ScriptReturns
  BY <1>6 DEF UpdateStart, UpdateStep, ScriptReturns, UpdateCheck,
     UpdateCheckTasks, UpdateTryLock, UpdateWake, UpdateRecheck,
     UpdateRecheckTasks, UpdateAgain
<1>7. CASE UNCHANGED vars
  BY <1>7 DEF vars
<1> QED
  BY <1>1, <1>2, <1>3, <1>4, <1>5, <1>6, <1>7 DEF Next

\* The counter follows the set it counts.
LEMMA CounterStep == TypeOK /\ CounterInv /\ [Next]_vars => CounterInv'
<1> SUFFICES ASSUME TypeOK, CounterInv, [Next]_vars PROVE CounterInv'
  OBVIOUS
<1> USE DEF TypeOK, Goto, fetchVars
<1>m. Main \in Fetchers /\ Kicks \subseteq Fetchers
  BY DEF Fetchers
\* A step that counts nobody in and nobody out.
<1>u. ASSUME UNCHANGED counter,
             \A f \in Fetchers : fpc'[f] \in {"reason", "fetch"}
                                   <=> fpc[f] \in {"reason", "fetch"}
      PROVE  CounterInv'
  <2>1. Counted' = Counted
    BY <1>u DEF Counted
  <2> QED BY <2>1, <1>u DEF CounterInv
<1>1. CASE MainStep
  BY <1>1, <1>m, <1>u DEF MainStep, EnableFetchingTask, StartupFetch
<1>2. ASSUME NEW f \in Kicks, NEW all \in BOOLEAN, OnRecvMsg(f, all)
      PROVE CounterInv'
  BY <1>2, <1>m, <1>u DEF OnRecvMsg
<1>3. ASSUME NEW f \in Fetchers, FetchStep(f) PROVE CounterInv'
  <2>1. CASE FetchEntry(f)
    BY <2>1, <1>u DEF FetchEntry
  <2>2. CASE FetchLock(f)
    BY <2>2, <1>u DEF FetchLock
  <2>3. CASE FetchTimeout(f)
    BY <2>3, <1>u DEF FetchTimeout
  <2>4. CASE FetchUnlock(f)
    BY <2>4, <1>u DEF FetchUnlock
  <2>5. CASE FetchCount(f)
    <3>1. Counted' = Counted \cup {f} /\ f \notin Counted
      BY <2>5 DEF FetchCount, Counted
    <3>2. Cardinality(Counted') = Cardinality(Counted) + 1
      BY <3>1, CountedFinite, FS_AddElement
    <3> QED BY <2>5, <3>2 DEF FetchCount, CounterInv
  <2>6. CASE FetchReason(f)
    BY <2>6, <1>u DEF FetchReason
  <2>7. CASE FetchReturn(f)
    <3>1. Counted' = Counted \ {f} /\ f \in Counted
      BY <2>7 DEF FetchReturn, Counted
    <3>2. Cardinality(Counted') = Cardinality(Counted) - 1
      BY <3>1, CountedFinite, FS_RemoveElement
    <3> QED BY <2>7, <3>2 DEF FetchReturn, CounterInv
  <2> QED
    BY <1>3, <2>1, <2>2, <2>3, <2>4, <2>5, <2>6, <2>7 DEF FetchStep
<1>4. ASSUME NEW f \in Fetchers, NEW t \in TaskIds, FetchDispatch(f, t)
      PROVE CounterInv'
  BY <1>4, <1>u DEF FetchDispatch
<1>5. ASSUME NEW t \in TaskIds, TaskEnds(t) PROVE CounterInv'
  BY <1>5, <1>u DEF TaskEnds
<1>6. CASE UpdateStart \/ UpdateStep \/ ScriptReturns
  BY <1>6, <1>u DEF UpdateStart, UpdateStep, ScriptReturns, UpdateCheck,
     UpdateCheckTasks, UpdateTryLock, UpdateWake, UpdateRecheck,
     UpdateRecheckTasks, UpdateAgain
<1>7. CASE UNCHANGED vars
  BY <1>7, <1>u DEF vars
<1> QED
  BY <1>1, <1>2, <1>3, <1>4, <1>5, <1>6, <1>7 DEF Next

\* The control states keep telling who holds FetchingTaskLock.
LEMMA LockStep == TypeOK /\ LockInv /\ [Next]_vars => LockInv'
<1> SUFFICES ASSUME TypeOK, LockInv, [Next]_vars PROVE LockInv'
  OBVIOUS
<1> USE FetchAssumption DEF TypeOK, LockInv, Goto, fetchVars
<1>m. Main \in Fetchers /\ Kicks \subseteq Fetchers
  BY DEF Fetchers
<1>1. CASE MainStep
  BY <1>1, <1>m DEF MainStep, EnableFetchingTask, StartupFetch
<1>2. ASSUME NEW f \in Kicks, NEW all \in BOOLEAN, OnRecvMsg(f, all)
      PROVE LockInv'
  BY <1>2, <1>m DEF OnRecvMsg
<1>3. ASSUME NEW f \in Fetchers, FetchStep(f) PROVE LockInv'
  <2>1. CASE FetchEntry(f)
    BY <2>1 DEF FetchEntry
  <2>2. CASE FetchLock(f)
    BY <2>2 DEF FetchLock
  <2>3. CASE FetchTimeout(f)
    BY <2>3 DEF FetchTimeout
  <2>4. CASE FetchUnlock(f)
    BY <2>4 DEF FetchUnlock
  <2>5. CASE FetchCount(f)
    BY <2>5 DEF FetchCount
  <2>6. CASE FetchReason(f)
    BY <2>6 DEF FetchReason
  <2>7. CASE FetchReturn(f)
    BY <2>7 DEF FetchReturn
  <2> QED
    BY <1>3, <2>1, <2>2, <2>3, <2>4, <2>5, <2>6, <2>7 DEF FetchStep
<1>4. ASSUME NEW f \in Fetchers, NEW t \in TaskIds, FetchDispatch(f, t)
      PROVE LockInv'
  BY <1>4 DEF FetchDispatch
<1>5. ASSUME NEW t \in TaskIds, TaskEnds(t) PROVE LockInv'
  BY <1>5 DEF TaskEnds
<1>6. CASE UpdateStart \/ UpdateStep \/ ScriptReturns
  BY <1>6 DEF UpdateStart, UpdateStep, ScriptReturns, UpdateCheck,
     UpdateCheckTasks, UpdateTryLock, UpdateWake, UpdateRecheck,
     UpdateRecheckTasks, UpdateAgain
<1>7. CASE UNCHANGED vars
  BY <1>7 DEF vars
<1> QED
  BY <1>1, <1>2, <1>3, <1>4, <1>5, <1>6, <1>7 DEF Next

\* If the gap in Fetch is shorter than the updater's sleep, what a stage of the
\* double check found stays true during the later stages.
LEMMA StageStep ==
  ASSUME ~SlowGap
  PROVE  AloneInv /\ [Next]_vars => StageInv'
<1> SUFFICES ASSUME AloneInv, [Next]_vars PROVE StageInv'
  OBVIOUS
<1> USE FetchAssumption DEF AloneInv, TypeOK, LockInv, StageInv, Counted, Goto,
        fetchVars
<1>m. Main \in Fetchers /\ Kicks \subseteq Fetchers
  BY DEF Fetchers
<1>1. CASE MainStep
  BY <1>1, <1>m DEF MainStep, EnableFetchingTask, StartupFetch
<1>2. ASSUME NEW f \in Kicks, NEW all \in BOOLEAN, OnRecvMsg(f, all)
      PROVE StageInv'
  BY <1>2, <1>m DEF OnRecvMsg
<1>3. ASSUME NEW f \in Fetchers, FetchStep(f) PROVE StageInv'
  <2>1. CASE FetchEntry(f)
    BY <2>1 DEF FetchEntry
  <2>2. CASE FetchLock(f)
    BY <2>2 DEF FetchLock
  <2>3. CASE FetchTimeout(f)
    BY <2>3 DEF FetchTimeout
  <2>4. CASE FetchUnlock(f)
    BY <2>4 DEF FetchUnlock
  <2>5. CASE FetchCount(f)
    BY <2>5 DEF FetchCount
  <2>6. CASE FetchReason(f)
    BY <2>6 DEF FetchReason
  <2>7. CASE FetchReturn(f)
    BY <2>7 DEF FetchReturn
  <2> QED
    BY <1>3, <2>1, <2>2, <2>3, <2>4, <2>5, <2>6, <2>7 DEF FetchStep
<1>4. ASSUME NEW f \in Fetchers, NEW t \in TaskIds, FetchDispatch(f, t)
      PROVE StageInv'
  BY <1>4 DEF FetchDispatch
<1>5. ASSUME NEW t \in TaskIds, TaskEnds(t) PROVE StageInv'
  BY <1>5 DEF TaskEnds
<1>6. CASE UpdateStart \/ ScriptReturns
  BY <1>6 DEF UpdateStart, ScriptReturns
<1>7. CASE UpdateStep
  <2>1. CASE UpdateCheck \/ UpdateCheckTasks \/ UpdateTryLock \/ UpdateWake
    BY <2>1 DEF UpdateCheck, UpdateCheckTasks, UpdateTryLock, UpdateWake
  <2>2. CASE UpdateRecheck
    <3>1. CASE counter > 0
      BY <2>2, <3>1 DEF UpdateRecheck, UpdateAgain
    <3>2. CASE ~(counter > 0)
      <4>1. Cardinality(Counted) = 0
        BY <3>2 DEF CounterInv
      <4>2. Counted = {}
        BY <4>1, CountedFinite, FS_EmptySet
      <4> QED BY <2>2, <3>2, <4>2 DEF UpdateRecheck
    <3> QED BY <3>1, <3>2
  <2>3. CASE UpdateRecheckTasks
    BY <2>3 DEF UpdateRecheckTasks, UpdateAgain
  <2> QED BY <1>7, <2>1, <2>2, <2>3 DEF UpdateStep
<1>8. CASE UNCHANGED vars
  BY <1>8 DEF vars
<1> QED
  BY <1>1, <1>2, <1>3, <1>4, <1>5, <1>6, <1>7, <1>8 DEF Next

\* The initial state satisfies the invariant.
LEMMA AloneInit == Init => AloneInv
<1> SUFFICES ASSUME Init PROVE AloneInv
  OBVIOUS
<1> USE FetchAssumption DEF Init
<1>1. TypeOK
  BY DEF TypeOK, FetchStates, UpdateStates, Fetchers
<1>2. Counted = {}
  BY DEF Counted
<1>3. CounterInv
  BY <1>2, FS_EmptySet DEF CounterInv
<1>4. LockInv
  BY DEF LockInv
<1>5. StageInv
  BY DEF StageInv
<1> QED BY <1>1, <1>3, <1>4, <1>5 DEF AloneInv

\* Every step of the code is a step of the gate or leaves it alone.
LEMMA GateStep == AloneInv /\ [Next]_vars => [Gate!Next]_(Gate!vars)
<1> SUFFICES ASSUME AloneInv, [Next]_vars PROVE [Gate!Next]_(Gate!vars)
  OBVIOUS
<1> USE DEF Goto, fetchVars
<1>t. TypeOK /\ LockInv /\ StageInv
  BY DEF AloneInv
<1>m. Main \in Fetchers /\ Kicks \subseteq Fetchers
  BY DEF Fetchers
\* Most steps move nobody in or out.
<1>u. ASSUME UNCHANGED tasks, (upc' = "script") = (upc = "script"),
             \A f \in Fetchers : fpc'[f] \in {"unlock", "gap", "reason", "fetch"}
                           <=> fpc[f] \in {"unlock", "gap", "reason", "fetch"}
      PROVE  UNCHANGED Gate!vars
  <2>1. Active' = Active
    BY <1>u DEF Active
  <2> QED BY <2>1, <1>u DEF Gate!vars
<1>1. CASE MainStep
  BY <1>1, <1>m, <1>t, <1>u DEF MainStep, EnableFetchingTask, StartupFetch, TypeOK
<1>2. ASSUME NEW f \in Kicks, NEW all \in BOOLEAN, OnRecvMsg(f, all)
      PROVE  UNCHANGED Gate!vars
  BY <1>2, <1>m, <1>t, <1>u DEF OnRecvMsg, TypeOK
<1>3. ASSUME NEW f \in Fetchers, FetchStep(f) PROVE [Gate!Next]_(Gate!vars)
  <2>1. CASE FetchLock(f)
    <3>1. f \notin Active /\ Active' = Active \cup {f}
      BY <2>1, <1>t DEF FetchLock, Active, TypeOK
    <3>2. upc # "script" /\ upc' = upc /\ tasks' = tasks
      BY <2>1, <1>t, FetchAssumption DEF FetchLock, LockInv
    <3>3. Gate!Begin(f)
      BY <3>1, <3>2 DEF Gate!Begin
    <3> QED BY <3>3 DEF Gate!Next
  <2>2. CASE FetchReturn(f)
    <3>1. f \in Active /\ Active' = Active \ {f}
      BY <2>2, <1>t DEF FetchReturn, Active, TypeOK
    <3>2. Gate!End(f)
      BY <2>2, <3>1 DEF FetchReturn, Gate!End
    <3> QED BY <3>2 DEF Gate!Next
  <2>3. CASE FetchEntry(f) \/ FetchTimeout(f) \/ FetchUnlock(f) \/ FetchCount(f)
               \/ FetchReason(f)
    <3>1. UNCHANGED <<tasks, upc>>
      BY <2>3 DEF FetchEntry, FetchTimeout, FetchUnlock, FetchCount, FetchReason
    <3>2. \A g \in Fetchers : fpc'[g] \in {"unlock", "gap", "reason", "fetch"}
                         <=> fpc[g] \in {"unlock", "gap", "reason", "fetch"}
      BY <2>3, <1>t DEF FetchEntry, FetchTimeout, FetchUnlock, FetchCount,
         FetchReason, TypeOK
    <3> QED BY <3>1, <3>2, <1>u
  <2> QED BY <1>3, <2>1, <2>2, <2>3 DEF FetchStep
<1>4. ASSUME NEW f \in Fetchers, NEW t \in TaskIds, FetchDispatch(f, t)
      PROVE  Gate!Next
  <2>1. f \in Active /\ Active' = Active
    BY <1>4 DEF FetchDispatch, Active
  <2>2. Gate!Dispatch(f, t)
    BY <1>4, <2>1 DEF FetchDispatch, Gate!Dispatch
  <2> QED BY <2>2 DEF Gate!Next
<1>5. ASSUME NEW t \in TaskIds, TaskEnds(t) PROVE Gate!Next
  <2>1. Active' = Active
    BY <1>5 DEF TaskEnds, Active
  <2>2. Gate!TaskEnds(t)
    BY <1>5, <2>1 DEF TaskEnds, Gate!TaskEnds
  <2> QED BY <2>2 DEF Gate!Next
<1>6. CASE UpdateStart \/ UpdateCheck \/ UpdateCheckTasks \/ UpdateTryLock
             \/ UpdateWake \/ UpdateRecheck
  BY <1>6, <1>u DEF UpdateStart, UpdateCheck, UpdateCheckTasks, UpdateTryLock,
     UpdateWake, UpdateRecheck, UpdateAgain
<1>7. CASE UpdateRecheckTasks
  <2>1. CASE tasks # {}
    BY <1>7, <2>1, <1>u DEF UpdateRecheckTasks, UpdateAgain
  <2>2. CASE tasks = {}
    <3>1. Active = {}
      BY <1>7, <1>t, FetchAssumption
      DEF UpdateRecheckTasks, LockInv, StageInv, Counted, Active
    <3>2. Active' = Active
      BY <1>7 DEF UpdateRecheckTasks, Active
    <3>3. Gate!ScriptStarts
      BY <1>7, <2>2, <3>1, <3>2 DEF UpdateRecheckTasks, Gate!ScriptStarts
    <3> QED BY <3>3 DEF Gate!Next
  <2> QED BY <2>1, <2>2
<1>8. CASE ScriptReturns
  <2>1. Active' = Active
    BY <1>8 DEF ScriptReturns, Active
  <2>2. Gate!ScriptReturns
    BY <1>8, <2>1 DEF ScriptReturns, Gate!ScriptReturns
  <2> QED BY <2>2 DEF Gate!Next
<1>9. CASE UNCHANGED vars
  BY <1>9, <1>u DEF vars
<1> QED
  BY <1>1, <1>2, <1>3, <1>4, <1>5, <1>6, <1>7, <1>8, <1>9 DEF Next, UpdateStep

-----------------------------------------------------------------------------
\* Type correctness of FetchUpdate, with the counter equal to the number of
\* fetches under way: FetchingTaskCounter never underflows.
THEOREM TypeCorrect == Spec => [](TypeOK /\ CounterInv)
<1>1. Init => TypeOK /\ CounterInv
  BY AloneInit DEF AloneInv
<1>2. TypeOK /\ CounterInv /\ [Next]_vars => (TypeOK /\ CounterInv)'
  BY TypeStep, CounterStep
<1> QED BY <1>1, <1>2, PTL DEF Spec

\* The comment in executeUpdateScript, "ENSURE: Mutex lock acquired and no
\* running tasks", for any number of kicks and tasks, as long as no goroutine
\* needs five seconds from FetchingTaskLock.Unlock to FetchingTaskCounter.Add.
THEOREM UpdateIsSafe ==
  ASSUME ~SlowGap
  PROVE  Spec => []ScriptRunsAlone
<1>1. AloneInv /\ [Next]_vars => AloneInv'
  BY TypeStep, CounterStep, LockStep, StageStep DEF AloneInv
<1>2. AloneInv => ScriptRunsAlone
  BY DEF AloneInv, LockInv, StageInv, Counted, ScriptRunsAlone
<1> QED BY <1>1, <1>2, AloneInit, PTL DEF Spec

\* Fetch and executeUpdateScript implement the gate, under the same condition:
\* whatever the order of their looks at lock, counter and factory, they behave as
\* if a fetch began, and the script started, in one step that sees everything.
THEOREM UpdateImplementsGate ==
  ASSUME ~SlowGap
  PROVE  Spec => ImplementsGate
<1>1. Init => Gate!Init
  BY FetchAssumption DEF Init, Gate!Init, Active
<1>2. AloneInv /\ [Next]_vars => AloneInv'
  BY TypeStep, CounterStep, LockStep, StageStep DEF AloneInv
<1> QED
  BY <1>1, <1>2, AloneInit, GateStep, PTL DEF Spec, ImplementsGate, Gate!Spec

\* Exactly one fetch of a process has reason startup, and only if the flag
\* _startupFetched is set.
THEOREM StartupIsOnce == Spec => []StartupOnce
<1>1. Init => StartupOnce
  BY DEF Init, StartupOnce
<1>2. TypeOK /\ StartupOnce /\ [Next]_vars => StartupOnce'
  <2> SUFFICES ASSUME TypeOK, StartupOnce, [Next]_vars PROVE StartupOnce'
    OBVIOUS
  <2>1. ASSUME NEW f \in Fetchers, FetchReason(f) PROVE StartupOnce'
    <3>1. CASE whole[f] /\ ~startupFetched
      BY <2>1, <3>1 DEF FetchReason, StartupOnce
    <3>2. CASE ~(whole[f] /\ ~startupFetched)
      BY <2>1, <3>2 DEF FetchReason, StartupOnce
    <3> QED BY <3>1, <3>2
  <2>2. CASE UNCHANGED <<startupFetched, startups>>
    BY <2>2 DEF StartupOnce
  <2> QED
    BY <2>1, <2>2 DEF Next, MainStep, EnableFetchingTask, StartupFetch,
       OnRecvMsg, FetchStep, FetchEntry, FetchLock, FetchTimeout, FetchUnlock,
       FetchCount, FetchReturn, FetchDispatch, TaskEnds, UpdateStart,
       UpdateStep, ScriptReturns, UpdateCheck, UpdateCheckTasks, UpdateTryLock,
       UpdateWake, UpdateRecheck, UpdateRecheckTasks, UpdateAgain, fetchVars,
       vars
<1> QED BY <1>1, <1>2, TypeCorrect, PTL DEF Spec
=============================================================================
