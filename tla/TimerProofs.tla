----------------------------- MODULE TimerProofs -----------------------------
(***************************************************************************)
(* Proofs about Timer and CronTask, for any kind of schedule, intervals and*)
(* number of callback goroutines.                                          *)
(*                                                                         *)
(* runTimer looks at isRunning and sets it in two critical sections, so    *)
(* that callbacks exclude each other only while no two goroutines are      *)
(* between them.  A firing starts another only after a wait that is not 0  *)
(* (the first wait of a timer is the only one that may be), and what Prompt*)
(* says of the scheduler then keeps the timer from firing, and SkipWaiting *)
(* from being called, while one is starting (OneStarts).                   *)
(***************************************************************************)
EXTENDS CronTask, HostScript, TaskOutput, FiniteSetTheorems, TLAPS

\* The places of a callback goroutine in runTimer.
Starts(c) == cbpc[c] \in {"check", "set"}
Runs(c) == cbpc[c] \in {"run", "refresh", "reset"}

\* At most one goroutine is on its way to the callback, and none when the timer can
\* fire or be skipped.
OneStarts ==
    /\ \A c, d \in Callbacks : Starts(c) /\ Starts(d) => c = d
    /\ \A c \in Callbacks : Starts(c) =>
          loop # "new" /\ ~skip /\ ~(loop = "select" /\ remain = 0)
    /\ skip => loop # "new" /\ ~(loop = "select" /\ remain = 0)

\* At most one is in the callback, and isRunning says so.
OneRuns ==
    /\ \A c, d \in Callbacks : Runs(c) /\ Runs(d) => c = d
    /\ \A c \in Callbacks : Runs(c) => isRunning
    /\ \A c \in Callbacks : cbpc[c] = "set" => ~isRunning

\* Only the first wait may be 0.
WaitsLater == loop # "new" /\ Kind = "mutable" => immediatelyDone

\* isRunning is set by one that is still in the callback, for any scheduler.
FlagIsHeld == isRunning => \E c \in Callbacks : Runs(c)

TimerInv == TypeOK /\ WaitsLater /\ FlagIsHeld /\ (Prompt => OneStarts /\ OneRuns)

\* A callback goroutine goes from one place to the next.
LEMMA GotoPlaces ==
    ASSUME TypeOK, NEW c \in Callbacks, NEW from \in CbPlaces, NEW to \in CbPlaces,
           Goto(c, from, to)
    PROVE  /\ cbpc' \in [Callbacks -> CbPlaces]
           /\ cbpc[c] = from /\ cbpc'[c] = to
           /\ \A d \in Callbacks \ {c} : cbpc'[d] = cbpc[d]
  BY DEF TypeOK, Goto

\* A schedule computes a wait; 0 only before the first.
LEMMA NextRunWaits ==
    ASSUME TimerAssumption, TypeOK, WaitsLater,
           NEW d \in Intervals \cup {0, NoNextRun}, NextRun(d)
    PROVE  /\ d = 0 => loop = "new"
           /\ d # NoNextRun => d \in Nat
           /\ Kind = "mutable" => immediatelyDone'
           /\ immediatelyDone' \in BOOLEAN /\ noNext' \in BOOLEAN
           /\ interval' = interval
<1>1. d = 0 => loop = "new"
  BY DEF TimerAssumption, TypeOK, WaitsLater, NextRun, NoNextRun
<1>2. d # NoNextRun => d \in Nat
  BY DEF TimerAssumption
<1>3. (Kind = "mutable" => immediatelyDone') /\ interval' = interval
  BY DEF NextRun
<1>4. immediatelyDone' \in BOOLEAN /\ noNext' \in BOOLEAN
  BY DEF NextRun, TypeOK
<1> QED
  BY <1>1, <1>2, <1>3, <1>4

LEMMA TimerTypes == TimerAssumption /\ TypeOK /\ WaitsLater /\ [Next]_vars => TypeOK' /\ WaitsLater'
<1> SUFFICES ASSUME TimerAssumption, TypeOK, WaitsLater, [Next]_vars PROVE TypeOK' /\ WaitsLater'
  OBVIOUS
<1>1. CASE Run
  <2> PICK d \in Intervals \cup {0, NoNextRun} :
          /\ NextRun(d) /\ armed' = d
          /\ remain' = IF d = NoNextRun THEN 0 ELSE d
          /\ loop' = IF d = NoNextRun THEN "done" ELSE "select"
    BY <1>1 DEF Run, ComputeNext
  <2>1. remain' \in Nat /\ armed' \in Intervals \cup {0, NoNextRun} /\ loop' \in LoopStates
    BY NextRunWaits DEF LoopStates
  <2> QED
    BY <1>1, <2>1, NextRunWaits DEF Run, chans, TypeOK, WaitsLater
<1>2. CASE Fires \/ TakesSkip
  <2>1. cbpc' \in [Callbacks -> CbPlaces] /\ loop' = "compute" /\ loop = "select"
    BY <1>2 DEF Fires, TakesSkip, StartCallback, TypeOK, CbPlaces
  <2> QED
    BY <1>2, <2>1 DEF Fires, TakesSkip, StartCallback, TypeOK, WaitsLater, chans, schedule,
       LoopStates
<1>3. CASE TakesRefresh
  BY <1>3 DEF TakesRefresh, TypeOK, WaitsLater, schedule, LoopStates
<1>4. CASE TakesQuit
  <2> PICK d \in Intervals \cup {0, NoNextRun} : NextRun(d)
    BY <1>4 DEF TakesQuit
  <2> QED
    BY <1>4, NextRunWaits DEF TakesQuit, TypeOK, WaitsLater, LoopStates
<1>5. CASE Tick
  <2>1. remain' \in Nat
    BY <1>5 DEF Tick, TypeOK
  <2> QED
    BY <1>5, <2>1 DEF Tick, TypeOK, WaitsLater, chans, schedule
<1>6. ASSUME NEW c \in Callbacks, CallbackStep(c) PROVE TypeOK' /\ WaitsLater'
  <2>1. cbpc' \in [Callbacks -> CbPlaces]
    BY <1>6 DEF CallbackStep, RunTimerChecks, RunTimerSets, CallbackEnds, RefreshTimer,
       RunTimerResets, Goto, TypeOK, CbPlaces
  <2>2. interval' \in Intervals
    BY <1>6 DEF CallbackStep, RunTimerChecks, RunTimerSets, CallbackEnds, RefreshTimer,
       RunTimerResets, TypeOK, schedule
  <2>3. UNCHANGED <<wait, skip, quit, immediatelyDone, noNext>>
    BY <1>6 DEF CallbackStep, RunTimerChecks, RunTimerSets, CallbackEnds, RefreshTimer,
       RunTimerResets, chans, schedule
  <2>4. isRunning' \in BOOLEAN /\ refresh' \in BOOLEAN
    BY <1>6 DEF CallbackStep, RunTimerChecks, RunTimerSets, CallbackEnds, RefreshTimer,
       RunTimerResets, chans, TypeOK
  <2> QED
    BY <2>1, <2>2, <2>3, <2>4 DEF TypeOK, WaitsLater, wait
<1>7. CASE Stop \/ SkipWaiting
  BY <1>7 DEF Stop, SkipWaiting, TypeOK, WaitsLater, wait, schedule
<1>8. CASE UNCHANGED vars
  BY <1>8 DEF vars, wait, chans, schedule, TypeOK, WaitsLater
<1> QED
  BY <1>1, <1>2, <1>3, <1>4, <1>5, <1>6, <1>7, <1>8 DEF Next, TimerStep

\* The firing and the skipping of a timer: one goroutine starts.
LEMMA FiringStartsOne ==
    ASSUME TypeOK, OneStarts, OneRuns, Fires \/ TakesSkip PROVE OneStarts' /\ OneRuns'
<1>1. /\ loop = "select" /\ loop' = "compute" /\ isRunning' = isRunning
      /\ \A c \in Callbacks : ~Starts(c)
  BY DEF Fires, TakesSkip, StartCallback, OneStarts, Starts, TypeOK
<1>2. PICK c \in Callbacks :
          /\ cbpc[c] = "idle" /\ cbpc'[c] = "check"
          /\ \A d \in Callbacks \ {c} : cbpc'[d] = cbpc[d]
  BY DEF Fires, TakesSkip, StartCallback, TypeOK
<1>3. ~skip'
  BY DEF Fires, TakesSkip, chans, OneStarts
<1>4. OneStarts'
  BY <1>1, <1>2, <1>3 DEF OneStarts, Starts
<1>5. OneRuns'
  BY <1>1, <1>2 DEF OneRuns, Runs
<1> QED
  BY <1>4, <1>5

\* The steps of a callback goroutine.
LEMMA CallbackExcludes ==
    ASSUME TypeOK, OneStarts, OneRuns, NEW c \in Callbacks, CallbackStep(c)
    PROVE  OneStarts' /\ OneRuns'
<1>0. UNCHANGED <<loop, remain, skip>>
  BY DEF CallbackStep, RunTimerChecks, RunTimerSets, CallbackEnds, RefreshTimer,
     RunTimerResets, wait, chans
<1>1. CASE RunTimerChecks(c)
  <2>1. /\ cbpc[c] = "check" /\ cbpc'[c] = IF isRunning THEN "idle" ELSE "set"
        /\ \A d \in Callbacks \ {c} : cbpc'[d] = cbpc[d]
        /\ isRunning' = isRunning
    BY <1>1 DEF RunTimerChecks, Goto, TypeOK
  <2>2. OneStarts'
    BY <1>0, <2>1 DEF OneStarts, Starts
  <2>3. OneRuns'
    BY <2>1 DEF OneRuns, Runs
  <2> QED
    BY <2>2, <2>3
<1>2. CASE RunTimerSets(c)
  <2>1. /\ cbpc[c] = "set" /\ cbpc'[c] = "run" /\ isRunning' = TRUE
        /\ \A d \in Callbacks \ {c} : cbpc'[d] = cbpc[d]
    BY <1>2 DEF RunTimerSets, Goto, TypeOK
  <2>2. OneStarts'
    BY <1>0, <2>1 DEF OneStarts, Starts
  <2>3. OneRuns'
    BY <2>1 DEF OneStarts, Starts, OneRuns, Runs
  <2> QED
    BY <2>2, <2>3
<1>3. CASE CallbackEnds(c) \/ RefreshTimer(c)
  <2>1. /\ cbpc[c] \in {"run", "refresh"} /\ cbpc'[c] \in {"refresh", "reset"}
        /\ isRunning' = isRunning
        /\ \A d \in Callbacks \ {c} : cbpc'[d] = cbpc[d]
    BY <1>3 DEF CallbackEnds, RefreshTimer, Goto, TypeOK
  <2>2. OneStarts'
    BY <1>0, <2>1 DEF OneStarts, Starts
  <2>3. OneRuns'
    BY <2>1 DEF OneRuns, Runs
  <2> QED
    BY <2>2, <2>3
<1>4. CASE RunTimerResets(c)
  <2>1. /\ cbpc[c] = "reset" /\ cbpc'[c] = "idle" /\ isRunning' = FALSE
        /\ \A d \in Callbacks \ {c} : cbpc'[d] = cbpc[d]
    BY <1>4 DEF RunTimerResets, Goto, TypeOK
  <2>2. OneStarts'
    BY <1>0, <2>1 DEF OneStarts, Starts
  <2>3. OneRuns'
    BY <2>1 DEF OneRuns, Runs
  <2> QED
    BY <2>2, <2>3
<1> QED
  BY <1>1, <1>2, <1>3, <1>4 DEF CallbackStep

\* One that is in the callback stays there until it clears the flag, and the flag is set
\* by one that enters.
LEMMA FlagStep == TypeOK /\ FlagIsHeld /\ [Next]_vars => FlagIsHeld'
<1> SUFFICES ASSUME TypeOK, FlagIsHeld, [Next]_vars, isRunning'
             PROVE  \E c \in Callbacks : Runs(c)'
  BY DEF FlagIsHeld
<1>1. CASE Fires \/ TakesSkip
  <2>1. \A c \in Callbacks : Runs(c) => Runs(c)'
    BY <1>1 DEF Fires, TakesSkip, StartCallback, Runs, TypeOK
  <2> QED
    BY <1>1, <2>1 DEF Fires, TakesSkip, StartCallback, FlagIsHeld
<1>2. CASE Run \/ TakesRefresh \/ TakesQuit \/ Tick \/ Stop \/ SkipWaiting
  BY <1>2 DEF Run, TakesRefresh, TakesQuit, Tick, Stop, SkipWaiting, FlagIsHeld, Runs
<1>3. ASSUME NEW c \in Callbacks, RunTimerSets(c) PROVE \E d \in Callbacks : Runs(d)'
  <2>1. Runs(c)'
    BY <1>3 DEF RunTimerSets, Goto, Runs, TypeOK
  <2> QED
    BY <2>1
<1>4. ASSUME NEW c \in Callbacks, RunTimerChecks(c) \/ CallbackEnds(c) \/ RefreshTimer(c)
      PROVE  \E d \in Callbacks : Runs(d)'
  <2>1. isRunning' = isRunning /\ \A d \in Callbacks : Runs(d) => Runs(d)'
    BY <1>4 DEF RunTimerChecks, CallbackEnds, RefreshTimer, Goto, Runs, TypeOK
  <2> QED
    BY <2>1 DEF FlagIsHeld
<1>5. ASSUME NEW c \in Callbacks PROVE ~RunTimerResets(c)
  BY DEF RunTimerResets
<1>6. CASE UNCHANGED vars
  BY <1>6 DEF vars, FlagIsHeld, Runs
<1> QED
  BY <1>1, <1>2, <1>3, <1>4, <1>5, <1>6 DEF Next, TimerStep, CallbackStep

LEMMA TimerStepExcludes == TimerAssumption /\ TimerInv /\ [Next]_vars => TimerInv'
<1> SUFFICES ASSUME TimerAssumption, TypeOK, WaitsLater, Prompt, OneStarts, OneRuns, [Next]_vars
             PROVE  OneStarts' /\ OneRuns'
  BY TimerTypes, FlagStep DEF TimerInv
<1>1. CASE Run
  <2> PICK d \in Intervals \cup {0, NoNextRun} :
          /\ NextRun(d)
          /\ remain' = IF d = NoNextRun THEN 0 ELSE d
          /\ loop' = IF d = NoNextRun THEN "done" ELSE "select"
    BY <1>1 DEF Run, ComputeNext
  <2>1. ASSUME loop # "new" PROVE ~(loop' = "select" /\ remain' = 0)
    BY <2>1, NextRunWaits
  <2>2. loop' # "new" /\ UNCHANGED <<skip, isRunning, cbpc>>
    BY <1>1 DEF Run, chans
  <2> QED
    BY <2>1, <2>2 DEF OneStarts, OneRuns, Starts, Runs
<1>2. CASE Fires \/ TakesSkip
  BY <1>2, FiringStartsOne
<1>3. CASE TakesRefresh \/ TakesQuit
  BY <1>3 DEF TakesRefresh, TakesQuit, OneStarts, OneRuns, Starts, Runs
<1>4. CASE Tick
  BY <1>4 DEF Tick, OneStarts, OneRuns, Starts, Runs, Starting, chans
<1>5. ASSUME NEW c \in Callbacks, CallbackStep(c) PROVE OneStarts' /\ OneRuns'
  BY <1>5, CallbackExcludes
<1>6. CASE Stop
  BY <1>6 DEF Stop, OneStarts, OneRuns, Starts, Runs, wait
<1>7. CASE SkipWaiting
  <2>1. /\ \A c \in Callbacks : ~Starts(c)
        /\ loop = "select" /\ remain > 0 /\ UNCHANGED <<loop, remain, isRunning, cbpc>>
    BY <1>7 DEF SkipWaiting, Starting, Starts, wait
  <2>2. remain # 0
    BY <2>1 DEF TypeOK
  <2> QED
    BY <2>1, <2>2 DEF OneStarts, OneRuns, Starts, Runs
<1>8. CASE UNCHANGED vars
  BY <1>8 DEF vars, wait, chans, OneStarts, OneRuns, Starts, Runs
<1> QED
  BY <1>1, <1>2, <1>3, <1>4, <1>5, <1>6, <1>7, <1>8 DEF Next, TimerStep

LEMMA TimerInit == TimerAssumption /\ Init => TimerInv
<1> SUFFICES ASSUME TimerAssumption, Init PROVE TimerInv
  OBVIOUS
<1>1. TypeOK
  BY DEF Init, TypeOK, LoopStates, CbPlaces
<1>2. WaitsLater /\ FlagIsHeld /\ OneStarts /\ OneRuns
  BY DEF Init, WaitsLater, FlagIsHeld, OneStarts, OneRuns, Starts, Runs
<1> QED
  BY <1>1, <1>2 DEF TimerInv

\* A set without two elements has one at most.
LEMMA AtMostOneIn ==
    ASSUME NEW S, \A x, y \in S : x = y PROVE Cardinality(S) <= 1
<1>1. CASE S = {}
  BY <1>1, FS_EmptySet
<1>2. CASE S # {}
  <2>1. PICK x \in S : S = {x}
    BY <1>2
  <2> QED
    BY <2>1, FS_Singleton
<1> QED
  BY <1>1, <1>2

LEMMA ExclusionHolds == TimerInv => CallbackExclusive
<1> SUFFICES ASSUME TimerInv, Prompt PROVE Cardinality(InCallback) <= 1
  BY DEF CallbackExclusive, TimerInv, FlagIsHeld, Runs, InCallback
<1>1. \A c, d \in InCallback : c = d
  BY DEF TimerInv, OneRuns, Runs, InCallback
<1> QED
  BY <1>1, AtMostOneIn

\* The types of a timer.
THEOREM TimerTypeOK == ASSUME TimerAssumption PROVE Spec => []TypeOK
<1>1. TimerInv => TypeOK
  BY DEF TimerInv
<1> QED
  BY <1>1, TimerInit, TimerStepExcludes, PTL DEF Spec

\* However the goroutines of runTimer race for isRunning, an invocation that has ended does
\* not leave it set; and if none comes between another's two sections (Prompt), callbacks do
\* not overlap, however the timer is refreshed, skipped and stopped meanwhile.
THEOREM CallbacksExclude == ASSUME TimerAssumption PROVE Spec => []CallbackExclusive
  BY ExclusionHolds, TimerInit, TimerStepExcludes, PTL DEF Spec

\* An interval that a callback sets reaches the wait in progress: SetInterval comes before
\* RefreshTimer, and nextRun reads the interval after the refresh was taken.
THEOREM WaitIsCurrent == ASSUME TimerAssumption PROVE Spec => []NoStaleWait
<1>1. Init => NoStaleWait
  BY DEF Init, NoStaleWait
<1>2. TimerInv /\ NoStaleWait /\ [Next]_vars => NoStaleWait'
  <2> SUFFICES ASSUME TimerInv, NoStaleWait, [Next]_vars, Kind = "mutable", loop' = "select"
               PROVE  \/ armed' \in {0, interval'}
                      \/ refresh' \/ \E c \in Callbacks : cbpc'[c] = "refresh"
    BY DEF NoStaleWait
  <2>1. CASE Run
    BY <2>1 DEF Run, ComputeNext, NextRun
  <2>2. CASE Fires \/ TakesSkip \/ TakesRefresh \/ TakesQuit
    BY <2>2 DEF Fires, TakesSkip, StartCallback, TakesRefresh, TakesQuit
  <2>3. CASE Tick \/ Stop \/ SkipWaiting
    BY <2>3 DEF Tick, Stop, SkipWaiting, NoStaleWait, wait, schedule, chans
  <2>4. ASSUME NEW c \in Callbacks, CallbackStep(c)
        PROVE  \/ armed' \in {0, interval'}
               \/ refresh' \/ \E d \in Callbacks : cbpc'[d] = "refresh"
    <3>1. CASE RefreshTimer(c)
      BY <3>1 DEF RefreshTimer
    <3>2. CASE CallbackEnds(c) /\ Refreshes
      BY <3>2 DEF CallbackEnds, Goto, TimerInv, TypeOK
    <3>3. CASE /\ ~RefreshTimer(c) /\ ~(CallbackEnds(c) /\ Refreshes)
      <4>1. /\ UNCHANGED <<loop, armed, interval, refresh>>
            /\ cbpc[c] # "refresh"
            /\ \A d \in Callbacks : d # c => cbpc'[d] = cbpc[d]
        BY <2>4, <3>3 DEF CallbackStep, RunTimerChecks, RunTimerSets, CallbackEnds,
           RunTimerResets, Goto, TimerInv, TypeOK, wait, schedule, chans
      <4> QED
        BY <4>1 DEF NoStaleWait
    <3> QED
      BY <3>1, <3>2, <3>3
  <2>5. CASE UNCHANGED vars
    BY <2>5 DEF vars, wait, schedule, chans, NoStaleWait
  <2> QED
    BY <2>1, <2>2, <2>3, <2>4, <2>5 DEF Next, TimerStep
<1> QED
  BY <1>1, <1>2, TimerInit, TimerStepExcludes, PTL DEF Spec

(***************************************************************************)
(* A cron task.  Its callback looks for the one Task object of the schedule*)
(* in TaskFactory before it adds and enqueues it, two operations later; the*)
(* worker takes it out of the factory when all is done.  As only one       *)
(* callback runs at a time, nobody comes between the look and the addition *)
(* (OnePlace).                                                             *)
(***************************************************************************)
StartSteps == {"contains", "add", "enqueue", "return"}
CronTypes ==
    /\ registered \in BOOLEAN /\ queued \in Nat /\ completed \in Nat
    /\ wpc \in {"idle", "exec", "onFinish", "cleanup"}
    /\ cstep \in [Callbacks -> StartSteps]

\* The invocation is nowhere, or registered and in one place.
OnePlace ==
    /\ \A c \in Callbacks : cstep[c] # "contains" => cbpc[c] = "run"
    /\ \A c \in Callbacks : cstep[c] = "add" => ~registered
    /\ \A c \in Callbacks : cstep[c] = "enqueue" => registered /\ queued = 0 /\ wpc = "idle"
    /\ ~registered => queued = 0 /\ wpc = "idle"
    /\ queued <= 1 /\ (wpc # "idle" => queued = 0)

CronInv == TimerInv /\ CronTypes /\ (Prompt => OnePlace)

LEMMA CronStepIsTimerStep == [CronNext]_allVars => [Next]_vars
  BY DEF CronNext, allVars, CronCallbackStep, StartContains, StartAdds, StartEnqueues,
     StartReturns, WorkerStep, WorkerTakes, RunReports, OnFinish, WorkerRemoves, Next,
     CallbackStep

LEMMA CronStepTypes == CronTypes /\ [CronNext]_allVars => CronTypes'
<1> SUFFICES ASSUME CronTypes, [CronNext]_allVars PROVE CronTypes'
  OBVIOUS
<1>1. CASE UNCHANGED taskVars
  BY <1>1 DEF taskVars, CronTypes
<1>2. ASSUME NEW c \in Callbacks,
             StartContains(c) \/ StartAdds(c) \/ StartEnqueues(c) \/ StartReturns(c)
      PROVE  CronTypes'
  <2>1. cstep' \in [Callbacks -> StartSteps]
    BY <1>2 DEF CronTypes, StartSteps, StartContains, StartAdds, StartEnqueues, StartReturns
  <2>2. queued' \in Nat /\ UNCHANGED <<wpc, completed>>
    BY <1>2 DEF CronTypes, StartContains, StartAdds, StartEnqueues, StartReturns
  <2>3. registered' \in BOOLEAN
    BY <1>2 DEF CronTypes, StartContains, StartAdds, StartEnqueues, StartReturns
  <2> QED
    BY <2>1, <2>2, <2>3 DEF CronTypes
<1>3. CASE WorkerStep
  <2>1. queued' \in Nat /\ completed' \in Nat
    BY <1>3 DEF CronTypes, WorkerStep, WorkerTakes, RunReports, OnFinish, WorkerRemoves
  <2> QED
    BY <1>3, <2>1 DEF CronTypes, WorkerStep, WorkerTakes, RunReports, OnFinish, WorkerRemoves
<1> QED
  BY <1>1, <1>2, <1>3 DEF CronNext, CronCallbackStep, allVars, taskVars

LEMMA CronStepExcludes ==
    TimerAssumption /\ CronInv /\ [CronNext]_allVars => CronInv'
<1> SUFFICES ASSUME TimerAssumption, CronInv, Prompt, [CronNext]_allVars PROVE OnePlace'
  BY CronStepIsTimerStep, CronStepTypes, TimerStepExcludes DEF CronInv
<1>0. /\ OnePlace /\ CronTypes /\ TypeOK
      /\ \A c, d \in Callbacks : cbpc[c] = "run" /\ cbpc[d] = "run" => c = d
  BY DEF CronInv, TimerInv, OneRuns, Runs
<1>1. CASE /\ TimerStep \/ Tick
           /\ UNCHANGED taskVars
  <2>1. \A c \in Callbacks : cbpc[c] = "run" => cbpc'[c] = "run"
    BY <1>0, <1>1 DEF TypeOK, TimerStep, Tick, Run, Fires, TakesSkip, StartCallback,
       TakesRefresh, TakesQuit
  <2> QED
    BY <1>0, <1>1, <2>1 DEF OnePlace, taskVars
<1>2. ASSUME NEW c \in Callbacks, CronCallbackStep(c) PROVE OnePlace'
  <2>1. CASE StartContains(c)
    <3>1. /\ cbpc[c] = "run" /\ cstep'[c] = IF registered THEN "return" ELSE "add"
          /\ \A d \in Callbacks \ {c} : cstep'[d] = cstep[d]
          /\ UNCHANGED <<cbpc, registered, queued, wpc>>
      BY <1>0, <2>1 DEF StartContains, CronTypes, vars
    <3> QED
      BY <1>0, <3>1 DEF OnePlace
  <2>2. CASE StartAdds(c)
    <3>1. /\ cbpc[c] = "run" /\ cstep[c] = "add" /\ cstep'[c] = "enqueue"
          /\ \A d \in Callbacks \ {c} : cstep'[d] = cstep[d] /\ cstep[d] = "contains"
          /\ registered' = TRUE /\ UNCHANGED <<cbpc, queued, wpc>>
      BY <1>0, <2>2 DEF StartAdds, CronTypes, vars, OnePlace
    <3> QED
      BY <1>0, <3>1 DEF OnePlace
  <2>3. CASE StartEnqueues(c)
    <3>1. /\ cbpc[c] = "run" /\ cstep[c] = "enqueue" /\ cstep'[c] = "return"
          /\ \A d \in Callbacks \ {c} : cstep'[d] = cstep[d] /\ cstep[d] = "contains"
          /\ queued' = queued + 1 /\ UNCHANGED <<cbpc, registered, wpc>>
      BY <1>0, <2>3 DEF StartEnqueues, CronTypes, vars, OnePlace
    <3> QED
      BY <1>0, <3>1 DEF OnePlace
  <2>4. CASE StartReturns(c)
    <3>1. /\ cstep'[c] = "contains"
          /\ \A d \in Callbacks \ {c} : cstep'[d] = cstep[d] /\ cbpc'[d] = cbpc[d]
          /\ UNCHANGED <<registered, queued, wpc>>
      BY <1>0, <2>4 DEF StartReturns, CallbackEnds, Goto, CronTypes, TypeOK
    <3> QED
      BY <1>0, <3>1 DEF OnePlace
  <2>5. CASE /\ RunTimerChecks(c) \/ RunTimerSets(c) \/ RunTimerResets(c)
             /\ UNCHANGED taskVars
    <3>1. /\ cbpc[c] # "run" /\ UNCHANGED taskVars
          /\ \A d \in Callbacks \ {c} : cbpc'[d] = cbpc[d]
      BY <1>0, <2>5 DEF RunTimerChecks, RunTimerSets, RunTimerResets, Goto, TypeOK
    <3> QED
      BY <1>0, <3>1 DEF OnePlace, taskVars
  <2> QED
    BY <1>2, <2>1, <2>2, <2>3, <2>4, <2>5 DEF CronCallbackStep
<1>3. CASE WorkerTakes
  BY <1>0, <1>3 DEF WorkerTakes, OnePlace, CronTypes, vars
<1>4. CASE RunReports \/ OnFinish
  BY <1>0, <1>4 DEF RunReports, OnFinish, OnePlace, vars
<1>5. CASE WorkerRemoves
  BY <1>0, <1>5 DEF WorkerRemoves, OnePlace, vars
<1>6. CASE UNCHANGED allVars
  BY <1>0, <1>6 DEF allVars, vars, taskVars, OnePlace
<1> QED
  BY <1>1, <1>2, <1>3, <1>4, <1>5, <1>6 DEF CronNext, WorkerStep

LEMMA CronInits == TimerAssumption /\ CronInit => CronInv
<1> SUFFICES ASSUME TimerAssumption, CronInit PROVE CronInv
  OBVIOUS
<1>1. TimerInv
  BY TimerInit DEF CronInit
<1>2. /\ queued = 0 /\ completed = 0 /\ wpc = "idle"
      /\ cstep \in [Callbacks -> StartSteps] /\ queued \in Nat /\ completed \in Nat
      /\ \A c \in Callbacks : cstep[c] = "contains"
  BY DEF CronInit, StartSteps
<1>3. CronTypes
  <2>1. registered \in BOOLEAN
    BY DEF CronInit
  <2> QED
    BY <1>2, <2>1 DEF CronTypes
<1>4. OnePlace
  BY <1>2 DEF OnePlace
<1> QED
  BY <1>1, <1>3, <1>4 DEF CronInv

\* The types of a cron task and of its timer.
THEOREM CronTypesHold == ASSUME TimerAssumption PROVE CronSpec => []CronTypeOK
<1>1. CronInv => CronTypeOK
  BY DEF CronInv, TimerInv, CronTypes, StartSteps, CronTypeOK
<1> QED
  BY <1>1, CronInits, CronStepExcludes, PTL DEF CronSpec

\* The one Task object of a schedule is in the pool at most once, although
\* startExclusiveInvocation looks it up and adds it in two operations.
THEOREM CronInvocationsExclude ==
    ASSUME TimerAssumption, Prompt PROVE CronSpec => []OneInvocation
<1>1. CronInv => OneInvocation
  BY DEF CronInv, CronTypes, OnePlace, OneInvocation
<1> QED
  BY <1>1, CronInits, CronStepExcludes, PTL DEF CronSpec

(***************************************************************************)
(* HostScript.  The deliveries that have reached a start are counted       *)
(* (StartsCounted).  For a task that runs once the file is what tells of   *)
(* the first attempt: as long as nothing fails a start leaves a file, and  *)
(* who finds one does not start (FoundAgain).  A file that is not whole is *)
(* being written, or is left by a crash (WrittenWhole).                    *)
(***************************************************************************)
ScriptPlaces == {"idle", "path", "save", "write", "chmod", "shell", "start", "running",
                 "report", "error", "cleanup"}
ScriptFlags ==
    /\ once \in BOOLEAN /\ secret \in BOOLEAN /\ executable \in BOOLEAN
    /\ useScriptFile \in BOOLEAN /\ acked \in BOOLEAN /\ ranPart \in BOOLEAN
ScriptTypes ==
    /\ file \in {"none", "part", "whole"} /\ at \in ScriptPlaces
    /\ starts \in Nat /\ deliveries \in 0 .. MaxDeliveries
    /\ crashes \in 0 .. MaxCrashes /\ failures \in 0 .. MaxFailures

Begun == {"write", "chmod", "shell", "start"}
StartsCounted ==
    /\ starts <= deliveries
    /\ at \in Begun \cup {"path", "save"} => starts < deliveries

FoundAgain ==
    once /\ failures = 0 =>
        /\ starts <= 1
        /\ at \in Begun => starts = 0 /\ file # "none"
        /\ file = "none" /\ starts > 0 => at = "idle" /\ acked
        /\ at = "cleanup" => acked

WrittenWhole ==
    /\ ranPart => ~once /\ crashes > 0
    /\ file = "part" => at = "write" \/ crashes > 0
    /\ once /\ at \in {"chmod", "shell", "start"} /\ useScriptFile => file = "whole"

SecretKept ==
    secret /\ crashes = 0 /\ failures = 0 =>
        /\ at \in {"idle", "path", "save"} => file = "none"
        /\ at # "error"

ScriptInv == ScriptFlags /\ ScriptTypes /\ StartsCounted /\ FoundAgain /\ WrittenWhole /\ SecretKept

LEMMA ScriptInits == ScriptAssumption /\ ScriptInit => ScriptInv
<1> SUFFICES ASSUME ScriptAssumption, ScriptInit PROVE ScriptInv
  OBVIOUS
<1>1. ScriptFlags
  BY DEF ScriptInit, ScriptFlags
<1>2. ScriptTypes
  BY DEF ScriptAssumption, ScriptInit, ScriptTypes, ScriptPlaces
<1>3. StartsCounted /\ FoundAgain /\ WrittenWhole /\ SecretKept
  BY DEF ScriptInit, StartsCounted, FoundAgain, WrittenWhole, SecretKept, Begun
<1> QED
  BY <1>1, <1>2, <1>3 DEF ScriptInv

LEMMA ScriptStep == ScriptAssumption /\ ScriptInv /\ [ScriptNext]_scriptVars => ScriptInv'
<1> SUFFICES ASSUME ScriptAssumption, ScriptInv, [ScriptNext]_scriptVars PROVE ScriptInv'
  OBVIOUS
<1>0. ScriptFlags /\ ScriptTypes /\ StartsCounted /\ FoundAgain /\ WrittenWhole /\ SecretKept
  BY DEF ScriptInv
<1>1. CASE Deliver
  <2>1. ScriptFlags'
    BY <1>0, <1>1 DEF Deliver, Goes, Fine, task, disk, commands, bounds, ScriptFlags
  <2>2. ScriptTypes'
    BY <1>0, <1>1 DEF Deliver, Goes, Fine, task, disk, commands, bounds, ScriptTypes,
         ScriptPlaces, ScriptAssumption
  <2>3. StartsCounted'
    BY <1>0, <1>1 DEF Deliver, Goes, Fine, task, disk, commands, bounds, StartsCounted,
         ScriptTypes, Begun
  <2>4. FoundAgain'
    BY <1>0, <1>1 DEF Deliver, Goes, Fine, task, disk, commands, bounds, FoundAgain,
         ScriptTypes, Begun
  <2>5. WrittenWhole'
    BY <1>0, <1>1 DEF Deliver, Goes, Fine, task, disk, commands, bounds, WrittenWhole,
         ScriptTypes
  <2>6. SecretKept'
    BY <1>0, <1>1 DEF Deliver, Goes, Fine, task, disk, commands, bounds, SecretKept,
         ScriptTypes
  <2> QED
    BY <2>1, <2>2, <2>3, <2>4, <2>5, <2>6 DEF ScriptInv
<1>2. CASE GetScriptPath
  <2>1. ScriptFlags'
    BY <1>0, <1>2 DEF GetScriptPath, Goes, Fine, Failure, task, disk, commands, bounds,
         ScriptFlags
  <2>2. ScriptTypes'
    BY <1>0, <1>2 DEF GetScriptPath, Goes, Fine, Failure, task, disk, commands, bounds,
         ScriptTypes, ScriptPlaces, ScriptAssumption
  <2>3. StartsCounted'
    BY <1>0, <1>2 DEF GetScriptPath, Goes, Fine, Failure, task, disk, commands, bounds,
         StartsCounted, ScriptTypes, Begun
  <2>4. FoundAgain'
    BY <1>0, <1>2 DEF GetScriptPath, Goes, Fine, Failure, task, disk, commands, bounds,
         FoundAgain, ScriptTypes, Begun
  <2>5. WrittenWhole'
    BY <1>0, <1>2 DEF GetScriptPath, Goes, Fine, Failure, task, disk, commands, bounds,
         WrittenWhole, ScriptTypes
  <2>6. SecretKept'
    BY <1>0, <1>2 DEF GetScriptPath, Goes, Fine, Failure, task, disk, commands, bounds,
         SecretKept, ScriptTypes
  <2> QED
    BY <2>1, <2>2, <2>3, <2>4, <2>5, <2>6 DEF ScriptInv
<1>3. CASE FindsScript
  <2>1. ScriptFlags'
    BY <1>0, <1>3 DEF FindsScript, Goes, Fine, task, disk, commands, bounds, ScriptFlags
  <2>2. ScriptTypes'
    BY <1>0, <1>3 DEF FindsScript, Goes, Fine, task, disk, commands, bounds,
         ScriptTypes, ScriptPlaces, ScriptAssumption
  <2>3. StartsCounted'
    BY <1>0, <1>3 DEF FindsScript, Goes, Fine, task, disk, commands, bounds,
         StartsCounted, ScriptTypes, Begun
  <2>4. FoundAgain'
    BY <1>0, <1>3 DEF FindsScript, Goes, Fine, task, disk, commands, bounds, FoundAgain,
         ScriptTypes, Begun
  <2>5. WrittenWhole'
    BY <1>0, <1>3 DEF FindsScript, Goes, Fine, task, disk, commands, bounds,
         WrittenWhole, ScriptTypes
  <2>6. SecretKept'
    BY <1>0, <1>3 DEF FindsScript, Goes, Fine, task, disk, commands, bounds, SecretKept,
         ScriptTypes
  <2> QED
    BY <2>1, <2>2, <2>3, <2>4, <2>5, <2>6 DEF ScriptInv
<1>4. CASE CreatesScript
  <2>1. ScriptFlags'
    BY <1>0, <1>4 DEF CreatesScript, Goes, Fine, task, disk, commands, bounds,
         ScriptFlags
  <2>2. ScriptTypes'
    BY <1>0, <1>4 DEF CreatesScript, Goes, Fine, task, disk, commands, bounds,
         ScriptTypes, ScriptPlaces, ScriptAssumption
  <2>3. StartsCounted'
    BY <1>0, <1>4 DEF CreatesScript, Goes, Fine, task, disk, commands, bounds,
         StartsCounted, ScriptTypes, Begun
  <2>4. FoundAgain'
    BY <1>0, <1>4 DEF CreatesScript, Goes, Fine, task, disk, commands, bounds,
         FoundAgain, ScriptTypes, Begun
  <2>5. WrittenWhole'
    BY <1>0, <1>4 DEF CreatesScript, Goes, Fine, task, disk, commands, bounds,
         WrittenWhole, ScriptTypes
  <2>6. SecretKept'
    BY <1>0, <1>4 DEF CreatesScript, Goes, Fine, task, disk, commands, bounds,
         SecretKept, ScriptTypes
  <2> QED
    BY <2>1, <2>2, <2>3, <2>4, <2>5, <2>6 DEF ScriptInv
<1>5. CASE WritesScript
  <2>1. ScriptFlags'
    BY <1>0, <1>5 DEF WritesScript, Goes, Fine, Failure, task, disk, commands, bounds,
         ScriptFlags
  <2>2. ScriptTypes'
    BY <1>0, <1>5 DEF WritesScript, Goes, Fine, Failure, task, disk, commands, bounds,
         ScriptTypes, ScriptPlaces, ScriptAssumption
  <2>3. StartsCounted'
    BY <1>0, <1>5 DEF WritesScript, Goes, Fine, Failure, task, disk, commands, bounds,
         StartsCounted, ScriptTypes, Begun
  <2>4. FoundAgain'
    BY <1>0, <1>5 DEF WritesScript, Goes, Fine, Failure, task, disk, commands, bounds,
         FoundAgain, ScriptTypes, Begun
  <2>5. WrittenWhole'
    BY <1>0, <1>5 DEF WritesScript, Goes, Fine, Failure, task, disk, commands, bounds,
         WrittenWhole, ScriptTypes
  <2>6. SecretKept'
    BY <1>0, <1>5 DEF WritesScript, Goes, Fine, Failure, task, disk, commands, bounds,
         SecretKept, ScriptTypes
  <2> QED
    BY <2>1, <2>2, <2>3, <2>4, <2>5, <2>6 DEF ScriptInv
<1>6. CASE Chmod
  <2>1. ScriptFlags'
    BY <1>0, <1>6 DEF Chmod, Goes, Fine, Failure, task, disk, commands, bounds,
         ScriptFlags
  <2>2. ScriptTypes'
    BY <1>0, <1>6 DEF Chmod, Goes, Fine, Failure, task, disk, commands, bounds,
         ScriptTypes, ScriptPlaces, ScriptAssumption
  <2>3. StartsCounted'
    BY <1>0, <1>6 DEF Chmod, Goes, Fine, Failure, task, disk, commands, bounds,
         StartsCounted, ScriptTypes, Begun
  <2>4. FoundAgain'
    BY <1>0, <1>6 DEF Chmod, Goes, Fine, Failure, task, disk, commands, bounds,
         FoundAgain, ScriptTypes, Begun
  <2>5. WrittenWhole'
    BY <1>0, <1>6 DEF Chmod, Goes, Fine, Failure, task, disk, commands, bounds,
         WrittenWhole, ScriptTypes
  <2>6. SecretKept'
    BY <1>0, <1>6 DEF Chmod, Goes, Fine, Failure, task, disk, commands, bounds,
         SecretKept, ScriptTypes
  <2> QED
    BY <2>1, <2>2, <2>3, <2>4, <2>5, <2>6 DEF ScriptInv
<1>7. CASE LookPath
  <2>1. ScriptFlags'
    BY <1>0, <1>7 DEF LookPath, Goes, Fine, Failure, task, disk, commands, bounds,
         ScriptFlags
  <2>2. ScriptTypes'
    BY <1>0, <1>7 DEF LookPath, Goes, Fine, Failure, task, disk, commands, bounds,
         ScriptTypes, ScriptPlaces, ScriptAssumption
  <2>3. StartsCounted'
    BY <1>0, <1>7 DEF LookPath, Goes, Fine, Failure, task, disk, commands, bounds,
         StartsCounted, ScriptTypes, Begun
  <2>4. FoundAgain'
    BY <1>0, <1>7 DEF LookPath, Goes, Fine, Failure, task, disk, commands, bounds,
         FoundAgain, ScriptTypes, Begun
  <2>5. WrittenWhole'
    BY <1>0, <1>7 DEF LookPath, Goes, Fine, Failure, task, disk, commands, bounds,
         WrittenWhole, ScriptTypes
  <2>6. SecretKept'
    BY <1>0, <1>7 DEF LookPath, Goes, Fine, Failure, task, disk, commands, bounds,
         SecretKept, ScriptTypes
  <2> QED
    BY <2>1, <2>2, <2>3, <2>4, <2>5, <2>6 DEF ScriptInv
<1>8. CASE Start
  <2>1. ScriptFlags'
    BY <1>0, <1>8 DEF Start, Goes, Fine, Failure, task, disk, commands, bounds,
         ScriptFlags
  <2>2. ScriptTypes'
    BY <1>0, <1>8 DEF Start, Goes, Fine, Failure, task, disk, commands, bounds,
         ScriptTypes, ScriptPlaces, ScriptAssumption
  <2>3. StartsCounted'
    BY <1>0, <1>8 DEF Start, Goes, Fine, Failure, task, disk, commands, bounds,
         StartsCounted, ScriptTypes, Begun
  <2>4. FoundAgain'
    BY <1>0, <1>8 DEF Start, Goes, Fine, Failure, task, disk, commands, bounds,
         FoundAgain, ScriptTypes, Begun
  <2>5. WrittenWhole'
    <3>1. ranPart' => ranPart \/ (useScriptFile /\ file = "part")
      BY <1>8, Zenon DEF Start, commands
    <3>2. /\ at = "start" /\ at' \in {"running", "report"}
          /\ UNCHANGED <<once, file, crashes>>
      BY <1>8 DEF Start, Goes, task, disk, bounds
    <3>3. ranPart' => ~once /\ crashes > 0
      BY <1>0, <3>1, <3>2 DEF WrittenWhole
    <3> QED
      BY <1>0, <3>2, <3>3 DEF WrittenWhole
  <2>6. SecretKept'
    BY <1>0, <1>8 DEF Start, Goes, Fine, Failure, task, disk, commands, bounds,
         SecretKept, ScriptTypes
  <2> QED
    BY <2>1, <2>2, <2>3, <2>4, <2>5, <2>6 DEF ScriptInv
<1>9. CASE Exits
  <2>1. ScriptFlags'
    BY <1>0, <1>9 DEF Exits, Goes, Fine, task, disk, commands, bounds, ScriptFlags
  <2>2. ScriptTypes'
    BY <1>0, <1>9 DEF Exits, Goes, Fine, task, disk, commands, bounds, ScriptTypes,
         ScriptPlaces, ScriptAssumption
  <2>3. StartsCounted'
    BY <1>0, <1>9 DEF Exits, Goes, Fine, task, disk, commands, bounds, StartsCounted,
         ScriptTypes, Begun
  <2>4. FoundAgain'
    BY <1>0, <1>9 DEF Exits, Goes, Fine, task, disk, commands, bounds, FoundAgain,
         ScriptTypes, Begun
  <2>5. WrittenWhole'
    BY <1>0, <1>9 DEF Exits, Goes, Fine, task, disk, commands, bounds, WrittenWhole,
         ScriptTypes
  <2>6. SecretKept'
    BY <1>0, <1>9 DEF Exits, Goes, Fine, task, disk, commands, bounds, SecretKept,
         ScriptTypes
  <2> QED
    BY <2>1, <2>2, <2>3, <2>4, <2>5, <2>6 DEF ScriptInv
<1>10. CASE Reports
  <2>1. ScriptFlags'
    BY <1>0, <1>10 DEF Reports, Goes, Fine, Failure, task, disk, commands, bounds,
         ScriptFlags
  <2>2. ScriptTypes'
    BY <1>0, <1>10 DEF Reports, Goes, Fine, Failure, task, disk, commands, bounds,
         ScriptTypes, ScriptPlaces, ScriptAssumption
  <2>3. StartsCounted'
    BY <1>0, <1>10 DEF Reports, Goes, Fine, Failure, task, disk, commands, bounds,
         StartsCounted, ScriptTypes, Begun
  <2>4. FoundAgain'
    BY <1>0, <1>10 DEF Reports, Goes, Fine, Failure, task, disk, commands, bounds,
         FoundAgain, ScriptTypes, Begun
  <2>5. WrittenWhole'
    BY <1>0, <1>10 DEF Reports, Goes, Fine, Failure, task, disk, commands, bounds,
         WrittenWhole, ScriptTypes
  <2>6. SecretKept'
    BY <1>0, <1>10 DEF Reports, Goes, Fine, Failure, task, disk, commands, bounds,
         SecretKept, ScriptTypes
  <2> QED
    BY <2>1, <2>2, <2>3, <2>4, <2>5, <2>6 DEF ScriptInv
<1>11. CASE Cleanup
  <2>1. ScriptFlags'
    BY <1>0, <1>11 DEF Cleanup, Goes, Fine, task, disk, commands, bounds, ScriptFlags
  <2>2. ScriptTypes'
    BY <1>0, <1>11 DEF Cleanup, Goes, Fine, task, disk, commands, bounds, ScriptTypes,
         ScriptPlaces, ScriptAssumption
  <2>3. StartsCounted'
    BY <1>0, <1>11 DEF Cleanup, Goes, Fine, task, disk, commands, bounds, StartsCounted,
         ScriptTypes, Begun
  <2>4. FoundAgain'
    BY <1>0, <1>11 DEF Cleanup, Goes, Fine, task, disk, commands, bounds, FoundAgain,
         ScriptTypes, Begun
  <2>5. WrittenWhole'
    BY <1>0, <1>11 DEF Cleanup, Goes, Fine, task, disk, commands, bounds, WrittenWhole,
         ScriptTypes
  <2>6. SecretKept'
    BY <1>0, <1>11 DEF Cleanup, Goes, Fine, task, disk, commands, bounds, SecretKept,
         ScriptTypes
  <2> QED
    BY <2>1, <2>2, <2>3, <2>4, <2>5, <2>6 DEF ScriptInv
<1>12. CASE Crash
  <2>1. ScriptFlags'
    BY <1>0, <1>12 DEF Crash, Goes, Fine, task, disk, commands, bounds, ScriptFlags
  <2>2. ScriptTypes'
    BY <1>0, <1>12 DEF Crash, Goes, Fine, task, disk, commands, bounds, ScriptTypes,
         ScriptPlaces, ScriptAssumption
  <2>3. StartsCounted'
    BY <1>0, <1>12 DEF Crash, Goes, Fine, task, disk, commands, bounds, StartsCounted,
         ScriptTypes, Begun
  <2>4. FoundAgain'
    BY <1>0, <1>12 DEF Crash, Goes, Fine, task, disk, commands, bounds, FoundAgain,
         ScriptTypes, Begun
  <2>5. WrittenWhole'
    BY <1>0, <1>12 DEF Crash, Goes, Fine, task, disk, commands, bounds, WrittenWhole,
         ScriptTypes
  <2>6. SecretKept'
    BY <1>0, <1>12 DEF Crash, Goes, Fine, task, disk, commands, bounds, SecretKept,
         ScriptTypes
  <2> QED
    BY <2>1, <2>2, <2>3, <2>4, <2>5, <2>6 DEF ScriptInv
<1>13. CASE UNCHANGED scriptVars
  BY <1>0, <1>13 DEF scriptVars, ScriptInv, ScriptFlags, ScriptTypes, ScriptPlaces,
         StartsCounted, Begun, FoundAgain, WrittenWhole, SecretKept
<1> QED
  BY <1>1, <1>2, <1>3, <1>4, <1>5, <1>6, <1>7, <1>8, <1>9, <1>10, <1>11, <1>12, <1>13
         DEF ScriptNext

\* The types of the script's protocol: a task is started no more often than it is
\* delivered.
THEOREM ScriptTypesHold == ASSUME ScriptAssumption PROVE ScriptSpec => []ScriptTypeOK
<1>1. ScriptInv /\ ScriptAssumption => ScriptTypeOK
  BY DEF ScriptInv, ScriptFlags, ScriptTypes, ScriptPlaces, StartsCounted, ScriptTypeOK,
         ScriptAssumption
<1> QED
  BY <1>1, ScriptInits, ScriptStep, PTL DEF ScriptSpec

\* A script that is to run once is started once and whole, over any number of crashes
\* of the agent and repeated deliveries, and no secret stays behind: SaveScriptFile
\* finds the file of the first attempt, and Cleanup removes it.
THEOREM ScriptRunsSafely == ASSUME ScriptAssumption PROVE ScriptSpec => []ScriptIsSafe
<1>1. ScriptInv => ScriptIsSafe
  BY DEF ScriptInv, ScriptTypes, FoundAgain, WrittenWhole, SecretKept, ScriptIsSafe, RunsOnce,
         RunsWhole, SecretsGone
<1> QED
  BY <1>1, ScriptInits, ScriptStep, PTL DEF ScriptSpec

(***************************************************************************)
(* TaskOutput.  What was read of the buffer was reported or is in          *)
(* task.output (ReadCounted); the goroutine of the running reports counts  *)
(* in data_sended what it was given, but for the chunk in hand             *)
(* (SentCounted), and has ended when Run reads the rest (ReaderWaits).     *)
(* Cancel may count bytes as dropped while the output grows: in the first  *)
(* invocation only when the last report will drop as many or more          *)
(* (DropsJustified).                                                       *)
(***************************************************************************)
OutputFlags == periodic \in BOOLEAN /\ stop \in BOOLEAN /\ canceled \in BOOLEAN
OutputPlaces ==
    /\ pc \in {"idle", "running", "stop", "wait", "read", "decide", "final", "clean", "done"}
    /\ proc \in {"none", "alive", "ended"} /\ status \in {"success", "fail", "timeout"}
    /\ rpc \in {"none", "begin", "loop", "select", "append", "post", "add", "closed"}
    /\ cpc \in {"none", "output", "post", "kill", "done"}
OutputNumbers ==
    /\ written \in 0 .. MaxBytes /\ buffered \in Nat /\ output \in Nat /\ ran \in Nat
    /\ sended \in Nat /\ droped \in 0 .. MaxBytes
    /\ chunk \in 0 .. Chunk /\ round \in 1 .. Rounds
LastTyped ==
    final # NoReport => final \in [kind : Ends, text : 0 .. MaxBytes, dropped : 0 .. MaxBytes]

Ended == {"read", "decide", "final", "clean", "done"}
ReaderWaits ==
    /\ pc = "idle" <=> rpc = "none"
    /\ pc \in Ended => rpc = "closed"
    /\ final # NoReport => pc \in {"clean", "done"}

SentCounted ==
    /\ rpc \in {"none", "begin"} => ran = 0 /\ sended = 0
    /\ rpc \in {"loop", "select", "append", "closed"} => ran = sended
    /\ rpc \in {"begin", "loop", "select", "append", "closed"} => chunk = 0
    /\ rpc \in {"post", "add"} => ran = sended + chunk
    /\ ran <= Pre + Chunk
    /\ periodic => ran = 0 /\ rpc \in {"none", "begin", "closed"}
    /\ round > 1 => periodic

ReadCounted ==
    /\ pc # "done" => ran + output + buffered = written
    /\ ran + output + buffered <= written
    /\ pc \in {"idle", "done"} => output = 0

\* What is about to be added to task.output.
Coming ==
    IF rpc = "append" THEN Least(buffered, Chunk) ELSE IF pc = "read" THEN buffered ELSE 0
DropsJustified ==
    round = 1 /\ pc \notin {"clean", "done"} => droped = 0 \/ output + Coming > Room

\* The last report.
LastFits == final # NoReport => ran + final.text <= Quota

OutputInv ==
    /\ OutputFlags /\ OutputPlaces /\ OutputNumbers /\ LastTyped
    /\ ReaderWaits /\ SentCounted /\ ReadCounted /\ DropsJustified
    /\ OutputAccounted /\ LastFits

LEMMA QuotaHolds ==
    OutputAssumption =>
        /\ Chunk \in Nat /\ Pre \in Nat /\ MaxBytes \in Nat /\ Rounds \in Nat
        /\ Quota \in Nat /\ Pre + Chunk <= Quota
BY DEF OutputAssumption, Quota

LEMMA LeastBelow ==
    ASSUME NEW a \in Nat, NEW b \in Nat
    PROVE  Least(a, b) \in Nat /\ Least(a, b) <= a /\ Least(a, b) <= b
BY DEF Least

\* There is room for a last report, and never more than the quota.
LEMMA RoomLeft ==
    ASSUME OutputAssumption, OutputPlaces, OutputNumbers, SentCounted
    PROVE  Room \in Nat /\ sended <= ran
<1>1. sended <= ran
  BY QuotaHolds DEF OutputPlaces, OutputNumbers, SentCounted
<1> QED
  BY <1>1, QuotaHolds DEF OutputNumbers, SentCounted, Room

LEMMA ComingTyped ==
    ASSUME OutputAssumption, OutputNumbers PROVE Coming \in Nat /\ Coming <= buffered
<1>1. buffered \in Nat /\ Chunk \in Nat
  BY QuotaHolds DEF OutputNumbers
<1>2. Least(buffered, Chunk) \in Nat /\ Least(buffered, Chunk) <= buffered
  BY <1>1, LeastBelow
<1>3. Coming \in {Least(buffered, Chunk), buffered, 0}
  BY DEF Coming
<1> QED
  BY <1>1, <1>2, <1>3

\* The last report of n bytes and its number of dropped bytes, droped being d.
LEMMA ReportOf ==
    ASSUME OutputAssumption, OutputNumbers, Room \in Nat, NEW n \in Nat
    PROVE  /\ Text(n) \in Nat /\ Text(n) <= n /\ Text(n) <= Room
           /\ \/ Drops(n) = droped /\ Text(n) = n
              \/ Drops(n) = n - Room /\ n > Room /\ Text(n) = Room
BY DEF Text, Drops, Least, OutputNumbers

LEMMA SumsGrow ==
    ASSUME NEW m \in Nat, NEW n \in Nat, NEW p \in Nat, n >= m
    PROVE  p + m \in Nat /\ p + n \in Nat /\ p + n >= p + m
OBVIOUS

LEMMA MoreComes ==
    ASSUME NEW m \in Nat, NEW n \in Nat, NEW r \in Nat, NEW s \in Nat, m > r, n >= m, s <= r
    PROVE  n > s
OBVIOUS

\* Dropped bytes stay justified while the output grows and the room does not.
LEMMA DropsStay ==
    ASSUME DropsJustified, output + Coming \in Nat, (output + Coming)' \in Nat,
           Room \in Nat, Room' \in Nat, (output + Coming)' >= output + Coming, Room' <= Room,
           UNCHANGED <<droped, round>>,
           pc' \notin {"clean", "done"} => pc \notin {"clean", "done"}
    PROVE  DropsJustified'
<1>1. output + Coming > Room => (output + Coming)' > Room'
  BY MoreComes
<1>2. round = 1 /\ pc \notin {"clean", "done"} => droped = 0 \/ output + Coming > Room
  BY DEF DropsJustified
<1>3. round' = 1 /\ pc' \notin {"clean", "done"} => droped' = 0 \/ (output + Coming)' > Room'
  BY <1>1, <1>2, Zenon
<1> QED
  BY <1>3 DEF DropsJustified

LEMMA OutputStep == OutputAssumption /\ OutputInv /\ [OutputNext]_outputVars => OutputInv'
<1> SUFFICES ASSUME OutputAssumption, OutputInv, [OutputNext]_outputVars PROVE OutputInv'
  OBVIOUS
<1>0. /\ OutputFlags /\ OutputPlaces /\ OutputNumbers /\ LastTyped
      /\ ReaderWaits /\ SentCounted /\ ReadCounted /\ DropsJustified
      /\ OutputAccounted /\ LastFits
  BY DEF OutputInv
<1>a. /\ Chunk \in Nat /\ Pre \in Nat /\ MaxBytes \in Nat /\ Rounds \in Nat
      /\ Quota \in Nat /\ Pre + Chunk <= Quota
  BY QuotaHolds
<1>b. Room \in Nat /\ sended <= ran /\ Coming \in Nat /\ Coming <= buffered
  BY <1>0, RoomLeft, ComingTyped
<1>1. CASE Writes
  <2>1. PICK n \in 1 .. MaxBytes - written : written' = written + n /\ buffered' = buffered + n
    BY <1>1 DEF Writes
  <2>2. UNCHANGED <<pc, rpc, output, sended, droped, round>>
    BY <1>1 DEF Writes, run
  <2>3. DropsJustified'
    <3>1. buffered \in Nat /\ buffered' \in Nat /\ buffered' >= buffered
      BY <1>0, <1>a, <2>1 DEF OutputNumbers
    <3>2. /\ Least(buffered, Chunk) \in Nat /\ Least(buffered', Chunk) \in Nat
          /\ Least(buffered', Chunk) >= Least(buffered, Chunk)
      BY <1>a, <3>1 DEF Least
    <3>3. \/ Coming = Least(buffered, Chunk) /\ Coming' = Least(buffered', Chunk)
          \/ Coming = buffered /\ Coming' = buffered'
          \/ Coming = 0 /\ Coming' = 0
      BY <2>2 DEF Coming
    <3>4. Coming' \in Nat /\ Coming' >= Coming
      BY <3>1, <3>2, <3>3
    <3>5. output \in Nat /\ output' = output
      BY <1>0, <2>2 DEF OutputNumbers
    <3>6. /\ output + Coming \in Nat /\ (output + Coming)' \in Nat
          /\ (output + Coming)' >= output + Coming
      BY <1>b, <3>4, <3>5, SumsGrow
    <3>7. Room' = Room
      BY <2>2 DEF Room, Quota
    <3> QED
      BY <1>0, <1>b, <2>2, <3>6, <3>7, DropsStay
  <2>4. OutputFlags'
    BY <1>0, <1>1 DEF Writes, run, OutputFlags
  <2>5. OutputPlaces' /\ ReaderWaits'
    BY <1>0, <1>1 DEF Writes, run, OutputPlaces, ReaderWaits, Ended
  <2>6. OutputNumbers' /\ LastTyped'
    BY <1>0, <1>a, <1>1 DEF Writes, run, OutputNumbers, OutputAssumption, SentCounted,
         ReadCounted, Least, Drops, Room, Quota, LastTyped, Ends, NoReport, Text
  <2>7. SentCounted' /\ ReadCounted'
    BY <1>0, <1>a, <1>1 DEF Writes, run, SentCounted, ReaderWaits, OutputPlaces,
         OutputNumbers, OutputAssumption, Least, Ended, ReadCounted
  <2>8. OutputAccounted' /\ LastFits'
    BY <1>0, <1>a, <1>1 DEF Writes, run, OutputAccounted, ReaderWaits, ReadCounted,
         SentCounted, OutputNumbers, LastFits
  <2> QED
    BY <2>3, <2>4, <2>5, <2>6, <2>7, <2>8 DEF OutputInv
<1>2. CASE CommandExits
  <2>1. OutputFlags'
    BY <1>0, <1>2 DEF CommandExits, run, bytes, OutputFlags
  <2>2. OutputPlaces' /\ ReaderWaits'
    BY <1>0, <1>2 DEF CommandExits, run, bytes, OutputPlaces, ReaderWaits, Ended
  <2>3. OutputNumbers' /\ LastTyped'
    BY <1>0, <1>a, <1>2 DEF CommandExits, run, bytes, OutputNumbers, OutputAssumption,
         SentCounted, ReadCounted, Least, Drops, Room, Quota, LastTyped, Ends, NoReport,
         Text
  <2>4. SentCounted' /\ ReadCounted'
    BY <1>0, <1>a, <1>2 DEF CommandExits, run, bytes, SentCounted, ReaderWaits,
         OutputPlaces, OutputNumbers, OutputAssumption, Least, Ended, ReadCounted
  <2>5. DropsJustified'
    BY <1>0, <1>a, <1>2 DEF CommandExits, run, bytes, DropsJustified, ReaderWaits,
         OutputNumbers, OutputPlaces, Least, Room, Coming, Quota, Drops, SentCounted
  <2>6. OutputAccounted' /\ LastFits'
    BY <1>0, <1>a, <1>2 DEF CommandExits, run, bytes, OutputAccounted, ReaderWaits,
         ReadCounted, SentCounted, OutputNumbers, LastFits
  <2> QED
    BY <2>1, <2>2, <2>3, <2>4, <2>5, <2>6 DEF OutputInv
<1>3. CASE RunStarts
  <2>1. OutputFlags'
    BY <1>0, <1>3 DEF RunStarts, bytes, OutputFlags
  <2>2. OutputPlaces' /\ ReaderWaits'
    BY <1>0, <1>3 DEF RunStarts, bytes, OutputPlaces, ReaderWaits, Ended
  <2>3. OutputNumbers' /\ LastTyped'
    BY <1>0, <1>a, <1>3 DEF RunStarts, bytes, OutputNumbers, OutputAssumption,
         SentCounted, ReadCounted, Least, Drops, Room, Quota, LastTyped, Ends, NoReport,
         Text
  <2>4. SentCounted' /\ ReadCounted'
    BY <1>0, <1>a, <1>3 DEF RunStarts, bytes, SentCounted, ReaderWaits, OutputPlaces,
         OutputNumbers, OutputAssumption, Least, Ended, ReadCounted
  <2>5. DropsJustified'
    BY <1>0, <1>a, <1>3 DEF RunStarts, bytes, DropsJustified, ReaderWaits,
         OutputNumbers, OutputPlaces, Least, Room, Coming, Quota, Drops, SentCounted
  <2>6. OutputAccounted' /\ LastFits'
    BY <1>0, <1>a, <1>3 DEF RunStarts, bytes, OutputAccounted, ReaderWaits, ReadCounted,
         SentCounted, OutputNumbers, LastFits
  <2> QED
    BY <2>1, <2>2, <2>3, <2>4, <2>5, <2>6 DEF OutputInv
<1>4. CASE SyncRunReturns
  <2>1. OutputFlags'
    BY <1>0, <1>4 DEF SyncRunReturns, bytes, OutputFlags
  <2>2. OutputPlaces' /\ ReaderWaits'
    BY <1>0, <1>4 DEF SyncRunReturns, bytes, OutputPlaces, ReaderWaits, Ended
  <2>3. OutputNumbers' /\ LastTyped'
    BY <1>0, <1>a, <1>4 DEF SyncRunReturns, bytes, OutputNumbers, OutputAssumption,
         SentCounted, ReadCounted, Least, Drops, Room, Quota, LastTyped, Ends, NoReport,
         Text
  <2>4. SentCounted' /\ ReadCounted'
    BY <1>0, <1>a, <1>4 DEF SyncRunReturns, bytes, SentCounted, ReaderWaits,
         OutputPlaces, OutputNumbers, OutputAssumption, Least, Ended, ReadCounted
  <2>5. DropsJustified'
    BY <1>0, <1>a, <1>4 DEF SyncRunReturns, bytes, DropsJustified, ReaderWaits,
         OutputNumbers, OutputPlaces, Least, Room, Coming, Quota, Drops, SentCounted
  <2>6. OutputAccounted' /\ LastFits'
    BY <1>0, <1>a, <1>4 DEF SyncRunReturns, bytes, OutputAccounted, ReaderWaits,
         ReadCounted, SentCounted, OutputNumbers, LastFits
  <2> QED
    BY <2>1, <2>2, <2>3, <2>4, <2>5, <2>6 DEF OutputInv
<1>5. CASE StopsSending
  <2>1. OutputFlags'
    BY <1>0, <1>5 DEF StopsSending, bytes, OutputFlags
  <2>2. OutputPlaces' /\ ReaderWaits'
    BY <1>0, <1>5 DEF StopsSending, bytes, OutputPlaces, ReaderWaits, Ended
  <2>3. OutputNumbers' /\ LastTyped'
    BY <1>0, <1>a, <1>5 DEF StopsSending, bytes, OutputNumbers, OutputAssumption,
         SentCounted, ReadCounted, Least, Drops, Room, Quota, LastTyped, Ends, NoReport,
         Text
  <2>4. SentCounted' /\ ReadCounted'
    BY <1>0, <1>a, <1>5 DEF StopsSending, bytes, SentCounted, ReaderWaits, OutputPlaces,
         OutputNumbers, OutputAssumption, Least, Ended, ReadCounted
  <2>5. DropsJustified'
    BY <1>0, <1>a, <1>5 DEF StopsSending, bytes, DropsJustified, ReaderWaits,
         OutputNumbers, OutputPlaces, Least, Room, Coming, Quota, Drops, SentCounted
  <2>6. OutputAccounted' /\ LastFits'
    BY <1>0, <1>a, <1>5 DEF StopsSending, bytes, OutputAccounted, ReaderWaits,
         ReadCounted, SentCounted, OutputNumbers, LastFits
  <2> QED
    BY <2>1, <2>2, <2>3, <2>4, <2>5, <2>6 DEF OutputInv
<1>6. CASE Waits
  <2>1. DropsJustified'
    <3>1. Coming = 0 /\ Coming' = buffered
      BY <1>0, <1>6 DEF Waits, bytes, Coming
    <3> QED
      BY <1>0, <1>a, <1>b, <1>6, <3>1 DEF Waits, bytes, DropsJustified, OutputNumbers, Room
  <2>2. OutputFlags'
    BY <1>0, <1>6 DEF Waits, bytes, OutputFlags
  <2>3. OutputPlaces' /\ ReaderWaits'
    BY <1>0, <1>6 DEF Waits, bytes, OutputPlaces, ReaderWaits, Ended
  <2>4. OutputNumbers' /\ LastTyped'
    BY <1>0, <1>a, <1>6 DEF Waits, bytes, OutputNumbers, OutputAssumption, SentCounted,
         ReadCounted, Least, Drops, Room, Quota, LastTyped, Ends, NoReport, Text
  <2>5. SentCounted' /\ ReadCounted'
    BY <1>0, <1>a, <1>6 DEF Waits, bytes, SentCounted, ReaderWaits, OutputPlaces,
         OutputNumbers, OutputAssumption, Least, Ended, ReadCounted
  <2>6. OutputAccounted' /\ LastFits'
    BY <1>0, <1>a, <1>6 DEF Waits, bytes, OutputAccounted, ReaderWaits, ReadCounted,
         SentCounted, OutputNumbers, LastFits
  <2> QED
    BY <2>1, <2>2, <2>3, <2>4, <2>5, <2>6 DEF OutputInv
<1>7. CASE ReadsAll
  <2>1. DropsJustified'
    <3>1. Coming = buffered /\ Coming' = 0
      BY <1>0, <1>7 DEF ReadsAll, Coming, ReaderWaits, Ended
    <3> QED
      BY <1>0, <1>a, <1>b, <1>7, <3>1 DEF ReadsAll, DropsJustified, OutputNumbers, Room
  <2>2. OutputFlags'
    BY <1>0, <1>7 DEF ReadsAll, bytes, OutputFlags
  <2>3. OutputPlaces' /\ ReaderWaits'
    BY <1>0, <1>7 DEF ReadsAll, bytes, OutputPlaces, ReaderWaits, Ended
  <2>4. OutputNumbers' /\ LastTyped'
    BY <1>0, <1>a, <1>7 DEF ReadsAll, bytes, OutputNumbers, OutputAssumption,
         SentCounted, ReadCounted, Least, Drops, Room, Quota, LastTyped, Ends, NoReport,
         Text
  <2>5. SentCounted' /\ ReadCounted'
    BY <1>0, <1>a, <1>7 DEF ReadsAll, bytes, SentCounted, ReaderWaits, OutputPlaces,
         OutputNumbers, OutputAssumption, Least, Ended, ReadCounted
  <2>6. OutputAccounted' /\ LastFits'
    BY <1>0, <1>a, <1>7 DEF ReadsAll, bytes, OutputAccounted, ReaderWaits, ReadCounted,
         SentCounted, OutputNumbers, LastFits
  <2> QED
    BY <2>1, <2>2, <2>3, <2>4, <2>5, <2>6 DEF OutputInv
<1>8. CASE Decides
  <2>1. OutputFlags'
    BY <1>0, <1>8 DEF Decides, bytes, OutputFlags
  <2>2. OutputPlaces' /\ ReaderWaits'
    BY <1>0, <1>8 DEF Decides, bytes, OutputPlaces, ReaderWaits, Ended
  <2>3. OutputNumbers' /\ LastTyped'
    BY <1>0, <1>a, <1>8 DEF Decides, bytes, OutputNumbers, OutputAssumption,
         SentCounted, ReadCounted, Least, Drops, Room, Quota, LastTyped, Ends, NoReport,
         Text
  <2>4. SentCounted' /\ ReadCounted'
    BY <1>0, <1>a, <1>8 DEF Decides, bytes, SentCounted, ReaderWaits, OutputPlaces,
         OutputNumbers, OutputAssumption, Least, Ended, ReadCounted
  <2>5. DropsJustified'
    BY <1>0, <1>a, <1>8 DEF Decides, bytes, DropsJustified, ReaderWaits, OutputNumbers,
         OutputPlaces, Least, Room, Coming, Quota, Drops, SentCounted
  <2>6. OutputAccounted' /\ LastFits'
    BY <1>0, <1>a, <1>8 DEF Decides, bytes, OutputAccounted, ReaderWaits, ReadCounted,
         SentCounted, OutputNumbers, LastFits
  <2> QED
    BY <2>1, <2>2, <2>3, <2>4, <2>5, <2>6 DEF OutputInv
<1>9. CASE ReportsEnd
  <2>1. /\ rpc = "closed" /\ ran = sended /\ Coming = 0 /\ ran + output + buffered = written
    BY <1>0, <1>9 DEF ReportsEnd, ReaderWaits, Ended, SentCounted, ReadCounted, Coming
  <2>2. /\ Text(output) \in Nat /\ Text(output) <= output /\ Text(output) <= Room
        /\ \/ Drops(output) = droped /\ Text(output) = output
           \/ Drops(output) = output - Room /\ output > Room /\ Text(output) = Room
    BY <1>0, <1>b, ReportOf DEF OutputNumbers
  <2>3. /\ droped' = Drops(output) /\ final'.text = Text(output) /\ final'.dropped = Drops(output)
        /\ final'.kind \in Ends
        /\ final' = [kind |-> final'.kind, text |-> Text(output), dropped |-> Drops(output)]
    BY <1>9 DEF ReportsEnd, Ends
  <2>4. UNCHANGED <<written, buffered, output, ran, sended, round, chunk>>
    BY <1>9 DEF ReportsEnd
  <2>5. OutputNumbers'
    BY <1>0, <1>a, <1>b, <2>1, <2>2, <2>3, <2>4 DEF OutputNumbers
  <2>6. LastTyped'
    BY <1>0, <1>a, <2>5, <2>1, <2>2, <2>3 DEF LastTyped, OutputNumbers
  <2>7. OutputAccounted'
    <3>1. round = 1 => droped = 0 \/ output > Room
      BY <1>0, <1>9, <2>1 DEF ReportsEnd, DropsJustified, OutputNumbers
    <3> QED
      BY <1>0, <1>b, <2>1, <2>2, <2>3, <2>4, <3>1 DEF OutputAccounted, OutputNumbers
  <2>8. LastFits'
    BY <1>0, <1>a, <1>b, <2>1, <2>2, <2>3, <2>4 DEF LastFits, OutputNumbers, Room
  <2>9. OutputFlags'
    BY <1>0, <1>9 DEF ReportsEnd, bytes, OutputFlags
  <2>10. OutputPlaces' /\ ReaderWaits'
    BY <1>0, <1>9 DEF ReportsEnd, bytes, OutputPlaces, ReaderWaits, Ended
  <2>11. SentCounted' /\ ReadCounted'
    BY <1>0, <1>a, <1>9 DEF ReportsEnd, bytes, SentCounted, ReaderWaits, OutputPlaces,
         OutputNumbers, OutputAssumption, Least, Ended, ReadCounted
  <2>12. DropsJustified'
    BY <1>0, <1>a, <1>9 DEF ReportsEnd, bytes, DropsJustified, ReaderWaits,
         OutputNumbers, OutputPlaces, Least, Room, Coming, Quota, Drops, SentCounted
  <2> QED
    BY <2>5, <2>6, <2>7, <2>8, <2>9, <2>10, <2>11, <2>12 DEF OutputInv
<1>10. CASE Cleans
  <2>1. OutputFlags'
    BY <1>0, <1>10 DEF Cleans, bytes, OutputFlags
  <2>2. OutputPlaces' /\ ReaderWaits'
    BY <1>0, <1>10 DEF Cleans, bytes, OutputPlaces, ReaderWaits, Ended
  <2>3. OutputNumbers' /\ LastTyped'
    BY <1>0, <1>a, <1>10 DEF Cleans, bytes, OutputNumbers, OutputAssumption,
         SentCounted, ReadCounted, Least, Drops, Room, Quota, LastTyped, Ends, NoReport,
         Text
  <2>4. SentCounted' /\ ReadCounted'
    BY <1>0, <1>a, <1>10 DEF Cleans, bytes, SentCounted, ReaderWaits, OutputPlaces,
         OutputNumbers, OutputAssumption, Least, Ended, ReadCounted
  <2>5. DropsJustified'
    BY <1>0, <1>a, <1>10 DEF Cleans, bytes, DropsJustified, ReaderWaits, OutputNumbers,
         OutputPlaces, Least, Room, Coming, Quota, Drops, SentCounted
  <2>6. OutputAccounted' /\ LastFits'
    BY <1>0, <1>a, <1>10 DEF Cleans, bytes, OutputAccounted, ReaderWaits, ReadCounted,
         SentCounted, OutputNumbers, LastFits
  <2> QED
    BY <2>1, <2>2, <2>3, <2>4, <2>5, <2>6 DEF OutputInv
<1>11. CASE Again
  <2>1. OutputFlags'
    BY <1>0, <1>11 DEF Again, bytes, OutputFlags
  <2>2. OutputPlaces' /\ ReaderWaits'
    BY <1>0, <1>11 DEF Again, bytes, OutputPlaces, ReaderWaits, Ended
  <2>3. OutputNumbers' /\ LastTyped'
    BY <1>0, <1>a, <1>11 DEF Again, bytes, OutputNumbers, OutputAssumption, SentCounted,
         ReadCounted, Least, Drops, Room, Quota, LastTyped, Ends, NoReport, Text
  <2>4. SentCounted' /\ ReadCounted'
    BY <1>0, <1>a, <1>11 DEF Again, bytes, SentCounted, ReaderWaits, OutputPlaces,
         OutputNumbers, OutputAssumption, Least, Ended, ReadCounted
  <2>5. DropsJustified'
    BY <1>0, <1>a, <1>11 DEF Again, bytes, DropsJustified, ReaderWaits, OutputNumbers,
         OutputPlaces, Least, Room, Coming, Quota, Drops, SentCounted
  <2>6. OutputAccounted' /\ LastFits'
    BY <1>0, <1>a, <1>11 DEF Again, bytes, OutputAccounted, ReaderWaits, ReadCounted,
         SentCounted, OutputNumbers, LastFits
  <2> QED
    BY <2>1, <2>2, <2>3, <2>4, <2>5, <2>6 DEF OutputInv
<1>12. CASE Begin
  <2>1. OutputFlags'
    BY <1>0, <1>12 DEF Begin, Unchanged, run, OutputFlags
  <2>2. OutputPlaces' /\ ReaderWaits'
    BY <1>0, <1>12 DEF Begin, Unchanged, run, OutputPlaces, ReaderWaits, Ended
  <2>3. OutputNumbers' /\ LastTyped'
    BY <1>0, <1>a, <1>12 DEF Begin, Unchanged, run, OutputNumbers, OutputAssumption,
         SentCounted, ReadCounted, Least, Drops, Room, Quota, LastTyped, Ends, NoReport,
         Text
  <2>4. SentCounted' /\ ReadCounted'
    BY <1>0, <1>a, <1>12 DEF Begin, Unchanged, run, SentCounted, ReaderWaits,
         OutputPlaces, OutputNumbers, OutputAssumption, Least, Ended, ReadCounted
  <2>5. DropsJustified'
    BY <1>0, <1>a, <1>12 DEF Begin, Unchanged, run, DropsJustified, ReaderWaits,
         OutputNumbers, OutputPlaces, Least, Room, Coming, Quota, Drops, SentCounted
  <2>6. OutputAccounted' /\ LastFits'
    BY <1>0, <1>a, <1>12 DEF Begin, Unchanged, run, OutputAccounted, ReaderWaits,
         ReadCounted, SentCounted, OutputNumbers, LastFits
  <2> QED
    BY <2>1, <2>2, <2>3, <2>4, <2>5, <2>6 DEF OutputInv
<1>13. CASE Loop
  <2>1. OutputFlags'
    BY <1>0, <1>13 DEF Loop, Unchanged, run, OutputFlags
  <2>2. OutputPlaces' /\ ReaderWaits'
    BY <1>0, <1>13 DEF Loop, Unchanged, run, OutputPlaces, ReaderWaits, Ended
  <2>3. OutputNumbers' /\ LastTyped'
    BY <1>0, <1>a, <1>13 DEF Loop, Unchanged, run, OutputNumbers, OutputAssumption,
         SentCounted, ReadCounted, Least, Drops, Room, Quota, LastTyped, Ends, NoReport,
         Text
  <2>4. SentCounted' /\ ReadCounted'
    BY <1>0, <1>a, <1>13 DEF Loop, Unchanged, run, SentCounted, ReaderWaits,
         OutputPlaces, OutputNumbers, OutputAssumption, Least, Ended, ReadCounted
  <2>5. DropsJustified'
    BY <1>0, <1>a, <1>13 DEF Loop, Unchanged, run, DropsJustified, ReaderWaits,
         OutputNumbers, OutputPlaces, Least, Room, Coming, Quota, Drops, SentCounted
  <2>6. OutputAccounted' /\ LastFits'
    BY <1>0, <1>a, <1>13 DEF Loop, Unchanged, run, OutputAccounted, ReaderWaits,
         ReadCounted, SentCounted, OutputNumbers, LastFits
  <2> QED
    BY <2>1, <2>2, <2>3, <2>4, <2>5, <2>6 DEF OutputInv
<1>14. CASE Ticks
  <2>1. /\ rpc = "select" /\ ran = sended /\ chunk = 0 /\ final = NoReport
        /\ UNCHANGED <<pc, written, output, sended, droped, final, round, periodic>>
    BY <1>0, <1>14 DEF Ticks, Unchanged, run, SentCounted, ReaderWaits, Ended
  <2>2. /\ Least(buffered, Chunk) \in Nat
        /\ Least(buffered, Chunk) <= buffered /\ Least(buffered, Chunk) <= Chunk
    BY <1>0, <1>a, LeastBelow DEF OutputNumbers
  <2>3. \/ sended > Pre /\ rpc' = "append" /\ UNCHANGED <<buffered, ran, chunk>>
        \/ /\ sended <= Pre /\ rpc' = "post" /\ chunk' = Least(buffered, Chunk)
           /\ buffered' = buffered - Least(buffered, Chunk) /\ ran' = ran + Least(buffered, Chunk)
    BY <1>0, <1>a, <1>14 DEF Ticks, OutputNumbers
  <2>4. SentCounted'
    BY <1>0, <1>a, <2>1, <2>2, <2>3 DEF SentCounted, OutputNumbers
  <2>5. DropsJustified'
    <3>1. Coming = 0 /\ Coming' \in Nat
      BY <1>0, <2>1, <2>2, <2>3, <1>14 DEF Ticks, Coming, ReaderWaits, Ended
    <3> QED
      BY <1>0, <1>b, <2>1, <3>1 DEF DropsJustified, Room, OutputNumbers
  <2>6. OutputAccounted' /\ LastFits'
    BY <2>1 DEF OutputAccounted, LastFits
  <2>7. OutputFlags'
    BY <1>0, <1>14 DEF Ticks, Unchanged, run, OutputFlags
  <2>8. OutputPlaces' /\ ReaderWaits'
    BY <1>0, <1>14 DEF Ticks, Unchanged, run, OutputPlaces, ReaderWaits, Ended
  <2>9. OutputNumbers' /\ LastTyped'
    BY <1>0, <1>a, <1>14 DEF Ticks, Unchanged, run, OutputNumbers, OutputAssumption,
         SentCounted, ReadCounted, Least, Drops, Room, Quota, LastTyped, Ends, NoReport,
         Text
  <2>10. ReadCounted'
    BY <1>0, <1>a, <1>14 DEF Ticks, Unchanged, run, ReadCounted, SentCounted,
         OutputNumbers, OutputAssumption, Least, OutputPlaces
  <2> QED
    BY <2>4, <2>5, <2>6, <2>7, <2>8, <2>9, <2>10 DEF OutputInv
<1>15. CASE Appends
  <2>1. /\ rpc = "append" /\ ran = sended /\ chunk = 0 /\ final = NoReport /\ rpc' = "post"
        /\ Coming = Least(buffered, Chunk) /\ Coming' = 0 /\ chunk' = 0
        /\ UNCHANGED <<pc, written, ran, sended, droped, final, round, periodic>>
    BY <1>0, <1>15 DEF Appends, Unchanged, run, SentCounted, ReaderWaits, Ended, Coming
  <2>2. output' = output + Coming /\ buffered' = buffered - Coming
    BY <1>15, <2>1 DEF Appends
  <2>3. ReadCounted'
    BY <1>0, <1>b, <2>1, <2>2 DEF ReadCounted, ReaderWaits, OutputNumbers, Ended
  <2>4. DropsJustified'
    BY <1>0, <1>b, <2>1, <2>2 DEF DropsJustified, Room, OutputNumbers
  <2>5. OutputAccounted' /\ LastFits'
    BY <2>1 DEF OutputAccounted, LastFits
  <2>6. OutputFlags'
    BY <1>0, <1>15 DEF Appends, Unchanged, run, OutputFlags
  <2>7. OutputPlaces' /\ ReaderWaits'
    BY <1>0, <1>15 DEF Appends, Unchanged, run, OutputPlaces, ReaderWaits, Ended
  <2>8. OutputNumbers' /\ LastTyped'
    BY <1>0, <1>a, <1>15 DEF Appends, Unchanged, run, OutputNumbers, OutputAssumption,
         SentCounted, ReadCounted, Least, Drops, Room, Quota, LastTyped, Ends, NoReport,
         Text
  <2>9. SentCounted'
    BY <1>0, <1>a, <1>15 DEF Appends, Unchanged, run, SentCounted, ReaderWaits,
         OutputPlaces, OutputNumbers, OutputAssumption, Least, Ended
  <2> QED
    BY <2>3, <2>4, <2>5, <2>6, <2>7, <2>8, <2>9 DEF OutputInv
<1>16. CASE Posts
  <2>1. OutputFlags'
    BY <1>0, <1>16 DEF Posts, Unchanged, run, OutputFlags
  <2>2. OutputPlaces' /\ ReaderWaits'
    BY <1>0, <1>16 DEF Posts, Unchanged, run, OutputPlaces, ReaderWaits, Ended
  <2>3. OutputNumbers' /\ LastTyped'
    BY <1>0, <1>a, <1>16 DEF Posts, Unchanged, run, OutputNumbers, OutputAssumption,
         SentCounted, ReadCounted, Least, Drops, Room, Quota, LastTyped, Ends, NoReport,
         Text
  <2>4. SentCounted' /\ ReadCounted'
    BY <1>0, <1>a, <1>16 DEF Posts, Unchanged, run, SentCounted, ReaderWaits,
         OutputPlaces, OutputNumbers, OutputAssumption, Least, Ended, ReadCounted
  <2>5. DropsJustified'
    BY <1>0, <1>a, <1>16 DEF Posts, Unchanged, run, DropsJustified, ReaderWaits,
         OutputNumbers, OutputPlaces, Least, Room, Coming, Quota, Drops, SentCounted
  <2>6. OutputAccounted' /\ LastFits'
    BY <1>0, <1>a, <1>16 DEF Posts, Unchanged, run, OutputAccounted, ReaderWaits,
         ReadCounted, SentCounted, OutputNumbers, LastFits
  <2> QED
    BY <2>1, <2>2, <2>3, <2>4, <2>5, <2>6 DEF OutputInv
<1>17. CASE Adds
  <2>1. DropsJustified'
    <3>1. /\ Coming = 0 /\ Coming' = 0 /\ sended' = sended + chunk
          /\ UNCHANGED <<pc, output, droped, round>>
      BY <1>0, <1>17 DEF Adds, Unchanged, run, ReaderWaits, Ended, Coming
    <3> QED
      BY <1>0, <1>a, <1>b, <3>1 DEF DropsJustified, Room, OutputNumbers
  <2>2. OutputFlags'
    BY <1>0, <1>17 DEF Adds, Unchanged, run, OutputFlags
  <2>3. OutputPlaces' /\ ReaderWaits'
    BY <1>0, <1>17 DEF Adds, Unchanged, run, OutputPlaces, ReaderWaits, Ended
  <2>4. OutputNumbers' /\ LastTyped'
    BY <1>0, <1>a, <1>17 DEF Adds, Unchanged, run, OutputNumbers, OutputAssumption,
         SentCounted, ReadCounted, Least, Drops, Room, Quota, LastTyped, Ends, NoReport,
         Text
  <2>5. SentCounted' /\ ReadCounted'
    BY <1>0, <1>a, <1>17 DEF Adds, Unchanged, run, SentCounted, ReaderWaits,
         OutputPlaces, OutputNumbers, OutputAssumption, Least, Ended, ReadCounted
  <2>6. OutputAccounted' /\ LastFits'
    BY <1>0, <1>a, <1>17 DEF Adds, Unchanged, run, OutputAccounted, ReaderWaits,
         ReadCounted, SentCounted, OutputNumbers, LastFits
  <2> QED
    BY <2>1, <2>2, <2>3, <2>4, <2>5, <2>6 DEF OutputInv
<1>18. CASE CancelBegins
  <2>1. OutputFlags'
    BY <1>0, <1>18 DEF CancelBegins, run, bytes, OutputFlags
  <2>2. OutputPlaces' /\ ReaderWaits'
    BY <1>0, <1>18 DEF CancelBegins, run, bytes, OutputPlaces, ReaderWaits, Ended
  <2>3. OutputNumbers' /\ LastTyped'
    BY <1>0, <1>a, <1>18 DEF CancelBegins, run, bytes, OutputNumbers, OutputAssumption,
         SentCounted, ReadCounted, Least, Drops, Room, Quota, LastTyped, Ends, NoReport,
         Text
  <2>4. SentCounted' /\ ReadCounted'
    BY <1>0, <1>a, <1>18 DEF CancelBegins, run, bytes, SentCounted, ReaderWaits,
         OutputPlaces, OutputNumbers, OutputAssumption, Least, Ended, ReadCounted
  <2>5. DropsJustified'
    BY <1>0, <1>a, <1>18 DEF CancelBegins, run, bytes, DropsJustified, ReaderWaits,
         OutputNumbers, OutputPlaces, Least, Room, Coming, Quota, Drops, SentCounted
  <2>6. OutputAccounted' /\ LastFits'
    BY <1>0, <1>a, <1>18 DEF CancelBegins, run, bytes, OutputAccounted, ReaderWaits,
         ReadCounted, SentCounted, OutputNumbers, LastFits
  <2> QED
    BY <2>1, <2>2, <2>3, <2>4, <2>5, <2>6 DEF OutputInv
<1>19. CASE CancelReads
  <2>1. PICK n \in Nat : n <= output + Coming /\ droped' = Drops(n)
    BY <1>0, <1>a, <1>19, LeastBelow DEF CancelReads, OutputNumbers, Coming, ReaderWaits, Ended
  <2>2. UNCHANGED <<pc, rpc, written, buffered, output, sended, ran, chunk, round>>
    BY <1>19 DEF CancelReads, run
  <2>3. \/ Drops(n) = droped
        \/ Drops(n) = n - Room /\ n > Room
    BY <1>0, <1>b, ReportOf
  <2>4. OutputNumbers'
    BY <1>0, <1>a, <1>b, <2>1, <2>2, <2>3 DEF OutputNumbers, ReadCounted
  <2>5. DropsJustified'
    <3>1. Coming' = Coming /\ Room' = Room
      BY <2>2 DEF Coming, Room
    <3> QED
      BY <1>0, <1>b, <2>1, <2>2, <2>3, <3>1 DEF DropsJustified, OutputNumbers
  <2>6. OutputFlags'
    BY <1>0, <1>19 DEF CancelReads, run, bytes, OutputFlags
  <2>7. OutputPlaces' /\ ReaderWaits'
    BY <1>0, <1>19 DEF CancelReads, run, bytes, OutputPlaces, ReaderWaits, Ended
  <2>8. LastTyped'
    BY <1>0, <1>a, <1>19 DEF CancelReads, run, bytes, LastTyped, OutputNumbers, Ends,
         NoReport, Text, Drops, Least, Room
  <2>9. SentCounted' /\ ReadCounted'
    BY <1>0, <1>a, <1>19 DEF CancelReads, run, bytes, SentCounted, ReaderWaits,
         OutputPlaces, OutputNumbers, OutputAssumption, Least, Ended, ReadCounted
  <2>10. OutputAccounted' /\ LastFits'
    BY <1>0, <1>a, <1>19 DEF CancelReads, run, bytes, OutputAccounted, ReaderWaits,
         ReadCounted, SentCounted, OutputNumbers, LastFits
  <2> QED
    BY <2>4, <2>5, <2>6, <2>7, <2>8, <2>9, <2>10 DEF OutputInv
<1>20. CASE CancelPosts
  <2>1. OutputFlags'
    BY <1>0, <1>20 DEF CancelPosts, run, bytes, OutputFlags
  <2>2. OutputPlaces' /\ ReaderWaits'
    BY <1>0, <1>20 DEF CancelPosts, run, bytes, OutputPlaces, ReaderWaits, Ended
  <2>3. OutputNumbers' /\ LastTyped'
    BY <1>0, <1>a, <1>20 DEF CancelPosts, run, bytes, OutputNumbers, OutputAssumption,
         SentCounted, ReadCounted, Least, Drops, Room, Quota, LastTyped, Ends, NoReport,
         Text
  <2>4. SentCounted' /\ ReadCounted'
    BY <1>0, <1>a, <1>20 DEF CancelPosts, run, bytes, SentCounted, ReaderWaits,
         OutputPlaces, OutputNumbers, OutputAssumption, Least, Ended, ReadCounted
  <2>5. DropsJustified'
    BY <1>0, <1>a, <1>20 DEF CancelPosts, run, bytes, DropsJustified, ReaderWaits,
         OutputNumbers, OutputPlaces, Least, Room, Coming, Quota, Drops, SentCounted
  <2>6. OutputAccounted' /\ LastFits'
    BY <1>0, <1>a, <1>20 DEF CancelPosts, run, bytes, OutputAccounted, ReaderWaits,
         ReadCounted, SentCounted, OutputNumbers, LastFits
  <2> QED
    BY <2>1, <2>2, <2>3, <2>4, <2>5, <2>6 DEF OutputInv
<1>21. CASE CancelKills
  <2>1. OutputFlags'
    BY <1>0, <1>21 DEF CancelKills, run, bytes, OutputFlags
  <2>2. OutputPlaces' /\ ReaderWaits'
    BY <1>0, <1>21 DEF CancelKills, run, bytes, OutputPlaces, ReaderWaits, Ended
  <2>3. OutputNumbers' /\ LastTyped'
    BY <1>0, <1>a, <1>21 DEF CancelKills, run, bytes, OutputNumbers, OutputAssumption,
         SentCounted, ReadCounted, Least, Drops, Room, Quota, LastTyped, Ends, NoReport,
         Text
  <2>4. SentCounted' /\ ReadCounted'
    BY <1>0, <1>a, <1>21 DEF CancelKills, run, bytes, SentCounted, ReaderWaits,
         OutputPlaces, OutputNumbers, OutputAssumption, Least, Ended, ReadCounted
  <2>5. DropsJustified'
    BY <1>0, <1>a, <1>21 DEF CancelKills, run, bytes, DropsJustified, ReaderWaits,
         OutputNumbers, OutputPlaces, Least, Room, Coming, Quota, Drops, SentCounted
  <2>6. OutputAccounted' /\ LastFits'
    BY <1>0, <1>a, <1>21 DEF CancelKills, run, bytes, OutputAccounted, ReaderWaits,
         ReadCounted, SentCounted, OutputNumbers, LastFits
  <2> QED
    BY <2>1, <2>2, <2>3, <2>4, <2>5, <2>6 DEF OutputInv
<1>22. CASE UNCHANGED outputVars
  BY <1>0, <1>22 DEF outputVars, run, bytes, OutputInv, OutputFlags, OutputPlaces,
       OutputNumbers, OutputAssumption, SentCounted, ReadCounted, Least, Drops, Room,
       Quota, LastTyped, Ends, NoReport, Text, ReaderWaits, Ended, DropsJustified, Coming,
       OutputAccounted, LastFits
<1> QED
  BY <1>1, <1>2, <1>3, <1>4, <1>5, <1>6, <1>7, <1>8, <1>9, <1>10, <1>11, <1>12, <1>13,
       <1>14, <1>15, <1>16, <1>17, <1>18, <1>19, <1>20, <1>21, <1>22 DEF OutputNext,
       RunSteps, Reporter, Cancel

LEMMA OutputInits == OutputAssumption /\ OutputInit => OutputInv
<1> SUFFICES ASSUME OutputAssumption, OutputInit PROVE OutputInv
  OBVIOUS
<1>1. OutputFlags /\ OutputPlaces /\ ReaderWaits
  BY DEF OutputAssumption, OutputInit, OutputFlags, OutputPlaces, ReaderWaits, Ended
<1>2. OutputNumbers /\ SentCounted /\ ReadCounted
  BY QuotaHolds DEF OutputAssumption, OutputInit, OutputNumbers, SentCounted, ReadCounted
<1>3. LastTyped /\ DropsJustified /\ OutputAccounted /\ LastFits
  BY DEF OutputInit, LastTyped, DropsJustified, OutputAccounted, LastFits
<1> QED
  BY <1>1, <1>2, <1>3 DEF OutputInv

\* The types of the output of a task: no count passes what the command wrote, though
\* three goroutines move bytes and count them.
THEOREM OutputTypesHold == ASSUME OutputAssumption PROVE OutputSpec => []OutputTypeOK
<1>1. OutputInv => OutputTypeOK
  <2> SUFFICES ASSUME OutputInv PROVE OutputTypeOK
    OBVIOUS
  <2>0. /\ OutputFlags /\ OutputPlaces /\ OutputNumbers /\ LastTyped
        /\ SentCounted /\ ReadCounted
    BY DEF OutputInv
  <2>1. sended <= ran
    BY <2>0, RoomLeft
  <2>2. /\ written \in 0 .. MaxBytes /\ buffered \in 0 .. MaxBytes /\ output \in 0 .. MaxBytes
        /\ sended \in 0 .. MaxBytes /\ droped \in 0 .. MaxBytes /\ ran \in 0 .. MaxBytes
    BY <2>0, <2>1, QuotaHolds DEF OutputNumbers, ReadCounted
  <2>3. {periodic, stop, canceled} \subseteq BOOLEAN
    BY <2>0 DEF OutputFlags
  <2> QED
    BY <2>0, <2>2, <2>3 DEF OutputPlaces, OutputNumbers, LastTyped, OutputTypeOK
<1> QED
  BY <1>1, OutputInits, OutputStep, PTL DEF OutputSpec

\* Every byte that Run read was reported while the command ran, or is in the last
\* report, or is counted there as dropped; the reports keep the quota; and none of a
\* running command follows the last, whatever Cancel counts meanwhile.
THEOREM OutputIsAccounted == ASSUME OutputAssumption PROVE OutputSpec => []EveryByteOnce
<1>1. OutputInv => EveryByteOnce
  <2> SUFFICES ASSUME OutputInv PROVE EveryByteOnce
    OBVIOUS
  <2>0. /\ OutputPlaces /\ OutputNumbers /\ ReaderWaits /\ SentCounted
        /\ OutputAccounted /\ LastFits
    BY DEF OutputInv
  <2>1. WithinQuota
    BY <2>0, RoomLeft DEF LastFits, WithinQuota
  <2>2. SilentAfterFinal
    BY <2>0 DEF ReaderWaits, SentCounted, Ended, SilentAfterFinal
  <2> QED
    BY <2>0, <2>1, <2>2 DEF EveryByteOnce
<1> QED
  BY <1>1, OutputInits, OutputStep, PTL DEF OutputSpec
=============================================================================
