------------------------------- MODULE Timer -------------------------------
(***************************************************************************)
(* One timer of the timer manager (agent/taskengine/timermanager): its     *)
(* goroutine, which waits and starts a goroutine per firing, the callback  *)
(* goroutines, which exclude each other through isRunning, and the channels*)
(* of capacity one through which it is refreshed, skipped and stopped.     *)
(*                                                                         *)
(* Time is relative: remain counts down the wait of time.NewTimer.         *)
(***************************************************************************)
EXTENDS Integers, FiniteSets

CONSTANTS Kind,       \* "mutable" for MutableScheduled, "cron" for the others
          Intervals,  \* the durations a schedule may return, in ticks
          Callbacks,  \* goroutines executing runTimer
          Stoppable,  \* whether somebody may call DeleteTimer
          Skippable,  \* whether somebody may call SkipWaiting
          Refreshes,  \* whether the callback ends with SetInterval, RefreshTimer
          Prompt      \* whether a goroutine started by a firing reaches
                      \* setRunning(true) before the timer fires again

TimerAssumption ==
    /\ Kind \in {"mutable", "cron"}
    /\ Intervals \subseteq Nat \ {0}
    /\ {Stoppable, Skippable, Refreshes, Prompt} \subseteq BOOLEAN

VARIABLES loop,       \* the goroutine of Run
          armed,      \* durationToWait
          remain,     \* what is left of it
          refresh, skip, quit,   \* an element is in the channel
          interval,   \* MutableScheduled.interval
          immediatelyDone,
          noNext,     \* CronScheduled.isNoNextRun
          isRunning,
          cbpc        \* where each callback goroutine is

chans == <<refresh, skip, quit>>
schedule == <<interval, immediatelyDone, noNext>>
wait == <<loop, armed, remain>>
vars == <<wait, chans, schedule, isRunning, cbpc>>

NoNextRun == -1
LoopStates == {"new", "compute", "select", "done"}
CbPlaces == {"idle", "check", "set", "run", "refresh", "reset"}

\* The type invariant.
TypeOK ==
    /\ loop \in LoopStates
    /\ armed \in Intervals \cup {0, NoNextRun}
    /\ remain \in Nat
    /\ refresh \in BOOLEAN /\ skip \in BOOLEAN /\ quit \in BOOLEAN
    /\ interval \in Intervals
    /\ immediatelyDone \in BOOLEAN /\ noNext \in BOOLEAN
    /\ isRunning \in BOOLEAN
    /\ cbpc \in [Callbacks -> CbPlaces]

Init ==
    /\ loop = "new" /\ armed = 0 /\ remain = 0
    /\ refresh = FALSE /\ skip = FALSE /\ quit = FALSE
    /\ interval \in Intervals
    /\ immediatelyDone \in BOOLEAN   \* TRUE after NotImmediately
    /\ noNext = FALSE
    /\ isRunning = FALSE
    /\ cbpc = [c \in Callbacks |-> "idle"]

(* ------------------------------ schedules ------------------------------ *)

\* nextRun: the duration it returns is d.
NextRun(d) ==
    \/ /\ Kind = "mutable"
       /\ d = IF immediatelyDone THEN interval ELSE 0
       /\ immediatelyDone' = TRUE
       /\ UNCHANGED <<interval, noNext>>
    \/ /\ Kind = "cron"
       /\ d \in Intervals \cup {NoNextRun}
       /\ noNext' = (noNext \/ d = NoNextRun)
       /\ UNCHANGED <<interval, immediatelyDone>>

(* ------------------------------- Mutants -------------------------------- *)

\* A callback that no longer looks at isRunning.
RunTimerChecksNothing(c) ==
    /\ cbpc[c] = "check"
    /\ cbpc' = [cbpc EXCEPT ![c] = "set"]
    /\ UNCHANGED <<wait, chans, schedule, isRunning>>

\* A refresh that goes on waiting for the old duration.
TakesRefreshWaiting ==
    /\ loop = "select" /\ refresh
    /\ refresh' = FALSE
    /\ UNCHANGED <<wait, skip, quit, schedule, isRunning, cbpc>>

(* ------------------------- the timer's goroutine ------------------------ *)

ComputeNext ==
    \E d \in Intervals \cup {0, NoNextRun} :
        /\ NextRun(d)
        /\ armed' = d
        /\ remain' = IF d = NoNextRun THEN 0 ELSE d
        /\ loop' = IF d = NoNextRun THEN "done" ELSE "select"

\* Run, up to the start of the goroutine, and the end of its loop's body.
Run ==
    /\ loop \in {"new", "compute"}
    /\ ComputeNext
    /\ UNCHANGED <<chans, isRunning, cbpc>>

StartCallback ==
    /\ \E c \in Callbacks :
         /\ cbpc[c] = "idle"
         /\ cbpc' = [cbpc EXCEPT ![c] = "check"]
    /\ loop' = "compute"
    /\ UNCHANGED <<armed, remain, schedule, isRunning>>

\* case <- timer.C
Fires ==
    /\ loop = "select" /\ remain = 0
    /\ StartCallback
    /\ UNCHANGED chans

\* case <- t.skipWait
TakesSkip ==
    /\ loop = "select" /\ skip
    /\ skip' = FALSE
    /\ StartCallback
    /\ UNCHANGED <<refresh, quit>>

\* case <- t.refreshTimer
TakesRefresh ==
    /\ loop = "select" /\ refresh
    /\ refresh' = FALSE
    /\ loop' = "compute"
    /\ UNCHANGED <<armed, remain, skip, quit, schedule, isRunning, cbpc>>

\* case <- t.quit; nextRun is called once more before the loop ends.
TakesQuit ==
    /\ loop = "select" /\ quit
    /\ quit' = FALSE
    /\ \E d \in Intervals \cup {0, NoNextRun} : NextRun(d)
    /\ loop' = "done"
    /\ UNCHANGED <<armed, remain, refresh, skip, isRunning, cbpc>>

Starting == {c \in Callbacks : cbpc[c] \in {"check", "set"}}

Tick ==
    /\ loop = "select" /\ remain > 0
    /\ Prompt => Starting = {} /\ ~skip
    /\ remain' = remain - 1
    /\ UNCHANGED <<loop, armed, chans, schedule, isRunning, cbpc>>

(* -------------------- runTimer in a callback goroutine ------------------ *)

Goto(c, from, to) ==
    /\ cbpc[c] = from
    /\ cbpc' = [cbpc EXCEPT ![c] = to]

RunTimerChecks(c) ==
    /\ Goto(c, "check", IF isRunning THEN "idle" ELSE "set")
    /\ UNCHANGED <<wait, chans, schedule, isRunning>>

RunTimerSets(c) ==
    /\ Goto(c, "set", "run")
    /\ isRunning' = TRUE
    /\ UNCHANGED <<wait, chans, schedule>>

\* The callback ends; one that refreshes its timer sets the interval first.
CallbackEnds(c) ==
    /\ Goto(c, "run", IF Refreshes THEN "refresh" ELSE "reset")
    /\ IF Refreshes THEN interval' \in Intervals ELSE interval' = interval
    /\ UNCHANGED <<wait, chans, immediatelyDone, noNext, isRunning>>

\* RefreshTimer blocks while the channel is full.
RefreshTimer(c) ==
    /\ Goto(c, "refresh", "reset")
    /\ ~refresh
    /\ refresh' = TRUE
    /\ UNCHANGED <<wait, skip, quit, schedule, isRunning>>

RunTimerResets(c) ==
    /\ Goto(c, "reset", "idle")
    /\ isRunning' = FALSE
    /\ UNCHANGED <<wait, chans, schedule>>

CallbackStep(c) ==
    \/ RunTimerChecks(c) \/ RunTimerSets(c) \/ CallbackEnds(c)
    \/ RefreshTimer(c) \/ RunTimerResets(c)

(* --------------------------- the timer's users -------------------------- *)

\* DeleteTimer, called once.
Stop ==
    /\ Stoppable /\ loop # "new" /\ ~quit
    /\ quit' = TRUE
    /\ UNCHANGED <<wait, refresh, skip, schedule, isRunning, cbpc>>

\* SkipWaiting, called long before the timer would fire.
SkipWaiting ==
    /\ Skippable /\ loop = "select" /\ ~skip
    /\ Prompt => Starting = {} /\ remain > 0
    /\ skip' = TRUE
    /\ UNCHANGED <<wait, refresh, quit, schedule, isRunning, cbpc>>

TimerStep == Run \/ Fires \/ TakesSkip \/ TakesRefresh \/ TakesQuit

Next ==
    \/ TimerStep
    \/ Tick
    \/ \E c \in Callbacks : CallbackStep(c)
    \/ Stop
    \/ SkipWaiting

Spec == Init /\ [][Next]_vars

\* Goroutines are scheduled, time passes, callbacks end, and select chooses
\* among the ready cases at random, so it takes each that stays ready.
Fairness ==
    /\ WF_vars(TimerStep) /\ WF_vars(Tick)
    /\ SF_vars(TakesRefresh) /\ SF_vars(TakesQuit) /\ SF_vars(TakesSkip)
    /\ \A c \in Callbacks : WF_vars(CallbackStep(c))

LiveSpec == Spec /\ Fairness

(* ------------------------------ properties ------------------------------ *)

InCallback == {c \in Callbacks : cbpc[c] \in {"run", "refresh", "reset"}}

\* runTimer reads and sets isRunning in two critical sections, and clears it whoever
\* else is in the callback.  However its goroutines race for that, isRunning is not left
\* set by an invocation that has ended, which would silence the timer for good.
\* Invocations do not overlap while the timer fires, is refreshed and skipped, if no
\* second goroutine comes between the two sections (Prompt).
CallbackExclusive ==
    /\ isRunning => InCallback # {}
    /\ Prompt => Cardinality(InCallback) <= 1

\* "runTimer should not execute callback when isRunning indicator is true"
\* (timer_test.go): a callback is entered only while none is running.
EntersWhenNotRunning ==
    [][\A c \in Callbacks :
          cbpc[c] = "set" /\ cbpc'[c] = "run" => ~isRunning]_vars

\* An interval set by a callback (heartbeat, plugin reports) reaches the wait
\* in progress: the timer never waits for an outdated duration once the
\* refresh that announces the new one has been taken.
NoStaleWait ==
    loop = "select" /\ Kind = "mutable" =>
        \/ armed \in {0, interval}
        \/ refresh \/ \E c \in Callbacks : cbpc[c] = "refresh"

\* DeleteTimer ends the timer's goroutine, however often the timer fires and
\* is refreshed at the same time.
StopEnds == quit ~> (loop = "done")

\* A timer that nobody stopped invokes its callback again and again: neither
\* isRunning nor a full channel keeps it from doing so.
CallbackRecurs ==
    (loop = "select") ~> (loop = "done" \/ \E c \in Callbacks : cbpc[c] = "run")
=============================================================================
