----------------------------- MODULE Schedules -----------------------------
(***************************************************************************)
(* The schedules of periodic tasks (agent/taskengine/timermanager), and    *)
(* the instants at which a timer runs them: rate, at and cron expressions. *)
(*                                                                         *)
(* Time is counted in ticks of the system clock.  A duration is an int64   *)
(* of nanoseconds in the code; here it has Width bits.  What is parsed     *)
(* arrives as a number and a unit, a list of instants for a cron           *)
(* expression.                                                             *)
(***************************************************************************)
EXTENDS Integers, FiniteSets

CONSTANTS
    Width,      \* a Duration is a number below 2^(Width - 1)
    Second, Hour,  \* in ticks
    Limit,      \* frequencyUpperLimit
    Values,     \* the numbers of rate expressions
    Instants,   \* the instants of at expressions, from which those of cron are
    Starts,     \* creation times of tasks
    Late,       \* by how much a timer may fire late
    MaxTime     \* bound on the clock

SchedulesAssumption ==
    /\ {Width, Second, Hour, Limit} \subseteq Nat \ {0} /\ {Late, MaxTime} \subseteq Nat
    /\ Values \subseteq 0 .. 2^(Width - 1) - 1
    /\ Instants \subseteq Nat /\ Starts \subseteq Nat

NoNextRun == -1
Never == -2

VARIABLES
    kind,     \* "rate", "at" or "cron"
    start, period,  \* of RateScheduled
    times,    \* the instants of a cron expression, or of an at expression
    phase,    \* of the timer: "new", "refused", "wait", "ran", "compute", "done" or "panic"
    now,      \* the clock
    aim,      \* the instant the timer waits for, or NoNextRun
    made,     \* history: when the timer was started, or Never
    served,      \* history: the instants for which the task was run
    again     \* history: was it run twice for one?

vars == <<kind, start, period, times, phase, now, aim, made, served, again>>
history == <<made, served, again>>

Low == -(2^(Width - 1))
\* What int64 arithmetic makes of a number.
Wrapped(n) == ((n - Low) % (2^Width)) + Low
\* Division of Go, towards zero.
Size(n) == IF n < 0 THEN -n ELSE n
Quotient(a, b) == (Size(a) \div Size(b)) * (IF (a < 0) = (b < 0) THEN 1 ELSE -1)

\* NewRateScheduled; minutes are left out, days are of two hours.
PeriodOf(value, unit) ==
    CASE unit = "s" -> Wrapped(value * Second)
      [] unit = "h" -> Wrapped(value * Hour)
      [] OTHER      -> Wrapped(Wrapped(value * 2) * Hour)

\* The type invariant.
TypeOK ==
    /\ kind \in {"rate", "at", "cron"}
    /\ start \in Starts /\ period \in Low .. -Low - 1
    /\ times \subseteq Instants /\ (kind = "at" => Cardinality(times) = 1)
    /\ phase \in {"new", "refused", "wait", "ran", "compute", "done", "panic"}
    /\ now \in 0 .. MaxTime
    /\ aim \in Int /\ (phase = "wait" => aim >= made)
    /\ made \in {Never} \cup 0 .. MaxTime /\ (phase \in {"new", "refused"} => made = Never)
    /\ again \in BOOLEAN

Init ==
    /\ kind \in {"rate", "at", "cron"}
    /\ start \in Starts
    /\ IF kind = "rate" THEN \E v \in Values, u \in {"s", "h", "d"} : v > 0 /\ period = PeriodOf(v, u)
                        ELSE period = 0
    /\ CASE kind = "rate" -> times = {}
         [] kind = "at"   -> \E s \in Instants : times = {s}
         [] OTHER         -> times \in SUBSET Instants
    /\ phase = "new" /\ now = 0 /\ aim = NoNextRun
    /\ made = Never /\ served = {} /\ again = FALSE

(***************************************************************************)
(* nextRun.                                                                *)
(***************************************************************************)
(* Mutant: the next run is a period from now. *)
RateDrifts(t) == t + period

RateNext(t) ==
    IF t < start THEN start + period ELSE start + (Quotient(t - start, period) + 1) * period

Only(set) == CHOOSE s \in set : TRUE
AtNext(t) == IF t > Only(times) THEN NoNextRun ELSE Only(times)

\* cronexpr.Next: strictly after its argument.
CronNext(t) ==
    LET later == {s \in times : s > t}
    IN  IF later = {} THEN NoNextRun ELSE CHOOSE s \in later : \A r \in later : s <= r

Next1(t) ==
    CASE kind = "rate" -> RateNext(t)
      [] kind = "at"   -> AtNext(t)
      [] OTHER         -> CronNext(t)

(***************************************************************************)
(* The constructors, Timer.Run, and its goroutine.                         *)
(***************************************************************************)
Refused == kind = "rate" /\ period > Limit
Divides0 == kind = "rate" /\ period = 0 /\ now >= start

Runs ==
    /\ phase = "new"
    /\ \/ Refused /\ phase' = "refused" /\ UNCHANGED <<aim, made>>
       \/ ~Refused /\ Divides0 /\ phase' = "panic" /\ UNCHANGED <<aim, made>>
       \/ /\ ~Refused /\ ~Divides0 /\ Next1(now) < now
          /\ phase' = "refused" /\ UNCHANGED <<aim, made>>
       \/ /\ ~Refused /\ ~Divides0 /\ Next1(now) >= now
          /\ phase' = "wait" /\ aim' = Next1(now) /\ made' = now
    /\ UNCHANGED <<kind, start, period, times, now, served, again>>

\* A timer is not late by more than Late; a callback takes a tick.
Tick ==
    /\ now < MaxTime /\ phase # "compute" /\ (phase = "wait" => now < aim + Late)
    /\ now' = now + 1
    /\ phase' = IF phase = "ran" THEN "compute" ELSE phase
    /\ UNCHANGED <<kind, start, period, times, aim, history>>

Fires ==
    /\ phase = "wait" /\ now >= aim
    /\ served' = served \cup {aim} /\ again' = (again \/ aim \in served)
    /\ phase' = "ran"
    /\ UNCHANGED <<kind, start, period, times, now, aim, made>>

\* A negative wait ends the goroutine, a division by zero the process.
Computes ==
    /\ phase = "compute"
    /\ \/ Divides0 /\ phase' = "panic" /\ UNCHANGED aim
       \/ /\ ~Divides0
          /\ aim' = Next1(now)
          /\ phase' = IF aim' < now THEN "done" ELSE "wait"
    /\ UNCHANGED <<kind, start, period, times, now, history>>

Next == Runs \/ Tick \/ Fires \/ Computes

Spec == Init /\ [][Next]_vars

(***************************************************************************)
(* Properties.                                                             *)
(***************************************************************************)
\* The instants of the schedule: for a rate, the ends of the periods since the
\* creation of the task.
Slots == IF kind = "rate" THEN {start + k * period : k \in 1 .. 2 * MaxTime} ELSE times

\* The timer waits for the next instant of the schedule, and for no other.
NextIsEarliest ==
    phase = "wait" => aim \in Slots /\ \A s \in Slots : ~(now < s /\ s < aim)

\* The task is run once for an instant of its schedule, however late.
OnceEach == ~again

\* None is missed, but for a run that comes too late for the next one.
Clear(s) == \A r \in Slots : r < s => s - r > Late + 1
NoneMissed ==
    phase \in {"wait", "ran", "compute", "done"} =>
        \A s \in Slots : made < s /\ s + Late < now /\ Clear(s) => s \in served

\* An accepted period is positive and not "larger than 1,000 days".
PeriodIsBounded == phase \in {"wait", "panic"} /\ kind = "rate" => period \in 1 .. Limit
=============================================================================
