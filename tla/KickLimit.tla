------------------------------ MODULE KickLimit ------------------------------
(***************************************************************************)
(* The frequency limit on the kicks that come over gshell                  *)
(* (hasReachFrequencyLimit and updateMaxFrequency of channel_gshell.go).   *)
(*                                                                         *)
(* The reader of gshell remembers in a ring when the last messages came.   *)
(* The answers of the check service set how many are allowed in how many   *)
(* seconds, and arrive in other goroutines.  The reader looks at the count *)
(* before it takes the mutex.  Time is discrete.                           *)
(***************************************************************************)
EXTENDS Integers, Sequences

CONSTANTS
    Counts, Periods,  \* what the server may send (throttlingConfig)
    FirstCount,       \* defaultGshellMaxFrequencyCount
    MaxTime           \* bound on the time

KickAssumption ==
    /\ Counts \cup Periods \subseteq Nat /\ FirstCount \in Counts \ {0}
    /\ \E n \in Counts : \A c \in Counts : c <= n   \* it is an int
    /\ MaxTime \in Nat

VARIABLES
    now,
    count, period,        \* gshellMaxFrequencyCount, gshellMaxFrequencyPeriod
    times, start, end,    \* kickvmTimes, kickvmTimeStart, kickvmTimeEnd
    reader,               \* has the reader passed the unlocked look at count?
    reached,              \* its verdict on the last message
    crashed,              \* has it panicked?
    came                  \* when messages came since the ring was made

ring == <<times, start, end>>
kickVars == <<now, count, period, ring, reader, reached, crashed, came>>

nil == -1
Ring(n) == [i \in 0 .. n - 1 |-> nil]
Longest == CHOOSE n \in Counts : \A c \in Counts : c <= n
LastOf(seq) == IF Len(seq) > Longest THEN Tail(seq) ELSE seq

\* The type invariant: the indices are within the ring.
KickTypeOK ==
    /\ now \in 0 .. MaxTime
    /\ count \in Counts /\ period \in Periods
    /\ times \in [0 .. count - 1 -> 0 .. MaxTime \cup {nil}]
    /\ {start, end} \subseteq nil .. count - 1
    /\ reader \in {"idle", "check"}
    /\ {reached, crashed} \subseteq BOOLEAN

\* NewGshellChannel.
KickInit ==
    /\ now = 0 /\ count = FirstCount /\ period \in Periods
    /\ times = Ring(FirstCount) /\ start = nil /\ end = nil
    /\ reader = "idle" /\ reached = FALSE /\ crashed = FALSE /\ came = <<>>

Passes ==
    /\ now < MaxTime /\ now' = now + 1
    /\ UNCHANGED <<count, period, ring, reader, reached, crashed, came>>

\* updateMaxFrequency, from IsSupported in the goroutine of a selection.
Update(c, p) ==
    /\ period' = p
    /\ IF c = count THEN UNCHANGED <<count, ring, came>>
       ELSE /\ count' = c /\ times' = Ring(c)
            /\ start' = nil /\ end' = nil /\ came' = <<>>
    /\ UNCHANGED <<now, reader, reached, crashed>>

(***************************************************************************)
(* hasReachFrequencyLimit, called for each message that is read.           *)
(***************************************************************************)
MessageComes ==
    /\ reader = "idle" /\ ~crashed
    /\ IF count = 0 THEN reached' = FALSE /\ UNCHANGED reader
       ELSE reader' = "check" /\ UNCHANGED reached
    /\ UNCHANGED <<now, count, period, ring, crashed, came>>

\* The time of the message this one pushes out, when the ring is full.
(* Mutant: the slot is overwritten first. *)
PushedOutLate(next) == now
PushedOut(next) == times[next]

\* A place for the message: the ring begins, it is full, or it has room.
First ==
    /\ start = nil
    /\ start' = 0 /\ end' = 0 /\ times' = [times EXCEPT ![0] = now]
    /\ reached' = FALSE

Full(next) ==
    /\ start # nil /\ next = end
    /\ start' = next /\ times' = [times EXCEPT ![next] = now]
    /\ end' = (end + 1) % count
    /\ reached' = (PushedOut(next) + period > now)

Room(next) ==
    /\ start # nil /\ next # end
    /\ start' = next /\ times' = [times EXCEPT ![next] = now]
    /\ UNCHANGED end /\ reached' = FALSE

\* Under the mutex.  With a count that has become 0 since, kickvmTimes has no
\* element 0, and a remainder by 0 cannot be taken: both panic.
MessageCounted ==
    /\ reader = "check" /\ reader' = "idle"
    /\ IF count = 0 THEN crashed' = TRUE /\ UNCHANGED <<ring, reached, came>>
       ELSE LET next == (start + 1) % count
            IN  /\ First \/ Full(next) \/ Room(next)
                /\ came' = LastOf(Append(came, now))
                /\ UNCHANGED crashed
    /\ UNCHANGED <<now, count, period>>

KickNext ==
    \/ Passes \/ MessageComes \/ MessageCounted
    \/ \E c \in Counts, p \in Periods : Update(c, p)

KickSpec == KickInit /\ [][KickNext]_kickVars

(***************************************************************************)
(* Properties.                                                             *)
(***************************************************************************)
\* "limit gshell kick_vm to occur up to gshellMaxFrequencyCount times in
\* gshellMaxFrequencyPeriod second": the verdict is that the message is one
\* too many for the period that ends with it, whatever the ring has been
\* through.
Excess ==
    /\ Len(came) >= count
    /\ came[Len(came) - count + 1] + period > now
LimitIsExact == [][MessageCounted /\ ~crashed' => reached' = Excess]_kickVars

\* "0 means no limit": a limit that is lifted does not end the agent.
LiftingIsHarmless == ~crashed
=============================================================================
