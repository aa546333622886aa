----------------------------- MODULE LastPanic -----------------------------
(***************************************************************************)
(* An agent that panics is started again, and reports what its predecessor *)
(* has left behind: with systemd the panics in the journal, where it also  *)
(* marks how far it has looked; on Windows those in the file that standard *)
(* error goes to, which it reads and then empties.  The times in the       *)
(* journal are asked for in seconds.                                       *)
(***************************************************************************)
EXTENDS Naturals, Sequences, SequencesExt

CONSTANTS
    Systemd,        \* whether the journal is used
    Reach,          \* how far back the journal is searched: a week
    MaxTime,        \* bounds the clock
    MaxPanics,      \* bounds the panics
    MaxTroubles     \* bounds what else ends the agent, and what fails

VARIABLES
    now,            \* in seconds
    journal,        \* its entries: a panic, another fatal error, or a mark
    stderrFile,     \* the panics in the file
    pc,             \* where run is
    redirected,     \* whether this process writes to the file
    lastPanicInfo,  \* the panics it has found
    event,          \* those in a report under way
    told,           \* those the server has been told
    lost,           \* those that were in hand when something went wrong
    panics, troubles

places == <<pc, redirected>>
records == <<journal, stderrFile>>
reports == <<lastPanicInfo, event, told, lost>>
bounds == <<now, panics, troubles>>
vars == <<places, records, reports, bounds>>

Ids == 1..MaxPanics
PanicAssumption ==
    Systemd \in BOOLEAN /\ {Reach, MaxTime, MaxPanics, MaxTroubles} \subseteq Nat

Init ==
    /\ now = 0 /\ journal = <<>> /\ stderrFile = {} /\ pc = "down" /\ redirected = FALSE
    /\ lastPanicInfo = {} /\ event = {} /\ told = {} /\ lost = {}
    /\ panics = 0 /\ troubles = 0

Trouble == troubles < MaxTroubles /\ troubles' = troubles + 1
Fine == UNCHANGED troubles

Tick == now < MaxTime /\ now' = now + 1 /\ UNCHANGED <<places, records, reports, panics, troubles>>

Goes(from, to) == pc = from /\ pc' = to

-----------------------------------------------------------------------------
\* The agent is started, by the service manager or by hand; CheckLock ends one that is
\* started while another runs, before it looks for anything.
Launch ==
    /\ Goes("down", "redirect")
    /\ UNCHANGED <<redirected, records, reports, bounds>>

\* RedirectStdouterr: the file is read, which may fail, or end early as the search of the
\* journal; then opened and so emptied, and then made standard error.  Either of these
\* may fail too, the second when the file is empty by now.  (A Stat that fails in between
\* is a panic that nobody sees: Killed.)
Redirect ==
    /\ Goes("redirect", "host")
    /\ \/ Systemd /\ Fine /\ UNCHANGED <<redirected, stderrFile, lastPanicInfo, lost>>
       \/ /\ ~Systemd /\ lastPanicInfo' \in SUBSET stderrFile
          /\ \/ stderrFile' = {} /\ redirected' \in BOOLEAN
             \/ UNCHANGED <<stderrFile, redirected>>
          /\ lost' = lost \cup (stderrFile \ (stderrFile' \cup lastPanicInfo'))
          /\ IF redirected' /\ lastPanicInfo' = stderrFile THEN Fine ELSE Trouble
    /\ UNCHANGED <<journal, event, told, now, panics>>

\* GetServerHost has found a host, at some time.
HostFound == Goes("host", "check") /\ UNCHANGED <<redirected, records, reports, bounds>>

\* The journal is read from the second of the last mark, or for the time it is searched.
Old == IF now > Reach THEN now - Reach ELSE 0
IsMark(e) == e.kind = "mark" /\ e.time >= Old
Since ==
    LET last == SelectLastInSeq(journal, IsMark)
    IN  IF last = 0 THEN Old ELSE journal[last].time

\* What is found: the first line that begins with "panic:", and all that follows it.
Found ==
    LET read == SelectSeq(journal, LAMBDA e : e.time >= Since)
        first == SelectInSeq(read, LAMBDA e : e.kind = "panic")
    IN  {read[i].id : i \in {j \in DOMAIN read : first > 0 /\ j >= first /\ read[j].id > 0}}

\* CheckAgentPanic: the search of the journal may run out of time or of space, which leaves
\* some of it; ReportEvent does not wait for the report.
CheckAgentPanic ==
    /\ Goes("check", "mark")
    /\ \/ /\ Fine /\ UNCHANGED lost
          /\ lastPanicInfo' = IF Systemd THEN Found ELSE lastPanicInfo
       \/ /\ Systemd /\ Trouble /\ lastPanicInfo' \in SUBSET Found
          /\ lost' = lost \cup (Found \ lastPanicInfo')
    /\ event' = lastPanicInfo'
    /\ UNCHANGED <<redirected, records, told, now, panics>>

Entry(kind, i) == [kind |-> kind, time |-> now, id |-> i]

\* The deferred Fprintln puts the mark when CheckAgentPanic returns.
Mark ==
    /\ Goes("mark", "run")
    /\ journal' = IF Systemd THEN Append(journal, Entry("mark", 0)) ELSE journal
    /\ UNCHANGED <<redirected, stderrFile, reports, bounds>>

\* doReport; a request that fails is not sent again.
Posts ==
    /\ event # {} /\ event' = {}
    /\ \/ Fine /\ told' = told \cup event /\ UNCHANGED lost
       \/ Trouble /\ lost' = lost \cup event /\ UNCHANGED told
    /\ UNCHANGED <<places, records, lastPanicInfo, now, panics>>

-----------------------------------------------------------------------------
\* The process is gone; the report under way goes with it, and what only it knew.
Ends ==
    /\ pc # "down" /\ pc' = "down" /\ redirected' = FALSE /\ lastPanicInfo' = {} /\ event' = {}
    /\ lost' = lost \cup event
          \cup IF ~Systemd /\ pc \in {"host", "check"} THEN lastPanicInfo ELSE {}
    /\ UNCHANGED <<told, now>>

\* A panic that nobody recovers from, or another fatal error of the runtime, whose message
\* does not begin with "panic:".
Panic(kind) ==
    /\ panics < MaxPanics /\ panics' = panics + 1 /\ Ends /\ Fine
    /\ journal' = IF Systemd THEN Append(journal, Entry(kind, panics + 1)) ELSE journal
    /\ stderrFile' = stderrFile \cup IF redirected THEN {panics + 1} ELSE {}

\* The agent is stopped or killed, or ends itself: it leaves nothing.
Killed == Ends /\ Trouble /\ UNCHANGED <<records, panics>>

Next ==
    \/ Tick \/ Launch \/ Redirect \/ HostFound \/ CheckAgentPanic \/ Mark \/ Posts
    \/ Killed \/ \E kind \in {"panic", "fatal"} : Panic(kind)

Spec == Init /\ [][Next]_vars

-----------------------------------------------------------------------------
Kinds == [kind : {"panic", "fatal", "mark"}, time : 0..MaxTime, id : {0} \cup Ids]
TypeOK ==
    /\ journal \in Seq(Kinds) /\ stderrFile \subseteq Ids
    /\ pc \in {"down", "redirect", "host", "check", "mark", "run"} /\ redirected \in BOOLEAN
    /\ {lastPanicInfo, event, told, lost} \subseteq SUBSET Ids
    /\ now \in 0..MaxTime /\ panics \in {0} \cup Ids /\ troubles \in 0..MaxTroubles

\* No panic that the journal of the last week has is passed over: each has been
\* told, or was in hand when something went wrong, or the next search finds it.
\* That is so although the mark only has a second, and although the panic may come
\* between a search and the mark that ends it.
NonePassedOver ==
    \A i \in DOMAIN journal :
       journal[i].kind = "panic" /\ journal[i].time >= Old =>
          journal[i].id \in told \cup lost \cup event \cup Found

\* What is in the file is not emptied away: a panic that was written to it is
\* still there, or some process has it or had it in hand.
NoneEmptied ==
    [][stderrFile \ stderrFile' \subseteq
          lost' \cup IF pc' = "host" THEN lastPanicInfo' ELSE {}]_vars
=============================================================================
