--------------------------- MODULE SessionChannel ---------------------------
(***************************************************************************)
(* The data channel of a session (src/agent/session/channel).              *)
(*                                                                         *)
(* Each Open dials a connection and leaves a reader and a pinger behind,   *)
(* which look at IsOpen and use whatever Connection is when they ask.  The *)
(* reader of a broken connection calls OnError, which closes and opens the *)
(* channel until it succeeds or gives up and cancels the session; a pinger *)
(* that fails closes the channel.  A timer cancels a session that has had  *)
(* no input for three minutes.  The task of the session closes the channel *)
(* when it is over.  Nothing orders these goroutines.                      *)
(*                                                                         *)
(* A connection that fails once fails at once again, so a reader gets to   *)
(* its tenth error unless it sees IsOpen become false on the way.          *)
(***************************************************************************)
EXTENDS Integers

CONSTANTS
    MaxOpens,       \* bound on the connections: the next dial fails
    RetryCount,     \* errors a reader puts up with (10)
    MaxAttempts,    \* retries of a reconnection (10)
    QuietLimit,     \* seconds without input (180), coarsened
    MaxBreaks       \* bound on the connections that break

ASSUME SessionChannelAssumption ==
    /\ {MaxOpens, RetryCount, QuietLimit} \subseteq Nat \ {0}
    /\ {MaxAttempts, MaxBreaks} \subseteq Nat

VARIABLES
    connection,  \* Connection (0: none yet)
    alive,       \* the connections neither closed nor broken
    isOpen,      \* IsOpen
    readers, pingers,  \* what the goroutines of the n-th Open are at
    quiet,       \* input_stream_cnt
    canceled,    \* is the cancel flag set?
    task,        \* the session's task: "run" or "over"
    breaks

channel == <<connection, alive, isOpen>>
vars == <<channel, readers, pingers, quiet, canceled, task, breaks>>

Opens == 1 .. MaxOpens
Reader0 == [at |-> "none", conn |-> 0, errors |-> 0]
Pinger0 == [at |-> "none", conn |-> 0]

\* The type invariant.
TypeOK ==
    /\ connection \in 0 .. MaxOpens /\ alive \subseteq 1 .. connection
    /\ {isOpen, canceled} \subseteq BOOLEAN
    /\ readers \in [Opens -> [at : {"none", "top", "read", "close", "open", "end", "panic"},
                              conn : 0 .. MaxOpens,
                              errors : 0 .. RetryCount + MaxAttempts]]
    /\ \A i \in Opens :
          /\ readers[i].at \in {"top", "read"} => readers[i].errors < RetryCount
          /\ readers[i].at \in {"close", "open"} => readers[i].errors <= MaxAttempts
    /\ pingers \in [Opens -> [at : {"none", "ping", "failed", "sleep", "end"},
                              conn : 0 .. MaxOpens]]
    /\ quiet \in 0 .. QuietLimit + 1
    /\ task \in {"run", "over"}
    /\ breaks \in 0 .. MaxBreaks

\* NewSessionChannel, and a first Open that succeeds.
Init ==
    /\ connection = 1 /\ alive = {1} /\ isOpen = TRUE
    /\ readers = [i \in Opens |-> IF i = 1 THEN [Reader0 EXCEPT !.at = "top"] ELSE Reader0]
    /\ pingers = [i \in Opens |-> IF i = 1 THEN [Pinger0 EXCEPT !.at = "ping"] ELSE Pinger0]
    /\ quiet = 0 /\ canceled = FALSE /\ task = "run" /\ breaks = 0

\* Close: only an open channel closes its connection.
Close ==
    IF isOpen
    THEN isOpen' = FALSE /\ alive' = alive \ {connection} /\ UNCHANGED connection
    ELSE UNCHANGED channel

Break ==
    /\ breaks < MaxBreaks /\ breaks' = breaks + 1
    /\ connection \in alive /\ alive' = alive \ {connection}
    /\ UNCHANGED <<connection, isOpen, readers, pingers, quiet, canceled, task>>

(***************************************************************************)
(* The reader of Open i.                                                   *)
(***************************************************************************)
ReaderAsks(i) ==
    /\ readers[i].at = "top"
    /\ readers' = [readers EXCEPT ![i] =
            IF isOpen THEN [at |-> "read", conn |-> connection, errors |-> @.errors]
            ELSE [Reader0 EXCEPT !.at = "end"]]
    /\ UNCHANGED <<channel, pingers, quiet, canceled, task, breaks>>

\* A message of the client, handled by inputMessageHandler.
ReaderGets(i) ==
    /\ readers[i].at = "read" /\ readers[i].conn \in alive
    /\ readers' = [readers EXCEPT ![i] = [Reader0 EXCEPT !.at = "top"]]
    /\ quiet' = 0
    /\ UNCHANGED <<channel, pingers, canceled, task, breaks>>

\* The handler of the message panics (a speed so low that the interval between
\* packages is a division by 0): the reader recovers, and ends.
ReaderPanics(i) ==
    /\ readers[i].at = "read" /\ readers[i].conn \in alive
    /\ readers' = [readers EXCEPT ![i] = [Reader0 EXCEPT !.at = "panic"]]
    /\ quiet' = 0
    /\ UNCHANGED <<channel, pingers, canceled, task, breaks>>

ReaderFails(i) ==
    /\ readers[i].at = "read" /\ readers[i].conn \notin alive
    /\ LET errors == readers[i].errors + 1
       IN  readers' = [readers EXCEPT ![i] =
                IF errors < RetryCount THEN [at |-> "top", conn |-> 0, errors |-> errors]
                ELSE [Reader0 EXCEPT !.at = "close"]]
    /\ UNCHANGED <<channel, pingers, quiet, canceled, task, breaks>>

(* Mutant: Reconnect does not close. *)
ReconnectStays(i) ==
    /\ readers[i].at = "close"
    /\ readers' = [readers EXCEPT ![i].at = "open"]
    /\ UNCHANGED <<channel, pingers, quiet, canceled, task, breaks>>

\* OnError: Reconnect closes, then opens ...
ReconnectCloses(i) ==
    /\ readers[i].at = "close"
    /\ Close
    /\ readers' = [readers EXCEPT ![i].at = "open"]
    /\ UNCHANGED <<pingers, quiet, canceled, task, breaks>>

(* Mutant: the reader goes on beside the one of the new connection. *)
ReconnectKeeps(i) ==
    /\ readers[i].at = "open" /\ connection < MaxOpens
    /\ LET n == connection + 1
       IN  /\ connection' = n /\ alive' = alive \cup {n} /\ isOpen' = TRUE
           /\ readers' = [readers EXCEPT ![i] = [Reader0 EXCEPT !.at = "top"],
                                         ![n].at = "top"]
           /\ pingers' = [pingers EXCEPT ![n].at = "ping"]
    /\ UNCHANGED <<quiet, canceled, task, breaks>>

\* ... with a reader and a pinger of its own, and this reader ends.
ReconnectOpens(i) ==
    /\ readers[i].at = "open" /\ connection < MaxOpens
    /\ LET n == connection + 1
       IN  /\ connection' = n /\ alive' = alive \cup {n} /\ isOpen' = TRUE
           /\ readers' = [readers EXCEPT ![i] = [Reader0 EXCEPT !.at = "end"],
                                         ![n].at = "top"]
           /\ pingers' = [pingers EXCEPT ![n].at = "ping"]
    /\ UNCHANGED <<quiet, canceled, task, breaks>>

(* Mutant: one attempt more than the retryer is given. *)
ReconnectTriesMore(i) ==
    /\ readers[i].at = "open"
    /\ IF readers[i].errors <= MaxAttempts
       THEN /\ readers' = [readers EXCEPT ![i].at = "close", ![i].errors = @ + 1]
            /\ UNCHANGED canceled
       ELSE /\ readers' = [readers EXCEPT ![i] = [Reader0 EXCEPT !.at = "end"]]
            /\ canceled' = TRUE
    /\ UNCHANGED <<channel, pingers, quiet, task, breaks>>

\* A dial that fails: the retryer tries again, or cancels the session.
ReconnectFails(i) ==
    /\ readers[i].at = "open"
    /\ IF readers[i].errors < MaxAttempts
       THEN /\ readers' = [readers EXCEPT ![i].at = "close", ![i].errors = @ + 1]
            /\ UNCHANGED canceled
       ELSE /\ readers' = [readers EXCEPT ![i] = [Reader0 EXCEPT !.at = "end"]]
            /\ canceled' = TRUE
    /\ UNCHANGED <<channel, pingers, quiet, task, breaks>>

(***************************************************************************)
(* The pinger of Open i, every minute.                                     *)
(***************************************************************************)
PingerAsks(i) ==
    /\ pingers[i].at \in {"ping", "sleep"}
    /\ pingers' = [pingers EXCEPT ![i] =
            IF ~isOpen THEN [Pinger0 EXCEPT !.at = "end"]
            ELSE IF connection \in alive THEN [Pinger0 EXCEPT !.at = "sleep"]
            ELSE [at |-> "failed", conn |-> connection]]
    /\ UNCHANGED <<channel, readers, quiet, canceled, task, breaks>>

\* The ping has failed: Close closes the channel as it is by now.
PingerCloses(i) ==
    /\ pingers[i].at = "failed"
    /\ Close
    /\ pingers' = [pingers EXCEPT ![i] = [Pinger0 EXCEPT !.at = "end"]]
    /\ UNCHANGED <<readers, quiet, canceled, task, breaks>>

(***************************************************************************)
(* The timer of the input, and the end of the task.                        *)
(***************************************************************************)
(* Mutant: the timer never cancels. *)
SecondIdle ==
    /\ ~canceled /\ quiet <= QuietLimit
    /\ quiet' = quiet + 1
    /\ UNCHANGED <<channel, readers, pingers, canceled, task, breaks>>

Second ==
    /\ ~canceled
    /\ IF quiet > QuietLimit THEN canceled' = TRUE /\ UNCHANGED quiet
       ELSE quiet' = quiet + 1 /\ UNCHANGED canceled
    /\ UNCHANGED <<channel, readers, pingers, task, breaks>>

\* runTask has returned, cancelled or for a reason of its own; RunTask closes.
TaskEnds ==
    /\ task = "run" /\ task' = "over"
    /\ Close
    /\ UNCHANGED <<readers, pingers, quiet, canceled, breaks>>

CanceledEnds == canceled /\ TaskEnds

Reader(i) ==
    \/ ReaderAsks(i) \/ ReaderGets(i) \/ ReaderPanics(i) \/ ReaderFails(i)
    \/ ReconnectCloses(i) \/ ReconnectOpens(i) \/ ReconnectFails(i)
Pinger(i) == PingerAsks(i) \/ PingerCloses(i)

Next ==
    \/ Break \/ Second \/ TaskEnds
    \/ \E i \in Opens : Reader(i) \/ Pinger(i)

Spec == Init /\ [][Next]_vars

\* Goroutines get on and seconds pass; nothing is promised of the client, of
\* the network or of a session that is not cancelled.
Fairness ==
    /\ WF_vars(Second) /\ WF_vars(CanceledEnds)
    /\ \A i \in Opens :
          /\ WF_vars(ReaderAsks(i) \/ ReaderFails(i) \/ ReconnectCloses(i)
                     \/ ReconnectOpens(i) \/ ReconnectFails(i))
          /\ WF_vars(Pinger(i))
LiveSpec == Spec /\ Fairness

(***************************************************************************)
(* Properties.                                                             *)
(***************************************************************************)
\* IsActive can be believed: an open channel has a reader, however often it
\* broke and whoever closed it, unless a message made its reader panic.
Lives(i) == readers[i].at \notin {"none", "end", "panic"}
OpenIsHeard == isOpen => \E i \in Opens : Lives(i) \/ readers[i].at = "panic"

\* No two readers ask for the connection: a reconnection hands over.
OneReader == \A i, j \in Opens : Lives(i) /\ Lives(j) => i = j

\* A session that hears nothing any more, because a pinger closed its channel,
\* the reconnection failed or the reader panicked, is ended.
DeafEnds == (\A i \in Opens : ~Lives(i)) ~> task = "over"

\* "Close closes the corresponding connection": when the task is over, no
\* connection of it stays open.
OverIsClosed == task = "over" => alive = {}
=============================================================================
