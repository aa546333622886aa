--------------------------- MODULE SessionClient ---------------------------
(***************************************************************************)
(* The program at the user's end of a session: it sends what the user, or  *)
(* a local connection, writes and writes what the agent sends.  Four       *)
(* goroutines and a main one end each other by closing a channel, poison.  *)
(* Input is numbered; of the output only the count matters.  A console     *)
(* reads the terminal, raw a pipe, forward a local connection.             *)
(***************************************************************************)
EXTENDS Naturals, Sequences

CONSTANTS
    Modes,      \* a subset of {"console", "raw", "forward"}
    Messages,   \* what the server may send, see ServerMessages
    MaxInput,   \* bounds the chunks of input
    MaxMessages \* bounds the messages of the server

VARIABLES
    mode,
    wsConn,           \* "open" or "lost"
    incoming,       \* messages that were not read
    typed, closed,  \* chunks there are to read, and that there will be no more
    taken, data, resend,        \* of the writer: chunks read, the one in hand, and resend_buff
    sent, closeSent,            \* what the agent gets
    real_connected,
    poison,                     \* it is closed
    msgChan,                    \* "open" or "closed"
    reading, held,              \* the goroutine in ReadMessage, and what it read
    wpc, rpc, spc, mpc,         \* writer, readLoop, termsizeLoop, Loop
    outputs, written, ending,   \* outputs sent and written; what readLoop read last
    running,
    messages
clientVars == <<mode, wsConn, incoming, typed, closed, taken, data, resend, sent, closeSent,
                real_connected, poison, msgChan, reading, held, wpc, rpc, spc, mpc, outputs,
                written, ending, running, messages>>

\* Of the states of a session two end the client.
Closing == {"connect failed", "close"}
ServerMessages == {"output", "speed", "zero interval", "invalid"} \cup Closing

ClientAssumption ==
    /\ Modes \subseteq {"console", "raw", "forward"} /\ Messages \subseteq ServerMessages
    /\ MaxInput \in Nat /\ MaxMessages \in Nat

user == <<mode, typed, closed>>
server == <<wsConn, outputs, messages>>
writer == <<taken, data, resend, sent, closeSent, wpc>>
reader == <<incoming, msgChan, reading, held, rpc, written, ending>>
others == <<spc, mpc, running>>

ClientInit ==
    /\ mode \in Modes
    /\ wsConn = "open" /\ incoming = <<>> /\ typed = 0 /\ closed = FALSE
    /\ taken = 0 /\ data = 0 /\ resend = 0 /\ sent = <<>> /\ closeSent = FALSE
    /\ real_connected = FALSE /\ poison = FALSE /\ msgChan = "open"
    /\ reading = "none" /\ held = "none"
    /\ wpc = IF mode = "forward" THEN "warm" ELSE "read"
    /\ rpc = "spawn" /\ spc = "wait" /\ mpc = "wait"
    /\ outputs = 0 /\ written = 0 /\ ending = "none" /\ running = TRUE /\ messages = 0

-----------------------------------------------------------------------------
\* The user, the server and the network.
TypesInput ==
    /\ running /\ ~closed /\ typed < MaxInput
    /\ typed' = typed + 1
    /\ UNCHANGED <<mode, closed, server, writer, reader, others, real_connected, poison>>

Closes ==
    /\ running /\ ~closed
    /\ closed' = TRUE
    /\ UNCHANGED <<mode, typed, server, writer, reader, others, real_connected, poison>>

ServerSends(m) ==
    /\ wsConn = "open" /\ messages < MaxMessages
    /\ messages' = messages + 1
    /\ incoming' = Append(incoming, m)
    /\ outputs' = IF m = "output" THEN outputs + 1 ELSE outputs
    /\ wsConn' = IF m \in Closing THEN "lost" ELSE wsConn
    /\ UNCHANGED <<user, writer, msgChan, reading, held, rpc, written, ending, others,
                   real_connected, poison>>

ConnBreaks ==
    /\ wsConn = "open"
    /\ wsConn' = "lost"
    /\ UNCHANGED <<user, outputs, messages, writer, reader, others, real_connected, poison>>

-----------------------------------------------------------------------------
\* openPoison: of several that close the channel all but one recover from a panic.
OpenPoison == poison' = TRUE /\ UNCHANGED running
Keep == UNCHANGED <<poison, running>>

\* writeLoopRawMode with a local connection waits for the agent to build its own.
Warm ==
    /\ running /\ wpc = "warm" /\ wpc' = "read"
    /\ real_connected' = TRUE
    /\ UNCHANGED <<user, server, taken, data, resend, sent, closeSent, reader, others, poison>>

\* writeLoop looks at poison before it reads; writeLoopRawMode does not.
WriterDies ==
    /\ running /\ wpc = "read" /\ mode = "console" /\ poison
    /\ wpc' = "done"
    /\ UNCHANGED <<user, server, taken, data, resend, sent, closeSent, reader, others,
                   real_connected, poison>>

Reads ==
    /\ running /\ wpc = "read" /\ taken < typed
    /\ ~(mode = "console" /\ poison)
    /\ taken' = taken + 1 /\ data' = taken + 1
    /\ wpc' = IF mode = "console" THEN "send" ELSE "ready"
    /\ UNCHANGED <<user, server, resend, sent, closeSent, reader, others, real_connected, poison>>

(* Mutant: the last chunk before the agent's first output is kept, not the first. *)
ReadyKeepsLast ==
    /\ running /\ wpc = "ready"
    /\ IF real_connected
       THEN /\ wpc' = IF resend # 0 THEN "resend" ELSE "send"
            /\ UNCHANGED resend
       ELSE wpc' = "read" /\ resend' = data
    /\ UNCHANGED <<user, server, taken, data, sent, closeSent, reader, others, real_connected,
                   poison>>

\* writeLoopRawMode before the agent's first output: one chunk is kept, the others are not.
Ready ==
    /\ running /\ wpc = "ready"
    /\ IF real_connected
       THEN /\ wpc' = IF resend # 0 THEN "resend" ELSE "send"
            /\ UNCHANGED resend
       ELSE /\ wpc' = "read"
            /\ resend' = IF resend = 0 THEN data ELSE resend
    /\ UNCHANGED <<user, server, taken, data, sent, closeSent, reader, others, real_connected,
                   poison>>

\* SendStreamDataMessage.  A connection that is lost may still take what is written.
Delivers(k) == sent' = IF wsConn = "open" THEN Append(sent, k) ELSE sent

Resends ==
    /\ running /\ wpc = "resend" /\ wpc' = "send"
    /\ Delivers(resend) /\ resend' = 0
    /\ UNCHANGED <<user, server, taken, data, closeSent, reader, others, real_connected, poison>>

Sends ==
    /\ running /\ wpc = "send"
    /\ Delivers(data)
    /\ \/ wpc' = "read" /\ Keep
       \/ wsConn = "lost" /\ wpc' = "done" /\ OpenPoison
    /\ UNCHANGED <<user, server, taken, data, resend, closeSent, reader, spc, mpc, real_connected>>

\* The end of the input: a close message, or the end of transmission of a terminal.
EndOfInput ==
    /\ running /\ wpc = "read" /\ closed /\ taken = typed
    /\ ~(mode = "console" /\ poison)
    /\ wpc' = "poison"
    /\ closeSent' = (closeSent \/ wsConn = "open")
    /\ UNCHANGED <<user, server, taken, data, resend, sent, reader, others, real_connected, poison>>
WriterPoisons ==
    /\ running /\ wpc = "poison" /\ wpc' = "done"
    /\ OpenPoison
    /\ UNCHANGED <<user, server, taken, data, resend, sent, closeSent, reader, spc, mpc,
                   real_connected>>

-----------------------------------------------------------------------------
\* readLoop starts a goroutine for each message, and takes what it read or dies.
Spawns ==
    /\ running /\ rpc = "spawn" /\ rpc' = "select"
    /\ reading' = "reading"
    /\ UNCHANGED <<user, server, writer, incoming, msgChan, held, written, ending, others,
                   real_connected, poison>>

ReadMessage ==
    /\ running /\ reading = "reading"
    /\ \/ /\ incoming # <<>>
          /\ held' = Head(incoming) /\ incoming' = Tail(incoming) /\ reading' = "offers" /\ Keep
       \/ /\ incoming = <<>> /\ wsConn = "lost"
          /\ held' = "error" /\ reading' = "offers" /\ OpenPoison /\ UNCHANGED incoming
    /\ UNCHANGED <<user, server, writer, msgChan, rpc, written, ending, spc, mpc, real_connected>>

\* A send on the closed channel is a panic, from which the goroutine recovers.
Recovers ==
    /\ running /\ reading = "offers" /\ msgChan = "closed" /\ reading' = "none"
    /\ UNCHANGED <<user, server, writer, incoming, msgChan, held, rpc, written, ending, others,
                   real_connected, poison>>

ReadLoopDies ==
    /\ running /\ rpc = "select" /\ poison
    /\ rpc' = "done" /\ msgChan' = "closed"
    /\ UNCHANGED <<user, server, writer, incoming, reading, held, written, ending, others,
                   real_connected, poison>>

\* A speed below that of one package in a second is a division by zero, which nothing
\* recovers.
Takes ==
    /\ running /\ rpc = "select" /\ reading = "offers"
    /\ reading' = "none" /\ ending' = held
    /\ written' = IF held = "output" THEN written + 1 ELSE written
    /\ real_connected' = (real_connected \/ held = "output")
    /\ CASE held = "zero interval" -> running' = FALSE /\ UNCHANGED <<rpc, poison>>
         [] held \in {"error", "invalid"} \cup Closing -> rpc' = "done" /\ OpenPoison
         [] OTHER -> rpc' = "spawn" /\ Keep
    /\ UNCHANGED <<user, server, writer, incoming, msgChan, held, spc, mpc>>

\* termsizeLoop waits for the agent, then sends the size when it changes.
SizeLoop ==
    /\ running
    /\ \/ spc = "wait" /\ real_connected /\ spc' = "loop"
       \/ spc = "loop" /\ poison /\ spc' = "done"
    /\ UNCHANGED <<user, server, writer, reader, mpc, running, real_connected, poison>>

\* Loop returns; without a local connection the program ends.
Returns ==
    /\ running /\ mpc = "wait" /\ poison
    /\ mpc' = "done" /\ running' = (mode = "forward")
    /\ UNCHANGED <<user, server, writer, reader, spc, real_connected, poison>>

Writer == Warm \/ WriterDies \/ Reads \/ Ready \/ Resends \/ Sends \/ EndOfInput \/ WriterPoisons
ReadLoop == Spawns \/ ReadLoopDies \/ Takes
Read == ReadMessage \/ Recovers

ClientNext ==
    \/ TypesInput \/ Closes \/ ConnBreaks \/ \E m \in Messages : ServerSends(m)
    \/ Writer \/ ReadLoop \/ Read \/ SizeLoop \/ Returns

\* Goroutines are scheduled.
ClientFairness ==
    /\ WF_clientVars(Writer) /\ WF_clientVars(ReadLoop) /\ WF_clientVars(Read)
    /\ WF_clientVars(SizeLoop) /\ WF_clientVars(Returns)
ClientSpec == ClientInit /\ [][ClientNext]_clientVars
ClientLiveSpec == ClientSpec /\ ClientFairness

-----------------------------------------------------------------------------
ClientTypeOK ==
    /\ mode \in Modes /\ wsConn \in {"open", "lost"} /\ incoming \in Seq(Messages)
    /\ {typed, taken, data, resend} \subseteq 0..MaxInput
    /\ {closed, closeSent, real_connected, poison, running} \subseteq BOOLEAN
    /\ msgChan \in {"open", "closed"} /\ reading \in {"none", "reading", "offers"}
    /\ {held, ending} \subseteq Messages \cup {"none", "error"}
    /\ wpc \in {"warm", "read", "ready", "resend", "send", "poison", "done"}
    /\ rpc \in {"spawn", "select", "done"} /\ spc \in {"wait", "loop", "done"}
    /\ mpc \in {"wait", "done"} /\ written <= outputs /\ messages \in 0..MaxMessages

\* What a user or a local connection writes reaches the agent in order, and all of it
\* before the agent is told to close; of a pipe, whose chunks are dropped until the agent
\* has answered, at least the first.
InputKept ==
    IF mode = "raw" THEN /\ \A i, j \in DOMAIN sent : i < j => sent[i] < sent[j]
                         /\ sent # <<>> => sent[1] = 1
    ELSE /\ sent = [i \in DOMAIN sent |-> i]
         /\ closeSent => Len(sent) = typed

\* A session that the server closes has shown all its output before the client ends;
\* one message is read at a time, and none is lost between the goroutines.
OutputKept ==
    /\ ending \in Closing => written = outputs
    /\ rpc # "done" => written + Len(SelectSeq(incoming, LAMBDA m : m = "output"))
                         + (IF reading = "offers" /\ held = "output" THEN 1 ELSE 0) = outputs

\* Whoever ends first, the others do not stay behind: the user who closes, the server, or
\* the network end the program, or the forwarding of one connection.
ClientEnds == closed \/ wsConn = "lost" ~> mpc = "done" \/ ~running
NobodyStays == mpc = "done" ~> ~running \/ (rpc = "done" /\ spc = "done")
=============================================================================
