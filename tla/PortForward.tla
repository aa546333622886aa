----------------------------- MODULE PortForward -----------------------------
(***************************************************************************)
(* A port forwarding session (src/agent/session/port/port.go).             *)
(*                                                                         *)
(* Execute starts a pump, which copies what the target sends into the data *)
(* channel, and waits for the pump to be done or the session cancelled.    *)
(* When the target closes, the pump waits on reconnectToPortErr, which has *)
(* no buffer: for the next message of the client, whose handler dials the  *)
(* target again, or for Execute, when the session is cancelled.            *)
(*                                                                         *)
(* The data channel is module SessionChannel: here it is heard until the   *)
(* client leaves or the session is over.  A watcher wakes Execute when the *)
(* cancel flag is set; that the flag may change again under its eyes is    *)
(* module SessionTask.                                                     *)
(***************************************************************************)
EXTENDS Integers

CONSTANTS
    MaxConns,      \* bound on the connections to the target: the next dial fails
    ClientLeaves   \* may the data channel close before the session ends?

PortAssumption == MaxConns \in Nat \ {0} /\ ClientLeaves \in BOOLEAN

VARIABLES
    conn,       \* the connections made so far; p.conn is the last ...
    connected,  \* ... unless the last dial failed (p.conn = nil)
    openConns,      \* connections open at both ends
    reconnect,  \* reconnectToPort
    pump,       \* "top", "read", "wait" (in onError) or "done"
    handler,    \* of the client's messages: "idle", "dial", "send", "sent"
    dialled,    \* did the handler's dial succeed?
    execute,    \* "select", "cancel" (sending), "over"
    active,     \* dataChannel.IsActive
    cancelled        \* is the cancel flag set?

port == <<conn, connected, openConns>>
portVars == <<port, reconnect, pump, handler, dialled, execute, active, cancelled>>

\* The type invariant; a handler goes on only after a dial that succeeded.
PortTypeOK ==
    /\ conn \in 0 .. MaxConns /\ openConns \subseteq 1 .. conn
    /\ {connected, reconnect, dialled, active, cancelled} \subseteq BOOLEAN
    /\ pump \in {"top", "read", "wait", "done"}
    /\ handler \in {"idle", "dial", "send", "sent"}
    /\ execute \in {"select", "cancel", "over"}
    /\ handler = "sent" => dialled

\* Execute, once it has dialled the target.
PortInit ==
    /\ conn = 1 /\ connected = TRUE /\ openConns = {1}
    /\ reconnect = FALSE
    /\ pump = "top" /\ handler = "idle" /\ dialled = FALSE
    /\ execute = "select" /\ active = TRUE /\ cancelled = FALSE

(***************************************************************************)
(* The target, the client, and whoever sets the cancel flag.               *)
(***************************************************************************)
TargetCloses ==
    /\ openConns # {} /\ \E c \in openConns : openConns' = openConns \ {c}
    /\ UNCHANGED <<conn, connected, reconnect, pump, handler, dialled, execute, active, cancelled>>

ChannelCloses ==
    /\ ClientLeaves /\ active /\ active' = FALSE
    /\ UNCHANGED <<port, reconnect, pump, handler, dialled, execute, cancelled>>

Cancel ==
    /\ ~cancelled /\ cancelled' = TRUE
    /\ UNCHANGED <<port, reconnect, pump, handler, dialled, execute, active>>

(***************************************************************************)
(* writePump and onError.                                                  *)
(***************************************************************************)
PumpAsks ==
    /\ pump = "top"
    /\ pump' = IF active THEN "read" ELSE "done"
    /\ UNCHANGED <<port, reconnect, handler, dialled, execute, active, cancelled>>

\* Data of the target, sent on.
PumpCopies ==
    /\ pump = "read" /\ conn \in openConns
    /\ pump' = "top"
    /\ UNCHANGED <<port, reconnect, handler, dialled, execute, active, cancelled>>

PumpFails ==
    /\ pump = "read" /\ conn \notin openConns
    /\ pump' = "wait" /\ reconnect' = TRUE
    /\ UNCHANGED <<port, handler, dialled, execute, active, cancelled>>

(***************************************************************************)
(* InputStreamMessageHandler, in the reader of the data channel.           *)
(***************************************************************************)
MessageComes ==
    /\ active /\ handler = "idle"
    /\ connected /\ reconnect
    /\ handler' = "dial"
    /\ UNCHANGED <<port, reconnect, pump, dialled, execute, active, cancelled>>

HandlerDials ==
    /\ handler = "dial" /\ handler' = "send"
    /\ \/ /\ conn < MaxConns /\ conn' = conn + 1 /\ openConns' = openConns \cup {conn + 1}
          /\ dialled' = TRUE /\ UNCHANGED connected
       \/ dialled' = FALSE /\ connected' = FALSE /\ UNCHANGED <<conn, openConns>>
    /\ UNCHANGED <<reconnect, pump, execute, active, cancelled>>

\* The handler and the pump meet: the pump reads on, or it is done.
HandlerTells ==
    /\ handler = "send" /\ pump = "wait"
    /\ IF dialled THEN handler' = "sent" /\ pump' = "top"
                  ELSE handler' = "idle" /\ pump' = "done"
    /\ UNCHANGED <<port, reconnect, dialled, execute, active, cancelled>>

(* Mutant: reconnectToPort is not reset. *)
HandlerForgets ==
    /\ handler = "sent" /\ handler' = "idle"
    /\ UNCHANGED <<port, reconnect, pump, dialled, execute, active, cancelled>>

HandlerResets ==
    /\ handler = "sent" /\ handler' = "idle"
    /\ reconnect' = FALSE
    /\ UNCHANGED <<port, pump, dialled, execute, active, cancelled>>

(***************************************************************************)
(* Execute.  When it returns it closes p.conn, and RunTask the channel.    *)
(***************************************************************************)
Return ==
    /\ execute' = "over"
    /\ openConns' = IF connected THEN openConns \ {conn} ELSE openConns
    /\ active' = FALSE
    /\ UNCHANGED <<conn, connected>>

ExecuteDone ==
    /\ execute = "select" /\ pump = "done"
    /\ Return
    /\ UNCHANGED <<reconnect, pump, handler, dialled, cancelled>>

ExecuteCancelled ==
    /\ execute = "select" /\ cancelled
    /\ execute' = "cancel"
    /\ UNCHANGED <<port, reconnect, pump, handler, dialled, active, cancelled>>

\* Execute and the pump meet.
ExecuteTells ==
    /\ execute = "cancel" /\ pump = "wait"
    /\ pump' = "done"
    /\ Return
    /\ UNCHANGED <<reconnect, handler, dialled, cancelled>>

Pump == PumpAsks \/ PumpFails
Handler == HandlerDials \/ HandlerTells \/ HandlerResets
Execute == ExecuteDone \/ ExecuteCancelled \/ ExecuteTells

PortNext ==
    \/ TargetCloses \/ ChannelCloses \/ Cancel
    \/ PumpCopies \/ Pump \/ MessageComes \/ Handler \/ Execute

PortSpec == PortInit /\ [][PortNext]_portVars

\* Goroutines get on; neither target nor client promise anything.
PortFairness == WF_portVars(Pump) /\ WF_portVars(Handler) /\ WF_portVars(Execute)
PortLiveSpec == PortSpec /\ PortFairness

(***************************************************************************)
(* Properties.                                                             *)
(***************************************************************************)
\* A message is not held up for nothing: while its handler is about to tell
\* how the reconnection went, the pump waits for it or is done for good.
HandlerIsAwaited == handler \in {"dial", "send"} => pump \in {"wait", "done"}

\* "the go routine wakes up the running job": a cancelled session ends.
CancelEnds == cancelled ~> execute = "over"

\* "Waiting for reconnection to port!!": while the pump waits, the next message
\* will see that it does.
WaitIsSeen == pump = "wait" => reconnect
=============================================================================
