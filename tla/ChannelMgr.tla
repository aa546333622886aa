----------------------------- MODULE ChannelMgr -----------------------------
(***************************************************************************)
(* The channels over which the server kicks the agent (src/agent/channel). *)
(*                                                                         *)
(* The gshell channel reads a device of the virtual machine, the websocket *)
(* channel a connection it dials.  ChannelSetLock serialises the goroutines*)
(* that select a channel: main at the start, the timer every 1800 s, one   *)
(* SwitchChannel for each reader that gives up, and openOtherChannel when  *)
(* too many kicks come over gshell.  The readers do not take that lock:    *)
(* they clear Working whatever the manager is doing.                       *)
(*                                                                         *)
(* There is no clock: the tick of 1800 s and the end of the cool-down may  *)
(* come at any time.  One duration matters: SwitchChannel of gshell waits  *)
(* for the reader and then a second, and the deferred calls of that reader *)
(* are over by then.  The lock of the websocket channel is held for one    *)
(* step at a time, except by a dial, during which only a reader could want *)
(* it: that reader then comes after the dial.                              *)
(***************************************************************************)
EXTENDS Integers, FiniteSets

CONSTANTS
    Hybrid,         \* is the instance hybrid (no gshell)?
    GshellSupport,  \* what the check service answers for gshell
    CoolDownCount,  \* wssCoolDownCount
    RetryCount,     \* MAX_RETRY_COUNT of the reader of the websocket
    Attempts,       \* attempts of a SwitchChannel (5)
    MaxConns,       \* bound on the connections dialled: the next dial fails
    MaxOpens,       \* bound on the times the device is opened
    MaxTroubles,    \* bound on outages of network, device and connection
    Prompt,         \* are readers no later than the second SwitchChannel waits?
    Overload        \* may kicks exceed the frequency limit (once)?

ChannelAssumption ==
    /\ Hybrid \in BOOLEAN /\ GshellSupport \in BOOLEAN 
    /\ Overload \in BOOLEAN /\ Prompt \in BOOLEAN
    /\ CoolDownCount \in Nat /\ MaxTroubles \in Nat
    /\ {RetryCount, Attempts, MaxConns, MaxOpens} \subseteq Nat \ {0}

VARIABLES
    net, device,    \* is the network up, does the device work?
    hostKnown,      \* is the host of the server (g_domainId) known?
    gsWorking, wsWorking,  \* Working of the two channels
    active,         \* ActiveChannel
    wskConn,        \* the connection of the websocket channel (0: none yet)
    alive,          \* the connections that are neither closed nor broken
    readers,        \* the readers of the websocket, by the start they come from
    opens, gsReader,  \* times the device was opened, the reader of the last
    failed, calm,   \* consecutiveConnectFailed, before calmDownUntil?
    procs,          \* the goroutines that select a channel
    lock,           \* who holds ChannelSetLock
    overloaded,     \* has the limit been reached?
    gaveUp,         \* the last selection failed and left no channel
    troubles

world == <<net, device, hostKnown, troubles>>
gshell == <<gsWorking, opens, gsReader>>
cool == <<failed, calm>>
websocket == <<wsWorking, wskConn, alive, readers, cool>>
vars == <<world, gshell, websocket, active, procs, lock, overloaded, gaveUp>>

Channels == {"gshell", "websocket"}
Conns == 1 .. MaxConns
GsSwitch(n) == <<"gshell", n>>
WsSwitch(n) == <<"websocket", n>>
main == <<"main", 0>>
timer == <<"timer", 0>>
other == <<"other", 0>>
free == <<"none", 0>>   \* nobody
Procs == {main, timer, other} \cup {GsSwitch(n) : n \in 1 .. MaxOpens}
            \cup {WsSwitch(n) : n \in Conns}

\* Where a goroutine is: "want" ChannelSetLock; in checkChannelWorker
\* ("check", "checked", "stop"); in the first loop of a selection ("gs", "gsWorks",
\* "ws") or in the second ("gsStart", "wsStart").
Places == {"idle", "want", "check", "checked", "stop", "gs", "gsWorks", "ws",
           "gsStart", "wsStart", "done"}
Idle == [at |-> "idle", skip |-> "none", tries |-> 0]

Works(c) == CASE c = "gshell" -> gsWorking [] c = "websocket" -> wsWorking [] OTHER -> FALSE
Silent == ~gsWorking /\ ~wsWorking

\* The type invariant: a lock holder is inside a selection, and nobody else is.
TypeOK ==
    /\ {net, device, hostKnown, gsWorking, wsWorking, calm, overloaded, gaveUp} \subseteq BOOLEAN
    /\ active \in Channels \cup {"none"}
    /\ wskConn \in 0 .. MaxConns /\ alive \subseteq 1 .. wskConn
    /\ readers \in [Conns -> [at : {"none", "top", "read", "end"}, conn : 0 .. MaxConns,
                              fails : 0 .. RetryCount]]
    /\ opens \in 0 .. MaxOpens /\ gsReader \in {"none", "read", "leave"}
    /\ (gsReader # "none") = gsWorking
    /\ failed \in Nat
    /\ procs \in [Procs -> [at : Places, skip : Channels \cup {"none"}, tries : 0 .. Attempts]]
    /\ lock \in Procs \cup {free}
    /\ \A p \in Procs : (p = lock) <=> procs[p].at \notin {"idle", "want", "done"}
    /\ troubles \in 0 .. MaxTroubles

\* StartChannelMgr after TryStartGshellChannel, which may have opened the device.
Init ==
    /\ net \in BOOLEAN /\ device \in BOOLEAN /\ hostKnown \in BOOLEAN
    /\ gsWorking = (device /\ ~Hybrid)
    /\ gsReader = IF gsWorking THEN "read" ELSE "none"
    /\ opens = IF gsWorking THEN 1 ELSE 0
    /\ wsWorking = FALSE /\ wskConn = 0 /\ alive = {}
    /\ readers = [i \in Conns |-> [at |-> "none", conn |-> 0, fails |-> 0]]
    /\ failed = 0 /\ calm = FALSE
    /\ active = "none"
    /\ procs = [p \in Procs |-> IF p = main THEN [Idle EXCEPT !.at = "want"] ELSE Idle]
    /\ lock = free /\ overloaded = FALSE /\ gaveUp = FALSE
    /\ troubles = 0

(***************************************************************************)
(* The world: the network and the device fail and recover, a connection    *)
(* breaks, the cool-down passes.                                           *)
(***************************************************************************)
Trouble ==
    /\ troubles < MaxTroubles /\ troubles' = troubles + 1
    /\ \/ net /\ net' = FALSE /\ alive' = {} /\ UNCHANGED device
       \/ device /\ device' = FALSE /\ UNCHANGED <<net, alive>>
       \/ alive # {} /\ alive' = {} /\ UNCHANGED <<net, device>>
    /\ UNCHANGED <<hostKnown, gshell, wsWorking, wskConn, readers, cool, active, procs, lock,
                   overloaded, gaveUp>>

NetRecovers ==
    /\ ~net /\ net' = TRUE
    /\ UNCHANGED <<device, hostKnown, troubles, gshell, websocket, active, procs, lock, overloaded, gaveUp>>

DeviceRecovers ==
    /\ ~device /\ device' = TRUE
    /\ UNCHANGED <<net, hostKnown, troubles, gshell, websocket, active, procs, lock, overloaded, gaveUp>>

CalmEnds ==
    /\ calm /\ calm' = FALSE
    /\ UNCHANGED <<world, gshell, wsWorking, wskConn, alive, readers, failed, active, procs,
                   lock, overloaded, gaveUp>>

(***************************************************************************)
(* What a selection does to the channels.  Each returns through its last   *)
(* parameter whether it succeeded.                                         *)
(***************************************************************************)
Go(p, place) == procs' = [procs EXCEPT ![p].at = place]

\* startChannelUnsafe, in IsSupported and in StartChannel of gshell.
OpenGshell(ok) ==
    IF gsWorking THEN ok = TRUE /\ UNCHANGED gshell
    ELSE /\ ok = (device /\ opens < MaxOpens)
         /\ IF ok
            THEN /\ opens' = opens + 1
                 /\ gsWorking' = TRUE /\ gsReader' = "read"
            ELSE UNCHANGED gshell

\* IsSupported of gshell: opens the device, then asks the service.
GshellSupported(yes) ==
    IF Hybrid THEN yes = FALSE /\ UNCHANGED gshell
    ELSE \E opened \in BOOLEAN :
            /\ OpenGshell(opened)
            /\ yes = (opened /\ net /\ GshellSupport)

\* IsSupported of the websocket: the host of the server, once known, stays so;
\* without the network it may be known from a file, or not.
WebsocketSupported(yes) ==
    /\ hostKnown \/ net => yes
    /\ hostKnown' = yes

\* StartChannel of the websocket: it does not look at Working.
Calming == failed >= CoolDownCount /\ calm
StartWebsocket(ok) ==
    IF Calming THEN ok = FALSE /\ UNCHANGED websocket
    ELSE IF net /\ wskConn < MaxConns
    THEN /\ ok = TRUE
         /\ wskConn' = wskConn + 1
         /\ alive' = alive \cup {wskConn + 1}
         /\ wsWorking' = TRUE /\ failed' = 0 /\ UNCHANGED calm
         /\ readers' = [readers EXCEPT ![wskConn + 1].at = "top"]
    ELSE /\ ok = FALSE
         /\ failed' = (IF failed >= CoolDownCount THEN 0 ELSE failed) + 1
         /\ calm' = (calm \/ failed' >= CoolDownCount)
         /\ UNCHANGED <<wsWorking, wskConn, alive, readers>>

\* StopChannel of the websocket.
StopWebsocket ==
    IF wsWorking
    THEN wsWorking' = FALSE /\ alive' = alive \ {wskConn} /\ UNCHANGED <<wskConn, readers, cool>>
    ELSE UNCHANGED websocket

(***************************************************************************)
(* What a goroutine does when its selection has returned.                  *)
(***************************************************************************)
IsSwitch(p) == p[1] \in Channels

Over(p) == [Idle EXCEPT !.at = IF p = timer THEN "idle" ELSE "done"]

\* The SwitchChannels try again, the one of gshell with gshell allowed.
AfterFailure(p) ==
    LET first == procs[p].skip = "gshell"
        tries == IF first THEN 0 ELSE procs[p].tries + 1
    IN  IF IsSwitch(p) /\ (first \/ tries < Attempts)
        THEN [at |-> "want", skip |-> "none", tries |-> tries]
        ELSE Over(p)

Return(p, ok) ==
    /\ lock' = free
    /\ procs' = [procs EXCEPT ![p] = IF ok THEN Over(p) ELSE AfterFailure(p)]

\* A channel that starts ends the silence; a failed selection may confirm it.
Fails(p) == Return(p, FALSE) /\ gaveUp' = (Silent \/ gaveUp)

(***************************************************************************)
(* SelectAvailableChannel, a step for each question it asks, under the     *)
(* lock.  In the first loop a supported channel that works ends it.        *)
(***************************************************************************)
\* StopChannel of gshell waits for the reader; the second covers its deferred
\* calls.  A prompt reader of the websocket sees that its connection is closed,
\* sleeps its second and looks at Working within the second of SwitchChannel.
Left(i) == readers[i].at \in {"none", "end"}

(* Mutant: the switch does not wait for the reader of gshell. *)
WaitIsShort(p) ==
    Prompt /\ p[1] = "websocket" /\ ~wsWorking => \A i \in Conns : Left(i)

WaitIsOver(p) ==
    /\ p[1] = "gshell" => gsReader # "leave"
    /\ Prompt /\ p[1] = "websocket" /\ ~wsWorking => \A i \in Conns : Left(i)

Enter(p) ==
    /\ procs[p].at = "want" /\ lock = free
    /\ WaitIsOver(p)
    /\ lock' = p
    /\ procs[main].at # "want" \/ p = main
    /\ Go(p, IF p = main THEN "gsStart"
             ELSE IF p = timer /\ procs[p].tries = 0 THEN "check" ELSE "gs")
    /\ UNCHANGED <<world, gshell, websocket, active, overloaded, gaveUp>>

\* Before Init has filled AllChannel there is nothing to select from.
NothingToSelect(p) ==
    /\ procs[p].at = "want" /\ lock = free
    /\ p # main /\ procs[main].at = "want"
    /\ WaitIsOver(p)
    /\ procs' = [procs EXCEPT ![p] = AfterFailure(p)]
    /\ UNCHANGED <<world, gshell, websocket, active, lock, overloaded, gaveUp>>

AskGshell(p) ==
    /\ procs[p].at = "gs"
    /\ IF procs[p].skip = "gshell" THEN Go(p, "ws") /\ UNCHANGED <<gshell, gaveUp>>
       ELSE \E yes \in BOOLEAN :
               /\ GshellSupported(yes)
               /\ Go(p, IF yes THEN "gsWorks" ELSE "ws")
               /\ gaveUp' = (gaveUp /\ ~gsWorking')
    /\ UNCHANGED <<world, websocket, active, lock, overloaded>>

GshellWorks(p) ==
    /\ procs[p].at = "gsWorks"
    /\ IF gsWorking THEN Return(p, TRUE) ELSE Go(p, "ws") /\ UNCHANGED lock
    /\ UNCHANGED <<world, gshell, websocket, active, overloaded, gaveUp>>

AskWebsocket(p) ==
    /\ procs[p].at = "ws"
    /\ \E supported \in BOOLEAN :
          /\ WebsocketSupported(supported)
          /\ IF supported /\ wsWorking THEN Return(p, TRUE)
             ELSE Go(p, "gsStart") /\ UNCHANGED lock
    /\ UNCHANGED <<net, device, troubles, gshell, websocket, active, overloaded, gaveUp>>

\* The second loop: the first supported channel that starts is the active one.
StartGshell(p) ==
    /\ procs[p].at = "gsStart"
    /\ IF procs[p].skip = "gshell"
       THEN Go(p, "wsStart") /\ UNCHANGED <<gshell, active, lock, gaveUp>>
       ELSE \E yes \in BOOLEAN :
               /\ GshellSupported(yes)
               /\ gaveUp' = (gaveUp /\ ~gsWorking')
               /\ IF yes THEN active' = "gshell" /\ Return(p, TRUE)
                  ELSE Go(p, "wsStart") /\ UNCHANGED <<active, lock>>
    /\ UNCHANGED <<world, websocket, overloaded>>

StartWs(p) ==
    /\ procs[p].at = "wsStart"
    /\ \E supported, ok \in BOOLEAN :
          /\ WebsocketSupported(supported)
          /\ IF supported THEN StartWebsocket(ok) ELSE ok = FALSE /\ UNCHANGED websocket
          /\ IF ok THEN active' = "websocket" /\ Return(p, TRUE) /\ gaveUp' = FALSE
             ELSE UNCHANGED active /\ Fails(p)
    /\ UNCHANGED <<net, device, troubles, gshell, overloaded>>

(***************************************************************************)
(* The timer.  checkChannelWorker looks for gshell and closes the          *)
(* websocket when gshell works; when it does not, any channel will do.     *)
(***************************************************************************)
Tick ==
    /\ procs[timer].at = "idle" /\ procs[main].at = "done"
    /\ Go(timer, "want")
    /\ UNCHANGED <<world, gshell, websocket, active, lock, overloaded, gaveUp>>

ThenSelect ==
    /\ lock' = free
    /\ procs' = [procs EXCEPT ![timer] = [Idle EXCEPT !.at = "want", !.tries = 1]]

Check ==
    /\ procs[timer].at = "check"
    /\ \E yes \in BOOLEAN :
          /\ GshellSupported(yes)
          /\ gaveUp' = (gaveUp /\ ~gsWorking')
          /\ IF yes THEN Go(timer, "checked") /\ UNCHANGED lock ELSE ThenSelect
    /\ UNCHANGED <<world, websocket, active, overloaded>>

Checked ==
    /\ procs[timer].at = "checked"
    /\ IF gsWorking THEN Go(timer, "stop") /\ UNCHANGED lock ELSE ThenSelect
    /\ UNCHANGED <<world, gshell, websocket, active, overloaded, gaveUp>>

(* Mutant: ActiveChannel stays what it was. *)
StopOnly ==
    /\ procs[timer].at = "stop"
    /\ StopWebsocket
    /\ Return(timer, TRUE)
    /\ UNCHANGED <<world, gshell, active, overloaded, gaveUp>>

Stop ==
    /\ procs[timer].at = "stop"
    /\ StopWebsocket
    /\ active' = "gshell"
    /\ Return(timer, TRUE)
    /\ UNCHANGED <<world, gshell, overloaded, gaveUp>>

(***************************************************************************)
(* The reader of the websocket that start i has left: it reads whatever    *)
(* connection wskConn is when it asks.                                     *)
(***************************************************************************)
ReaderAsks(i) ==
    /\ readers[i].at = "top"
    /\ readers' = [readers EXCEPT ![i] =
            IF wsWorking THEN [@ EXCEPT !.at = "read", !.conn = wskConn]
            ELSE [@ EXCEPT !.at = "end", !.conn = 0]]
    /\ UNCHANGED <<world, gshell, wsWorking, wskConn, alive, cool, active, procs, lock,
                   overloaded, gaveUp>>

ReaderGets(i) ==
    /\ readers[i].at = "read" /\ readers[i].conn \in alive
    /\ readers' = [readers EXCEPT ![i].at = "top", ![i].fails = 0]
    /\ UNCHANGED <<world, gshell, wsWorking, wskConn, alive, cool, active, procs, lock,
                   overloaded, gaveUp>>

ReaderFails(i) ==
    /\ readers[i].at = "read" /\ readers[i].conn \notin alive
    /\ readers[i].fails + 1 < RetryCount
    /\ readers' = [readers EXCEPT ![i].at = "top", ![i].fails = @ + 1]
    /\ UNCHANGED <<world, gshell, wsWorking, wskConn, alive, cool, active, procs, lock,
                   overloaded, gaveUp>>

\* The last failure: it closes the connection of the channel, its own or not.
ReaderGivesUp(i) ==
    /\ readers[i].at = "read" /\ readers[i].conn \notin alive
    /\ readers[i].fails + 1 >= RetryCount
    /\ alive' = alive \ {wskConn}
    /\ wsWorking' = FALSE
    /\ readers' = [readers EXCEPT ![i] = [at |-> "end", conn |-> 0, fails |-> RetryCount]]
    /\ Go(WsSwitch(i), "want")
    /\ UNCHANGED <<world, gshell, wskConn, cool, active, lock, overloaded, gaveUp>>

(***************************************************************************)
(* The reader of gshell.  Errors of Read are ignored; when the reply cannot*)
(* be written it starts the switch, then closes the device and clears      *)
(* Working.                                                                *)
(***************************************************************************)
WriteFails ==
    /\ gsReader = "read" /\ ~device
    /\ gsReader' = "leave"
    /\ procs' = [procs EXCEPT ![GsSwitch(opens)] =
            [at |-> "want", skip |-> "gshell", tries |-> 0]]
    /\ UNCHANGED <<world, gsWorking, opens, websocket, active, lock, overloaded, gaveUp>>

GsReaderLeaves ==
    /\ gsReader = "leave"
    /\ gsReader' = "none" /\ gsWorking' = FALSE
    /\ UNCHANGED <<world, opens, websocket, active, procs, lock, overloaded, gaveUp>>

\* hasReachFrequencyLimit says so: openOtherChannel, and gshell stays.
TooManyKicks ==
    /\ Overload /\ ~overloaded /\ overloaded' = TRUE
    /\ gsReader = "read" /\ device
    /\ procs' = [procs EXCEPT ![other] = [at |-> "want", skip |-> "gshell", tries |-> 0]]
    /\ UNCHANGED <<world, gshell, websocket, active, lock, gaveUp>>

Selects(p) ==
    \/ Enter(p) \/ NothingToSelect(p)
    \/ AskGshell(p) \/ GshellWorks(p) \/ AskWebsocket(p)
    \/ StartGshell(p) \/ StartWs(p)
Reader(i) == ReaderAsks(i) \/ ReaderGets(i) \/ ReaderFails(i) \/ ReaderGivesUp(i)

Next ==
    \/ Trouble \/ NetRecovers \/ DeviceRecovers \/ CalmEnds
    \/ Tick \/ Check \/ Checked \/ Stop
    \/ \E p \in Procs : Selects(p)
    \/ \E i \in Conns : Reader(i)
    \/ WriteFails \/ GsReaderLeaves \/ TooManyKicks

Spec == Init /\ [][Next]_vars

\* Goroutines get on, the network comes back, the timer ticks; nothing is
\* promised of the device or of what is read from it.
Fairness ==
    /\ WF_vars(NetRecovers) /\ WF_vars(CalmEnds)
    /\ WF_vars(Tick) /\ WF_vars(Check \/ Checked \/ Stop)
    /\ \A p \in Procs : SF_vars(Enter(p)) /\ WF_vars(Selects(p))
    /\ \A i \in Conns : WF_vars(Reader(i))
    /\ WF_vars(GsReaderLeaves)
LiveSpec == Spec /\ Fairness

(***************************************************************************)
(* Properties.                                                             *)
(***************************************************************************)
\* The agent is never left without a channel unnoticed: when none works,
\* somebody is about to select one, or the last selection has found none.
NeverOrphaned ==
    Silent => gaveUp \/ \E p \in DOMAIN procs : procs[p].at \notin {"idle", "done"}

\* Once the world has settled there is an active channel, and it works for
\* good: what the switches leave wrong the timer puts right (Init, 1800 s).
Recovers == <>[]Works(active)

\* "ActiveChannel IChannel //current used channel": when nobody is selecting
\* and a channel works, the active one does.
ActiveIsUsed ==
    /\ \A p \in Procs : procs[p].at \in {"idle", "done"}
    /\ active # "none" /\ ~Silent
    => Works(active)

\* "Connections support one concurrent reader": no two goroutines read from
\* the same connection.
OneReader ==
    \A i, j \in Conns :
        i # j /\ readers[i].at = "read" /\ readers[j].at = "read"
            => readers[i].conn # readers[j].conn
=============================================================================
