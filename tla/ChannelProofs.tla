---------------------------- MODULE ChannelProofs ----------------------------
(***************************************************************************)
(* Proofs about the channels: that a selection is under way, or has failed,*)
(* whenever no channel works; that the limit on the kicks that come over   *)
(* gshell is exact; that few heart-beats in a row are lost; that files     *)
(* which are reported as sent are there; and that server, headers and      *)
(* region are of one provider.                                             *)
(***************************************************************************)
EXTENDS ChannelMgr, KickLimit, Heartbeat, SendFile, ApiServer, SequenceTheorems, TLAPS

(***************************************************************************)
(* ChannelMgr, for any number of connections, of openings of the device,   *)
(* of attempts and of troubles.                                            *)
(*                                                                         *)
(* Three places may leave both channels silent: the reader of the          *)
(* websocket, which starts a switch in the same step; the reader of        *)
(* gshell, whose switch waits until it has left (SwitchWaits); and the     *)
(* timer, which closes the websocket for a gshell that may have failed     *)
(* since (StopIsCovered).  The last holds as long as the lock is the       *)
(* timer's (OneSelects), which no goroutine that is started meanwhile      *)
(* takes away (Fresh).                                                     *)
(***************************************************************************)
Holding == Places \ {"idle", "want", "done"}
Proc == [at : Places, skip : Channels \cup {"none"}, tries : 0 .. Attempts]
ReaderState == [at : {"none", "top", "read", "end"}, conn : 0 .. MaxConns,
                fails : 0 .. RetryCount]

Switches ==
    /\ net \in BOOLEAN /\ device \in BOOLEAN /\ hostKnown \in BOOLEAN
    /\ calm \in BOOLEAN /\ overloaded \in BOOLEAN /\ gaveUp \in BOOLEAN
    /\ active \in Channels \cup {"none"}

Counters == failed \in Nat /\ troubles \in 0 .. MaxTroubles

GshellTyped ==
    /\ gsWorking \in BOOLEAN /\ opens \in 0 .. MaxOpens
    /\ gsReader \in {"none", "read", "leave"}
    /\ gsWorking <=> gsReader # "none"
    /\ gsWorking => opens # 0

WebsocketTyped ==
    /\ wsWorking \in BOOLEAN /\ wskConn \in 0 .. MaxConns /\ alive \subseteq 1 .. wskConn
    /\ readers \in [Conns -> ReaderState]

ProcsTyped == procs \in [Procs -> Proc] /\ lock \in Procs \cup {free}

\* Who is inside a selection holds ChannelSetLock.
OneSelects == \A p \in Procs : p = lock <=> procs[p].at \in Holding

\* A goroutine that a reader or too many kicks start has not run before.
Fresh ==
    /\ \A n \in 1 .. MaxOpens :
          n > opens \/ (n = opens /\ gsReader = "read") => procs[GsSwitch(n)].at = "idle"
    /\ \A i \in Conns : readers[i].at # "end" => procs[WsSwitch(i)].at = "idle"
    /\ \A i \in Conns : i > wskConn => readers[i].at = "none"
    /\ ~overloaded => procs[other].at = "idle"

\* The switch that the reader of gshell has started waits for the reader to leave.
SwitchWaits == gsReader = "leave" => procs[GsSwitch(opens)].at = "want"

\* The timer closes the websocket for gshell, which works or will be switched from.
StopIsCovered ==
    procs[timer].at = "stop" => gsWorking \/ \E p \in Procs : procs[p].at = "want"

Order == OneSelects /\ Fresh /\ SwitchWaits /\ StopIsCovered
MgrInv == GshellTyped /\ WebsocketTyped /\ ProcsTyped /\ Order

LEMMA Goroutines ==
    ASSUME ChannelAssumption
    PROVE  /\ main \in Procs /\ timer \in Procs /\ other \in Procs /\ free \notin Procs
           /\ \A n \in 1 .. MaxOpens : GsSwitch(n) \in Procs
           /\ \A i \in Conns : WsSwitch(i) \in Procs
           /\ timer # main /\ timer # other /\ main # other
           /\ \A n \in 1 .. MaxOpens, i \in Conns : GsSwitch(n) # WsSwitch(i)
           /\ \A n \in 1 .. MaxOpens : GsSwitch(n) \notin {main, timer, other}
           /\ \A i \in Conns : WsSwitch(i) \notin {main, timer, other}
           /\ \A n, m \in 1 .. MaxOpens : n # m => GsSwitch(n) # GsSwitch(m)
           /\ \A i, j \in Conns : i # j => WsSwitch(i) # WsSwitch(j)
           /\ \A n \in 1 .. MaxOpens : GsSwitch(n)[1] = "gshell"
  BY DEF Procs, main, timer, other, free, GsSwitch, WsSwitch, Conns

\* IsSupported of gshell opens the device, or leaves it as it is.
GshellMoves ==
    \/ UNCHANGED gshell
    \/ /\ ~gsWorking /\ gsWorking' = TRUE /\ gsReader' = "read"
       /\ opens < MaxOpens /\ opens' = opens + 1

LEMMA SupportMoves ==
    ASSUME GshellTyped, NEW yes \in BOOLEAN, GshellSupported(yes)
    PROVE  GshellMoves /\ (yes => gsWorking')
<1>1. CASE Hybrid
  BY <1>1 DEF GshellSupported, GshellMoves
<1>2. CASE ~Hybrid
  <2>1. PICK opened \in BOOLEAN : OpenGshell(opened) /\ yes = (opened /\ net /\ GshellSupport)
    BY <1>2 DEF GshellSupported
  <2>2. yes => opened
    BY <2>1
  <2>3. CASE gsWorking
    BY <2>1, <2>3 DEF OpenGshell, GshellMoves, gshell
  <2>4. CASE ~gsWorking
    <3>1. opened = (device /\ opens < MaxOpens)
      BY <2>1, <2>4 DEF OpenGshell
    <3>2. CASE opened
      BY <2>1, <2>4, <3>1, <3>2 DEF OpenGshell, GshellMoves
    <3>3. CASE ~opened
      BY <2>1, <2>2, <2>4, <3>3 DEF OpenGshell, GshellMoves
    <3> QED
      BY <3>2, <3>3
  <2> QED
    BY <2>3, <2>4
<1> QED
  BY <1>1, <1>2

LEMMA GshellStaysTyped ==
    ASSUME ChannelAssumption, GshellTyped, GshellMoves
    PROVE  GshellTyped' /\ (gsWorking => gsWorking')
<1>1. CASE UNCHANGED gshell
  BY <1>1 DEF gshell, GshellTyped
<1>2. CASE ~UNCHANGED gshell
  <2>1. /\ ~gsWorking /\ gsWorking' = TRUE /\ gsReader' = "read"
        /\ opens < MaxOpens /\ opens' = opens + 1
    BY <1>2 DEF GshellMoves
  <2>2. MaxOpens \in Nat
    BY DEF ChannelAssumption
  <2>3. opens' \in 0 .. MaxOpens /\ opens' # 0
    BY <2>1, <2>2 DEF GshellTyped
  <2> QED
    BY <2>1, <2>3, Zenon DEF GshellTyped
<1> QED
  BY <1>1, <1>2

\* The websocket starts no reader, or the next.
WebsocketMoves ==
    \/ UNCHANGED <<readers, wskConn>>
    \/ /\ wskConn < MaxConns /\ wskConn' = wskConn + 1
       /\ readers' = [readers EXCEPT ![wskConn + 1].at = "top"]

\* A goroutine inside a selection goes on in it, or leaves it.
Becomes(p, r) ==
    /\ procs' = [procs EXCEPT ![p] = r]
    /\ \/ lock' = lock /\ r.at \in Holding
       \/ lock' = free /\ r.at \notin Holding

\* A step inside a selection, or the last of one.
LEMMA HolderMoves ==
    ASSUME ChannelAssumption, MgrInv, NEW p \in Procs, procs[p].at \in Holding, NEW r \in Proc,
           Becomes(p, r),
           r.at = "stop" => gsWorking,
           GshellMoves, WebsocketMoves, UNCHANGED overloaded
    PROVE  ProcsTyped' /\ Order'
<1> USE Goroutines DEF MgrInv, Order, ProcsTyped, Becomes
<1>1. p = lock /\ p # free /\ procs' \in [Procs -> Proc] /\ procs'[p] = r
      /\ \A q \in Procs \ {p} : procs'[q] = procs[q] /\ procs[q].at \notin Holding
  BY DEF OneSelects
<1>2. ProcsTyped'
  BY <1>1
<1>3. OneSelects'
  BY <1>1 DEF OneSelects
<1>4. Fresh'
  <2>1. \A n \in 1 .. MaxOpens :
          (n > opens \/ (n = opens /\ gsReader = "read"))' => procs'[GsSwitch(n)].at = "idle"
    BY <1>1 DEF Fresh, GshellMoves, gshell, GshellTyped, Holding
  <2>2. /\ \A i \in Conns : readers'[i].at # "end" => readers[i].at # "end"
        /\ \A i \in Conns : i > wskConn' => readers'[i].at = "none"
    <3>1. CASE UNCHANGED <<readers, wskConn>>
      BY <3>1 DEF Fresh
    <3>2. CASE ~UNCHANGED <<readers, wskConn>>
      <4>1. /\ wskConn < MaxConns /\ wskConn' = wskConn + 1 /\ wskConn + 1 \in Conns
            /\ readers' = [readers EXCEPT ![wskConn + 1].at = "top"]
        BY <3>2 DEF WebsocketMoves, WebsocketTyped, Conns, ChannelAssumption
      <4>2. readers[wskConn + 1].at = "none"
        BY <4>1 DEF Fresh, WebsocketTyped
      <4>3. \A i \in Conns : i # wskConn + 1 => readers'[i] = readers[i]
        BY <4>1 DEF WebsocketTyped
      <4>4. \A i \in Conns : i > wskConn' => i > wskConn /\ i # wskConn + 1
        BY <4>1 DEF WebsocketTyped, Conns
      <4> QED
        BY <4>1, <4>2, <4>3, <4>4 DEF Fresh
    <3> QED
      BY <3>1, <3>2
  <2>3. \A i \in Conns : readers'[i].at # "end" => procs'[WsSwitch(i)].at = "idle"
    BY <2>2, <1>1 DEF Fresh, Holding
  <2>4. ~overloaded' => procs'[other].at = "idle"
    BY <1>1 DEF Fresh, Holding
  <2> QED
    BY <2>1, <2>2, <2>3, <2>4 DEF Fresh
<1>5. SwitchWaits'
  BY <1>1 DEF SwitchWaits, GshellMoves, gshell, GshellTyped, Holding
<1>6. StopIsCovered'
  BY <1>1, GshellStaysTyped DEF StopIsCovered, Holding, Places
<1> QED
  BY <1>2, <1>3, <1>4, <1>5, <1>6

LEMMA Going ==
    ASSUME NEW p \in Procs, NEW place \in Holding, ProcsTyped, Go(p, place), UNCHANGED lock
    PROVE  \E r \in Proc : Becomes(p, r) /\ r.at = place
<1> DEFINE r == [procs[p] EXCEPT !.at = place]
<1>1. r \in Proc /\ r.at = place
  BY DEF ProcsTyped, Proc, Holding
<1>2. procs' = [procs EXCEPT ![p] = r]
  BY DEF Go, ProcsTyped
<1> QED
  BY <1>1, <1>2 DEF Becomes

LEMMA OutOfSelection ==
    ASSUME ChannelAssumption, NEW p \in Procs, ProcsTyped
    PROVE  /\ Over(p) \in Proc /\ Over(p).at \in {"idle", "done"}
           /\ AfterFailure(p) \in Proc /\ AfterFailure(p).at \in {"idle", "want", "done"}
<1>1. Over(p) \in Proc /\ Over(p).at \in {"idle", "done"}
  BY DEF Over, Idle, Proc, Places, ChannelAssumption
<1>2. procs[p].tries \in 0 .. Attempts /\ Attempts \in Nat
  BY DEF ProcsTyped, Proc, ChannelAssumption
<1>3. CASE AfterFailure(p) = Over(p)
  BY <1>1, <1>3
<1>4. CASE AfterFailure(p) # Over(p)
  <2> DEFINE first == procs[p].skip = "gshell"
             tries == IF first THEN 0 ELSE procs[p].tries + 1
  <2>1. /\ first \/ tries < Attempts
        /\ AfterFailure(p) = [at |-> "want", skip |-> "none", tries |-> tries]
    BY <1>4 DEF AfterFailure
  <2>2. tries \in 0 .. Attempts
    BY <1>2, <2>1
  <2> HIDE DEF tries
  <2> QED
    BY <1>1, <2>1, <2>2 DEF Proc, Places
<1> QED
  BY <1>1, <1>3, <1>4

LEMMA Returning ==
    ASSUME ChannelAssumption, NEW p \in Procs, ProcsTyped, NEW ok \in BOOLEAN, Return(p, ok)
    PROVE  \E r \in Proc : Becomes(p, r) /\ r.at # "stop"
  BY OutOfSelection DEF Return, Becomes, Holding

LEMMA SelectionStep ==
    ASSUME ChannelAssumption, MgrInv, NEW p \in Procs,
           AskGshell(p) \/ GshellWorks(p) \/ AskWebsocket(p) \/ StartGshell(p)
    PROVE  MgrInv'
<1>1. procs[p].at \in Holding /\ UNCHANGED <<websocket, overloaded>>
  BY DEF AskGshell, GshellWorks, AskWebsocket, StartGshell, Holding, Places
<1>2. GshellMoves
  BY SupportMoves DEF AskGshell, GshellWorks, AskWebsocket, StartGshell, GshellMoves, gshell, MgrInv
<1>3. \E r \in Proc : Becomes(p, r) /\ r.at # "stop"
  <2>1. \/ \E place \in {"gsWorks", "ws", "gsStart", "wsStart"} : Go(p, place) /\ UNCHANGED lock
        \/ Return(p, TRUE)
    BY DEF AskGshell, GshellWorks, AskWebsocket, StartGshell
  <2>2. \A place \in {"gsWorks", "ws", "gsStart", "wsStart"} :
          place \in Holding /\ place # "stop"
    BY DEF Holding, Places
  <2> QED
    BY <2>1, <2>2, Going, Returning DEF MgrInv
<1>4. ProcsTyped' /\ Order'
  BY <1>1, <1>2, <1>3, HolderMoves DEF WebsocketMoves, websocket
<1> QED
  BY <1>1, <1>2, <1>4, GshellStaysTyped DEF MgrInv, WebsocketTyped, websocket

LEMMA StartWsStep ==
    ASSUME ChannelAssumption, MgrInv, NEW p \in Procs, StartWs(p) PROVE MgrInv'
<1>1. procs[p].at \in Holding /\ UNCHANGED <<gshell, overloaded>>
  BY DEF StartWs, Holding, Places
<1>2. WebsocketMoves /\ WebsocketTyped'
  <2>1. CASE UNCHANGED <<wsWorking, wskConn, alive, readers>>
    BY <2>1 DEF WebsocketMoves, MgrInv, WebsocketTyped
  <2>2. CASE ~UNCHANGED <<wsWorking, wskConn, alive, readers>>
    <3>1. /\ wskConn < MaxConns /\ wskConn' = wskConn + 1
          /\ alive' = alive \cup {wskConn + 1} /\ wsWorking' = TRUE
          /\ readers' = [readers EXCEPT ![wskConn + 1].at = "top"]
      BY <2>2 DEF StartWs, StartWebsocket, websocket
    <3>2. wskConn + 1 \in Conns /\ alive' \subseteq 1 .. wskConn' /\ wskConn' \in 0 .. MaxConns
      BY <3>1 DEF MgrInv, WebsocketTyped, Conns, ChannelAssumption
    <3>3. readers' \in [Conns -> ReaderState]
      BY <3>1, <3>2 DEF MgrInv, WebsocketTyped, ReaderState
    <3> QED
      BY <3>1, <3>2, <3>3 DEF WebsocketMoves, WebsocketTyped
  <2> QED
    BY <2>1, <2>2
<1>3. \E r \in Proc : Becomes(p, r) /\ r.at # "stop"
  BY Returning DEF StartWs, Fails, MgrInv
<1>4. GshellMoves
  BY <1>1 DEF GshellMoves
<1>5. ProcsTyped' /\ Order'
  BY <1>1, <1>2, <1>3, <1>4, HolderMoves
<1> QED
  BY <1>2, <1>4, <1>5, GshellStaysTyped DEF MgrInv

LEMMA TimerStep ==
    ASSUME ChannelAssumption, MgrInv, Check \/ Checked \/ Stop PROVE MgrInv'
<1>1. /\ procs[timer].at \in Holding /\ timer \in Procs
      /\ UNCHANGED <<wskConn, readers, overloaded>> /\ WebsocketTyped'
  BY Goroutines DEF Check, Checked, Stop, StopWebsocket, Holding, Places, websocket, MgrInv,
     WebsocketTyped
<1>2. GshellMoves /\ WebsocketMoves
  BY <1>1, SupportMoves DEF Check, Checked, Stop, GshellMoves, gshell, MgrInv, WebsocketMoves
<1>3. \E r \in Proc : Becomes(timer, r) /\ (r.at = "stop" => gsWorking)
  <2>1. CASE ThenSelect
    <3>1. 1 \in 0 .. Attempts
      BY DEF ChannelAssumption
    <3>2. [Idle EXCEPT !.at = "want", !.tries = 1] = [at |-> "want", skip |-> "none", tries |-> 1]
      <4> DEFINE q == [Idle EXCEPT !.at = "want"]
      <4>1. q = [at |-> "want", skip |-> "none", tries |-> 0]
        BY DEF Idle
      <4>2. [Idle EXCEPT !.at = "want", !.tries = 1] = [q EXCEPT !.tries = 1]
        OBVIOUS
      <4> HIDE DEF q
      <4> QED
        BY <4>1, <4>2
    <3>3. [Idle EXCEPT !.at = "want", !.tries = 1] \in Proc
      BY <3>1, <3>2 DEF Proc, Places
    <3> QED
      BY <2>1, <3>3 DEF ThenSelect, Becomes, Holding, Idle
  <2>2. CASE Return(timer, TRUE)
    BY <1>1, <2>2, Returning DEF MgrInv
  <2>3. CASE UNCHANGED lock /\ (Go(timer, "checked") \/ (Go(timer, "stop") /\ gsWorking))
    BY <1>1, <2>3, Going DEF MgrInv, Holding, Places
  <2> QED
    BY <2>1, <2>2, <2>3 DEF Check, Checked, Stop
<1>4. ProcsTyped' /\ Order'
  BY <1>1, <1>2, <1>3, HolderMoves
<1> QED
  BY <1>1, <1>2, <1>4, GshellStaysTyped DEF MgrInv

\* A goroutine that waits for the lock takes it, or ends before there is a choice.
LEMMA EnterStep ==
    ASSUME ChannelAssumption, MgrInv, NEW p \in Procs, Enter(p) \/ NothingToSelect(p)
    PROVE  MgrInv'
<1> USE Goroutines DEF MgrInv, ProcsTyped
<1>1. /\ procs[p].at = "want" /\ lock = free /\ WaitIsOver(p)
      /\ UNCHANGED <<gshell, websocket, overloaded>>
  BY DEF Enter, NothingToSelect
<1>2. PICK r \in Proc : /\ procs' = [procs EXCEPT ![p] = r]
                        /\ \/ lock' = p /\ r.at \in {"gsStart", "check", "gs"}
                           \/ lock' = free /\ r.at \in {"idle", "want", "done"}
  <2>1. CASE NothingToSelect(p)
    BY <2>1, OutOfSelection DEF NothingToSelect
  <2>2. CASE Enter(p)
    <3>1. PICK place \in {"gsStart", "check", "gs"} : Go(p, place)
      BY <2>2 DEF Enter
    <3>2. [procs[p] EXCEPT !.at = place] \in Proc /\ [procs[p] EXCEPT !.at = place].at = place
      BY DEF Proc, Places
    <3> QED
      BY <2>2, <3>1, <3>2 DEF Enter, Go
  <2> QED
    BY <2>1, <2>2
<1>3. /\ procs' \in [Procs -> Proc] /\ procs'[p] = r
      /\ \A q \in Procs \ {p} : procs'[q] = procs[q]
      /\ \A q \in Procs : procs[q].at \notin Holding
  BY <1>1, <1>2 DEF Order, OneSelects
<1>4. OneSelects'
  BY <1>2, <1>3 DEF OneSelects, Holding, Places
<1>5. Fresh'
  BY <1>1, <1>3 DEF Order, Fresh, gshell, websocket
<1>6. SwitchWaits'
  <2>1. gsReader = "leave" => opens \in 1 .. MaxOpens /\ p # GsSwitch(opens)
    BY <1>1 DEF WaitIsOver, GshellTyped, ChannelAssumption
  <2> QED
    BY <1>1, <1>3, <2>1 DEF Order, SwitchWaits, gshell
<1>7. StopIsCovered'
  BY <1>2, <1>3 DEF StopIsCovered, Holding, Places
<1> QED
  BY <1>1, <1>2, <1>3, <1>4, <1>5, <1>6, <1>7 DEF Order, GshellTyped, WebsocketTyped, gshell,
     websocket

\* A goroutine that has not run, or the timer between two ticks, wants the lock.
LEMMA WantStep ==
    ASSUME ChannelAssumption, MgrInv, NEW p \in Procs, procs[p].at = "idle", NEW r \in Proc,
           r.at = "want", procs' = [procs EXCEPT ![p] = r], UNCHANGED <<lock, gsWorking, opens>>
    PROVE  /\ ProcsTyped' /\ OneSelects' /\ StopIsCovered'
           /\ procs'[p].at = "want" /\ \A q \in Procs \ {p} : procs'[q] = procs[q]
  BY Goroutines DEF MgrInv, ProcsTyped, Order, OneSelects, StopIsCovered, Holding

LEMMA BeginStep ==
    ASSUME ChannelAssumption, MgrInv, Tick \/ TooManyKicks \/ WriteFails PROVE MgrInv'
<1> USE Goroutines
<1>1. CASE Tick
  <2> DEFINE r == [procs[timer] EXCEPT !.at = "want"]
  <2>1. r \in Proc /\ r.at = "want" /\ procs[timer].at = "idle"
        /\ procs' = [procs EXCEPT ![timer] = r] /\ UNCHANGED <<gshell, websocket, lock, overloaded>>
    BY <1>1 DEF Tick, Go, MgrInv, ProcsTyped, Proc, Places
  <2>2. /\ ProcsTyped' /\ OneSelects' /\ StopIsCovered'
        /\ procs'[timer].at = "want" /\ \A q \in Procs \ {timer} : procs'[q] = procs[q]
    BY <2>1, WantStep DEF gshell
  <2>3. Fresh' /\ SwitchWaits'
    BY <2>1, <2>2 DEF MgrInv, Order, Fresh, SwitchWaits, gshell, websocket, GshellTyped,
       ChannelAssumption
  <2> QED
    BY <2>1, <2>2, <2>3 DEF MgrInv, Order, GshellTyped, WebsocketTyped, gshell, websocket
<1>2. CASE TooManyKicks
  <2> DEFINE r == [at |-> "want", skip |-> "gshell", tries |-> 0]
  <2>1. r \in Proc /\ r.at = "want"
    BY DEF Proc, Places, Channels, ChannelAssumption
  <2>2. procs[other].at = "idle" /\ procs' = [procs EXCEPT ![other] = r]
        /\ UNCHANGED <<gshell, websocket, lock>> /\ overloaded'
    BY <1>2, Zenon DEF TooManyKicks, MgrInv, Order, Fresh
  <2>3. /\ ProcsTyped' /\ OneSelects' /\ StopIsCovered'
        /\ procs'[other].at = "want" /\ \A q \in Procs \ {other} : procs'[q] = procs[q]
    BY <2>1, <2>2, WantStep DEF gshell
  <2>4. Fresh' /\ SwitchWaits'
    BY <2>2, <2>3 DEF MgrInv, Order, Fresh, SwitchWaits, gshell, websocket, GshellTyped,
       ChannelAssumption
  <2> QED
    BY <2>2, <2>3, <2>4 DEF MgrInv, Order, GshellTyped, WebsocketTyped, gshell, websocket
<1>3. CASE WriteFails
  <2> DEFINE r == [at |-> "want", skip |-> "gshell", tries |-> 0]
             p == GsSwitch(opens)
  <2>1. r \in Proc /\ r.at = "want"
    BY DEF Proc, Places, Channels, ChannelAssumption
  <2>2. /\ gsReader = "read" /\ gsReader' = "leave" /\ procs' = [procs EXCEPT ![p] = r]
        /\ UNCHANGED <<gsWorking, opens, websocket, lock, overloaded>>
    BY <1>3 DEF WriteFails
  <2>3. opens \in 1 .. MaxOpens
    BY <2>2 DEF MgrInv, GshellTyped, ChannelAssumption
  <2>4. procs[p].at = "idle" /\ p \in Procs
    BY <2>2, <2>3 DEF MgrInv, Order, Fresh
  <2>5. /\ ProcsTyped' /\ OneSelects' /\ StopIsCovered'
        /\ procs'[p].at = "want" /\ \A q \in Procs \ {p} : procs'[q] = procs[q]
    BY <2>1, <2>2, <2>4, WantStep
  <2>6. SwitchWaits' /\ GshellTyped'
    BY <2>2, <2>5 DEF SwitchWaits, MgrInv, GshellTyped
  <2>7. Fresh'
    BY <2>2, <2>3, <2>5 DEF MgrInv, Order, Fresh, websocket, GshellTyped
  <2> QED
    BY <2>2, <2>5, <2>6, <2>7 DEF MgrInv, Order, WebsocketTyped, websocket
<1> QED
  BY <1>1, <1>2, <1>3

LEMMA ReaderUpdates ==
    ASSUME NEW s \in ReaderState, NEW where \in {"top", "read", "end"}
    PROVE  /\ \A c \in 0 .. MaxConns : [s EXCEPT !.at = where, !.conn = c] \in ReaderState
           /\ \A f \in 0 .. RetryCount : [s EXCEPT !.at = where, !.fails = f] \in ReaderState
<1> DEFINE r == [s EXCEPT !.at = where]
<1>1. r \in ReaderState
  BY DEF ReaderState
<1>2. /\ \A c \in 0 .. MaxConns : [s EXCEPT !.at = where, !.conn = c] = [r EXCEPT !.conn = c]
      /\ \A f \in 0 .. RetryCount : [s EXCEPT !.at = where, !.fails = f] = [r EXCEPT !.fails = f]
  OBVIOUS
<1> HIDE DEF r
<1>3. /\ \A c \in 0 .. MaxConns : [r EXCEPT !.conn = c] \in ReaderState
      /\ \A f \in 0 .. RetryCount : [r EXCEPT !.fails = f] \in ReaderState
  BY <1>1 DEF ReaderState
<1> QED
  BY <1>2, <1>3

\* The readers, the network and the device.
LEMMA ReaderStep ==
    ASSUME ChannelAssumption, MgrInv, NEW i \in Conns, Reader(i) PROVE MgrInv'
<1> USE Goroutines
<1>1. CASE ReaderAsks(i) \/ ReaderGets(i) \/ ReaderFails(i)
  <2>1. /\ UNCHANGED <<gshell, wsWorking, wskConn, alive, procs, lock, overloaded>>
        /\ readers[i].at # "none" /\ readers[i].at # "end"
    BY <1>1 DEF ReaderAsks, ReaderGets, ReaderFails
  <2>2. PICK s \in ReaderState : readers' = [readers EXCEPT ![i] = s]
    <3>1. readers[i] \in ReaderState /\ wskConn \in 0 .. MaxConns
      BY DEF MgrInv, WebsocketTyped
    <3>2. CASE ReaderAsks(i)
      <4>1. /\ [readers[i] EXCEPT !.at = "read", !.conn = wskConn] \in ReaderState
            /\ [readers[i] EXCEPT !.at = "end", !.conn = 0] \in ReaderState
        <5>1. 0 \in 0 .. MaxConns
          BY DEF ChannelAssumption
        <5> QED
          BY <3>1, <5>1, ReaderUpdates
      <4> QED
        BY <3>2, <4>1 DEF ReaderAsks
    <3>3. CASE ReaderGets(i)
      <4>1. [readers[i] EXCEPT !.at = "top", !.fails = 0] \in ReaderState
        <5>1. 0 \in 0 .. RetryCount
          BY DEF ChannelAssumption
        <5> QED
          BY <3>1, <5>1, ReaderUpdates
      <4>2. readers' = [readers EXCEPT ![i] = [readers[i] EXCEPT !.at = "top", !.fails = 0]]
        BY <3>3 DEF ReaderGets, MgrInv, WebsocketTyped
      <4> QED
        BY <4>1, <4>2
    <3>4. CASE ReaderFails(i)
      <4>1. readers[i].fails + 1 \in 0 .. RetryCount
        BY <3>1, <3>4 DEF ReaderState, ReaderFails, ChannelAssumption
      <4>2. [readers[i] EXCEPT !.at = "top", !.fails = @ + 1] \in ReaderState
        BY <3>1, <4>1, ReaderUpdates
      <4>3. readers' = [readers EXCEPT ![i] = [readers[i] EXCEPT !.at = "top", !.fails = @ + 1]]
        BY <3>4 DEF ReaderFails, MgrInv, WebsocketTyped
      <4> QED
        BY <4>2, <4>3
    <3> QED
      BY <1>1, <3>2, <3>3, <3>4
  <2>3. WebsocketTyped' /\ \A j \in Conns \ {i} : readers'[j] = readers[j]
    BY <2>1, <2>2 DEF MgrInv, WebsocketTyped
  <2>4. Fresh'
    BY <2>1, <2>3 DEF MgrInv, Order, Fresh, gshell
  <2> QED
    BY <2>1, <2>3, <2>4 DEF MgrInv, Order, GshellTyped, ProcsTyped, OneSelects, SwitchWaits,
       StopIsCovered, gshell
<1>2. CASE ReaderGivesUp(i)
  <2> DEFINE p == WsSwitch(i)
             r == [procs[p] EXCEPT !.at = "want"]
             s == [at |-> "end", conn |-> 0, fails |-> RetryCount]
  <2>1. /\ readers[i].at = "read" /\ alive' = alive \ {wskConn} /\ wsWorking' = FALSE
        /\ readers' = [readers EXCEPT ![i] = s] /\ Go(p, "want")
        /\ UNCHANGED <<gshell, wskConn, lock, overloaded>>
    BY <1>2 DEF ReaderGivesUp
  <2>2. s \in ReaderState
    BY DEF ReaderState, ChannelAssumption
  <2>3. WebsocketTyped' /\ readers'[i] = s /\ \A j \in Conns \ {i} : readers'[j] = readers[j]
    BY <2>1, <2>2 DEF MgrInv, WebsocketTyped
  <2>4. r \in Proc /\ r.at = "want" /\ p \in Procs /\ procs[p].at = "idle"
        /\ procs' = [procs EXCEPT ![p] = r]
    BY <2>1 DEF Go, MgrInv, Order, Fresh, ProcsTyped, Proc, Places
  <2>5. /\ ProcsTyped' /\ OneSelects' /\ StopIsCovered'
        /\ \A q \in Procs \ {p} : procs'[q] = procs[q]
    BY <2>1, <2>4, WantStep DEF gshell
  <2>6. Fresh'
    BY <2>1, <2>3, <2>5 DEF MgrInv, Order, Fresh, gshell
  <2>7. SwitchWaits'
    BY <2>1, <2>5 DEF MgrInv, Order, SwitchWaits, gshell, GshellTyped, ChannelAssumption
  <2> QED
    BY <2>1, <2>3, <2>5, <2>6, <2>7 DEF MgrInv, Order, GshellTyped, gshell
<1> QED
  BY <1>1, <1>2 DEF Reader

LEMMA OutsideStep ==
    ASSUME ChannelAssumption, MgrInv, Trouble \/ NetRecovers \/ DeviceRecovers \/ CalmEnds
    PROVE  MgrInv'
<1>1. /\ UNCHANGED <<gshell, wsWorking, wskConn, readers, procs, lock, overloaded>>
      /\ alive' = {} \/ alive' = alive
  BY DEF Trouble, NetRecovers, DeviceRecovers, CalmEnds, websocket
<1> QED
  BY <1>1 DEF MgrInv, Order, GshellTyped, WebsocketTyped, ProcsTyped, OneSelects, Fresh,
     SwitchWaits, StopIsCovered, gshell

LEMMA LeaveStep == ASSUME ChannelAssumption, MgrInv, GsReaderLeaves PROVE MgrInv'
<1>1. /\ gsReader = "leave" /\ gsReader' = "none" /\ gsWorking' = FALSE
      /\ UNCHANGED <<opens, websocket, procs, lock, overloaded>>
  BY DEF GsReaderLeaves
<1>2. opens \in 1 .. MaxOpens /\ GsSwitch(opens) \in Procs /\ procs[GsSwitch(opens)].at = "want"
  BY <1>1, Goroutines DEF MgrInv, GshellTyped, Order, SwitchWaits, ChannelAssumption
<1> QED
  BY <1>1, <1>2 DEF MgrInv, Order, GshellTyped, WebsocketTyped, ProcsTyped, OneSelects, Fresh,
     SwitchWaits, StopIsCovered, websocket

LEMMA MgrStep == ChannelAssumption /\ MgrInv /\ [Next]_vars => MgrInv'
<1> SUFFICES ASSUME ChannelAssumption, MgrInv, [Next]_vars PROVE MgrInv'
  OBVIOUS
<1>1. CASE UNCHANGED vars
  BY <1>1 DEF vars, gshell, websocket, MgrInv, Order, GshellTyped, WebsocketTyped, ProcsTyped,
     OneSelects, Fresh, SwitchWaits, StopIsCovered
<1> QED
  BY <1>1, OutsideStep, BeginStep, TimerStep, EnterStep, SelectionStep, StartWsStep, ReaderStep,
     LeaveStep DEF Next, Selects

LEMMA MgrStarts == ChannelAssumption /\ Init => MgrInv
<1> SUFFICES ASSUME ChannelAssumption, Init PROVE MgrInv
  OBVIOUS
<1> USE Goroutines
<1>1. Idle \in Proc /\ [Idle EXCEPT !.at = "want"] \in Proc /\ Idle.at = "idle"
      /\ [Idle EXCEPT !.at = "want"].at = "want"
  BY DEF Idle, Proc, Places, ChannelAssumption
<1>2. /\ procs \in [Procs -> Proc] /\ \A p \in Procs : procs[p].at \notin Holding
      /\ \A p \in Procs \ {main} : procs[p].at = "idle"
  BY <1>1 DEF Init, Holding
<1>3. GshellTyped
  <2>1. 0 \in 0 .. MaxOpens /\ 1 \in 0 .. MaxOpens
    BY DEF ChannelAssumption
  <2>2. gsWorking \in BOOLEAN
    BY DEF Init
  <2>3. CASE gsWorking
    <3>1. gsReader = "read" /\ opens = 1
      BY <2>3 DEF Init
    <3> QED
      BY <2>1, <2>2, <2>3, <3>1 DEF GshellTyped
  <2>4. CASE ~gsWorking
    <3>1. gsReader = "none" /\ opens = 0
      BY <2>4 DEF Init
    <3> QED
      BY <2>1, <2>2, <2>4, <3>1 DEF GshellTyped
  <2> QED
    BY <2>3, <2>4
<1>4. WebsocketTyped
  <2>1. [at |-> "none", conn |-> 0, fails |-> 0] \in ReaderState
    BY DEF ReaderState, ChannelAssumption
  <2>2. readers \in [Conns -> ReaderState]
    BY <2>1 DEF Init
  <2>3. wskConn \in 0 .. MaxConns
    BY DEF Init, ChannelAssumption
  <2>4. wsWorking = FALSE /\ alive = {}
    BY DEF Init
  <2> QED
    BY <2>2, <2>3, <2>4 DEF WebsocketTyped
<1> QED
  BY <1>2, <1>3, <1>4 DEF Init, MgrInv, ProcsTyped, Order, OneSelects, Fresh, SwitchWaits,
     StopIsCovered

(***************************************************************************)
(* Nobody is left without a channel unnoticed.                             *)
(***************************************************************************)
Busy == \E p \in Procs : procs[p].at \notin {"idle", "done"}
Noticed == Silent => gaveUp \/ Busy

\* Whoever leaves a selection has a channel that works, or says so.
LEMMA NoticedUnderLock ==
    ASSUME ChannelAssumption, MgrInv, MgrInv', Noticed, NEW p \in Procs,
           \/ AskGshell(p) \/ GshellWorks(p) \/ AskWebsocket(p)
           \/ StartGshell(p) \/ StartWs(p)
    PROVE  Noticed'
<1>1. CASE \E place \in Holding : Go(p, place)
  BY <1>1 DEF Go, MgrInv, ProcsTyped, Holding, Noticed, Busy
<1>2. CASE gsWorking' \/ wsWorking'
  BY <1>2 DEF Noticed, Silent
<1>3. CASE gaveUp'
  BY <1>3 DEF Noticed
<1>4. CASE AskGshell(p)
  BY <1>1, <1>4 DEF AskGshell, Holding, Places
<1>5. CASE GshellWorks(p)
  BY <1>1, <1>2, <1>5 DEF GshellWorks, gshell, Holding, Places
<1>6. CASE AskWebsocket(p)
  BY <1>1, <1>2, <1>6 DEF AskWebsocket, websocket, Holding, Places
<1>7. CASE StartGshell(p)
  BY <1>1, <1>2, <1>7, SupportMoves DEF StartGshell, MgrInv, Holding, Places
<1>8. CASE StartWs(p)
  <2>1. UNCHANGED gsWorking
    BY <1>8 DEF StartWs, gshell
  <2>2. CASE wsWorking'
    BY <1>2, <2>2
  <2>3. CASE ~wsWorking'
    <3>1. PICK ok \in BOOLEAN : /\ ok => wsWorking'
                                /\ ~ok => Fails(p) /\ UNCHANGED wsWorking
      BY <1>8 DEF StartWs, StartWebsocket, websocket
    <3>2. CASE gsWorking
      BY <1>2, <2>1, <3>2
    <3>3. CASE ~gsWorking
      <4>1. Fails(p) /\ UNCHANGED wsWorking
        BY <2>3, <3>1
      <4>2. Silent
        BY <2>3, <3>3, <4>1 DEF Silent
      <4>3. gaveUp' = (Silent \/ gaveUp)
        BY <4>1 DEF Fails
      <4> QED
        BY <1>3, <4>2, <4>3
    <3> QED
      BY <3>2, <3>3
  <2> QED
    BY <2>2, <2>3
<1> QED
  BY <1>4, <1>5, <1>6, <1>7, <1>8

LEMMA NoticedStep ==
    ChannelAssumption /\ MgrInv /\ MgrInv' /\ Noticed /\ [Next]_vars => Noticed'
<1> SUFFICES ASSUME ChannelAssumption, MgrInv, MgrInv', Noticed, [Next]_vars PROVE Noticed'
  OBVIOUS
<1> USE Goroutines DEF Noticed, Busy, Silent
<1>1. CASE UNCHANGED <<gsWorking, wsWorking, gaveUp, procs>>
  BY <1>1
<1>2. CASE \E p \in Procs : procs'[p].at \notin {"idle", "done"}
  BY <1>2
<1>3. CASE UNCHANGED vars \/ Trouble \/ NetRecovers \/ DeviceRecovers \/ CalmEnds
  BY <1>1, <1>3 DEF vars, gshell, websocket, Trouble, NetRecovers, DeviceRecovers, CalmEnds
<1>4. CASE Tick \/ TooManyKicks \/ WriteFails
  <2>1. CASE Tick
    BY <1>2, <2>1 DEF Tick, Go, MgrInv, ProcsTyped
  <2>2. CASE TooManyKicks
    BY <1>2, <2>2 DEF TooManyKicks, MgrInv, ProcsTyped
  <2>3. CASE WriteFails
    <3>1. opens \in 1 .. MaxOpens
      BY <2>3 DEF WriteFails, MgrInv, GshellTyped, ChannelAssumption
    <3> QED
      BY <1>2, <2>3, <3>1 DEF WriteFails, MgrInv, ProcsTyped
  <2> QED
    BY <1>4, <2>1, <2>2, <2>3
<1>5. CASE Check \/ Checked
  <2>1. CASE ThenSelect
    BY <1>2, <2>1 DEF ThenSelect, Idle, MgrInv, ProcsTyped
  <2>2. ASSUME NEW place \in {"checked", "stop"}, Go(timer, place) PROVE Noticed'
    BY <1>2, <2>2 DEF Go, MgrInv, ProcsTyped
  <2> QED
    BY <1>5, <2>1, <2>2 DEF Check, Checked
<1>6. CASE Stop
  <2>1. procs[timer].at = "stop" /\ UNCHANGED gsWorking /\ Return(timer, TRUE)
    BY <1>6 DEF Stop, gshell
  <2>2. CASE gsWorking
    BY <2>1, <2>2
  <2>3. CASE ~gsWorking
    <3>1. PICK q \in Procs : procs[q].at = "want"
      BY <2>1, <2>3 DEF MgrInv, Order, StopIsCovered
    <3>2. procs'[q] = procs[q]
      BY <2>1, <3>1 DEF Return, MgrInv, ProcsTyped
    <3> QED
      BY <1>2, <3>1, <3>2
  <2> QED
    BY <2>2, <2>3
<1>7. ASSUME NEW p \in Procs, Enter(p) PROVE Noticed'
  BY <1>2, <1>7 DEF Enter, Go, MgrInv, ProcsTyped
<1>8. ASSUME NEW p \in Procs, NothingToSelect(p) PROVE Noticed'
  BY <1>2, <1>8 DEF NothingToSelect, MgrInv, ProcsTyped
<1>9. ASSUME NEW i \in Conns, Reader(i) PROVE Noticed'
  <2>1. CASE ReaderGivesUp(i)
    BY <1>2, <2>1 DEF ReaderGivesUp, Go, MgrInv, ProcsTyped
  <2>2. CASE ReaderAsks(i) \/ ReaderGets(i) \/ ReaderFails(i)
    BY <1>1, <2>2 DEF ReaderAsks, ReaderGets, ReaderFails, gshell
  <2> QED
    BY <1>9, <2>1, <2>2 DEF Reader
<1>10. CASE GsReaderLeaves
  <2>1. gsReader = "leave" /\ UNCHANGED procs
    BY <1>10 DEF GsReaderLeaves
  <2>2. opens \in 1 .. MaxOpens /\ procs[GsSwitch(opens)].at = "want"
    BY <2>1 DEF MgrInv, GshellTyped, Order, SwitchWaits, ChannelAssumption
  <2> QED
    BY <1>2, <2>1, <2>2
<1>11. ASSUME NEW p \in Procs, Selects(p) PROVE Noticed'
  BY <1>7, <1>8, <1>11, NoticedUnderLock DEF Selects
<1> QED
  BY <1>3, <1>4, <1>5, <1>6, <1>9, <1>10, <1>11 DEF Next

\* The agent is never left without a channel unnoticed: whatever fails, and however the
\* switches of SwitchChannel, the timer and the readers of both channels interleave, when none
\* works somebody is about to select one, or the last selection has found none.
THEOREM OrphansAreNoticed == ASSUME ChannelAssumption PROVE Spec => []NeverOrphaned
<1>1. Init => Noticed
  BY Goroutines DEF Init, Noticed, Busy, Idle
<1>2. MgrInv /\ Noticed => NeverOrphaned
  BY DEF MgrInv, ProcsTyped, Noticed, Busy, NeverOrphaned
<1> QED
  BY <1>1, <1>2, MgrStarts, MgrStep, NoticedStep, PTL DEF Spec

(***************************************************************************)
(* The types: what is left are values that nothing above depends on.       *)
(***************************************************************************)
LEMMA SwitchesStep == Switches /\ [Next]_vars => Switches'
<1> SUFFICES ASSUME Switches, [Next]_vars PROVE Switches'
  OBVIOUS
<1> USE DEF Switches
<1>1. CASE UNCHANGED vars
  BY <1>1 DEF vars, world, websocket, cool
<1>2. CASE Trouble \/ NetRecovers \/ DeviceRecovers \/ CalmEnds
  BY <1>2 DEF Trouble, NetRecovers, DeviceRecovers, CalmEnds, world, websocket, cool
<1>3. CASE Tick \/ TooManyKicks \/ WriteFails \/ GsReaderLeaves
  BY <1>3 DEF Tick, TooManyKicks, WriteFails, GsReaderLeaves, world, websocket, cool
<1>4. CASE Check \/ Checked \/ Stop
  BY <1>4 DEF Check, Checked, Stop, StopWebsocket, world, websocket, cool, Channels
<1>5. ASSUME NEW i \in Conns, Reader(i) PROVE Switches'
  BY <1>5 DEF Reader, ReaderAsks, ReaderGets, ReaderFails, ReaderGivesUp, world, cool
<1>6. ASSUME NEW p \in Procs, Enter(p) \/ NothingToSelect(p) PROVE Switches'
  BY <1>6 DEF Enter, NothingToSelect, world, websocket, cool
<1>7. ASSUME NEW p \in Procs, AskGshell(p) \/ GshellWorks(p) \/ StartGshell(p) PROVE Switches'
  BY <1>7 DEF AskGshell, GshellWorks, StartGshell, world, websocket, cool, Channels
<1>8. ASSUME NEW p \in Procs, AskWebsocket(p) PROVE Switches'
  BY <1>8 DEF AskWebsocket, WebsocketSupported, websocket, cool
<1>9. ASSUME NEW p \in Procs, StartWs(p) PROVE Switches'
  <2>1. UNCHANGED <<net, device, overloaded>> /\ active' \in Channels \cup {"none"}
    BY <1>9 DEF StartWs, Channels
  <2>2. hostKnown' \in BOOLEAN
    BY <1>9 DEF StartWs, WebsocketSupported
  <2>3. gaveUp' \in BOOLEAN
    BY <1>9 DEF StartWs, Fails
  <2>4. calm' \in BOOLEAN
    <3>1. calm' = calm \/ \E n \in BOOLEAN : calm' = (calm \/ n)
      BY <1>9 DEF StartWs, StartWebsocket, websocket, cool
    <3> QED
      BY <3>1
  <2> QED
    BY <2>1, <2>2, <2>3, <2>4
<1> QED
  BY <1>1, <1>2, <1>3, <1>4, <1>5, <1>6, <1>7, <1>8, <1>9 DEF Next, Selects

LEMMA CountersStep == ChannelAssumption /\ Counters /\ [Next]_vars => Counters'
<1> SUFFICES ASSUME ChannelAssumption, Counters, [Next]_vars PROVE Counters'
  OBVIOUS
<1>1. UNCHANGED troubles \/ (troubles < MaxTroubles /\ troubles' = troubles + 1)
  BY DEF Next, vars, world, Trouble, NetRecovers, DeviceRecovers, CalmEnds, Tick, Check, Checked,
     Stop, Selects, Enter, NothingToSelect, AskGshell, GshellWorks, AskWebsocket, StartGshell,
     StartWs, Reader, ReaderAsks, ReaderGets, ReaderFails, ReaderGivesUp, WriteFails,
     GsReaderLeaves, TooManyKicks
<1>2. UNCHANGED failed \/ failed' = 0 \/ failed' = 1 \/ failed' = failed + 1
  <2>1. ASSUME NEW p \in Procs, StartWs(p) PROVE UNCHANGED failed \/ failed' = 0 \/ failed' = 1
                                              \/ failed' = failed + 1
    BY <2>1 DEF StartWs, StartWebsocket, websocket, cool
  <2>2. CASE ~\E p \in Procs : StartWs(p)
    BY <2>2 DEF Next, vars, websocket, cool, Trouble, NetRecovers, DeviceRecovers, CalmEnds, Tick,
       Check, Checked, Stop, StopWebsocket, Selects, Enter, NothingToSelect, AskGshell,
       GshellWorks, AskWebsocket, StartGshell, Reader, ReaderAsks, ReaderGets, ReaderFails,
       ReaderGivesUp, WriteFails, GsReaderLeaves, TooManyKicks
  <2> QED
    BY <2>1, <2>2
<1> QED
  BY <1>1, <1>2 DEF Counters, ChannelAssumption

\* The types, and that ChannelSetLock is held by the goroutine inside a selection.
THEOREM ChannelTypes == ASSUME ChannelAssumption PROVE Spec => []TypeOK
<1>1. Init => Switches /\ Counters
  <2>1. Init => Switches
    BY DEF Init, Switches
  <2>2. Init => Counters
    BY DEF Init, Counters, ChannelAssumption
  <2> QED
    BY <2>1, <2>2
<1>2. MgrInv /\ Switches /\ Counters => TypeOK
  <2> SUFFICES ASSUME MgrInv, Switches, Counters PROVE TypeOK
    OBVIOUS
  <2>1. (gsReader # "none") = gsWorking
    BY DEF MgrInv, GshellTyped
  <2> QED
    BY <2>1 DEF MgrInv, Switches, Counters, TypeOK, GshellTyped, WebsocketTyped, ReaderState,
       ProcsTyped,
       Proc, Order, OneSelects, Holding, Places
<1> QED
  BY <1>1, <1>2, MgrStarts, MgrStep, SwitchesStep, CountersStep, PTL DEF Spec

(***************************************************************************)
(* KickLimit, for every count and period, and every sequence of them.      *)
(*                                                                         *)
(* The ring holds, from start backwards, the times of the last messages in *)
(* the order they came (Remembers); end is where it began until it is full,*)
(* and then the place after start, which is that of the oldest (EndsAt).   *)
(***************************************************************************)
\* The index after i, and that of the j-th message before the last.
After(i) == IF i + 1 = count THEN 0 ELSE i + 1
Place(j) == IF j <= start THEN start - j ELSE start - j + count

RingTyped ==
    /\ now \in 0 .. MaxTime /\ count \in Counts /\ period \in Periods
    /\ times \in [0 .. count - 1 -> 0 .. MaxTime \cup {nil}]
    /\ start \in nil .. count - 1 /\ end \in nil .. count - 1
    /\ reader \in {"idle", "check"}
    /\ came \in Seq(0 .. MaxTime) /\ Len(came) <= Longest
Flags == reached \in BOOLEAN /\ crashed \in BOOLEAN

Begun ==
    /\ start = nil <=> Len(came) = 0
    /\ start = nil <=> end = nil
EndsAt ==
    start # nil => /\ Len(came) < count => end = 0 /\ start = Len(came) - 1
                   /\ Len(came) >= count => end = After(start)
Remembers ==
    start # nil => \A j \in 0 .. count - 1 :
        j < Len(came) => times[Place(j)] = came[Len(came) - j]

RingInv == RingTyped /\ Begun /\ EndsAt /\ Remembers

\* What the proofs use of the constants.
LEMMA LongestIsMost ==
    ASSUME KickAssumption
    PROVE  Longest \in Counts /\ \A c \in Counts : c <= Longest
  BY DEF KickAssumption, Longest

\* The code takes the remainder by count.
LEMMA Remainder ==
    ASSUME NEW n \in Nat, n # 0, NEW i \in 0 .. n - 1
    PROVE  (i + 1) % n = IF i + 1 = n THEN 0 ELSE i + 1
  OBVIOUS

\* The times that are remembered, after another has come.
LEMMA CameAfter ==
    ASSUME KickAssumption, RingTyped
    PROVE  /\ LastOf(Append(came, now)) \in Seq(0 .. MaxTime)
           /\ Len(LastOf(Append(came, now))) =
                 IF Len(came) + 1 > Longest THEN Len(came) ELSE Len(came) + 1
           /\ Len(LastOf(Append(came, now))) <= Longest
           /\ LET c == LastOf(Append(came, now)) IN
              \A j \in 0 .. Len(c) - 1 :
                 c[Len(c) - j] = IF j = 0 THEN now ELSE came[Len(came) - (j - 1)]
<1> DEFINE a == Append(came, now)
<1>0. came \in Seq(0 .. MaxTime) /\ now \in 0 .. MaxTime /\ Len(came) \in Nat
      /\ Longest \in Nat /\ Len(came) <= Longest
  BY LongestIsMost DEF RingTyped, KickAssumption
<1>1. /\ a \in Seq(0 .. MaxTime) /\ Len(a) = Len(came) + 1
      /\ \A i \in 1 .. Len(came) : a[i] = came[i]
      /\ a[Len(came) + 1] = now
  BY <1>0, AppendProperties
<1> HIDE DEF a
<1>2. CASE Len(a) > Longest
  <2>1. /\ Tail(a) \in Seq(0 .. MaxTime) /\ Len(Tail(a)) = Len(came)
        /\ \A i \in 1 .. Len(came) : Tail(a)[i] = a[i + 1]
    BY <1>0, <1>1, HeadTailProperties
  <2>2. LastOf(a) = Tail(a)
    BY <1>2 DEF LastOf
  <2>3. \A j \in 0 .. Len(came) - 1 :
           Tail(a)[Len(came) - j] = IF j = 0 THEN now ELSE came[Len(came) - (j - 1)]
    <3> SUFFICES ASSUME NEW j \in 0 .. Len(came) - 1
                 PROVE  Tail(a)[Len(came) - j] = IF j = 0 THEN now
                                                 ELSE came[Len(came) - (j - 1)]
      OBVIOUS
    <3>1. Len(came) - j \in 1 .. Len(came) /\ Len(came) - j + 1 = Len(came) - (j - 1)
      BY <1>0
    <3>2. Tail(a)[Len(came) - j] = a[Len(came) - (j - 1)]
      BY <2>1, <3>1
    <3>3. j # 0 => Len(came) - (j - 1) \in 1 .. Len(came)
      BY <1>0
    <3>4. j = 0 => Len(came) - (j - 1) = Len(came) + 1
      BY <1>0
    <3> QED
      BY <1>1, <3>2, <3>3, <3>4
  <2> QED
    BY <1>0, <1>1, <1>2, <2>1, <2>2, <2>3 DEF a
<1>3. CASE ~(Len(a) > Longest)
  <2>1. LastOf(a) = a
    BY <1>3 DEF LastOf
  <2>2. \A j \in 0 .. Len(a) - 1 :
           a[Len(a) - j] = IF j = 0 THEN now ELSE came[Len(came) - (j - 1)]
    BY <1>0, <1>1
  <2> QED
    BY <1>0, <1>1, <1>3, <2>1, <2>2 DEF a
<1> QED
  BY <1>2, <1>3

\* A message is counted: what the ring then remembers.
LEMMA CountedInRing ==
    ASSUME KickAssumption, RingInv, MessageCounted, count # 0 PROVE RingInv'
<1>0. /\ count \in Nat /\ count >= 1 /\ count <= Longest /\ Longest \in Nat
      /\ Len(came) \in Nat /\ now \in 0 .. MaxTime
  BY LongestIsMost DEF RingInv, RingTyped, KickAssumption
<1>1. /\ came' = LastOf(Append(came, now))
      /\ UNCHANGED <<now, count, period>> /\ reader' = "idle"
      /\ First \/ Full((start + 1) % count) \/ Room((start + 1) % count)
  BY DEF MessageCounted
<1> DEFINE n == After(start)
<1>2. start # nil => (start + 1) % count = n /\ n \in 0 .. count - 1
  <2> SUFFICES ASSUME start # nil PROVE (start + 1) % count = n /\ n \in 0 .. count - 1
    OBVIOUS
  <2>1. start \in 0 .. count - 1
    BY <1>0 DEF RingInv, RingTyped, nil
  <2>2. (start + 1) % count = IF start + 1 = count THEN 0 ELSE start + 1
    BY <1>0, <2>1, Remainder
  <2> QED
    BY <1>0, <2>1, <2>2 DEF After
<1>3. /\ came' \in Seq(0 .. MaxTime) /\ Len(came') \in Nat /\ Len(came') <= Longest
      /\ Len(came') = IF Len(came) + 1 > Longest THEN Len(came) ELSE Len(came) + 1
      /\ \A j \in 0 .. Len(came') - 1 :
            came'[Len(came') - j] = IF j = 0 THEN now ELSE came[Len(came) - (j - 1)]
  BY <1>1, CameAfter DEF RingInv
<1>4. CASE First
  <2>1. /\ start = nil /\ start' = 0 /\ end' = 0 /\ times' = [times EXCEPT ![0] = now]
        /\ Len(came) = 0 /\ Len(came') = 1
    BY <1>0, <1>3, <1>4 DEF First, RingInv, Begun
  <2>2. times' \in [0 .. count' - 1 -> 0 .. MaxTime \cup {nil}] /\ times'[0] = now
    BY <1>0, <1>1, <2>1 DEF RingInv, RingTyped
  <2>3. RingTyped'
    BY <1>0, <1>1, <1>3, <2>1, <2>2 DEF RingInv, RingTyped, nil
  <2>4. Begun'
    BY <2>1 DEF Begun, nil
  <2>6. EndsAt'
    <3>1. After(start)' = IF count = 1 THEN 0 ELSE 1
      BY <1>0, <1>1, <2>1 DEF After
    <3> QED
      BY <1>0, <1>1, <2>1, <3>1 DEF EndsAt
  <2>5. Remembers'
    BY <1>0, <1>1, <1>3, <2>1, <2>2 DEF Remembers, Place
  <2> QED
    BY <2>3, <2>4, <2>5, <2>6 DEF RingInv
<1>5. CASE start # nil /\ (Full((start + 1) % count) \/ Room((start + 1) % count))
  <2>1. /\ start' = n /\ times' = [times EXCEPT ![n] = now] /\ start # nil
        /\ n \in 0 .. count - 1 /\ start \in 0 .. count - 1
        /\ Len(came) >= 1
    BY <1>0, <1>2, <1>5 DEF Full, Room, RingInv, RingTyped, Begun, nil
  <2>2. times' \in [0 .. count' - 1 -> 0 .. MaxTime \cup {nil}] /\ times'[n] = now
        /\ \A i \in 0 .. count - 1 : i # n => times'[i] = times[i]
    BY <1>0, <1>1, <2>1 DEF RingInv, RingTyped
  <2>3. end' = IF n = end THEN (end + 1) % count ELSE end
    BY <1>2, <1>5 DEF Full, Room
  <2>4. n = end <=> Len(came) >= count
    BY <1>0, <2>1 DEF RingInv, EndsAt, After
  <2>5. end' = IF n = end THEN (IF n + 1 = count THEN 0 ELSE n + 1) ELSE end
    BY <1>0, <2>1, <2>3, Remainder
  <2>6. RingTyped'
    BY <1>0, <1>1, <1>3, <2>1, <2>2, <2>5 DEF RingInv, RingTyped, nil
  <2>7. Begun'
    BY <1>0, <1>3, <2>1, <2>5 DEF RingInv, RingTyped, Begun, nil
  <2>8. EndsAt'
    <3>1. CASE Len(came) >= count
      <4>1. end = n /\ Len(came') >= count
        BY <1>0, <1>3, <2>4, <3>1
      <4>2. end' = After(start)'
        BY <1>1, <2>1, <2>5, <4>1 DEF After
      <4> QED
        BY <1>0, <1>1, <1>3, <4>1, <4>2 DEF EndsAt
    <3>2. CASE Len(came) < count
      <4>1. Len(came') = Len(came) + 1 /\ end = 0 /\ start = Len(came) - 1 /\ end' = 0
        BY <1>0, <1>3, <2>1, <2>4, <2>5, <3>2 DEF RingInv, EndsAt
      <4>2. start' = Len(came)
        BY <1>0, <2>1, <3>2, <4>1 DEF After
      <4>3. Len(came') >= count => start' + 1 = count
        BY <1>0, <3>2, <4>1, <4>2
      <4>4. Len(came') >= count => After(start)' = 0
        BY <1>1, <4>3 DEF After
      <4> QED
        BY <1>0, <1>1, <1>3, <4>1, <4>2, <4>4 DEF EndsAt
    <3> QED
      BY <1>0, <3>1, <3>2
  <2>9. Remembers'
    <3> SUFFICES ASSUME NEW j \in 0 .. count - 1, j < Len(came')
                 PROVE  times'[Place(j)'] = came'[Len(came') - j]
      BY <1>1 DEF Remembers
    <3>1. CASE j = 0
      <4>1. Place(j)' = n
        BY <1>1, <2>1, <3>1 DEF Place
      <4> QED
        BY <1>0, <1>3, <2>2, <3>1, <4>1
    <3>2. CASE j # 0
      <4>1. j - 1 \in 0 .. count - 1 /\ j - 1 < Len(came)
        BY <1>0, <1>3, <3>2
      <4>2. /\ Place(j)' = Place(j - 1)
            /\ Place(j - 1) \in 0 .. count - 1 /\ Place(j - 1) # n
        <5>1. Place(j)' = IF j <= n THEN n - j ELSE n - j + count
          BY <1>1, <2>1 DEF Place
        <5> HIDE DEF n
        <5>2. n = IF start + 1 = count THEN 0 ELSE start + 1
          BY DEF n, After
        <5>3. Place(j - 1) = IF j - 1 <= start THEN start - (j - 1)
                             ELSE start - (j - 1) + count
          BY DEF Place
        <5> QED
          BY <1>0, <2>1, <3>2, <5>1, <5>2, <5>3
      <4>3. times[Place(j - 1)] = came[Len(came) - (j - 1)]
        BY <2>1, <4>1 DEF RingInv, Remembers
      <4> QED
        BY <1>0, <1>3, <2>2, <3>2, <4>2, <4>3
    <3> QED
      BY <3>1, <3>2
  <2> QED
    BY <2>6, <2>7, <2>8, <2>9 DEF RingInv
<1> QED
  BY <1>1, <1>4, <1>5 DEF Full, Room

\* The verdict on a message, from what the ring remembers.
LEMMA VerdictIsExact ==
    ASSUME KickAssumption, RingInv, MessageCounted, count # 0 PROVE reached' = Excess
<1>0. /\ count \in Nat /\ count >= 1 /\ Len(came) \in Nat
      /\ First \/ Full((start + 1) % count) \/ Room((start + 1) % count)
  BY DEF RingInv, RingTyped, KickAssumption, MessageCounted
<1>1. CASE First
  <2>1. reached' = FALSE /\ Len(came) = 0
    BY <1>1 DEF First, RingInv, Begun
  <2>2. ~Excess
    BY <1>0, <2>1 DEF Excess
  <2> QED
    BY <2>1, <2>2 DEF Excess
<1>2. CASE start # nil /\ (Full((start + 1) % count) \/ Room((start + 1) % count))
  <2>1. start \in 0 .. count - 1 /\ (start + 1) % count = After(start)
    <3>1. start \in 0 .. count - 1
      BY <1>0, <1>2 DEF RingInv, RingTyped, nil
    <3> QED
      BY <1>0, <3>1, Remainder DEF After
  <2>2. After(start) = end <=> Len(came) >= count
    BY <1>0, <1>2, <2>1 DEF RingInv, EndsAt, Begun, After
  <2>3. CASE After(start) = end
    <3>1. reached' = (times[end] + period > now)
      BY <1>2, <2>1, <2>3 DEF Full, Room, PushedOut
    <3>2. times[end] = came[Len(came) - count + 1]
      <4>1. Place(count - 1) = end
        BY <1>0, <2>1, <2>3 DEF Place, After
      <4>2. times[Place(count - 1)] = came[Len(came) - (count - 1)]
        BY <1>0, <1>2, <2>2, <2>3 DEF RingInv, Remembers
      <4> QED
        BY <1>0, <4>1, <4>2
    <3> QED
      <4> DEFINE late == times[end] + period > now
      <4>1. Excess <=> late
        BY <1>0, <2>2, <2>3, <3>2 DEF Excess
      <4>2. reached' = late
        BY <3>1
      <4> HIDE DEF late
      <4> QED
        BY <4>1, <4>2
  <2>4. CASE After(start) # end
    <3>1. reached' = FALSE
      BY <1>2, <2>1, <2>4 DEF Full, Room
    <3>2. ~Excess
      BY <2>2, <2>4 DEF Excess
    <3> QED
      BY <3>1, <3>2 DEF Excess
  <2> QED
    BY <2>3, <2>4
<1> QED
  BY <1>0, <1>1, <1>2 DEF Full, Room

LEMMA RingStep == KickAssumption /\ RingInv /\ [KickNext]_kickVars => RingInv'
<1> SUFFICES ASSUME KickAssumption, RingInv, [KickNext]_kickVars PROVE RingInv'
  OBVIOUS
<1>1. CASE Passes \/ MessageComes
  <2>1. UNCHANGED <<count, period, ring, came>> /\ now' \in 0 .. MaxTime
        /\ reader' \in {"idle", "check"}
    BY <1>1 DEF Passes, MessageComes, RingInv, RingTyped, KickAssumption
  <2> QED
    BY <2>1 DEF ring, RingInv, RingTyped, Begun, EndsAt, Remembers, After, Place
<1>2. CASE MessageCounted
  <2>1. CASE count = 0
    BY <1>2, <2>1 DEF MessageCounted, ring, RingInv, RingTyped, Begun, EndsAt, Remembers,
       After, Place
  <2> QED
    BY <1>2, <2>1, CountedInRing
<1>3. ASSUME NEW c \in Counts, NEW p \in Periods, Update(c, p) PROVE RingInv'
  <2>1. CASE c = count
    BY <1>3, <2>1 DEF Update, ring, RingInv, RingTyped, Begun, EndsAt, Remembers, After, Place
  <2>2. CASE c # count
    <3>1. /\ count' = c /\ period' = p /\ times' = Ring(c) /\ start' = nil /\ end' = nil
          /\ came' = <<>> /\ UNCHANGED <<now, reader>>
      BY <1>3, <2>2 DEF Update
    <3>2. c \in Nat /\ Longest \in Nat
      BY LongestIsMost DEF KickAssumption
    <3>3. times' \in [0 .. count' - 1 -> 0 .. MaxTime \cup {nil}]
      BY <3>1 DEF Ring
    <3>4. came' \in Seq(0 .. MaxTime) /\ Len(came') = 0
      BY <3>1
    <3>5. RingTyped'
      BY <3>1, <3>2, <3>3, <3>4 DEF RingInv, RingTyped, nil
    <3> QED
      BY <3>1, <3>4, <3>5 DEF RingInv, Begun, EndsAt, Remembers
  <2> QED
    BY <2>1, <2>2
<1>4. CASE UNCHANGED kickVars
  BY <1>4 DEF kickVars, ring, RingInv, RingTyped, Begun, EndsAt, Remembers, After, Place
<1> QED
  BY <1>1, <1>2, <1>3, <1>4 DEF KickNext

LEMMA RingInit == KickAssumption /\ KickInit => RingInv
<1> SUFFICES ASSUME KickAssumption, KickInit PROVE RingInv
  OBVIOUS
<1>1. count \in Nat /\ count >= 1 /\ Longest \in Nat /\ MaxTime \in Nat
  BY LongestIsMost DEF KickInit, KickAssumption
<1>2. came \in Seq(0 .. MaxTime) /\ Len(came) = 0
  BY DEF KickInit
<1>3. times \in [0 .. count - 1 -> 0 .. MaxTime \cup {nil}]
  BY DEF KickInit, Ring
<1>4. RingTyped
  BY <1>1, <1>2, <1>3 DEF KickInit, RingTyped, nil, KickAssumption
<1> QED
  BY <1>2, <1>4 DEF KickInit, RingInv, Begun, EndsAt, Remembers

\* "limit gshell kick_vm to occur up to gshellMaxFrequencyCount times in
\* gshellMaxFrequencyPeriod second" (hasReachFrequencyLimit): for every count and period,
\* however they change and wherever the ring has wrapped around.
THEOREM VerdictsAreExact == ASSUME KickAssumption PROVE KickSpec => LimitIsExact
<1>1. RingInv /\ [KickNext]_kickVars => [MessageCounted /\ ~crashed' => reached' = Excess]_kickVars
  <2> SUFFICES ASSUME RingInv, MessageCounted, ~crashed' PROVE reached' = Excess
    OBVIOUS
  <2>1. count # 0
    BY DEF MessageCounted
  <2> QED
    BY <2>1, VerdictIsExact
<1> QED
  BY <1>1, RingInit, RingStep, PTL DEF KickSpec, LimitIsExact

\* The indices stay within the ring that was made for the count of the moment, though the
\* count changes between the reader's look at it and its lock of the mutex.
THEOREM IndicesWithinRing == ASSUME KickAssumption PROVE KickSpec => []KickTypeOK
<1>1. Flags /\ [KickNext]_kickVars => Flags'
  <2> SUFFICES ASSUME Flags, [KickNext]_kickVars PROVE Flags'
    OBVIOUS
  <2>1. CASE MessageCounted
    <3>1. ASSUME NEW next, Full(next) PROVE reached' \in BOOLEAN
      BY <3>1 DEF Full
    <3> QED
      BY <2>1, <3>1 DEF MessageCounted, First, Room, Flags
  <2>2. CASE ~MessageCounted
    BY <2>2 DEF Flags, KickNext, Passes, MessageComes, Update, kickVars
  <2> QED
    BY <2>1, <2>2
<1>2. KickInit => Flags
  BY DEF KickInit, Flags
<1>3. RingInv /\ Flags => KickTypeOK
  BY DEF RingInv, RingTyped, Flags, KickTypeOK
<1> QED
  BY <1>1, <1>2, <1>3, RingInit, RingStep, PTL DEF KickSpec

-----------------------------------------------------------------------------
(***************************************************************************)
(* Heartbeat, for any number of attempts, any quota, and any setting.      *)
(*                                                                         *)
(* A heart-beat is lost when a scheme fails.  How many may be lost in a    *)
(* row follows from a sum that no step lets grow (RiskIsBounded): the lost *)
(* ones, those that have failed and have not been counted, those at a      *)
(* request over a scheme that fails, and, while that scheme is the next    *)
(* (NextBad), those that still have to choose.                             *)
(***************************************************************************)
PingPlaces == Retrying \cup {"idle", "request", "lock", "acknowledged", "failed"}
Good(s) == s \in setting.steady

\* A heart-beat gets past its first request over a scheme that may fail.
FailPlaces ==
    \A p \in Pingers : at[p] \in {"lock", "retry", "other", "failed"} => ~Good(scheme[p])

\* When http was requested last.
HttpWasSoon ==
    /\ attempts > 0 => sinceHttp = 0
    /\ attempts = 0 => at["main"] = "idle"
    /\ tryHttp = FALSE => sinceHttp <= since + 1
    /\ sinceHttp <= HttpAgain + 2
    /\ \A p \in Pingers :
          /\ at[p] \in {"request", "acknowledged"} /\ scheme[p] = "https" =>
                sinceHttp <= HttpAgain + 1
          /\ at[p] \notin {"idle", "request"} /\ scheme[p] = "http" => sinceHttp <= 1
HttpSoon == ~setting.hybrid /\ "https" \in setting.steady => HttpWasSoon

\* The heart-beats that may still fail in a row: who has failed, who is about to choose
\* a scheme that fails, and who is at a request over one.
NextBad == ~Good(Choice)
Pending(p) == at[p] \in {"request", "lock", "retry"} /\ ~Good(scheme[p])
SureToEnd(p) ==
    \/ at[p] = "acknowledged"
    \/ at[p] = "request" /\ Good(scheme[p])
    \/ at[p] = "other" /\ Good(Other(scheme[p]))
Risk(p) ==
    (IF at[p] = "failed" THEN 1 ELSE 0)
    + (IF NextBad THEN (IF SureToEnd(p) THEN 0 ELSE 1) ELSE IF Pending(p) THEN 1 ELSE 0)
HttpsOnly == ~setting.hybrid /\ setting.steady = {"https"}
RiskIsBounded(p, q) ==
    /\ missed + Risk(p) + Risk(q) <= 3
    /\ at[p] = "failed" /\ at[q] = "failed" => ~NextBad /\ (HttpsOnly => since = 0)
    /\ at[p] = "failed" /\ ~NextBad /\ HttpsOnly => since <= 1 \/ missed = 0
    /\ at[p] = "failed" /\ Pending(q) /\ ~NextBad /\ HttpsOnly => since = 0
FewAtRisk ==
    Usable # {} => \A p, q \in Pingers : p # q => RiskIsBounded(p, q)

BeatsInv == PingTypeOK /\ HybridIsHttps /\ FailPlaces /\ HttpSoon /\ FewAtRisk

LEMMA BeatsInvInit == ASSUME PingAssumption, PingInit PROVE BeatsInv
<1> USE DEF PingInit, PingAssumption, Pingers, Schemes
<1>1. /\ tryHttp \in BOOLEAN /\ hourOver \in BOOLEAN
  BY Zenon
<1>2. PingTypeOK
  BY <1>1 DEF PingTypeOK, Enough, Bound, Retrying
<1>3. HybridIsHttps /\ FailPlaces
  BY DEF HybridIsHttps, FailPlaces
<1>4. HttpSoon
  BY DEF HttpSoon, HttpWasSoon
<1>5. FewAtRisk
  <2> SUFFICES ASSUME NEW p \in Pingers, NEW q \in Pingers PROVE RiskIsBounded(p, q)
    BY DEF FewAtRisk
  <2>1. Risk(p) \in 0..1 /\ Risk(q) \in 0..1
    BY DEF Risk, Pending
  <2> QED BY <2>1 DEF RiskIsBounded
<1> QED BY <1>2, <1>3, <1>4, <1>5 DEF BeatsInv

\* A scheme that is to be used next is the one that is chosen then.
LEMMA NextIsChosen ==
    ASSUME PingAssumption, PingTypeOK, NEW s \in Schemes, UseNext(s), UNCHANGED setting
    PROVE  /\ tryHttp' \in BOOLEAN /\ (tryHttp' <=> s = "http")
           /\ since' \in 0..Enough /\ (s = "https" => since' = 0) /\ (s = "http" => since' = since)
           /\ ~setting.hybrid => Choice' = s
<1>1. tryHttp' \in BOOLEAN /\ (tryHttp' <=> s = "http")
  BY Zenon DEF UseNext
<1>2. /\ since' \in 0..Enough /\ (s = "https" => since' = 0) /\ (s = "http" => since' = since)
  BY DEF UseNext, PingTypeOK, PingAssumption, Enough, Schemes
<1>3. s = "https" => ~TriesHttpAgain'
  BY <1>2 DEF TriesHttpAgain, PingAssumption
<1>4. s = "http" \/ s = "https"
  BY DEF Schemes
<1>5. ~setting.hybrid => Choice' = s
  BY <1>1, <1>3, <1>4, Zenon DEF Choice
<1> QED BY <1>1, <1>2, <1>5

LEMMA ChoiceIsOne == ASSUME PingTypeOK PROVE Choice \in Schemes
BY DEF Choice, Schemes

\* What each step does to the place of a pinger; the others stay.
LEMMA PlacesStep ==
    ASSUME PingTypeOK, NEW p \in Pingers, Pinger(p)
    PROVE  /\ \A q \in Pingers : q # p => at'[q] = at[q] /\ scheme'[q] = scheme[q]
           /\ at' \in [Pingers -> PingPlaces] /\ scheme' \in [Pingers -> Schemes]
           /\ at'[p] \in Retrying => /\ scheme'[p] = scheme[p]
                                     /\ \/ at[p] \in Retrying
                                        \/ \A q \in Pingers : at[q] \notin Retrying
<1> USE DEF PingTypeOK, Goto, Requests, Retrying, PingPlaces
<1>1. CASE Pings(p)
  BY <1>1, ChoiceIsOne DEF Pings
<1>2. CASE FirstRequest(p)
  BY <1>2 DEF FirstRequest
<1>3. CASE LocksRetry(p)
  BY <1>3 DEF LocksRetry
<1>4. CASE Retries(p)
  BY <1>4 DEF Retries
<1>5. CASE UsesOther(p)
  BY <1>5 DEF UsesOther
<1>6. CASE Ends(p)
  BY <1>6 DEF Ends
<1> QED BY <1>1, <1>2, <1>3, <1>4, <1>5, <1>6 DEF Pinger

LEMMA OtherIsOne == ASSUME NEW s \in Schemes PROVE Other(s) \in Schemes /\ Other(s) # s
BY DEF Other, Schemes

\* tryHttp and since are left alone, or set for the scheme to be used next.
LEMMA SchemeStep ==
    ASSUME PingAssumption, PingTypeOK, UNCHANGED setting, NEW p \in Pingers, Pinger(p)
    PROVE  /\ tryHttp' \in BOOLEAN /\ since' \in 0..Enough
           /\ \/ Pings(p) \/ Ends(p) \/ UNCHANGED <<tryHttp, since>>
              \/ UseNext(scheme[p]) \/ UseNext(Other(scheme[p]))
<1>0. scheme[p] \in Schemes /\ Other(scheme[p]) \in Schemes
  BY OtherIsOne DEF PingTypeOK
<1>1. CASE Pings(p)
  <2>1. tryHttp' \in BOOLEAN
    BY <1>1, Zenon DEF Pings
  <2> QED BY <1>1, <2>1 DEF Pings, PingTypeOK
<1>2. CASE Ends(p)
  <2>1. tryHttp' = tryHttp /\ since' \in {since, Capped(since + 1, Enough)}
    BY <1>2 DEF Ends
  <2>2. Capped(since + 1, Enough) \in 0..Enough
    BY DEF Capped, PingTypeOK, Enough, PingAssumption
  <2> QED BY <1>2, <2>1, <2>2 DEF PingTypeOK
<1>3. CASE UNCHANGED <<tryHttp, since>>
  BY <1>3 DEF PingTypeOK
<1>4. CASE UseNext(scheme[p]) \/ UseNext(Other(scheme[p]))
  BY <1>0, <1>4, NextIsChosen
<1> QED BY <1>1, <1>2, <1>3, <1>4
        DEF Pinger, FirstRequest, LocksRetry, Retries, UsesOther

LEMMA PingTypeStep ==
    ASSUME PingAssumption, PingTypeOK, [PingNext]_pingVars PROVE PingTypeOK'
<1>1. CASE UNCHANGED pingVars
  BY <1>1 DEF pingVars, PingTypeOK
<1>2. CASE HourPasses /\ UNCHANGED setting
  BY <1>2 DEF HourPasses, PingTypeOK
<1>3. ASSUME NEW p \in Pingers, Pinger(p), UNCHANGED setting PROVE PingTypeOK'
  <2>1. tryHttp' \in BOOLEAN /\ since' \in 0..Enough
    BY <1>3, SchemeStep
  <2>2. at' \in [Pingers -> PingPlaces] /\ scheme' \in [Pingers -> Schemes]
    BY <1>3, PlacesStep
  <2>3. {q \in Pingers : at'[q] \in Retrying} # Pingers
    <3>1. \A q \in Pingers : q # p => at'[q] = at[q]
      BY <1>3, PlacesStep
    <3>2. at'[p] \in Retrying => at[p] \in Retrying \/ \A q \in Pingers : at[q] \notin Retrying
      BY <1>3, PlacesStep
    <3>3. PICK q \in Pingers : at[q] \notin Retrying
      BY DEF PingTypeOK
    <3>4. PICK r \in Pingers : r # p
      BY DEF Pingers
    <3> QED BY <3>1, <3>2, <3>3, <3>4
  <2>4. retries' \in 0..Quota /\ hourOver' \in BOOLEAN
    <3>1. hourOver' \in BOOLEAN
      <4>1. hourOver' = hourOver \/ hourOver' = FALSE
        BY <1>3, Zenon DEF Pinger, Pings, FirstRequest, LocksRetry, Retries, UsesOther, Ends,
           Requests
      <4> QED BY <4>1, Zenon DEF PingTypeOK
    <3>2. CASE LocksRetry(p)
      <4>1. RetriesNow \in 0..Quota
        BY DEF RetriesNow, PingTypeOK, PingAssumption
      <4> QED BY <3>1, <3>2, <4>1 DEF LocksRetry, QuotaUsed, PingAssumption
    <3>3. CASE UNCHANGED retries
      BY <3>1, <3>3 DEF PingTypeOK
    <3> QED BY <1>3, <3>2, <3>3 DEF Pinger, Pings, FirstRequest, Retries, UsesOther, Ends
  <2>5. attempts' \in 0..PingAttempts /\ missed' \in 0..Bound /\ sinceHttp' \in 0..Bound
    <3>1. \A n \in 0..Bound : Capped(n + 1, Bound) \in 0..Bound
      BY DEF Capped, Bound, PingAssumption
    <3>2. 0 \in 0..Bound /\ 0 \in 0..PingAttempts
      BY DEF Bound, PingAssumption
    <3>3. attempts' \in {attempts, 0} \/ (attempts > 1 /\ attempts' = attempts - 1)
      <4>1. CASE Ends(p)
        BY <4>1 DEF Ends
      <4>2. CASE ~Ends(p)
        BY <4>2, <1>3 DEF Pinger, Pings, FirstRequest, LocksRetry, Retries, UsesOther, Requests
      <4> QED BY <4>1, <4>2
    <3>4. missed' \in {missed, 0, Capped(missed + 1, Bound)}
      BY <1>3 DEF Pinger, Pings, FirstRequest, LocksRetry, Retries, UsesOther, Ends
    <3>5. sinceHttp' \in {sinceHttp, 0, Capped(sinceHttp + 1, Bound)}
      BY <1>3 DEF Pinger, Pings, FirstRequest, LocksRetry, Retries, UsesOther, Ends, Requests
    <3> QED BY <3>1, <3>2, <3>3, <3>4, <3>5 DEF PingTypeOK, PingAssumption
  <2> QED BY <1>3, <2>1, <2>2, <2>3, <2>4, <2>5 DEF PingTypeOK, PingPlaces
<1> QED BY <1>1, <1>2, <1>3 DEF PingNext

\* https alone in hybrid mode, and what a pinger past its first request tells.
LEMMA HttpsStep ==
    ASSUME PingTypeOK, HybridIsHttps, [PingNext]_pingVars PROVE HybridIsHttps'
<1> USE DEF HybridIsHttps, PingTypeOK
<1>1. CASE UNCHANGED <<setting, at, scheme>>
  BY <1>1
<1>2. ASSUME NEW p \in Pingers, Pinger(p), UNCHANGED setting PROVE HybridIsHttps'
  <2>1. \A q \in Pingers : q # p => at'[q] = at[q] /\ scheme'[q] = scheme[q]
    BY <1>2, PlacesStep
  <2>2. setting.hybrid /\ at'[p] # "idle" => scheme'[p] = "https" /\ at'[p] # "other"
    BY <1>2 DEF Pinger, Pings, Choice, FirstRequest, LocksRetry, Retries, UsesOther, Ends, Requests,
                Goto
  <2> QED BY <1>2, <2>1, <2>2
<1> QED BY <1>1, <1>2 DEF PingNext, HourPasses, pingVars

LEMMA FailPlacesStep ==
    ASSUME PingTypeOK, FailPlaces, [PingNext]_pingVars PROVE FailPlaces'
<1> USE DEF FailPlaces, PingTypeOK, Good
<1>1. CASE UNCHANGED <<setting, at, scheme>>
  BY <1>1
<1>2. ASSUME NEW p \in Pingers, Pinger(p), UNCHANGED setting PROVE FailPlaces'
  <2>1. \A q \in Pingers : q # p => at'[q] = at[q] /\ scheme'[q] = scheme[q]
    BY <1>2, PlacesStep
  <2>2. at'[p] \in {"lock", "retry", "other", "failed"} => scheme'[p] \notin setting.steady
    BY <1>2 DEF Pinger, Pings, FirstRequest, LocksRetry, Retries, UsesOther, Ends, Requests, Goto,
                MayFail
  <2> QED BY <1>2, <2>1, <2>2
<1> QED BY <1>1, <1>2 DEF PingNext, HourPasses, pingVars

LEMMA HttpSoonStep ==
    ASSUME PingAssumption, BeatsInv, PingTypeOK', [PingNext]_pingVars PROVE HttpSoon'
<1>t. PingTypeOK /\ FailPlaces /\ HttpSoon
  BY DEF BeatsInv
<1>1. CASE UNCHANGED <<setting, attempts, at, tryHttp, since, sinceHttp, scheme>>
  BY <1>1, <1>t DEF HttpSoon, HttpWasSoon
<1>2. ASSUME NEW p \in Pingers, Pinger(p), UNCHANGED setting,
             ~setting.hybrid, "https" \in setting.steady
      PROVE HttpWasSoon'
  <2> USE DEF HttpWasSoon
  <2>i. PingTypeOK /\ FailPlaces /\ HttpWasSoon
    BY <1>2, <1>t DEF HttpSoon
  <2>n. HttpAgain \in Nat /\ since \in Nat /\ sinceHttp \in Nat /\ attempts \in Nat
    BY <2>i DEF PingTypeOK, PingAssumption, Enough, Bound
  <2>s. scheme[p] \in Schemes /\ (scheme[p] = "http" \/ scheme[p] = "https")
    BY <2>i DEF PingTypeOK, Schemes
  <2>o. /\ \A q \in Pingers : q # p => at'[q] = at[q] /\ scheme'[q] = scheme[q]
        /\ p \in {"main", "timer"} /\ "main" \in Pingers
    BY <1>2, <2>i, PlacesStep DEF Pingers
  <2>f. at[p] \in {"lock", "retry", "other", "failed"} => scheme[p] = "http"
    BY <1>2, <2>i, <2>s DEF FailPlaces, Good
  <2>u. attempts' \in Nat /\ since' \in Nat /\ sinceHttp' \in Nat
    BY <2>n DEF PingTypeOK, Enough, Bound, PingAssumption
  <2>m. attempts' = attempts /\ at[p] # "idle" /\ attempts' = 0 => at'["main"] = "idle"
    BY <2>o, <2>i
  <2>l. \A m, n \in Nat :
           m = 0 \/ m \in 0..1 => m <= n + 1 /\ m <= HttpAgain + 2 /\ m <= HttpAgain + 1 /\ m <= 1
    BY <2>n
  <2>h. ASSUME sinceHttp' = 0, attempts' = attempts, at[p] # "idle" PROVE HttpWasSoon'
    <3>1. /\ sinceHttp' <= since' + 1 /\ sinceHttp' <= HttpAgain + 2
          /\ sinceHttp' <= HttpAgain + 1 /\ sinceHttp' <= 1
      BY <2>h, <2>l, <2>u
    <3> QED BY <3>1, <2>h, <2>m
  <2>1. CASE Pings(p)
    <3>1. Choice = "https" => tryHttp = FALSE /\ ~TriesHttpAgain
      <4>1. tryHttp \in BOOLEAN
        BY <2>i DEF PingTypeOK
      <4> QED BY <1>2, <4>1, Zenon DEF Choice
    <3>2. tryHttp' = FALSE => tryHttp = FALSE
      <4>1. tryHttp \in BOOLEAN
        BY <2>i DEF PingTypeOK
      <4> QED BY <2>1, <4>1, Zenon DEF Pings
    <3>3. Choice = "https" => sinceHttp <= HttpAgain + 1
      BY <3>1, <2>n, <2>i DEF TriesHttpAgain
    <3>4. /\ UNCHANGED <<since, attempts, sinceHttp>>
          /\ at[p] = "idle" /\ (p = "main" => attempts > 0)
          /\ at'[p] = "request" /\ scheme'[p] = Choice
      BY <2>1, <2>i DEF Pings, PingTypeOK
    <3> QED BY <3>2, <3>3, <3>4, <2>n, <2>o, <2>i
  <2>2. CASE FirstRequest(p)
    <3>1. CASE scheme[p] = "http"
      <4>1. sinceHttp' = 0 /\ attempts' = attempts /\ at[p] # "idle"
        BY <2>2, <3>1 DEF FirstRequest, Requests
      <4> QED BY <4>1, <2>h
    <3>2. CASE scheme[p] = "https"
      <4>1. /\ UNCHANGED <<tryHttp, since, attempts, sinceHttp, scheme>>
            /\ at[p] = "request" /\ at'[p] = "acknowledged"
        BY <2>2, <3>2, <1>2, <2>i DEF FirstRequest, Requests, MayFail, Goto, PingTypeOK
      <4> QED BY <4>1, <3>2, <2>n, <2>o, <2>i
    <3> QED BY <3>1, <3>2, <2>s
  <2>3. CASE LocksRetry(p)
    <3>1. scheme[p] = "http" /\ sinceHttp <= 1 /\ at[p] = "lock"
      BY <2>3, <2>f, <2>i DEF LocksRetry
    <3>2. UNCHANGED <<attempts, sinceHttp, scheme>> /\ at'[p] \in {"failed", "retry"}
      BY <2>3, <2>i DEF LocksRetry, Goto, PingTypeOK
    <3>3. UNCHANGED <<tryHttp, since>> \/ since' = 0
      BY <2>3, <3>1 DEF LocksRetry, UseNext, Other
    <3> QED BY <3>1, <3>2, <3>3, <2>n, <2>o, <2>i
  <2>4. CASE Retries(p)
    <3>1. scheme[p] = "http" /\ at[p] # "idle"
      BY <2>4, <2>f DEF Retries
    <3>2. sinceHttp' = 0 /\ attempts' = attempts
      BY <2>4, <3>1 DEF Retries, Requests
    <3> QED BY <3>1, <3>2, <2>h
  <2>5. CASE UsesOther(p)
    <3>1. scheme[p] = "http" /\ sinceHttp <= 1 /\ at[p] = "other"
      BY <2>5, <2>f, <2>i DEF UsesOther
    <3>2. /\ UNCHANGED <<attempts, sinceHttp, scheme>> /\ at'[p] \in {"acknowledged", "failed"}
          /\ since' = 0
      BY <2>5, <3>1, <2>i DEF UsesOther, Requests, UseNext, Other, Goto, PingTypeOK
    <3> QED BY <3>1, <3>2, <2>n, <2>o, <2>i
  <2>6. CASE Ends(p)
    <3>1. /\ at[p] \in {"acknowledged", "failed"} /\ at'[p] = "idle"
          /\ UNCHANGED <<tryHttp, scheme>>
      BY <2>6, <2>i DEF Ends, Goto, PingTypeOK
    <3>2. sinceHttp' = IF attempts' > 0 THEN sinceHttp ELSE Capped(sinceHttp + 1, Bound)
      BY <2>6 DEF Ends
    <3>3. Capped(sinceHttp + 1, Bound) \in Nat /\ Capped(sinceHttp + 1, Bound) <= sinceHttp + 1
      BY <2>n DEF Capped, Bound
    <3>5. CASE p = "main"
      <4>1. attempts > 0 /\ sinceHttp = 0
        BY <3>1, <3>5, <2>n, <2>i
      <4>2. sinceHttp' \in 0..1 /\ (attempts' > 0 => sinceHttp' = 0)
        BY <4>1, <3>2, <3>3
      <4>3. /\ sinceHttp' <= since' + 1 /\ sinceHttp' <= HttpAgain + 2
            /\ sinceHttp' <= HttpAgain + 1 /\ sinceHttp' <= 1
        BY <4>2, <2>l, <2>u
      <4> QED BY <4>2, <4>3, <3>1, <3>5, <2>u
    <3>6. CASE p = "timer" /\ attempts > 0
      <4>1. attempts' = attempts /\ sinceHttp' = sinceHttp /\ sinceHttp = 0
        BY <2>6, <3>6, <2>i DEF Ends
      <4>2. sinceHttp' = 0 /\ attempts' > 0 /\ attempts' # 0
        BY <4>1, <3>6, <2>n
      <4>3. /\ sinceHttp' <= since' + 1 /\ sinceHttp' <= HttpAgain + 2
            /\ sinceHttp' <= HttpAgain + 1 /\ sinceHttp' <= 1
        BY <4>2, <2>l, <2>u
      <4> QED BY <4>2, <4>3
    <3>7. CASE p = "timer" /\ ~(attempts > 0)
      <4>1. attempts' = attempts /\ attempts = 0 /\ at["main"] = "idle" /\ at'["main"] = "idle"
        BY <2>6, <2>n, <2>o, <3>7, <2>i DEF Ends, Pingers
      <4>2. sinceHttp' \in Nat /\ sinceHttp' <= sinceHttp + 1
        BY <4>1, <3>2, <3>3, <3>7
      <4>3. sinceHttp <= HttpAgain + 1
        BY <3>1, <2>f, <2>s, <2>n, <2>i DEF PingAssumption
      <4>4. since' = IF since + 1 < HttpAgain + 1 THEN since + 1 ELSE HttpAgain + 1
        BY <2>6, <3>7 DEF Ends, Capped, Enough
      <4>5. tryHttp' = FALSE => sinceHttp' <= since' + 1
        BY <4>2, <4>3, <4>4, <3>1, <2>n, <2>i
      <4>6. \A q \in Pingers : at'[q] = "idle"
        BY <4>1, <3>1, <3>7 DEF Pingers
      <4> QED BY <4>1, <4>2, <4>3, <4>5, <4>6, <2>n
    <3> QED BY <3>5, <3>6, <3>7, <2>o
  <2> QED BY <2>1, <2>2, <2>3, <2>4, <2>5, <2>6, <1>2 DEF Pinger
<1> QED BY <1>1, <1>2 DEF HttpSoon, PingNext, HourPasses, pingVars

\* Where every scheme that is used works nobody fails.
AllGood == (setting.hybrid /\ Good("https")) \/ setting.steady = Schemes
OneGood == ~setting.hybrid /\ setting.steady \in {{"http"}, {"https"}}

LEMMA GoodOrOne ==
    ASSUME PingAssumption, PingTypeOK, Usable # {} PROVE AllGood \/ OneGood
<1>1. setting.steady \subseteq {"http", "https"} /\ setting.hybrid \in BOOLEAN
  BY DEF PingAssumption, PingTypeOK, Schemes
<1>2. CASE setting.hybrid
  BY <1>1, <1>2 DEF Usable, AllGood, Good
<1>3. CASE ~setting.hybrid
  BY <1>1, <1>3 DEF Usable, AllGood, OneGood, Schemes
<1> QED BY <1>2, <1>3

LEMMA NobodyFails ==
    ASSUME PingTypeOK, HybridIsHttps, FailPlaces, AllGood, NEW p \in Pingers
    PROVE  at[p] # "failed" /\ ~NextBad /\ Risk(p) = 0
<1> USE DEF HybridIsHttps, FailPlaces, AllGood, Good
<1>1. scheme[p] \in Schemes /\ Choice \in Schemes
  BY ChoiceIsOne DEF PingTypeOK
<1>2. at[p] # "idle" => Good(scheme[p])
  BY <1>1
<1>3. ~NextBad
  BY <1>1, Zenon DEF NextBad, Choice
<1>4. at[p] # "failed" /\ ~Pending(p)
  BY <1>2 DEF Pending
<1> QED BY <1>3, <1>4 DEF Risk

LEMMA NobodyFailsNext ==
    ASSUME PingTypeOK', HybridIsHttps', FailPlaces', AllGood', NEW p \in Pingers
    PROVE  at'[p] # "failed" /\ ~NextBad' /\ Risk(p)' = 0
<1> USE DEF HybridIsHttps, FailPlaces, AllGood, Good
<1>1. scheme'[p] \in Schemes /\ Choice' \in Schemes
  BY DEF PingTypeOK, Choice, Schemes
<1>2. at'[p] # "idle" => Good(scheme[p])'
  BY <1>1
<1>3. ~NextBad'
  BY <1>1, Zenon DEF NextBad, Choice
<1>4. at'[p] # "failed" /\ ~Pending(p)'
  BY <1>2 DEF Pending
<1> QED BY <1>3, <1>4 DEF Risk

LEMMA RiskFacts ==
    ASSUME NEW p \in Pingers
    PROVE  /\ Risk(p) \in 0..2 /\ (at[p] = "failed" => ~SureToEnd(p) /\ ~Pending(p))
           /\ Pending(p) => ~SureToEnd(p)
           /\ at[p] # "failed" => Risk(p) \in 0..1
BY DEF Risk, SureToEnd, Pending

LEMMA RiskFactsNext ==
    ASSUME NEW p \in Pingers
    PROVE  /\ Risk(p)' \in 0..2 /\ (at'[p] # "failed" => Risk(p)' \in 0..1)
           /\ SureToEnd(p)' /\ at'[p] # "failed" /\ ~Pending(p)' => Risk(p)' = 0
           /\ ~NextBad' /\ at'[p] # "failed" /\ ~Pending(p)' => Risk(p)' = 0
           /\ ~NextBad' /\ at'[p] = "failed" /\ ~Pending(p)' => Risk(p)' = 1
BY DEF Risk

\* The other pinger is where it was, and so is its risk unless NextBad changes.
LEMMA OtherRisk ==
    ASSUME PingTypeOK, NEW p \in Pingers, Pinger(p), UNCHANGED setting,
           NEW q \in Pingers, q # p
    PROVE  /\ at'[q] = at[q] /\ (SureToEnd(q)' <=> SureToEnd(q)) /\ (Pending(q)' <=> Pending(q))
           /\ (NextBad' <=> NextBad) => Risk(q)' = Risk(q)
           /\ ~NextBad' => Risk(q)' <= Risk(q)
           /\ Risk(q)' <= Risk(q) + 1
<1>1. at'[q] = at[q] /\ scheme'[q] = scheme[q]
  BY PlacesStep
<1>2. (SureToEnd(q)' <=> SureToEnd(q)) /\ (Pending(q)' <=> Pending(q))
  BY <1>1 DEF SureToEnd, Pending, Good, Other
<1>3. Pending(q) => ~SureToEnd(q)
  BY RiskFacts
<1>4. (NextBad' <=> NextBad) => Risk(q)' = Risk(q)
  BY <1>1, <1>2 DEF Risk
<1>5. ~NextBad' => Risk(q)' <= Risk(q)
  BY <1>1, <1>2, <1>3 DEF Risk
<1>6. Risk(q)' <= Risk(q) + 1
  BY <1>1, <1>2, <1>3 DEF Risk
<1> QED BY <1>1, <1>2, <1>4, <1>5, <1>6

\* What is left of the bound when a heart-beat moves, succeeds or fails.
LEMMA Sums ==
    ASSUME NEW m \in Nat, NEW a \in 0..2, NEW b \in 0..2, m + a + b <= 3
    PROVE  \A n \in Nat, c, d \in 0..2 :
              \/ n = m /\ c <= a /\ d <= b
              \/ n = m /\ 1 <= a /\ c = 0 /\ d <= b + 1
              \/ n = 0 /\ c <= 1
              \/ n <= m + 1 /\ c + 1 <= a /\ d <= b
              \/ n <= 1 /\ c <= 1 /\ d <= 1
              => n + c + d <= 3 /\ n + d + c <= 3
OBVIOUS

\* A step after which the mover has not failed, or has just set what is used next.
LEMMA MoveBounds ==
    ASSUME PingAssumption, PingTypeOK, PingTypeOK', UNCHANGED <<setting, missed>>,
           NEW p \in Pingers, NEW q \in Pingers, p # q, Pinger(p),
           RiskIsBounded(p, q), RiskIsBounded(q, p),
           \/ Risk(p)' <= Risk(p) /\ Risk(q)' <= Risk(q)
           \/ 1 <= Risk(p) /\ Risk(p)' = 0 /\ Risk(q)' <= Risk(q) + 1,
           \/ at'[p] = "failed" /\ ~NextBad' /\ (HttpsOnly => since' = 0)
           \/ at'[p] # "failed" /\ NextBad'
           \/ at'[p] # "failed" /\ ~NextBad' /\ (HttpsOnly => since' = 0)
           \/ /\ at'[p] # "failed" /\ since' = since /\ (NextBad' <=> NextBad)
              /\ Pending(p)' => Pending(p)
    PROVE  RiskIsBounded(p, q)' /\ RiskIsBounded(q, p)'
<1>1. missed + Risk(p) + Risk(q) <= 3 /\ missed \in Nat /\ missed' \in Nat /\ missed' = missed
  BY DEF RiskIsBounded, PingTypeOK, Bound, PingAssumption
<1>2. Risk(p) \in 0..2 /\ Risk(q) \in 0..2 /\ Risk(p)' \in 0..2 /\ Risk(q)' \in 0..2
  BY RiskFacts, RiskFactsNext
<1>3. missed' + Risk(p)' + Risk(q)' <= 3 /\ missed' + Risk(q)' + Risk(p)' <= 3
  BY <1>1, <1>2, Sums
<1>4. at'[q] = at[q] /\ (Pending(q)' <=> Pending(q)) /\ (HttpsOnly' <=> HttpsOnly)
  BY OtherRisk DEF HttpsOnly
<1>5. \A n \in Nat : n = 0 => n <= 1
  OBVIOUS
<1>6. since' \in Nat
  BY DEF PingTypeOK, Enough, PingAssumption
<1> QED BY <1>1, <1>3, <1>4, <1>5, <1>6 DEF RiskIsBounded

LEMMA PingsRisk ==
    ASSUME PingAssumption, PingTypeOK, PingTypeOK', OneGood, UNCHANGED setting,
           NEW p \in Pingers, NEW q \in Pingers, p # q, Pings(p),
           RiskIsBounded(p, q), RiskIsBounded(q, p)
    PROVE  RiskIsBounded(p, q)' /\ RiskIsBounded(q, p)'
<1>1. Choice' = Choice
  <2>1. TriesHttpAgain' <=> TriesHttpAgain
    BY DEF Pings, TriesHttpAgain
  <2>2. tryHttp' <=> tryHttp \/ TriesHttpAgain
    BY Zenon DEF Pings
  <2> QED BY <2>1, <2>2, Zenon DEF Choice
<1>2. NextBad' <=> NextBad
  BY <1>1 DEF NextBad, Good
<1>3. /\ at[p] = "idle" /\ at'[p] = "request" /\ scheme'[p] = Choice
      /\ UNCHANGED <<since, missed>>
  BY ChoiceIsOne DEF Pings, PingTypeOK
<1>4. Pending(p)' <=> NextBad
  BY <1>3 DEF Pending, NextBad, Good
<1>5. Risk(p)' <= Risk(p)
  BY <1>2, <1>3, <1>4 DEF Risk, SureToEnd
<1>6. Risk(q)' <= Risk(q)
  <2>1. Risk(q)' = Risk(q) /\ Risk(q) \in 0..2
    BY <1>2, OtherRisk, RiskFacts DEF Pinger
  <2> QED BY <2>1
<1>7. Pinger(p)
  BY DEF Pinger
<1>8. \/ at'[p] # "failed" /\ NextBad'
      \/ /\ at'[p] # "failed" /\ since' = since /\ (NextBad' <=> NextBad)
         /\ Pending(p)' => Pending(p)
  BY <1>2, <1>3, <1>4
<1> QED BY <1>3, <1>5, <1>6, <1>7, <1>8, MoveBounds

LEMMA OneIsGood ==
    ASSUME OneGood, NEW s \in Schemes PROVE Good(s) <=> ~Good(Other(s))
BY DEF OneGood, Good, Other, Schemes

\* The failure of a request over the scheme that may fail makes the other the next.
LEMMA FailsRisk ==
    ASSUME PingAssumption, PingTypeOK, PingTypeOK', OneGood, UNCHANGED <<setting, missed, scheme>>,
           NEW p \in Pingers, NEW q \in Pingers, p # q, Pinger(p), Pending(p),
           at'[p] = "failed", UseNext(Other(scheme[p])),
           RiskIsBounded(p, q), RiskIsBounded(q, p)
    PROVE  RiskIsBounded(p, q)' /\ RiskIsBounded(q, p)'
<1>1. scheme[p] \in Schemes /\ Other(scheme[p]) \in Schemes /\ ~Good(scheme[p])
  BY OtherIsOne DEF PingTypeOK, Pending
<1>2. Good(Other(scheme[p])) /\ Choice' = Other(scheme[p])
  BY <1>1, OneIsGood, NextIsChosen DEF OneGood
<1>3. ~NextBad'
  BY <1>2 DEF NextBad, Good
<1>4. HttpsOnly => since' = 0
  <2>1. HttpsOnly => Other(scheme[p]) = "https"
    BY <1>2 DEF HttpsOnly, Good
  <2> QED BY <2>1, <1>1, NextIsChosen
<1>5. Risk(p)' <= Risk(p)
  <2>1. Risk(p)' = 1
    BY <1>3, RiskFactsNext DEF Pending
  <2>2. Risk(p) >= 1
    BY RiskFacts DEF Risk
  <2> QED BY <2>1, <2>2, RiskFacts
<1>6. Risk(q)' <= Risk(q)
  BY <1>3, OtherRisk
<1> QED BY <1>3, <1>4, <1>5, <1>6, MoveBounds

LEMMA FirstRequestRisk ==
    ASSUME PingAssumption, PingTypeOK, PingTypeOK', OneGood, UNCHANGED setting,
           NEW p \in Pingers, NEW q \in Pingers, p # q, FirstRequest(p),
           RiskIsBounded(p, q), RiskIsBounded(q, p)
    PROVE  RiskIsBounded(p, q)' /\ RiskIsBounded(q, p)'
<1>1. /\ at[p] = "request" /\ UNCHANGED <<scheme, missed>> /\ Pinger(p)
      /\ \/ at'[p] = "acknowledged" /\ UNCHANGED <<tryHttp, since>>
         \/ at'[p] = "lock" /\ UNCHANGED <<tryHttp, since>> /\ ~Good(scheme[p])
         \/ at'[p] = "failed" /\ UseNext(Other(scheme[p])) /\ ~Good(scheme[p])
  BY DEF FirstRequest, Requests, Goto, MayFail, Good, Pinger, PingTypeOK
<1>2. CASE at'[p] = "failed"
  BY <1>1, <1>2, FailsRisk DEF Pending
<1>3. CASE at'[p] \in {"acknowledged", "lock"}
  <2>1. (NextBad' <=> NextBad) /\ since' = since
    BY <1>1, <1>3 DEF NextBad, Good, Choice, TriesHttpAgain
  <2>2. Pending(p)' => Pending(p)
    BY <1>1, <1>3 DEF Pending, Good
  <2>3. Risk(p)' <= Risk(p)
    BY <1>1, <1>3, <2>1 DEF Risk, Pending, SureToEnd, Good
  <2>4. Risk(q)' <= Risk(q)
    <3>1. Risk(q)' = Risk(q) /\ Risk(q) \in 0..2
      BY <1>1, <2>1, OtherRisk, RiskFacts
    <3> QED BY <3>1
  <2> QED BY <1>1, <1>3, <2>1, <2>2, <2>3, <2>4, MoveBounds
<1> QED BY <1>1, <1>2, <1>3

LEMMA LocksRetryRisk ==
    ASSUME PingAssumption, PingTypeOK, PingTypeOK', FailPlaces, OneGood, UNCHANGED setting,
           NEW p \in Pingers, NEW q \in Pingers, p # q, LocksRetry(p),
           RiskIsBounded(p, q), RiskIsBounded(q, p)
    PROVE  RiskIsBounded(p, q)' /\ RiskIsBounded(q, p)'
<1>1. /\ at[p] = "lock" /\ UNCHANGED <<scheme, missed>> /\ Pinger(p) /\ ~Good(scheme[p])
      /\ \/ at'[p] = "retry" /\ UNCHANGED <<tryHttp, since>>
         \/ at'[p] = "failed" /\ UseNext(Other(scheme[p]))
  BY DEF LocksRetry, Goto, Pinger, PingTypeOK, FailPlaces
<1>2. CASE at'[p] = "failed"
  BY <1>1, <1>2, FailsRisk DEF Pending
<1>3. CASE at'[p] = "retry"
  <2>1. (NextBad' <=> NextBad) /\ since' = since
    BY <1>1, <1>3 DEF NextBad, Good, Choice, TriesHttpAgain
  <2>2. Pending(p)' => Pending(p)
    BY <1>1, <1>3 DEF Pending, Good
  <2>3. Risk(p)' <= Risk(p)
    BY <1>1, <1>3, <2>1 DEF Risk, Pending, SureToEnd, Good
  <2>4. Risk(q)' <= Risk(q)
    <3>1. Risk(q)' = Risk(q) /\ Risk(q) \in 0..2
      BY <1>1, <2>1, OtherRisk, RiskFacts
    <3> QED BY <3>1
  <2> QED BY <1>1, <1>3, <2>1, <2>2, <2>3, <2>4, MoveBounds
<1> QED BY <1>1, <1>2, <1>3

\* A retry that succeeds makes a scheme the next that may fail, but is a success.
LEMMA RetriesRisk ==
    ASSUME PingAssumption, PingTypeOK, PingTypeOK', FailPlaces, OneGood, UNCHANGED setting,
           NEW p \in Pingers, NEW q \in Pingers, p # q, Retries(p),
           RiskIsBounded(p, q), RiskIsBounded(q, p)
    PROVE  RiskIsBounded(p, q)' /\ RiskIsBounded(q, p)'
<1>1. /\ at[p] = "retry" /\ UNCHANGED <<scheme, missed>> /\ Pinger(p) /\ ~Good(scheme[p])
      /\ \/ at'[p] = "acknowledged" /\ UseNext(scheme[p])
         \/ at'[p] = "other" /\ UNCHANGED <<tryHttp, since>>
  BY DEF Retries, Requests, Goto, Pinger, PingTypeOK, FailPlaces, OneGood
<1>2. scheme[p] \in Schemes /\ Good(Other(scheme[p]))
  BY <1>1, OneIsGood DEF PingTypeOK
<1>3. Risk(p) >= 1
  BY <1>1 DEF Risk, Pending, SureToEnd
<1>4. SureToEnd(p)' /\ ~Pending(p)' /\ at'[p] # "failed"
  BY <1>1, <1>2 DEF SureToEnd, Pending, Good, Other
<1>5. Risk(p)' = 0
  BY <1>4, RiskFactsNext
<1>6. CASE at'[p] = "acknowledged"
  <2>1. NextBad'
    BY <1>1, <1>2, <1>6, NextIsChosen DEF OneGood, NextBad, Good
  <2>2. Risk(q)' <= Risk(q) + 1
    BY <1>1, OtherRisk
  <2> QED BY <1>1, <1>3, <1>4, <1>5, <2>1, <2>2, RiskFacts, MoveBounds
<1>7. CASE at'[p] = "other"
  <2>1. (NextBad' <=> NextBad) /\ since' = since
    BY <1>1, <1>7 DEF NextBad, Good, Choice, TriesHttpAgain
  <2>2. Risk(q)' <= Risk(q)
    <3>1. Risk(q)' = Risk(q) /\ Risk(q) \in 0..2
      BY <1>1, <2>1, OtherRisk, RiskFacts
    <3> QED BY <3>1
  <2>3. Risk(p)' <= Risk(p)
    BY <1>5, RiskFacts
  <2> QED BY <1>1, <1>4, <2>1, <2>2, <2>3, MoveBounds
<1> QED BY <1>1, <1>6, <1>7

LEMMA OtherSchemeRisk ==
    ASSUME PingAssumption, PingTypeOK, PingTypeOK', FailPlaces, OneGood, UNCHANGED setting,
           NEW p \in Pingers, NEW q \in Pingers, p # q, UsesOther(p),
           RiskIsBounded(p, q), RiskIsBounded(q, p)
    PROVE  RiskIsBounded(p, q)' /\ RiskIsBounded(q, p)'
<1>1. /\ at[p] = "other" /\ UNCHANGED <<scheme, missed>> /\ Pinger(p) /\ ~Good(scheme[p])
      /\ scheme[p] \in Schemes /\ Other(scheme[p]) \in Schemes
  BY OtherIsOne DEF UsesOther, Requests, Pinger, PingTypeOK, FailPlaces
<1>2. Good(Other(scheme[p]))
  BY <1>1, OneIsGood
<1>3. at'[p] = "acknowledged" /\ UseNext(Other(scheme[p]))
  BY <1>2 DEF UsesOther, Goto, MayFail, Good, PingTypeOK
<1>4. ~NextBad' /\ (HttpsOnly => since' = 0)
  <2>1. Choice' = Other(scheme[p])
    BY <1>1, <1>3, NextIsChosen DEF OneGood
  <2>2. HttpsOnly => Other(scheme[p]) = "https"
    BY <1>2 DEF HttpsOnly, Good
  <2> QED BY <2>1, <2>2, <1>1, <1>2, <1>3, NextIsChosen DEF NextBad, Good
<1>5. Risk(p)' <= Risk(p)
  <2>1. Risk(p)' = 0
    BY <1>3, <1>4, RiskFactsNext DEF Pending
  <2> QED BY <2>1, RiskFacts
<1>6. Risk(q)' <= Risk(q)
  BY <1>1, <1>4, OtherRisk
<1> QED BY <1>1, <1>3, <1>4, <1>5, <1>6, MoveBounds

\* The end of a heart-beat: a failure is counted, and it has been at risk before.
LEMMA EndsRisk ==
    ASSUME PingAssumption, PingTypeOK, PingTypeOK', OneGood, UNCHANGED setting,
           NEW p \in Pingers, NEW q \in Pingers, p # q, Ends(p),
           RiskIsBounded(p, q), RiskIsBounded(q, p)
    PROVE  RiskIsBounded(p, q)' /\ RiskIsBounded(q, p)'
<1>1. /\ at[p] \in {"acknowledged", "failed"} /\ at'[p] = "idle" /\ Pinger(p)
      /\ UNCHANGED <<scheme, tryHttp>>
  BY DEF Ends, Goto, Pinger, PingTypeOK
<1>2. /\ missed \in Nat /\ missed' \in Nat /\ since \in Nat /\ since' \in Nat
      /\ HttpAgain \in Nat /\ HttpAgain > 1 /\ since <= HttpAgain + 1
  BY DEF PingTypeOK, PingAssumption, Bound, Enough
<1>3. since' = since \/ since' = IF since < HttpAgain THEN since + 1 ELSE HttpAgain + 1
  <2>1. since' \in {since, Capped(since + 1, Enough)}
    BY DEF Ends
  <2>2. Capped(since + 1, Enough) = IF since < HttpAgain THEN since + 1 ELSE HttpAgain + 1
    BY <1>2 DEF Capped, Enough
  <2> QED BY <2>1, <2>2
<1>4. /\ ~Pending(p)' /\ ~SureToEnd(p)' /\ Risk(p)' \in 0..1 /\ (~NextBad' => Risk(p)' = 0)
  <2>1. ~Pending(p)' /\ ~SureToEnd(p)'
    BY <1>1 DEF Pending, SureToEnd
  <2>2. at'[p] # "failed"
    BY <1>1
  <2> QED BY <2>1, <2>2, RiskFactsNext
<1>5. /\ at'[q] = at[q] /\ (Pending(q)' <=> Pending(q)) /\ (HttpsOnly' <=> HttpsOnly)
      /\ Risk(q)' \in 0..2 /\ (at'[q] # "failed" => Risk(q)' \in 0..1)
  BY <1>1, OtherRisk, RiskFactsNext DEF HttpsOnly
<1>6. missed + Risk(p) + Risk(q) <= 3 /\ Risk(p) \in 0..2 /\ Risk(q) \in 0..2
  BY RiskFacts DEF RiskIsBounded
<1>7. CASE at[p] = "acknowledged"
  <2>1. missed' = 0
    BY <1>7 DEF Ends
  <2>2. missed' + Risk(p)' + Risk(q)' <= 3 /\ missed' + Risk(q)' + Risk(p)' <= 3
    BY <2>1, <1>4, <1>5
  <2> QED BY <1>1, <1>4, <2>1, <2>2 DEF RiskIsBounded
<1>8. CASE at[p] = "failed"
  <2>1. missed' <= missed + 1
    <3>1. \A n \in Nat : Capped(n + 1, Bound) <= n + 1
      BY <1>2 DEF Capped, Bound
    <3>2. missed' = Capped(missed + 1, Bound)
      BY <1>8 DEF Ends
    <3> QED BY <1>2, <3>1, <3>2
  <2>2. (NextBad => Risk(p) = 2) /\ Risk(p) >= 1
    BY <1>8 DEF Risk, SureToEnd
  <2>3. CASE NextBad
    <3>1. at[q] # "failed" /\ at'[q] # "failed"
      BY <1>5, <1>8, <2>3 DEF RiskIsBounded
    <3>2. Risk(q)' <= Risk(q)
      <4>1. (NextBad' <=> NextBad) => Risk(q)' = Risk(q)
        BY <1>1, OtherRisk
      <4>2. ~NextBad' => Risk(q)' <= Risk(q)
        BY <1>1, OtherRisk
      <4> QED BY <4>1, <4>2, <1>6, <2>3
    <3>3. Risk(p)' + 1 <= Risk(p)
      BY <1>4, <2>2, <2>3
    <3>4. missed' + Risk(p)' + Risk(q)' <= 3 /\ missed' + Risk(q)' + Risk(p)' <= 3
      BY <1>2, <1>4, <1>5, <1>6, <2>1, <3>2, <3>3, Sums
    <3> QED BY <1>1, <3>1, <3>4 DEF RiskIsBounded
  <2>4. CASE ~NextBad /\ ~NextBad'
    <3>1. Risk(p)' + 1 <= Risk(p)
      BY <1>4, <1>6, <2>2, <2>4
    <3>2. Risk(q)' <= Risk(q)
      BY <1>1, <2>4, OtherRisk
    <3>3. missed' + Risk(p)' + Risk(q)' <= 3 /\ missed' + Risk(q)' + Risk(p)' <= 3
      BY <1>2, <1>4, <1>5, <1>6, <2>1, <3>1, <3>2, Sums
    <3>4. at'[q] = "failed" /\ HttpsOnly' => since' <= 1
      <4>1. at'[q] = "failed" /\ HttpsOnly' => since = 0
        BY <1>5, <1>8 DEF RiskIsBounded
      <4> QED BY <4>1, <1>2, <1>3
    <3> QED BY <1>1, <1>4, <3>3, <3>4, <2>4 DEF RiskIsBounded
  <2>5. CASE ~NextBad /\ NextBad'
    <3>1. HttpsOnly /\ since = HttpAgain
      <4>1. TriesHttpAgain => TriesHttpAgain'
        BY <1>2, <1>3 DEF TriesHttpAgain
      <4>2. Choice' # Choice
        BY <2>5 DEF NextBad, Good
      <4>3. Choice = "https" /\ ~TriesHttpAgain /\ TriesHttpAgain'
        <5>1. tryHttp' <=> tryHttp
          BY <1>1
        <5> QED BY <4>1, <4>2, <5>1, Zenon DEF Choice
      <4>4. Good("https")
        BY <4>3, <2>5 DEF NextBad
      <4>5. HttpsOnly
        BY <4>4 DEF OneGood, HttpsOnly, Good
      <4>6. ~(since > HttpAgain) /\ since' > HttpAgain
        BY <4>3 DEF TriesHttpAgain
      <4> QED BY <4>5, <4>6, <1>2, <1>3
    <3>2. at[q] # "failed" /\ at'[q] # "failed"
      BY <3>1, <1>2, <1>5, <1>8 DEF RiskIsBounded
    <3>3. missed = 0
      BY <3>1, <1>2, <1>8, <2>5 DEF RiskIsBounded
    <3>4. missed' <= 1
      BY <3>3, <2>1
    <3>5. missed' + Risk(p)' + Risk(q)' <= 3 /\ missed' + Risk(q)' + Risk(p)' <= 3
      BY <1>2, <1>4, <1>5, <3>2, <3>4
    <3> QED BY <1>1, <3>2, <3>5 DEF RiskIsBounded
  <2> QED BY <2>3, <2>4, <2>5
<1> QED BY <1>1, <1>7, <1>8

LEMMA FewAtRiskStep ==
    ASSUME PingAssumption, BeatsInv, PingTypeOK', HybridIsHttps', FailPlaces', [PingNext]_pingVars
    PROVE  FewAtRisk'
<1>t. PingTypeOK /\ HybridIsHttps /\ FailPlaces /\ FewAtRisk
  BY DEF BeatsInv
<1>1. CASE UNCHANGED <<setting, tryHttp, since, at, scheme, missed>>
  <2>1. NextBad' <=> NextBad
    BY <1>1 DEF NextBad, Good, Choice, TriesHttpAgain
  <2>2. \A p \in Pingers : Risk(p)' = Risk(p) /\ (Pending(p)' <=> Pending(p))
    BY <1>1, <2>1 DEF Risk, Pending, SureToEnd, Good
  <2>3. Usable' = Usable /\ (HttpsOnly' <=> HttpsOnly)
    BY <1>1 DEF Usable, HttpsOnly
  <2> QED BY <1>t, <1>1, <2>1, <2>2, <2>3 DEF FewAtRisk, RiskIsBounded
<1>2. ASSUME NEW r \in Pingers, Pinger(r), UNCHANGED setting PROVE FewAtRisk'
  <2> SUFFICES ASSUME Usable # {}, NEW p \in Pingers, NEW q \in Pingers, p # q
               PROVE  RiskIsBounded(p, q)'
    BY <1>2 DEF FewAtRisk, Usable
  <2>1. RiskIsBounded(p, q) /\ RiskIsBounded(q, p)
    BY <1>t DEF FewAtRisk
  <2>2. CASE AllGood
    <3>1. AllGood'
      BY <1>2, <2>2 DEF AllGood, Good
    <3>2. at'[p] # "failed" /\ Risk(p)' = 0 /\ at'[q] # "failed" /\ Risk(q)' = 0
      BY <3>1, NobodyFailsNext
    <3>3. missed' \in {missed, 0}
      <4>1. at[r] # "failed"
        BY <1>t, <2>2, NobodyFails
      <4> QED BY <1>2, <4>1 DEF Pinger, Pings, FirstRequest, LocksRetry, Retries, UsesOther, Ends
    <3>4. missed \in Nat /\ missed <= 3
      <4>1. missed \in Nat /\ Risk(p) = 0 /\ Risk(q) = 0
        BY <1>t, <2>2, NobodyFails DEF PingTypeOK, Bound, PingAssumption
      <4> QED BY <2>1, <4>1 DEF RiskIsBounded
    <3>5. missed' + Risk(p)' + Risk(q)' <= 3
      <4>1. \A n, a, b \in Nat : n <= 3 /\ a = 0 /\ b = 0 => n + a + b <= 3
        OBVIOUS
      <4>2. missed' \in Nat /\ missed' <= 3
        BY <3>3, <3>4
      <4> QED BY <3>2, <4>1, <4>2
    <3> QED BY <3>2, <3>5 DEF RiskIsBounded
  <2>3. CASE OneGood
    <3>1. ASSUME NEW m \in Pingers, NEW o \in Pingers, m # o, Pinger(m),
                 RiskIsBounded(m, o), RiskIsBounded(o, m)
          PROVE  RiskIsBounded(m, o)' /\ RiskIsBounded(o, m)'
      BY <1>t, <1>2, <2>3, <3>1, PingsRisk, FirstRequestRisk, LocksRetryRisk, RetriesRisk,
         OtherSchemeRisk, EndsRisk DEF Pinger
    <3>2. r = p \/ r = q
      BY DEF Pingers
    <3> QED BY <1>2, <2>1, <3>1, <3>2
  <2> QED BY <1>t, <2>2, <2>3, GoodOrOne
<1> QED BY <1>1, <1>2 DEF PingNext, HourPasses, pingVars

LEMMA BeatsInvStep ==
    ASSUME PingAssumption, BeatsInv, [PingNext]_pingVars PROVE BeatsInv'
<1>1. PingTypeOK /\ HybridIsHttps /\ FailPlaces
  BY DEF BeatsInv
<1>2. PingTypeOK' /\ HybridIsHttps' /\ FailPlaces'
  BY <1>1, PingTypeStep, HttpsStep, FailPlacesStep
<1> QED BY <1>2, HttpSoonStep, FewAtRiskStep DEF BeatsInv

LEMMA BeatsInvAlways == ASSUME PingAssumption PROVE PingSpec => []BeatsInv
BY BeatsInvInit, BeatsInvStep, PTL DEF PingSpec

\* The counters of the heart-beats stay in their bounds, the retries in their quota, and one
\* pinger at a time retries, whatever the network does.
THEOREM PingTypesHold == ASSUME PingAssumption PROVE PingSpec => []PingTypeOK
<1>1. BeatsInv => PingTypeOK
  BY DEF BeatsInv
<1> QED BY <1>1, BeatsInvAlways, PTL

\* Whatever scheme works, for any quota and number of attempts, no more heart-beats fail in a
\* row than three, http is tried again in time, and hybrid mode uses https alone: although
\* the main goroutine and the timer share the scheme and the counter without a lock.
THEOREM BeatsDoArrive == ASSUME PingAssumption PROVE PingSpec => []BeatsArrive
<1>1. BeatsInv => HttpTriedAgain
  BY DEF BeatsInv, HttpSoon, HttpWasSoon, HttpTriedAgain
<1>2. BeatsInv => FewMissed
  <2> SUFFICES ASSUME BeatsInv, Usable # {} PROVE missed <= 3
    BY DEF FewMissed
  <2>1. "main" \in Pingers /\ "timer" \in Pingers /\ "main" # "timer"
    BY DEF Pingers
  <2>2. RiskIsBounded("main", "timer")
    BY <2>1 DEF BeatsInv, FewAtRisk
  <2>3. missed \in Nat
    BY DEF BeatsInv, PingTypeOK, PingAssumption, Bound
  <2>4. Risk("main") \in 0..2 /\ Risk("timer") \in 0..2
    BY <2>1, RiskFacts
  <2> QED BY <2>2, <2>3, <2>4 DEF RiskIsBounded
<1>3. BeatsInv => BeatsArrive
  BY <1>1, <1>2 DEF BeatsArrive, BeatsInv
<1> QED BY <1>3, BeatsInvAlways, PTL

-----------------------------------------------------------------------------
(***************************************************************************)
(* SendFile, for any number of fetches, tasks, deliveries and mishaps.     *)
(*                                                                         *)
(* A fetch knows of its task, and of the file, what the steps before have  *)
(* done (Accepted to Done); that stays true while others write because no  *)
(* other has a task for the same path (HandsApart).                        *)
(***************************************************************************)
FileSteps == {"idle", "ask", "check", "exists", "open", "write", "chmod", "owner", "report"}
\* Where a fetch has a task in hand.
AtTask(f) == step[f] \notin {"idle", "ask"}

FilesTyped == system \in Systems /\ files \in [Paths -> File \cup {Absent}]
FetchTyped ==
    /\ sendFiles \in [Fetchers -> Seq(Tasks)] /\ step \in [Fetchers -> FileSteps]
    /\ DOMAIN ret = Fetchers /\ DOMAIN answers = Tasks
    /\ \A f \in Fetchers : AtTask(f) <=> sendFiles[f] # <<>>
RequestsTyped == attempt \in [Fetchers -> 1..AskTimes] /\ round \in [Fetchers -> 1..Rounds]
CountsTyped ==
    /\ delivered \subseteq Tasks /\ deliveries \in 0..MaxDeliveries /\ mishaps \in 0..MaxMishaps

\* No two fetches have a task for one path.
HandsApart ==
    \A f, g \in Fetchers : f # g =>
       \A t \in ToSet(sendFiles[f]), u \in ToSet(sendFiles[g]) : Info[t].path # Info[u].path

\* How far a fetch has come with the file of its task.
Accepted(f) ==
    step[f] \in {"exists", "open", "write", "chmod", "owner"} =>
        Wanted(f).flaw \notin DOMAIN Rejected
Free(f) ==
    step[f] = "open" => files[Wanted(f).path] = Absent \/ Wanted(f).overwrite
Present(f) ==
    step[f] \in {"write", "chmod", "owner"} => files[Wanted(f).path] # Absent
Opened(f) ==
    step[f] \in {"write", "chmod", "owner"} => files[Wanted(f).path].by = task(f)
Filled(f) ==
    step[f] \in {"chmod", "owner"} => files[Wanted(f).path].content = Wanted(f).content
Moded(f) ==
    step[f] = "owner" /\ system = "linux" => files[Wanted(f).path].mode = Wanted(f).mode
Done(f) ==
    step[f] = "report" /\ ret[f] = "ESuccess" =>
        /\ files[Wanted(f).path] # Absent /\ files[Wanted(f).path].content = Wanted(f).content
        /\ system = "linux" => files[Wanted(f).path].mode = Wanted(f).mode
        /\ NoOwner(Wanted(f)) \/ files[Wanted(f).path].owner = Wanted(f).owner
Progress(f) == Free(f) /\ Opened(f) /\ Filled(f) /\ Moded(f) /\ Done(f)
Answerable == \A f \in Fetchers : step[f] = "report" => ret[f] # "none"

FilesInv ==
    /\ FilesTyped /\ FetchTyped /\ RequestsTyped /\ CountsTyped
    /\ \A f \in Fetchers : Accepted(f) /\ Present(f)
    /\ Apart => HandsApart /\ \A f \in Fetchers : Progress(f)
    /\ Answerable /\ AllAnswered

-----------------------------------------------------------------------------
LEMMA FilesInvInit == ASSUME SendAssumption, FilesInit PROVE FilesInv
<1> USE DEF SendAssumption, FilesInit
<1>1. Old \in File /\ <<>> \in Seq(Tasks)
  BY DEF Old, File
<1>2. FilesTyped /\ RequestsTyped /\ CountsTyped
  BY <1>1 DEF FilesTyped, RequestsTyped, CountsTyped
<1>3. FetchTyped
  BY <1>1 DEF FetchTyped, FileSteps, AtTask
<1>4. HandsApart /\ Answerable /\ AllAnswered
  BY DEF HandsApart, ToSet, Answerable, AllAnswered
<1>5. \A f \in Fetchers : Accepted(f) /\ Present(f) /\ Progress(f)
  BY DEF Accepted, Present, Progress, Free, Opened, Filled, Moded, Done
<1> QED BY <1>2, <1>3, <1>4, <1>5 DEF FilesInv

LEMMA ListHasHead ==
    ASSUME NEW l \in Seq(Tasks), l # <<>>
    PROVE  /\ Head(l) \in Tasks /\ Tail(l) \in Seq(Tasks)
           /\ Len(l) = 1 <=> Tail(l) = <<>>
           /\ ToSet(l) = {Head(l)} \cup ToSet(Tail(l))
<1>1. /\ Head(l) = l[1] /\ Head(l) \in Tasks /\ Tail(l) \in Seq(Tasks)
      /\ Len(Tail(l)) = Len(l) - 1 /\ \A i \in 1..Len(Tail(l)) : Tail(l)[i] = l[i + 1]
  BY HeadTailProperties
<1>2. Len(l) \in Nat \ {0} /\ DOMAIN l = 1..Len(l)
  BY EmptySeq, LenProperties
<1>3. Len(Tail(l)) \in Nat /\ DOMAIN Tail(l) = 1..Len(Tail(l))
  BY <1>1, LenProperties
<1>4. Tail(l) = <<>> <=> Len(Tail(l)) = 0
  BY <1>1, EmptySeq
<1>5. ToSet(l) \subseteq {Head(l)} \cup ToSet(Tail(l))
  <2> SUFFICES ASSUME NEW i \in 1..Len(l), i # 1 PROVE l[i] \in ToSet(Tail(l))
    BY <1>1, <1>2 DEF ToSet
  <2>1. i - 1 \in 1..Len(Tail(l)) /\ (i - 1) + 1 = i
    BY <1>1, <1>2
  <2> QED BY <2>1, <1>1, <1>3 DEF ToSet
<1>6. {Head(l)} \cup ToSet(Tail(l)) \subseteq ToSet(l)
  <2>1. \A i \in 1..Len(Tail(l)) : i + 1 \in 1..Len(l)
    BY <1>1, <1>2
  <2> QED BY <2>1, <1>1, <1>2, <1>3 DEF ToSet
<1> QED BY <1>1, <1>2, <1>4, <1>5, <1>6

\* A fetch at a task has one.
LEMMA HasTask ==
    ASSUME FetchTyped, NEW f \in Fetchers, AtTask(f)
    PROVE  /\ task(f) \in Tasks /\ Wanted(f).path \in Paths /\ Wanted(f) = Info[task(f)]
           /\ Tail(sendFiles[f]) \in Seq(Tasks)
           /\ Len(sendFiles[f]) = 1 <=> Tail(sendFiles[f]) = <<>>
           /\ ToSet(sendFiles[f]) = {task(f)} \cup ToSet(Tail(sendFiles[f]))
<1>1. sendFiles[f] \in Seq(Tasks) /\ sendFiles[f] # <<>>
  BY DEF FetchTyped
<1> QED BY <1>1, ListHasHead DEF task, Wanted, Paths

\* Nothing but its own steps and a kill moves a fetch.
LEMMA OthersStay ==
    ASSUME FetchTyped, NEW f \in Fetchers, Starts(f) \/ Asks(f) \/ SendFiles(f),
           NEW g \in Fetchers, g # f
    PROVE  step'[g] = step[g] /\ sendFiles'[g] = sendFiles[g] /\ ret'[g] = ret[g]
<1> USE DEF FetchTyped, Goes, Returns
<1>1. CASE Starts(f) \/ Checks(f) \/ Exists(f)
  BY <1>1 DEF Starts, Checks, Exists
<1>2. CASE Asks(f)
  BY <1>2 DEF Asks
<1>3. CASE Opens(f) \/ Writes(f) \/ Chmods(f)
  BY <1>3 DEF Opens, Writes, Chmods
<1>4. CASE ChangesOwner(f)
  BY <1>4 DEF ChangesOwner
<1>5. CASE Reports(f)
  BY <1>5 DEF Reports
<1> QED BY <1>1, <1>2, <1>3, <1>4, <1>5 DEF SendFiles

\* A step changes no file but that of its task, and that only at a few places.
LEMMA OnePath ==
    ASSUME SendAssumption, FilesTyped, FetchTyped, NEW f \in Fetchers, Present(f),
           Starts(f) \/ Asks(f) \/ SendFiles(f)
    PROVE  /\ files' \in [Paths -> File \cup {Absent}]
           /\ \A p \in Paths :
                 files'[p] # files[p] => AtTask(f) /\ p = Wanted(f).path
           /\ \A p \in Paths : files'[p] = Absent => files[p] = Absent
<1>1. CASE UNCHANGED files
  BY <1>1 DEF FilesTyped
<1>2. CASE Opens(f) /\ ~UNCHANGED files
  <2>1. AtTask(f)
    BY <1>2 DEF Opens, At, AtTask
  <2>2. task(f) \in Tasks /\ Wanted(f).path \in Paths
    BY <2>1, HasTask
  <2>3. files[Wanted(f).path] \in File \cup {Absent}
    BY <2>2 DEF FilesTyped
  <2>4. [content |-> "part", mode |-> "0644", owner |-> "root", by |-> task(f)] \in File
    BY <2>2 DEF File
  <2>5. files[Wanted(f).path] \in File =>
           [files[Wanted(f).path] EXCEPT !.content = "part", !.by = task(f)] \in File
    BY <2>2 DEF File
  <2>6. PICK new \in File : files' = [files EXCEPT ![Wanted(f).path] = new]
    BY <1>2, <2>3, <2>4, <2>5 DEF Opens
  <2> QED BY <2>1, <2>2, <2>6 DEF FilesTyped, SendAssumption
<1>3. CASE /\ Writes(f) \/ Chmods(f) \/ ChangesOwner(f)
           /\ ~UNCHANGED files
  <2>1. AtTask(f) /\ step[f] \in {"write", "chmod", "owner"}
    BY <1>3 DEF Writes, Chmods, ChangesOwner, At, AtTask
  <2>2. task(f) \in Tasks /\ Wanted(f).path \in Paths /\ Wanted(f) = Info[task(f)]
    BY <2>1, HasTask
  <2>3. files[Wanted(f).path] \in File
    BY <2>1, <2>2 DEF FilesTyped, Present
  <2>4. /\ [files[Wanted(f).path] EXCEPT !.content = Wanted(f).content] \in File
        /\ [files[Wanted(f).path] EXCEPT !.mode = Wanted(f).mode] \in File
        /\ [files[Wanted(f).path] EXCEPT !.owner = Wanted(f).owner] \in File
    BY <2>2, <2>3 DEF File
  <2>5. PICK new \in File : files' = [files EXCEPT ![Wanted(f).path] = new]
    BY <1>3, <2>4 DEF Writes, Chmods, ChangesOwner
  <2> QED BY <2>1, <2>2, <2>5 DEF FilesTyped, SendAssumption
<1> QED BY <1>1, <1>2, <1>3 DEF SendFiles, Starts, Asks, Checks, Exists, Reports

LEMMA FilesTypedStep ==
    ASSUME SendAssumption, FilesInv, [FilesNext]_fileVars PROVE FilesTyped'
<1>1. system' \in Systems
  BY DEF FilesInv, FilesTyped, FilesNext, fileVars
<1>2. CASE Killed \/ UNCHANGED fileVars
  BY <1>1, <1>2 DEF FilesInv, FilesTyped, Killed, fileVars
<1>3. ASSUME NEW f \in Fetchers, Starts(f) \/ Asks(f) \/ SendFiles(f) PROVE FilesTyped'
  BY <1>1, <1>3, OnePath DEF FilesInv, FilesTyped
<1> QED BY <1>2, <1>3 DEF FilesNext

\* What a request brings: tasks that nobody has, for other paths if Apart.
LEMMA ListIsNew ==
    ASSUME FetchTyped, NEW l \in Lists
    PROVE  /\ l \in Seq(Tasks) /\ ToSet(l) \subseteq Sendable /\ Len(l) \in Nat
           /\ ToSet(<<>>) = {}
<1>1. Sendable \subseteq Tasks
  BY DEF Sendable
<1>2. CASE l = <<>>
  BY <1>2 DEF ToSet
<1>3. CASE \E t \in Sendable : l = <<t>>
  BY <1>1, <1>3 DEF ToSet
<1>4. CASE \E t, u \in Sendable : l = <<t, u>>
  BY <1>1, <1>4 DEF ToSet
<1> QED BY <1>2, <1>3, <1>4 DEF Lists, ToSet

LEMMA FetchTypedStep ==
    ASSUME SendAssumption, FilesInv, [FilesNext]_fileVars PROVE FetchTyped'
<1> USE DEF FetchTyped, AtTask
<1>i. FetchTyped
  BY DEF FilesInv
<1>1. CASE UNCHANGED fileVars
  BY <1>1, <1>i DEF fileVars, fetch
<1>2. CASE Killed
  BY <1>2, <1>i, EmptySeq DEF Killed, Kept, FileSteps
<1>3. ASSUME NEW f \in Fetchers, Starts(f) PROVE FetchTyped'
  BY <1>3, <1>i DEF Starts, Goes, Kept, FileSteps, At
<1>4. ASSUME NEW f \in Fetchers, Asks(f) PROVE FetchTyped'
  <2>1. CASE \E l \in Lists : /\ sendFiles' = [sendFiles EXCEPT ![f] = l]
                              /\ step' = [step EXCEPT ![f] = IF l = <<>> THEN "idle" ELSE "check"]
                              /\ UNCHANGED <<ret, answers>>
    BY <2>1, <1>i, ListIsNew DEF FileSteps
  <2>2. CASE UNCHANGED <<sendFiles, step, ret, answers>>
    BY <2>2, <1>i
  <2> QED BY <1>4, <2>1, <2>2 DEF Asks
<1>5. ASSUME NEW f \in Fetchers, Reports(f) PROVE FetchTyped'
  <2>1. AtTask(f)
    BY <1>5 DEF Reports, At
  <2>2. Tail(sendFiles[f]) \in Seq(Tasks) /\ (Len(sendFiles[f]) = 1 <=> Tail(sendFiles[f]) = <<>>)
    BY <2>1, <1>i, HasTask
  <2> QED BY <2>2, <1>5, <1>i DEF Reports, FileSteps
<1>6. ASSUME NEW f \in Fetchers,
             Checks(f) \/ Exists(f) \/ Opens(f) \/ Writes(f) \/ Chmods(f) \/ ChangesOwner(f)
      PROVE FetchTyped'
  <2>1. /\ UNCHANGED <<sendFiles, answers>> /\ step[f] \notin {"idle", "ask"}
        /\ \E to \in FileSteps \ {"idle", "ask"} : step' = [step EXCEPT ![f] = to]
        /\ \/ UNCHANGED ret \/ \E r : ret' = [ret EXCEPT ![f] = r]
    BY <1>6 DEF Checks, Exists, Opens, Writes, Chmods, ChangesOwner, Goes, Returns, Kept, At,
                FileSteps
  <2> QED BY <2>1, <1>i
<1> QED BY <1>1, <1>2, <1>3, <1>4, <1>5, <1>6 DEF FilesNext, SendFiles

LEMMA RequestsTypedStep ==
    ASSUME SendAssumption, FilesInv, [FilesNext]_fileVars PROVE RequestsTyped'
<1> USE DEF RequestsTyped, SendAssumption
<1>i. RequestsTyped
  BY DEF FilesInv
<1>n. AskTimes \in Nat \ {0} /\ Rounds \in Nat \ {0} /\ 1 \in 1..AskTimes /\ 1 \in 1..Rounds
  OBVIOUS
<1>1. CASE Killed
  BY <1>1, <1>n DEF Killed
<1>2. ASSUME NEW f \in Fetchers, Asks(f) PROVE RequestsTyped'
  <2>1. attempt[f] \in 1..AskTimes /\ round[f] \in 1..Rounds
    BY <1>i
  <2>2. CASE attempt' = [attempt EXCEPT ![f] = @ + 1] /\ attempt[f] < AskTimes /\ UNCHANGED round
    BY <2>1, <2>2, <1>n, <1>i
  <2>3. CASE /\ attempt' = [attempt EXCEPT ![f] = 1]
             /\ \/ round' = [round EXCEPT ![f] = @ + 1] /\ round[f] < Rounds
                \/ round' = [round EXCEPT ![f] = 1]
    BY <2>1, <2>3, <1>n, <1>i
  <2> QED BY <1>2, <2>2, <2>3 DEF Asks
<1>3. CASE UNCHANGED <<attempt, round>>
  BY <1>3, <1>i
<1>4. ASSUME NEW f \in Fetchers, Starts(f) \/ SendFiles(f) PROVE UNCHANGED <<attempt, round>>
  BY <1>4 DEF Starts, SendFiles, Checks, Exists, Opens, Writes, Chmods, ChangesOwner, Reports,
              Goes, Returns
<1> QED BY <1>1, <1>2, <1>3, <1>4 DEF FilesNext, fileVars, fetch

LEMMA CountsTypedStep ==
    ASSUME SendAssumption, FilesInv, [FilesNext]_fileVars PROVE CountsTyped'
<1> USE DEF CountsTyped, Mishap, Fine
<1>n. MaxMishaps \in Nat /\ MaxDeliveries \in Nat
  BY DEF SendAssumption
<1>i. CountsTyped /\ FetchTyped
  BY DEF FilesInv
<1>0. Fine \/ Mishap
  <2>1. ASSUME NEW f \in Fetchers, Starts(f) \/ Asks(f) \/ SendFiles(f) PROVE Fine \/ Mishap
    BY <2>1 DEF Starts, Asks, SendFiles, Checks, Exists, Opens, Writes, Chmods, ChangesOwner,
                Reports
  <2> QED BY <2>1 DEF FilesNext, fileVars, bounds, Killed
<1>1. mishaps' \in 0..MaxMishaps
  BY <1>0, <1>i, <1>n
<1>2. CASE UNCHANGED <<delivered, deliveries>>
  BY <1>1, <1>2, <1>i
<1>3. ASSUME NEW f \in Fetchers, Asks(f), ~UNCHANGED <<delivered, deliveries>> PROVE CountsTyped'
  <2>1. PICK l \in Lists : delivered' = delivered \cup ToSet(l) /\ deliveries' = deliveries + Len(l)
    BY <1>3 DEF Asks
  <2>2. ToSet(l) \subseteq Tasks /\ Len(l) \in Nat /\ deliveries + Len(l) <= MaxDeliveries
    BY <1>i, ListIsNew DEF Sendable, Lists
  <2>3. deliveries' \in 0..MaxDeliveries
    BY <2>1, <2>2, <1>i, <1>n
  <2> QED BY <2>1, <2>2, <2>3, <1>1, <1>i
<1>4. ASSUME NEW f \in Fetchers, Starts(f) \/ SendFiles(f) PROVE UNCHANGED <<delivered, deliveries>>
  BY <1>4 DEF Starts, SendFiles, Checks, Exists, Opens, Writes, Chmods, ChangesOwner, Reports, Kept
<1> QED BY <1>2, <1>3, <1>4 DEF FilesNext, fileVars, bounds, Killed, Kept

\* The steps of a task in hand, but for its report.
AtFile(f) == Checks(f) \/ Exists(f) \/ Opens(f) \/ Writes(f) \/ Chmods(f) \/ ChangesOwner(f)

LEMMA OwnStep ==
    ASSUME FetchTyped, NEW f \in Fetchers, Starts(f) \/ Asks(f) \/ SendFiles(f)
    PROVE  \/ step'[f] \in {"idle", "ask", "check"}
           \/ sendFiles'[f] = sendFiles[f] /\ Wanted(f)' = Wanted(f) /\ AtTask(f) /\ AtFile(f)
<1> USE DEF FetchTyped
<1>1. CASE Starts(f)
  BY <1>1 DEF Starts, Goes
<1>2. CASE Asks(f)
  BY <1>2 DEF Asks, At
<1>3. CASE Reports(f)
  BY <1>3 DEF Reports
<1>4. CASE AtFile(f)
  <2>1. AtTask(f)
    BY <1>4 DEF AtFile, Checks, Exists, Opens, Writes, Chmods, ChangesOwner, At, AtTask
  <2>2. sendFiles' = sendFiles
    BY <1>4 DEF AtFile, Checks, Exists, Opens, Writes, Chmods, ChangesOwner, Goes, Returns
  <2> QED BY <1>4, <2>1, <2>2 DEF Wanted, task
<1> QED BY <1>1, <1>2, <1>3, <1>4 DEF SendFiles, AtFile

LEMMA AcceptedStep ==
    ASSUME SendAssumption, FilesInv, [FilesNext]_fileVars
    PROVE  \A f \in Fetchers : Accepted(f)'
<1> USE DEF Accepted
<1>i. FetchTyped /\ \A f \in Fetchers : Accepted(f)
  BY DEF FilesInv
<1>1. CASE UNCHANGED fileVars
  BY <1>1, <1>i DEF fileVars, fetch, Wanted, task
<1>2. CASE Killed
  BY <1>2 DEF Killed
<1>3. ASSUME NEW f \in Fetchers, Starts(f) \/ Asks(f) \/ SendFiles(f), NEW g \in Fetchers
      PROVE Accepted(g)'
  <2>1. CASE g # f
    BY <2>1, <1>3, <1>i, OthersStay DEF Wanted, task
  <2>2. CASE step'[f] \in {"idle", "ask", "check"}
    BY <2>1, <2>2
  <2>3. CASE Wanted(f)' = Wanted(f) /\ AtFile(f)
    <3>1. step'[f] # "report" => \/ step[f] \in {"exists", "open", "write", "chmod", "owner"}
                                 \/ Wanted(f).flaw \notin DOMAIN Rejected
      BY <2>3, <1>i
         DEF AtFile, Checks, Exists, Opens, Writes, Chmods, ChangesOwner, At, Goes, Returns,
            FetchTyped
    <3> QED BY <3>1, <2>1, <2>3, <1>i
  <2> QED BY <2>1, <2>2, <2>3, <1>3, <1>i, OwnStep
<1> QED BY <1>1, <1>2, <1>3 DEF FilesNext

LEMMA PresentStep ==
    ASSUME SendAssumption, FilesInv, [FilesNext]_fileVars
    PROVE  \A f \in Fetchers : Present(f)'
<1> USE DEF Present
<1>i. FilesTyped /\ FetchTyped /\ \A f \in Fetchers : Present(f)
  BY DEF FilesInv
<1>1. CASE UNCHANGED fileVars
  BY <1>1, <1>i DEF fileVars, fetch, Wanted, task
<1>2. CASE Killed
  BY <1>2 DEF Killed
<1>3. ASSUME NEW f \in Fetchers, Starts(f) \/ Asks(f) \/ SendFiles(f), NEW g \in Fetchers
      PROVE Present(g)'
  <2>1. CASE g # f
    <3>1. Wanted(g)' = Wanted(g) /\ step'[g] = step[g]
      BY <2>1, <1>3, <1>i, OthersStay DEF Wanted, task
    <3>2. AtTask(g) => Wanted(g).path \in Paths
      BY <1>i, HasTask
    <3> QED BY <3>1, <3>2, <1>3, <1>i, OnePath DEF AtTask
  <2>2. CASE step'[f] \in {"idle", "ask", "check"}
    BY <2>1, <2>2
  <2>3. CASE Wanted(f)' = Wanted(f) /\ AtTask(f) /\ AtFile(f)
    <3>1. Wanted(f).path \in Paths /\ task(f) \in Tasks
      BY <2>3, <1>i, HasTask
    <3>2. step'[f] \in {"write", "chmod", "owner"} => step[f] \in {"write", "chmod", "owner"}
                                                      \/ files'[Wanted(f).path] # Absent
      <4>1. CASE Opens(f)
        <5>1. [content |-> "part", mode |-> "0644", owner |-> "root", by |-> task(f)] \in File
          BY <3>1 DEF File
        <5>2. files[Wanted(f).path] \in File => 
                [files[Wanted(f).path] EXCEPT !.content = "part", !.by = task(f)] \in File
          BY <3>1 DEF File
        <5> QED BY <4>1, <5>1, <5>2, <3>1, <1>i
                DEF Opens, Goes, Returns, FilesTyped, FetchTyped, SendAssumption
      <4>2. CASE ~Opens(f)
        BY <2>3, <4>2, <1>i DEF AtFile, Checks, Exists, Writes, Chmods, ChangesOwner, At, Goes,
           Returns, FetchTyped
      <4> QED BY <4>1, <4>2
    <3> QED BY <3>1, <3>2, <2>1, <2>3, <1>3, <1>i, OnePath
  <2> QED BY <2>1, <2>2, <2>3, <1>3, <1>i, OwnStep
<1> QED BY <1>1, <1>2, <1>3 DEF FilesNext

LEMMA HandsApartStep ==
    ASSUME SendAssumption, FilesInv, [FilesNext]_fileVars, Apart
    PROVE  HandsApart'
<1>i. FetchTyped /\ HandsApart
  BY DEF FilesInv
<1>1. CASE UNCHANGED sendFiles
  BY <1>1, <1>i DEF HandsApart
<1>2. CASE Killed
  BY <1>2 DEF Killed, HandsApart, ToSet
<1>3. ASSUME NEW f \in Fetchers, Reports(f) PROVE HandsApart'
  <2>1. AtTask(f)
    BY <1>3 DEF Reports, At, AtTask
  <2>2. ToSet(Tail(sendFiles[f])) \subseteq ToSet(sendFiles[f])
    BY <2>1, <1>i, HasTask
  <2>3. \A g \in Fetchers : ToSet(sendFiles'[g]) \subseteq ToSet(sendFiles[g])
    BY <2>2, <1>3, <1>i DEF Reports, FetchTyped
  <2> QED BY <2>3, <1>i DEF HandsApart
<1>4. ASSUME NEW f \in Fetchers, Asks(f), ~UNCHANGED sendFiles PROVE HandsApart'
  <2>1. PICK l \in Lists : sendFiles' = [sendFiles EXCEPT ![f] = l]
    BY <1>4 DEF Asks
  <2>2. ToSet(l) \subseteq Sendable
    BY <1>i, ListIsNew
  <2>3. \A g \in Fetchers : ToSet(sendFiles'[g]) = IF g = f THEN ToSet(l) ELSE ToSet(sendFiles[g])
    BY <2>1, <1>i DEF FetchTyped
  <2>4. \A g \in Fetchers : \A t \in ToSet(l), u \in ToSet(sendFiles[g]) :
           Info[t].path # Info[u].path
    BY <2>2 DEF Sendable, InHand
  <2> QED BY <2>3, <2>4, <1>i DEF HandsApart
<1>5. ASSUME NEW f \in Fetchers, Starts(f) \/ AtFile(f) PROVE UNCHANGED sendFiles
  BY <1>5 DEF Starts, AtFile, Checks, Exists, Opens, Writes, Chmods, ChangesOwner, Goes, Returns
<1> QED BY <1>1, <1>2, <1>3, <1>4, <1>5 DEF FilesNext, SendFiles, AtFile, fileVars, fetch

\* A fetch whose task has another path sees nothing of a step.
LEMMA ProgressOfOthers ==
    ASSUME SendAssumption, FilesInv, Apart, UNCHANGED system,
           NEW f \in Fetchers, Starts(f) \/ Asks(f) \/ SendFiles(f), NEW g \in Fetchers, g # f
    PROVE  Progress(g)'
<1> USE DEF Progress, Free, Opened, Filled, Moded, Done
<1>i. FilesTyped /\ FetchTyped /\ HandsApart /\ Progress(g) /\ Present(f)
  BY DEF FilesInv
<1>1. /\ step'[g] = step[g] /\ ret'[g] = ret[g]
      /\ task(g)' = task(g) /\ Wanted(g)' = Wanted(g) /\ NoOwner(Wanted(g))' = NoOwner(Wanted(g))
  BY <1>i, OthersStay DEF Wanted, task, NoOwner
<1>2. AtTask(g) => files'[Wanted(g).path] = files[Wanted(g).path]
  <2> SUFFICES ASSUME AtTask(g), AtTask(f) PROVE files'[Wanted(g).path] = files[Wanted(g).path]
    BY <1>i, OnePath, HasTask
  <2>1. Wanted(f).path # Wanted(g).path
    BY <1>i, HasTask DEF HandsApart
  <2> QED BY <2>1, <1>i, OnePath, HasTask
<1>3. CASE AtTask(g)
  BY <1>1, <1>2, <1>3, <1>i
<1>4. CASE ~AtTask(g)
  BY <1>1, <1>4 DEF AtTask
<1> QED BY <1>3, <1>4

LEMMA RejectedAsNamed ==
    ASSUME NEW x \in DOMAIN Rejected PROVE Rejected[x] \notin {"none", "ESuccess"}
BY DEF Rejected

LEMMA FieldsKept ==
    ASSUME SendAssumption, NEW file \in File, NEW x
    PROVE  /\ file # Absent
           /\ LET new == [file EXCEPT !.content = x]
              IN  /\ new.content = x /\ new.mode = file.mode
                  /\ new.owner = file.owner /\ new.by = file.by
           /\ LET new == [file EXCEPT !.mode = x]
              IN  /\ new.mode = x /\ new.content = file.content
                  /\ new.owner = file.owner /\ new.by = file.by
           /\ LET new == [file EXCEPT !.owner = x]
              IN  /\ new.owner = x /\ new.content = file.content
                  /\ new.mode = file.mode /\ new.by = file.by
BY DEF File, SendAssumption

\* What the own step of a fetch does to the file of its task.
LEMMA ProgressOfOwn ==
    ASSUME SendAssumption, FilesInv, Apart, UNCHANGED system,
           NEW f \in Fetchers, AtFile(f), sendFiles'[f] = sendFiles[f], Wanted(f)' = Wanted(f),
           AtTask(f)
    PROVE  Progress(f)'
<1> DEFINE p == Wanted(f).path
<1>i. FilesTyped /\ FetchTyped /\ Progress(f) /\ Present(f) /\ Accepted(f)
  BY DEF FilesInv
<1>t. /\ p \in Paths /\ task(f) \in Tasks /\ Wanted(f) = Info[task(f)] /\ task(f)' = task(f)
      /\ NoOwner(Wanted(f))' = NoOwner(Wanted(f))
  BY <1>i, HasTask DEF task, NoOwner
<1>f. step[f] \in {"write", "chmod", "owner"} => files[p] \in File
  BY <1>i, <1>t DEF FilesTyped, Present
<1> USE DEF Progress, Free, Opened, Filled, Moded, Done, FetchTyped, At, Goes, Returns
<1>1. CASE Checks(f)
  BY <1>1, <1>i, <1>t, RejectedAsNamed DEF Checks
<1>2. CASE Exists(f)
  BY <1>2, <1>i, <1>t DEF Exists
<1>3. CASE Opens(f)
  <2>1. [content |-> "part", mode |-> "0644", owner |-> "root", by |-> task(f)] \in File
    BY <1>t DEF File
  <2>2. files[p] \in File =>
          [files[p] EXCEPT !.content = "part", !.by = task(f)].by = task(f)
    BY <1>t DEF File
  <2>3. \/ /\ step' = [step EXCEPT ![f] = "write"]
           /\ files' = [files EXCEPT ![p] =
                IF @ = Absent THEN [content |-> "part", mode |-> "0644", owner |-> "root",
                                    by |-> task(f)]
                ELSE [@ EXCEPT !.content = "part", !.by = task(f)]]
        \/ step' = [step EXCEPT ![f] = "report"] /\ ret' = [ret EXCEPT ![f] = "EFileCreateFail"]
    BY <1>3 DEF Opens
  <2>4. \/ step'[f] = "write" /\ files'[p].by = task(f)
        \/ step'[f] = "report" /\ ret'[f] # "ESuccess"
    <3>1. DOMAIN step = Fetchers /\ DOMAIN ret = Fetchers
      BY <1>i
    <3>2. DOMAIN files = Paths /\ (files[p] = Absent \/ files[p] \in File)
      BY <1>i, <1>t DEF FilesTyped
    <3>3. CASE step' = [step EXCEPT ![f] = "report"] /\ ret' = [ret EXCEPT ![f] = "EFileCreateFail"]
      BY <3>1, <3>3
    <3>4. CASE /\ step' = [step EXCEPT ![f] = "write"]
               /\ files' = [files EXCEPT ![p] =
                    IF @ = Absent THEN [content |-> "part", mode |-> "0644", owner |-> "root",
                                        by |-> task(f)]
                    ELSE [@ EXCEPT !.content = "part", !.by = task(f)]]
      <4>1. files'[p] = IF files[p] = Absent
                        THEN [content |-> "part", mode |-> "0644", owner |-> "root", by |-> task(f)]
                        ELSE [files[p] EXCEPT !.content = "part", !.by = task(f)]
        BY <3>2, <3>4, <1>t
      <4>2. files'[p].by = task(f)
        BY <4>1, <3>2, <2>2
      <4> QED BY <4>2, <3>1, <3>4
    <3> QED BY <2>3, <3>3, <3>4
  <2>5. CASE step'[f] = "write" /\ files'[p].by = task(f)
    <3>1. Opened(f)'
      BY <2>5, <1>t
    <3> QED BY <2>5, <3>1
  <2>6. CASE step'[f] = "report" /\ ret'[f] # "ESuccess"
    BY <2>6
  <2> QED BY <2>4, <2>5, <2>6
<1>4. CASE Writes(f)
  <2>1. files[p] \in File /\ step[f] = "write"
    BY <1>4, <1>f DEF Writes
  <2>2. CASE /\ files' = [files EXCEPT ![p].content = Wanted(f).content]
             /\ step'[f] = IF system = "linux" THEN "chmod" ELSE "owner"
    BY <2>1, <2>2, <1>i, <1>t, FieldsKept DEF FilesTyped
  <2>3. CASE step'[f] = "report" /\ ret'[f] # "ESuccess"
    BY <2>3
  <2> QED BY <2>2, <2>3, <1>4, <1>i DEF Writes
<1>5. CASE Chmods(f)
  <2>1. files[p] \in File /\ step[f] = "chmod"
    BY <1>5, <1>f DEF Chmods
  <2>2. CASE files' = [files EXCEPT ![p].mode = Wanted(f).mode] /\ step'[f] = "owner"
    BY <2>1, <2>2, <1>i, <1>t, FieldsKept DEF FilesTyped
  <2>3. CASE step'[f] = "report" /\ ret'[f] # "ESuccess"
    BY <2>3
  <2> QED BY <2>2, <2>3, <1>5, <1>i DEF Chmods
<1>6. CASE ChangesOwner(f)
  <2>1. files[p] \in File /\ step[f] = "owner" /\ step'[f] = "report"
    BY <1>6, <1>f, <1>i DEF ChangesOwner
  <2>2. CASE files' = [files EXCEPT ![p].owner = Wanted(f).owner]
    <3>1. files'[p] = [files[p] EXCEPT !.owner = Wanted(f).owner]
      BY <2>2, <1>i, <1>t DEF FilesTyped
    <3>2. /\ files'[p] # Absent /\ files'[p].content = files[p].content
          /\ files'[p].mode = files[p].mode /\ files'[p].owner = Wanted(f).owner
      <4>1. [files[p] EXCEPT !.owner = Wanted(f).owner] \in File
        BY <2>1, <1>t DEF File
      <4> QED BY <3>1, <4>1, <2>1, FieldsKept
    <3> QED BY <2>1, <3>2, <1>i, <1>t
  <2>3. CASE NoOwner(Wanted(f)) /\ files' = files
    BY <2>1, <2>3, <1>i, <1>t, FieldsKept DEF FilesTyped
  <2>4. CASE ret'[f] # "ESuccess"
    BY <2>1, <2>4
  <2> QED BY <2>2, <2>3, <2>4, <1>6, <1>i DEF ChangesOwner
<1> QED BY <1>1, <1>2, <1>3, <1>4, <1>5, <1>6 DEF AtFile

LEMMA ProgressStep ==
    ASSUME SendAssumption, FilesInv, [FilesNext]_fileVars, Apart
    PROVE  \A f \in Fetchers : Progress(f)'
<1>1. CASE UNCHANGED fileVars
  BY <1>1 DEF FilesInv, fileVars, fetch, Progress, Free, Opened, Filled, Moded, Done, Wanted,
     task, NoOwner
<1>2. CASE Killed
  BY <1>2 DEF Killed, Progress, Free, Opened, Filled, Moded, Done
<1>3. ASSUME NEW f \in Fetchers, Starts(f) \/ Asks(f) \/ SendFiles(f), UNCHANGED system,
             NEW g \in Fetchers
      PROVE Progress(g)'
  <2>1. CASE g # f
    BY <2>1, <1>3, ProgressOfOthers
  <2>2. CASE step'[f] \in {"idle", "ask", "check"} /\ g = f
    BY <2>2 DEF Progress, Free, Opened, Filled, Moded, Done
  <2>3. CASE ~(step'[f] \in {"idle", "ask", "check"}) /\ g = f
    BY <2>3, <1>3, OwnStep, ProgressOfOwn DEF FilesInv
  <2> QED BY <2>1, <2>2, <2>3
<1> QED BY <1>1, <1>2, <1>3 DEF FilesNext

LEMMA AnswersStep ==
    ASSUME SendAssumption, FilesInv, [FilesNext]_fileVars
    PROVE  Answerable' /\ AllAnswered'
<1>i. FetchTyped /\ CountsTyped /\ Answerable /\ AllAnswered
  BY DEF FilesInv
<1>1. CASE UNCHANGED fileVars
  BY <1>1, <1>i DEF fileVars, fetch, bounds, Answerable, AllAnswered, InHand
<1>2. CASE Killed
  BY <1>2, <1>i DEF Killed, Mishap, Answerable, AllAnswered, CountsTyped
<1>3. ASSUME NEW f \in Fetchers, Starts(f) \/ Asks(f) \/ SendFiles(f) PROVE Answerable'
  <2>1. step'[f] = "report" => ret'[f] # "none"
    <3>1. step'[f] = "report" => AtFile(f)
      BY <1>3, <1>i, OwnStep
    <3> QED BY <3>1, <1>i, RejectedAsNamed
            DEF AtFile, Checks, Exists, Opens, Writes, Chmods, ChangesOwner, Goes, Returns,
               FetchTyped
  <2>2. \A g \in Fetchers : g # f => step'[g] = step[g] /\ ret'[g] = ret[g]
    BY <1>3, <1>i, OthersStay
  <2> QED BY <2>1, <2>2, <1>i DEF Answerable
<1>4. ASSUME NEW f \in Fetchers, Starts(f) \/ AtFile(f) PROVE AllAnswered'
  <2>1. UNCHANGED <<sendFiles, delivered, answers>> /\ (Fine \/ Mishap)
    BY <1>4 DEF Starts, AtFile, Checks, Exists, Opens, Writes, Chmods, ChangesOwner, Goes, Returns,
                Kept
  <2> QED BY <2>1, <1>i DEF AllAnswered, InHand, Fine, Mishap, CountsTyped
<1>5. ASSUME NEW f \in Fetchers, Reports(f) PROVE AllAnswered'
  <2>1. AtTask(f) /\ step[f] = "report"
    BY <1>5 DEF Reports, At, AtTask
  <2>2. task(f) \in Tasks /\ ToSet(sendFiles[f]) = {task(f)} \cup ToSet(Tail(sendFiles[f]))
    BY <2>1, <1>i, HasTask
  <2>3. InHand \subseteq InHand' \cup {task(f)}
    <3>1. \A g \in Fetchers : ToSet(sendFiles[g]) \subseteq ToSet(sendFiles'[g]) \cup {task(f)}
      BY <2>2, <1>5, <1>i DEF Reports, FetchTyped
    <3> QED BY <3>1 DEF InHand
  <2>4. CASE Fine /\ answers' = [answers EXCEPT ![task(f)] = ret[f]]
    BY <2>1, <2>2, <2>3, <2>4, <1>5, <1>i
       DEF Reports, AllAnswered, Fine, Answerable, CountsTyped, FetchTyped
  <2>5. CASE Mishap
    BY <2>5, <1>i DEF AllAnswered, Mishap, CountsTyped
  <2> QED BY <2>4, <2>5, <1>5 DEF Reports
<1>6. ASSUME NEW f \in Fetchers, Asks(f) PROVE AllAnswered'
  <2>1. UNCHANGED <<answers, mishaps>> /\ step[f] = "ask"
    BY <1>6 DEF Asks, Fine, At
  <2>2. CASE UNCHANGED <<sendFiles, delivered>>
    BY <2>1, <2>2, <1>i DEF AllAnswered, InHand
  <2>3. CASE \E l \in Lists : /\ sendFiles' = [sendFiles EXCEPT ![f] = l]
                              /\ delivered' = delivered \cup ToSet(l)
    <3>1. PICK l \in Lists : /\ sendFiles' = [sendFiles EXCEPT ![f] = l]
                             /\ delivered' = delivered \cup ToSet(l)
      BY <2>3
    <3>2. sendFiles[f] = <<>> /\ ToSet(<<>>) = {}
      BY <2>1, <1>i, ListIsNew DEF FetchTyped, AtTask
    <3>3. InHand' = InHand \cup ToSet(l)
      BY <3>1, <3>2, <1>i DEF InHand, FetchTyped
    <3> QED BY <3>1, <3>3, <2>1, <1>i DEF AllAnswered
  <2> QED BY <2>2, <2>3, <1>6 DEF Asks
<1> QED BY <1>1, <1>2, <1>3, <1>4, <1>5, <1>6 DEF FilesNext, SendFiles, AtFile

LEMMA FilesInvStep == ASSUME SendAssumption, FilesInv, [FilesNext]_fileVars PROVE FilesInv'
BY FilesTypedStep, FetchTypedStep, RequestsTypedStep, CountsTypedStep, AcceptedStep, PresentStep,
   HandsApartStep, ProgressStep, AnswersStep DEF FilesInv, SendAssumption

\* What is at a path is lost only to a task that is allowed to, since a fetch finds the
\* file as it has left it.
LEMMA AllowedStep ==
    ASSUME SendAssumption, FilesInv, FilesInv', Apart, [FilesNext]_fileVars, NEW p \in Paths,
           files'[p] # files[p]
    PROVE  LET t == files'[p].by
           IN  /\ Info[t].flaw \notin DOMAIN Rejected
               /\ files[p] = Absent \/ Info[t].overwrite \/ files[p].by = t
<1>i. FilesTyped /\ FetchTyped /\ \A f \in Fetchers : Accepted(f) /\ Progress(f) /\ Present(f)
  BY DEF FilesInv
<1>1. PICK f \in Fetchers : Starts(f) \/ Asks(f) \/ SendFiles(f)
  BY DEF FilesNext, fileVars, Killed
<1>2. p = Wanted(f).path /\ AtTask(f)
  BY <1>1, <1>i, OnePath
<1>3. task(f) \in Tasks /\ Wanted(f) = Info[task(f)]
  BY <1>2, <1>i, HasTask
<1>4. Opens(f) \/ Writes(f) \/ Chmods(f) \/ ChangesOwner(f)
  BY <1>1 DEF SendFiles, Starts, Asks, Checks, Exists, Reports
<1>5. Info[task(f)].flaw \notin DOMAIN Rejected
  BY <1>3, <1>4, <1>i DEF Opens, Writes, Chmods, ChangesOwner, At, Accepted
<1>6. CASE Opens(f)
  <2>1. files[p] = Absent \/ Info[task(f)].overwrite
    BY <1>2, <1>3, <1>6, <1>i DEF Opens, At, Progress, Free
  <2>2. [content |-> "part", mode |-> "0644", owner |-> "root", by |-> task(f)].by = task(f)
    OBVIOUS
  <2>3. files[p] \in File => [files[p] EXCEPT !.content = "part", !.by = task(f)].by = task(f)
    BY <1>3 DEF File
  <2>4. files' = [files EXCEPT ![p] =
           IF @ = Absent THEN [content |-> "part", mode |-> "0644", owner |-> "root",
                               by |-> task(f)]
           ELSE [@ EXCEPT !.content = "part", !.by = task(f)]]
    BY <1>2, <1>6 DEF Opens
  <2>5. files'[p].by = task(f)
    BY <2>2, <2>3, <2>4, <1>i DEF FilesTyped
  <2> QED BY <2>1, <2>5, <1>5
<1>7. CASE Writes(f) \/ Chmods(f) \/ ChangesOwner(f)
  <2>1. files[p] \in File /\ files[p].by = task(f)
    BY <1>2, <1>7, <1>i DEF Writes, Chmods, ChangesOwner, At, Progress, Opened, Present, FilesTyped
  <2>2. \/ files' = [files EXCEPT ![p].content = Wanted(f).content]
        \/ files' = [files EXCEPT ![p].mode = Wanted(f).mode]
        \/ files' = [files EXCEPT ![p].owner = Wanted(f).owner]
    BY <1>2, <1>7 DEF Writes, Chmods, ChangesOwner
  <2>3. /\ [files[p] EXCEPT !.content = Wanted(f).content].by = files[p].by
        /\ [files[p] EXCEPT !.mode = Wanted(f).mode].by = files[p].by
        /\ [files[p] EXCEPT !.owner = Wanted(f).owner].by = files[p].by
    BY <2>1, FieldsKept
  <2>4. files'[p].by = task(f)
    BY <2>1, <2>2, <2>3, <1>i DEF FilesTyped
  <2> QED BY <2>1, <2>4, <1>5
<1> QED BY <1>4, <1>6, <1>7

\* The types of SendFile, and what a fetch knows of its task, for any number of fetches,
\* tasks, deliveries and failures; here two tasks in hand may be for one path.
THEOREM FileTypesHold == ASSUME SendAssumption PROVE FilesSpec => []FilesTypeOK
<1>1. FilesInit => FilesInv
  BY FilesInvInit
<1>2. FilesInv /\ [FilesNext]_fileVars => FilesInv'
  BY FilesInvStep
<1>3. FilesInv => FilesTypeOK
  BY DEF FilesInv, FilesTyped, FetchTyped, RequestsTyped, CountsTyped, FilesTypeOK, FileSteps
<1> QED BY <1>1, <1>2, <1>3, PTL DEF FilesSpec

\* A file that is reported as sent is there as it was asked for, and every task is answered
\* for unless something fails, as long as no two tasks in hand are for one path.
THEOREM FilesArriveAsAsked == ASSUME SendAssumption, Apart PROVE FilesSpec => []FilesAsAsked
<1>1. FilesInit => FilesInv
  BY FilesInvInit
<1>2. FilesInv /\ [FilesNext]_fileVars => FilesInv'
  BY FilesInvStep
<1>3. FilesInv => FilesAsAsked
  BY DEF FilesInv, FilesAsAsked, SuccessIsThere, Progress, Done, At
<1> QED BY <1>1, <1>2, <1>3, PTL DEF FilesSpec

\* No file is lost to a task that may not overwrite it, or that is rejected.
THEOREM FilesChangeAsAllowed == ASSUME SendAssumption, Apart PROVE FilesSpec => OnlyAsAllowed
<1>1. FilesInit => FilesInv
  BY FilesInvInit
<1>2. FilesInv /\ [FilesNext]_fileVars => FilesInv'
  BY FilesInvStep
<1>3. FilesInv /\ FilesInv' /\ [FilesNext]_fileVars =>
         [\A p \in Paths : files'[p] # files[p] =>
             LET t == files'[p].by
             IN  /\ Info[t].flaw \notin DOMAIN Rejected
                 /\ files[p] = Absent \/ Info[t].overwrite \/ files[p].by = t]_fileVars
  BY AllowedStep
<1> QED BY <1>1, <1>2, <1>3, PTL DEF FilesSpec, OnlyAsAllowed

\* Both: the files of the server arrive, and nothing else is lost for them (sendFile).
THEOREM FilesDoArrive == ASSUME SendAssumption, Apart PROVE FilesSpec => FilesArrive
BY FilesArriveAsAsked, FilesChangeAsAllowed, PTL DEF FilesArrive

(***************************************************************************)
(* ApiServer, for any callers, any machines, any number of hitches and     *)
(* restarts.                                                               *)
(*                                                                         *)
(* What a call still has to do is fixed by whose call it is: Frames says   *)
(* which stacks a caller has at which place.  With it one caller at a time *)
(* selects (OneSelecting) and runs the executable (OneRun); a domain that  *)
(* is known is of the provider that is selected (NamedBy) and of the       *)
(* requests that are under way (Requested).  As long as no request has     *)
(* failed, what the file, the callers (Sought) and the provider (Located)  *)
(* say of the region is the one that the machine settles: that of the file *)
(* if its server is reached, else that in which the machine is.            *)
(***************************************************************************)
InExe == {"exe", "exeLock", "provision"}
Trials == {"fileDetect", "meta", "metaDetect", "known", "knownDetect"}
OfHost == {"peek", "write", "exeDomain", "hybridDomain", "hybridName", "generalDomain"}
OfRegion == {"exeRegion", "hybridRegion", "generalRegion", "detected"}
OfRequest == {"headers", "instance"}

\* Who is served when the transport is there.
AsksTransport(o, s) ==
    \/ o = "host" /\ s \in {<<"hybridName">>, <<"meta", "generalDomain">>, <<"fileDetect", "generalDomain">>}
    \/ o = "region" /\ s \in {<<"meta", "detected">>, <<"fileDetect", "detected">>}
    \/ o = "request" /\ s = <<"headers">>
AsksExe(o, s) ==
    \/ o = "host" /\ s \in {<<"exeDomain">>, <<"pool", "hybridName">>,
                            <<"pool", "meta", "generalDomain">>, <<"pool", "fileDetect", "generalDomain">>}
    \/ o = "region" /\ s \in {<<"exeRegion">>, <<"pool", "meta", "detected">>,
                              <<"pool", "fileDetect", "detected">>}
    \/ o = "request" /\ s = <<"pool", "headers">>
Framed(o, l, s) ==
    \/ o = "none" /\ l = "idle" /\ s = <<>>
    \/ o = "host" /\ l \in OfHost /\ s = <<>>
    \/ o = "region" /\ l \in OfRegion /\ s = <<>>
    \/ o = "request" /\ l \in OfRequest /\ s = <<>>
    \/ l \in Trials \cup {"general"} /\ o = "host" /\ s = <<"generalDomain">>
    \/ l \in Trials \cup {"general"} /\ o = "region" /\ s = <<"detected">>
    \/ l \in {"transport", "pool"} /\ AsksTransport(o, s)
    \/ l \in InExe /\ AsksExe(o, s)
\* What a caller returns to, wherever it is.
Frames == \A p \in Callers : Framed(op[p], pc[p], stack[p])

\* One caller asks for the server, while none is known.
OneSelecting ==
    /\ \A p, q \in Callers : op[p] = "host" /\ op[q] = "host" => p = q
    /\ \A p \in Callers : op[p] = "host" =>
          /\ domain = None
          /\ pc[p] # "peek" => selected = None
          /\ pc[p] = "general" => ~site.hosted

\* One caller runs the executable, and it has not been run.
OneRun ==
    /\ runs \in 0 .. 1 /\ (provisioned => site.exe)
    /\ path = "unknown" => runs = 0
    /\ \A p \in Callers : pc[p] = "provision" => path = "unknown"
    /\ \A p, q \in Callers : pc[p] = "provision" /\ pc[q] = "provision" => p = q

\* The domain is one that the provider gives.
NamedBy ==
    /\ selected = None => domain = None
    /\ selected = "exe" => domain \in {None, Given}
    /\ selected = "hybrid" => domain \in {Registered, Named}
    /\ selected = "general" => domain \in site.reachable /\ general # None
\* A request goes to the server that is known.
Requested == \A p \in Callers :
    /\ op[p] = "request" => found[p] = domain /\ domain # None
    /\ pc[p] = "instance" => selected = "general"

\* The file names a region that is reached; which region is to be found.
KnownFile == site.file # "" /\ site.file \in site.reachable
RightRegion == IF KnownFile THEN site.file ELSE Here
Heading(p, x) == pc[p] = x \/ \E i \in 1 .. Len(stack[p]) : stack[p][i] = x
\* What a caller has found of the region.
Sought == \A p \in Callers :
    /\ pc[p] \in {"metaDetect", "knownDetect"} => found[p] = Here
    /\ pc[p] = "generalDomain" /\ found[p] # None =>
          found[p] \in site.reachable /\ general # None /\ (hitches = 0 => found[p] = RightRegion)
    /\ hitches = 0 =>
          /\ Heading(p, "fileDetect") =>
                found[p] \in (IF KnownFile THEN {site.file} ELSE {site.file, Here} \ {""})
          /\ KnownFile => ~Heading(p, "meta") /\ pc[p] \notin {"metaDetect", "known", "knownDetect"}
\* What the agent knows of the region, and the file.
Located == hitches = 0 =>
    /\ general \in {None, RightRegion}
    /\ selected = "general" => domain = RightRegion
    /\ ~site.exe => region \in {None, Registered, RightRegion}
    /\ KnownFile => regionFile = site.file /\ saving = {}
    /\ ~KnownFile => regionFile \in {site.file, "", Here} /\ saving \subseteq {<<Here, "open">>, <<Here, "write">>}

\* The places of a caller, and the types of what callers have.
Labels == InExe \cup Trials \cup OfHost \cup OfRegion \cup OfRequest
            \cup {"idle", "general", "transport", "pool"}
CallersTyped ==
    /\ op \in [Callers -> {"none", "host", "region", "request"}]
    /\ pc \in [Callers -> Labels] /\ stack \in [Callers -> Seq(Labels)]
    /\ found \in [Callers -> Regions]

LEMMA PairJoins == ASSUME NEW x, NEW y PROVE <<x>> \o <<y>> = <<x, y>>
<1> DEFINE S == {x, y}
<1> DEFINE u == <<x>> \o <<y>>
<1>1. <<x>> \in Seq(S) /\ <<y>> \in Seq(S) /\ Len(<<x>>) = 1 /\ Len(<<y>>) = 1
  OBVIOUS
<1>2. u \in Seq(S) /\ Len(u) = 2 /\ u[1] = x /\ u[2] = y
  BY <1>1
<1>3. <<x, y>> \in Seq(S) /\ Len(<<x, y>>) = 2
  OBVIOUS
<1> HIDE DEF u
<1>4. u = <<x, y>>
  BY <1>2, <1>3
<1> QED BY <1>4 DEF u

LEMMA TripleJoins ==
    ASSUME NEW x, NEW y, NEW z PROVE <<x>> \o <<y, z>> = <<x, y, z>>
<1> DEFINE S == {x, y, z}
<1> DEFINE u == <<x>> \o <<y, z>>
<1>1. <<x>> \in Seq(S) /\ <<y, z>> \in Seq(S) /\ Len(<<x>>) = 1 /\ Len(<<y, z>>) = 2
  OBVIOUS
<1>2. u \in Seq(S) /\ Len(u) = 3 /\ u[1] = x /\ u[2] = y /\ u[3] = z
  BY <1>1
<1>3. <<x, y, z>> \in Seq(S) /\ Len(<<x, y, z>>) = 3
  OBVIOUS
<1> HIDE DEF u
<1>4. u = <<x, y, z>>
  BY <1>2, <1>3
<1> QED BY <1>4 DEF u

\* Every stack there is, popped; and what the caller is at then.
LEMMA Pops ==
    /\ Head(<<"hybridName">>) = "hybridName" /\ Tail(<<"hybridName">>) = <<>>
    /\ Head(<<"meta", "generalDomain">>) = "meta" /\ Tail(<<"meta", "generalDomain">>) = <<"generalDomain">>
    /\ Head(<<"fileDetect", "generalDomain">>) = "fileDetect" /\ Tail(<<"fileDetect", "generalDomain">>) = <<"generalDomain">>
    /\ Head(<<"meta", "detected">>) = "meta" /\ Tail(<<"meta", "detected">>) = <<"detected">>
    /\ Head(<<"fileDetect", "detected">>) = "fileDetect" /\ Tail(<<"fileDetect", "detected">>) = <<"detected">>
    /\ Head(<<"headers">>) = "headers" /\ Tail(<<"headers">>) = <<>>
    /\ Head(<<"exeDomain">>) = "exeDomain" /\ Tail(<<"exeDomain">>) = <<>>
    /\ Head(<<"exeRegion">>) = "exeRegion" /\ Tail(<<"exeRegion">>) = <<>>
    /\ Head(<<"pool", "hybridName">>) = "pool" /\ Tail(<<"pool", "hybridName">>) = <<"hybridName">>
    /\ Head(<<"pool", "meta", "generalDomain">>) = "pool" /\ Tail(<<"pool", "meta", "generalDomain">>) = <<"meta", "generalDomain">>
    /\ Head(<<"pool", "fileDetect", "generalDomain">>) = "pool" /\ Tail(<<"pool", "fileDetect", "generalDomain">>) = <<"fileDetect", "generalDomain">>
    /\ Head(<<"pool", "meta", "detected">>) = "pool" /\ Tail(<<"pool", "meta", "detected">>) = <<"meta", "detected">>
    /\ Head(<<"pool", "fileDetect", "detected">>) = "pool" /\ Tail(<<"pool", "fileDetect", "detected">>) = <<"fileDetect", "detected">>
    /\ Head(<<"pool", "headers">>) = "pool" /\ Tail(<<"pool", "headers">>) = <<"headers">>
    /\ Head(<<"generalDomain">>) = "generalDomain" /\ Tail(<<"generalDomain">>) = <<>>
    /\ Head(<<"detected">>) = "detected" /\ Tail(<<"detected">>) = <<>>
OBVIOUS
LEMMA Nexts ==
    /\ Framed("host", "hybridName", <<>>)
    /\ Framed("host", "meta", <<"generalDomain">>)
    /\ Framed("host", "fileDetect", <<"generalDomain">>)
    /\ Framed("region", "meta", <<"detected">>)
    /\ Framed("region", "fileDetect", <<"detected">>)
    /\ Framed("request", "headers", <<>>)
    /\ Framed("host", "exeDomain", <<>>)
    /\ Framed("region", "exeRegion", <<>>)
    /\ Framed("host", "pool", <<"hybridName">>)
    /\ Framed("host", "pool", <<"meta", "generalDomain">>)
    /\ Framed("host", "pool", <<"fileDetect", "generalDomain">>)
    /\ Framed("region", "pool", <<"meta", "detected">>)
    /\ Framed("region", "pool", <<"fileDetect", "detected">>)
    /\ Framed("request", "pool", <<"headers">>)
    /\ Framed("host", "generalDomain", <<>>)
    /\ Framed("region", "detected", <<>>)
BY DEF AsksTransport, AsksExe, Framed, OfHost, OfRegion, OfRequest, InExe, Trials
\* The stack of a caller, by its place.
LEMMA Stacks ==
    ASSUME NEW o, NEW l, NEW s, Framed(o, l, s)
    PROVE  /\ l \in InExe => AsksExe(o, s)
           /\ l \in {"transport", "pool"} => AsksTransport(o, s)
           /\ l \in Trials \cup {"general"} =>
                 (o = "host" /\ s = <<"generalDomain">>) \/ (o = "region" /\ s = <<"detected">>)
           /\ l \in OfHost => o = "host" /\ s = <<>>
           /\ l \in OfRegion => o = "region" /\ s = <<>>
           /\ l \in OfRequest => o = "request" /\ s = <<>>
           /\ l = "idle" => o = "none" /\ s = <<>>
<1> USE DEF InExe, Trials, OfHost, OfRegion, OfRequest
<1>1. l \in InExe => AsksExe(o, s)
  BY Zenon DEF Framed
<1>2. l \in {"transport", "pool"} => AsksTransport(o, s)
  BY Zenon DEF Framed
<1>3. ASSUME l \in Trials \cup {"general"}
      PROVE  \/ o = "host" /\ s = <<"generalDomain">>
             \/ o = "region" /\ s = <<"detected">>
  <2>1. /\ l \notin InExe \cup OfHost \cup OfRegion \cup OfRequest
        /\ l # "idle" /\ l \notin {"transport", "pool"}
    BY <1>3
  <2> QED BY <2>1, Zenon DEF Framed
<1>4. l \in OfHost => o = "host" /\ s = <<>>
  BY Zenon DEF Framed
<1>5. l \in OfRegion => o = "region" /\ s = <<>>
  BY Zenon DEF Framed
<1>6. l \in OfRequest => o = "request" /\ s = <<>>
  BY Zenon DEF Framed
<1>7. l = "idle" => o = "none" /\ s = <<>>
  BY Zenon DEF Framed
<1> HIDE DEF InExe, Trials, OfHost, OfRegion, OfRequest
<1> QED BY <1>1, <1>2, <1>3, <1>4, <1>5, <1>6, <1>7

\* Where a caller returns from, and what to.
InCall == InExe \cup Trials \cup {"general", "transport", "pool"}
Backs == {"exeDomain", "exeRegion", "pool", "hybridName", "headers", "meta", "fileDetect",
          "generalDomain", "detected"}

LEMMA ReturnFrame ==
    ASSUME NEW o, NEW l, NEW s, Framed(o, l, s), l \in InCall
    PROVE  Framed(o, Head(s), Tail(s)) /\ Head(s) \in Backs /\ s # <<>>
<1>1. AsksExe(o, s) \/ AsksTransport(o, s) \/ s \in {<<"generalDomain">>, <<"detected">>}
  BY Stacks DEF InCall
<1>2. ASSUME AsksExe(o, s) PROVE Framed(o, Head(s), Tail(s)) /\ Head(s) \in Backs
  BY <1>2, Pops, Nexts, ZenonT(30) DEF AsksExe, Backs
<1>3. ASSUME AsksTransport(o, s) PROVE Framed(o, Head(s), Tail(s)) /\ Head(s) \in Backs
  BY <1>3, Pops, Nexts, ZenonT(30) DEF AsksTransport, Backs
<1>4. ASSUME l \in Trials \cup {"general"} PROVE Framed(o, Head(s), Tail(s)) /\ Head(s) \in Backs
  BY <1>4, Stacks, Pops, Nexts, ZenonT(30) DEF Backs
<1>5. s # <<>>
  BY <1>1 DEF AsksExe, AsksTransport
<1> QED BY <1>2, <1>3, <1>4, <1>5, Stacks DEF InCall

LEMMA CallFrame ==
    /\ \A o, s : AsksTransport(o, s) => Framed(o, "exe", <<"pool">> \o s)
    /\ Framed("host", "exe", <<"exeDomain">> \o <<>>)
    /\ Framed("host", "transport", <<"hybridName">> \o <<>>)
    /\ Framed("host", "general", <<"generalDomain">> \o <<>>)
    /\ Framed("region", "general", <<"detected">> \o <<>>)
    /\ \A x \in {"meta", "fileDetect"} :
         /\ Framed("host", "transport", <<x>> \o <<"generalDomain">>)
         /\ Framed("region", "transport", <<x>> \o <<"detected">>)
<1>1. /\ <<"exeDomain">> \o <<>> = <<"exeDomain">> /\ <<"hybridName">> \o <<>> = <<"hybridName">>
      /\ <<"generalDomain">> \o <<>> = <<"generalDomain">> /\ <<"detected">> \o <<>> = <<"detected">>
  OBVIOUS
<1>4. /\ <<"pool">> \o <<"hybridName">> = <<"pool", "hybridName">>
      /\ <<"pool">> \o <<"headers">> = <<"pool", "headers">>
      /\ <<"pool">> \o <<"meta", "generalDomain">> = <<"pool", "meta", "generalDomain">>
      /\ <<"pool">> \o <<"fileDetect", "generalDomain">> = <<"pool", "fileDetect", "generalDomain">>
      /\ <<"pool">> \o <<"meta", "detected">> = <<"pool", "meta", "detected">>
      /\ <<"pool">> \o <<"fileDetect", "detected">> = <<"pool", "fileDetect", "detected">>
  BY PairJoins, TripleJoins
<1>5. ASSUME NEW o, NEW s, AsksTransport(o, s) PROVE Framed(o, "exe", <<"pool">> \o s)
  <2>1. AsksExe(o, <<"pool">> \o s)
    BY <1>4, <1>5, ZenonT(30) DEF AsksTransport, AsksExe
  <2> QED BY <2>1 DEF Framed, InExe
<1>6. /\ Framed("host", "exe", <<"exeDomain">> \o <<>>)
      /\ Framed("host", "transport", <<"hybridName">> \o <<>>)
      /\ Framed("host", "general", <<"generalDomain">> \o <<>>)
      /\ Framed("region", "general", <<"detected">> \o <<>>)
  BY <1>1 DEF Framed, InExe, AsksExe, AsksTransport
<1>7. /\ Framed("host", "transport", <<"meta">> \o <<"generalDomain">>)
      /\ Framed("host", "transport", <<"fileDetect">> \o <<"generalDomain">>)
      /\ Framed("region", "transport", <<"meta">> \o <<"detected">>)
      /\ Framed("region", "transport", <<"fileDetect">> \o <<"detected">>)
  <2>1. /\ <<"meta">> \o <<"generalDomain">> = <<"meta", "generalDomain">>
        /\ <<"fileDetect">> \o <<"generalDomain">> = <<"fileDetect", "generalDomain">>
        /\ <<"meta">> \o <<"detected">> = <<"meta", "detected">>
        /\ <<"fileDetect">> \o <<"detected">> = <<"fileDetect", "detected">>
    BY PairJoins
  <2> QED BY <2>1 DEF Framed, AsksTransport
<1> QED
  BY <1>5, <1>6, <1>7

LEMMA FrameTyped ==
    ASSUME NEW o, NEW l, NEW s, Framed(o, l, s)
    PROVE  l \in Labels /\ s \in Seq(Labels) /\ Len(s) <= 3 /\ (o = "none" <=> l = "idle")
<1>1. l \in Labels /\ (o = "none" <=> l = "idle")
  BY DEF Framed, Labels, InExe, Trials, OfHost, OfRegion, OfRequest, AsksExe, AsksTransport
<1>2. \A x \in Labels : <<x>> \in Seq(Labels) /\ Len(<<x>>) <= 3
  OBVIOUS
<1>3. \A x, y \in Labels : <<x, y>> \in Seq(Labels) /\ Len(<<x, y>>) <= 3
  OBVIOUS
<1>4. \A x, y, z \in Labels : <<x, y, z>> \in Seq(Labels) /\ Len(<<x, y, z>>) <= 3
  OBVIOUS
<1>5. <<>> \in Seq(Labels) /\ Len(<<>>) <= 3
  OBVIOUS
<1>6. {"generalDomain", "detected", "hybridName", "headers", "meta", "fileDetect", "pool",
       "exeDomain", "exeRegion"} \subseteq Labels
  BY DEF Labels, InExe, Trials, OfHost, OfRegion, OfRequest
<1>7. s \in Seq(Labels) /\ Len(s) <= 3
  BY <1>2, <1>3, <1>4, <1>5, <1>6, ZenonT(30) DEF Framed, AsksExe, AsksTransport
<1> QED BY <1>1, <1>7

\* A place among those that a caller returns to.
OnStack(x, s) == \E i \in 1 .. Len(s) : s[i] = x

LEMMA PopOn ==
    ASSUME NEW s \in Seq(Labels), s # <<>>, NEW x
    PROVE  OnStack(x, s) <=> x = Head(s) \/ OnStack(x, Tail(s))
<1>1. Head(s) = s[1] /\ Len(s) \in Nat \ {0} /\ Len(Tail(s)) = Len(s) - 1
      /\ \A i \in 1 .. Len(s) - 1 : Tail(s)[i] = s[i + 1]
  BY HeadTailProperties, LenProperties, EmptySeq
<1>2. ASSUME OnStack(x, s), x # Head(s) PROVE OnStack(x, Tail(s))
  <2>1. PICK i \in 1 .. Len(s) : s[i] = x
    BY <1>2 DEF OnStack
  <2>2. i # 1 /\ i - 1 \in 1 .. Len(s) - 1
    BY <1>1, <1>2, <2>1
  <2>3. Tail(s)[i - 1] = s[(i - 1) + 1] /\ (i - 1) + 1 = i
    BY <1>1, <2>2
  <2> QED BY <1>1, <2>1, <2>2, <2>3 DEF OnStack
<1>3. ASSUME OnStack(x, Tail(s)) PROVE OnStack(x, s)
  <2>1. PICK i \in 1 .. Len(s) - 1 : Tail(s)[i] = x
    BY <1>1, <1>3 DEF OnStack
  <2>2. i + 1 \in 1 .. Len(s) /\ s[i + 1] = x
    BY <1>1, <2>1
  <2> QED BY <2>2 DEF OnStack
<1>4. ASSUME x = Head(s) PROVE OnStack(x, s)
  BY <1>1, <1>4 DEF OnStack
<1> QED BY <1>2, <1>3, <1>4

LEMMA PushOn ==
    ASSUME NEW s \in Seq(Labels), NEW b \in Labels, NEW x
    PROVE  OnStack(x, <<b>> \o s) <=> x = b \/ OnStack(x, s)
<1>1. <<b>> \in Seq(Labels) /\ Len(<<b>>) = 1 /\ <<b>>[1] = b
  OBVIOUS
<1>2. /\ <<b>> \o s \in Seq(Labels) /\ Len(<<b>> \o s) = 1 + Len(s) /\ Len(s) \in Nat
      /\ (<<b>> \o s)[1] = b /\ \A i \in 1 .. Len(s) : (<<b>> \o s)[i + 1] = s[i]
  BY <1>1, ConcatProperties
<1> DEFINE t == <<b>> \o s
<1> HIDE DEF t
<1>3. ASSUME OnStack(x, t), x # b PROVE OnStack(x, s)
  <2>1. PICK i \in 1 .. Len(t) : t[i] = x
    BY <1>3 DEF OnStack
  <2>2. i - 1 \in 1 .. Len(s) /\ (i - 1) + 1 = i
    BY <1>2, <1>3, <2>1 DEF t
  <2>3. s[i - 1] = x
    BY <1>2, <2>1, <2>2 DEF t
  <2> QED BY <2>2, <2>3 DEF OnStack
<1>4. ASSUME OnStack(x, s) PROVE OnStack(x, t)
  <2>1. PICK i \in 1 .. Len(s) : s[i] = x
    BY <1>4 DEF OnStack
  <2>2. i + 1 \in 1 .. Len(t) /\ t[i + 1] = x
    BY <1>2, <2>1 DEF t
  <2> QED BY <2>2 DEF OnStack
<1>5. ASSUME x = b PROVE OnStack(x, t)
  BY <1>2, <1>5 DEF OnStack, t
<1>6. OnStack(x, t) <=> x = b \/ OnStack(x, s)
  BY <1>3, <1>4, <1>5
<1> QED BY <1>6 DEF t

LEMMA OnShort ==
    /\ \A x : ~OnStack(x, <<>>)
    /\ \A x, y : OnStack(x, <<y>>) <=> x = y
BY DEF OnStack

\* What a step makes of its caller, and of the others.
Moved(p, o, l, s) ==
    /\ op' \in [Callers -> {"none", "host", "region", "request"}] /\ pc' \in [Callers -> Labels]
    /\ stack' \in [Callers -> Seq(Labels)]
    /\ op'[p] = o /\ pc'[p] = l /\ stack'[p] = s
    /\ \A q \in Callers \ {p} : op'[q] = op[q] /\ pc'[q] = pc[q] /\ stack'[q] = stack[q]

LEMMA MovedByJump ==
    ASSUME CallersTyped, NEW p \in Callers, NEW l, NEW m \in Labels, Jumps(p, l, m)
    PROVE  pc[p] = l /\ Moved(p, op[p], m, stack[p])
BY DEF CallersTyped, Moved, Jumps, IsAt

LEMMA MovedByReturn ==
    ASSUME CallersTyped, Frames, NEW p \in Callers, NEW l \in InCall, CallReturns(p, l)
    PROVE  /\ pc[p] = l /\ Moved(p, op[p], Head(stack[p]), Tail(stack[p])) /\ stack[p] # <<>>
           /\ Head(stack[p]) \in Backs
<1>1. pc[p] = l
  BY DEF CallReturns, IsAt
<1>2. Framed(op[p], Head(stack[p]), Tail(stack[p])) /\ Head(stack[p]) \in Backs /\ stack[p] # <<>>
  BY <1>1, ReturnFrame DEF Frames
<1>3. Head(stack[p]) \in Labels /\ Tail(stack[p]) \in Seq(Labels)
  BY <1>2, FrameTyped
<1>4. Moved(p, op[p], Head(stack[p]), Tail(stack[p]))
  BY <1>3 DEF CallersTyped, Moved, CallReturns, IsAt
<1> QED BY <1>1, <1>2, <1>4

LEMMA MovedByCall ==
    ASSUME CallersTyped, NEW p \in Callers, NEW l, NEW m \in Labels, NEW b \in Labels, Calls(p, l, m, b)
    PROVE  pc[p] = l /\ Moved(p, op[p], m, <<b>> \o stack[p])
<1>1. <<b>> \o stack[p] \in Seq(Labels)
  BY ConcatProperties DEF CallersTyped
<1> QED
  BY <1>1 DEF CallersTyped, Moved, Calls, IsAt

LEMMA MovedByEnd ==
    ASSUME CallersTyped, NEW p \in Callers, CallerEnds(p)
    PROVE  Moved(p, "none", "idle", stack[p])
<1>1. "idle" \in Labels
  BY DEF Labels
<1> QED BY <1>1 DEF CallersTyped, Moved, CallerEnds

LEMMA MovedByBegin ==
    ASSUME CallersTyped, NEW p \in Callers, NEW o \in {"host", "region", "request"},
           NEW l \in Labels, NEW s \in Seq(Labels), NEW u, Begins(p, o, l, s, u)
    PROVE  op[p] = "none" /\ Moved(p, o, l, s)
BY DEF CallersTyped, Moved, Begins

Framing(p) == \E o, l, s : Moved(p, o, l, s) /\ Framed(o, l, s)

LEMMA LabelsKnown ==
    /\ InExe \cup Trials \cup OfHost \cup OfRegion \cup OfRequest \subseteq Labels
    /\ {"idle", "general", "transport", "pool"} \subseteq Labels
    /\ InExe \subseteq InCall /\ Trials \subseteq InCall
    /\ {"general", "transport", "pool"} \subseteq InCall
BY DEF Labels, InCall

LEMMA ReturnFraming ==
    ASSUME CallersTyped, Frames, NEW p \in Callers, NEW l \in InCall, CallReturns(p, l)
    PROVE  Framing(p)
<1>1. Framed(op[p], Head(stack[p]), Tail(stack[p]))
  BY ReturnFrame DEF CallReturns, IsAt, Frames
<1> QED BY <1>1, MovedByReturn DEF Framing

LEMMA EndFraming ==
    ASSUME CallersTyped, Frames, NEW p \in Callers, CallerEnds(p),
           pc[p] \in OfHost \cup OfRegion \cup OfRequest
    PROVE  Framing(p)
<1>1. stack[p] = <<>>
  BY Stacks DEF Frames
<1>2. Framed("none", "idle", <<>>)
  BY DEF Framed
<1> QED BY <1>1, <1>2, MovedByEnd DEF Framing

LEMMA JumpFraming ==
    ASSUME CallersTyped, Frames, NEW p \in Callers, NEW l, NEW m, Jumps(p, l, m),
           \/ \E T \in {InExe, Trials, OfHost, OfRegion, OfRequest} : l \in T /\ m \in T
    PROVE  Framing(p)
<1>1. m \in Labels /\ pc[p] = l
  BY LabelsKnown DEF Jumps, IsAt
<1>2. Framed(op[p], m, stack[p])
  <2>1. CASE l \in InExe /\ m \in InExe
    BY <1>1, <2>1, Stacks DEF Frames, Framed
  <2>2. CASE l \in Trials /\ m \in Trials
    BY <1>1, <2>2, Stacks DEF Frames, Framed
  <2>3. CASE l \in OfHost /\ m \in OfHost
    BY <1>1, <2>3, Stacks DEF Frames, Framed
  <2>4. CASE l \in OfRegion /\ m \in OfRegion
    BY <1>1, <2>4, Stacks DEF Frames, Framed
  <2>5. CASE l \in OfRequest /\ m \in OfRequest
    BY <1>1, <2>5, Stacks DEF Frames, Framed
  <2> QED BY <2>1, <2>2, <2>3, <2>4, <2>5
<1> QED BY <1>1, <1>2, MovedByJump DEF Framing

LEMMA CallFraming ==
    ASSUME CallersTyped, Frames, NEW p \in Callers, NEW l, NEW m \in Labels, NEW b \in Labels,
           Calls(p, l, m, b), Framed(op[p], m, <<b>> \o stack[p])
    PROVE  Framing(p)
BY MovedByCall DEF Framing

\* Every step leaves its caller with a stack that fits its place.
LEMMA FrameStep ==
    ASSUME CallersTyped, Frames, NEW p \in Callers, Begin(p) \/ CallerStep(p)
    PROVE  Framing(p)
<1> USE LabelsKnown
<1>1. CASE Begin(p)
  <2>1. \A x \in Labels : <<x>> \in Seq(Labels)
    OBVIOUS
  <2>2. <<>> \in Seq(Labels) /\ "exeRegion" \in Labels /\ "headers" \in Labels
        /\ "peek" \in Labels /\ "exe" \in Labels
    BY DEF OfRegion, OfRequest, OfHost, InExe
  <2>3. Framed("host", "peek", <<>>)
    BY DEF Framed, OfHost
  <2>4. Framed("region", "exe", <<"exeRegion">>)
    BY DEF Framed, AsksExe, InExe
  <2>5. Framed("request", "transport", <<"headers">>)
    BY DEF Framed, AsksTransport
  <2>6. CASE GetServerHost(p)
    BY <2>2, <2>3, <2>6, MovedByBegin DEF GetServerHost, Framing
  <2>7. CASE GetRegionId(p)
    BY <2>1, <2>2, <2>4, <2>7, MovedByBegin DEF GetRegionId, Framing
  <2>8. CASE Request(p)
    BY <2>1, <2>2, <2>5, <2>8, MovedByBegin DEF Request, Framing
  <2> QED BY <1>1, <2>6, <2>7, <2>8 DEF Begin
<1>2. CASE ExePeek(p) \/ ExeLock(p) \/ Provision(p)
  <2>1. {"exe", "exeLock", "provision"} = InExe
    BY DEF InExe
  <2> QED BY <1>2, <2>1, ReturnFraming, JumpFraming DEF ExePeek, ExeLock, Provision
<1>3. CASE Transport(p)
  <2>1. CASE CallReturns(p, "transport")
    BY <2>1, ReturnFraming
  <2>2. CASE Calls(p, "transport", "exe", "pool")
    <3>1. AsksTransport(op[p], stack[p])
      BY <2>2, Stacks DEF Calls, IsAt, Frames
    <3>2. "exe" \in Labels
      BY DEF InExe
    <3> QED BY <2>2, <3>1, <3>2, CallFrame, CallFraming
  <2> QED BY <1>3, <2>1, <2>2 DEF Transport
<1>4. CASE GetRootCAs(p)
  BY <1>4, ReturnFraming DEF GetRootCAs
<1>5. CASE ReadsFile(p)
  <2>1. CASE site.hosted
    BY <1>5, <2>1, ReturnFraming DEF ReadsFile
  <2>2. CASE ~site.hosted
    <3> DEFINE b == IF regionFile = "" THEN "meta" ELSE "fileDetect"
    <3>1. Calls(p, "general", "transport", b)
      BY <1>5, <2>2 DEF ReadsFile
    <3>2. \/ op[p] = "host" /\ stack[p] = <<"generalDomain">>
          \/ op[p] = "region" /\ stack[p] = <<"detected">>
      BY <3>1, Stacks DEF Calls, IsAt, Frames
    <3>3. b \in {"meta", "fileDetect"} /\ b \in Labels
      BY DEF Trials
    <3> HIDE DEF b
    <3>4. Framed(op[p], "transport", <<b>> \o stack[p])
      BY <3>2, <3>3, CallFrame
    <3> QED BY <3>1, <3>3, <3>4, CallFraming
  <2> QED BY <2>1, <2>2
<1>6. CASE FileDetect(p) \/ AskMeta(p) \/ MetaDetect(p) \/ AskKnown(p) \/ KnownDetect(p)
  <2>1. {"fileDetect", "meta", "metaDetect", "known", "knownDetect"} = Trials
    BY DEF Trials
  <2> QED BY <1>6, <2>1, ReturnFraming, JumpFraming
          DEF FileDetect, AskMeta, MetaDetect, AskKnown, KnownDetect
<1>7. CASE Peek(p)
  <2>1. {"peek", "write"} \subseteq OfHost
    BY DEF OfHost
  <2> QED BY <1>7, <2>1, JumpFraming, EndFraming DEF Peek, IsAt
<1>8. CASE Select(p)
  <2>1. op[p] = "host" /\ stack[p] = <<>>
    BY <1>8, Stacks DEF Select, Calls, IsAt, Frames, OfHost
  <2>2. "exe" \in Labels /\ "exeDomain" \in Labels
    BY DEF InExe, OfHost
  <2> QED BY <1>8, <2>1, <2>2, CallFrame, CallFraming DEF Select
<1>9. CASE ExeDomain(p)
  <2>1. {"exeDomain", "hybridDomain"} \subseteq OfHost
    BY DEF OfHost
  <2> QED BY <1>9, <2>1, JumpFraming, EndFraming DEF ExeDomain, Selected, IsAt
<1>10. CASE HybridDomain(p)
  <2>1. {"hybridDomain", "hybridName", "generalDomain"} \subseteq OfHost
    BY DEF OfHost
  <2>2. op[p] = "host" /\ stack[p] = <<>>
    BY <1>10, <2>1, Stacks DEF HybridDomain, IsAt, Frames
  <2>3. CASE site.hosted
    BY <1>10, <2>1, <2>3, EndFraming DEF HybridDomain, Selected, IsAt
  <2>4. CASE ~site.hosted /\ site.hybrid
    <3>1. Calls(p, "hybridDomain", "transport", "hybridName")
      BY <1>10, <2>4 DEF HybridDomain
    <3> QED BY <2>1, <2>2, <3>1, CallFrame, CallFraming
  <2>5. CASE ~site.hosted /\ ~site.hybrid
    <3>1. Calls(p, "hybridDomain", "general", "generalDomain")
      BY <1>10, <2>5 DEF HybridDomain
    <3> QED BY <2>1, <2>2, <3>1, CallFrame, CallFraming
  <2> QED BY <2>3, <2>4, <2>5
<1>11. CASE HybridName(p) \/ GeneralDomain(p)
  <2>1. {"hybridName", "generalDomain"} \subseteq OfHost
    BY DEF OfHost
  <2> QED BY <1>11, <2>1, EndFraming DEF HybridName, GeneralDomain, Selected, IsAt
<1>12. CASE ExeRegion(p) \/ HybridRegion(p) \/ Detected(p)
  <2>1. {"exeRegion", "hybridRegion", "generalRegion", "detected"} = OfRegion
    BY DEF OfRegion
  <2> QED BY <1>12, <2>1, EndFraming, JumpFraming DEF ExeRegion, HybridRegion, Detected, Answers, IsAt
<1>13. CASE GeneralRegion(p)
  <2>1. {"generalRegion", "detected"} \subseteq OfRegion
    BY DEF OfRegion
  <2>2. op[p] = "region" /\ stack[p] = <<>>
    BY <1>13, <2>1, Stacks DEF GeneralRegion, IsAt, Frames
  <2>3. CASE general # None
    BY <1>13, <2>1, <2>3, EndFraming DEF GeneralRegion, Answers, IsAt
  <2>4. CASE general = None
    <3>1. Calls(p, "generalRegion", "general", "detected")
      BY <1>13, <2>4 DEF GeneralRegion
    <3> QED BY <2>1, <2>2, <3>1, CallFrame, CallFraming
  <2> QED BY <2>3, <2>4
<1>14. CASE Headers(p) \/ AskInstance(p) \/ Instance(p)
  <2>1. {"headers", "instance"} = OfRequest
    BY DEF OfRequest
  <2> QED BY <1>14, <2>1, EndFraming, JumpFraming DEF Headers, AskInstance, Instance, Sends, IsAt
<1> QED
  BY <1>1, <1>2, <1>3, <1>4, <1>5, <1>6, <1>7, <1>8, <1>9, <1>10, <1>11, <1>12, <1>13, <1>14
     DEF CallerStep, Detection

\* Which steps change what.
LEMMA WhatChanges ==
    ASSUME NEW p \in Callers, Begin(p) \/ CallerStep(p)
    PROVE  /\ \/ UNCHANGED <<domain, selected>>
              \/ ExeDomain(p) \/ HybridDomain(p) \/ HybridName(p) \/ GeneralDomain(p)
           /\ \/ UNCHANGED region
              \/ ExeRegion(p) \/ HybridRegion(p) \/ GeneralRegion(p) \/ Detected(p)
           /\ \/ UNCHANGED <<general, saving>>
              \/ FileDetect(p) \/ MetaDetect(p) \/ KnownDetect(p)
           /\ UNCHANGED provision \/ Provision(p)
           /\ UNCHANGED <<site, regionFile, restarts>>
           /\ UNCHANGED sent \/ Headers(p) \/ Instance(p)
           /\ UNCHANGED pool \/ GetRootCAs(p)
           /\ UNCHANGED instance \/ Instance(p)
           /\ hitches' = hitches \/ (hitches < MaxHitches /\ hitches' = hitches + 1)
           /\ \/ UNCHANGED found \/ Begin(p)
              \/ ReadsFile(p) \/ AskMeta(p) \/ AskKnown(p) \/ CallerEnds(p)
           /\ UNCHANGED op \/ Begin(p) \/ CallerEnds(p)
<1> USE DEF answered, provision, machine, requests, NoHitch, Hitch, Stores, Misses, Jumps, Calls,
            CallReturns, Selected, Answers, Sends
<1>1. CASE Begin(p)
  BY <1>1 DEF Begin, GetServerHost, GetRegionId, Request, Begins
<1>2. CASE ExePeek(p) \/ ExeLock(p)
  BY <1>2 DEF ExePeek, ExeLock
<1>3. CASE Provision(p)
  BY <1>3 DEF Provision
<1>4. CASE Transport(p) \/ GetRootCAs(p)
  BY <1>4 DEF Transport, GetRootCAs
<1>5. CASE ReadsFile(p)
  BY <1>5 DEF ReadsFile
<1>6. CASE FileDetect(p)
  BY <1>6 DEF FileDetect
<1>7. CASE AskMeta(p) \/ AskKnown(p)
  BY <1>7 DEF AskMeta, AskKnown
<1>8. CASE MetaDetect(p)
  BY <1>8 DEF MetaDetect
<1>9. CASE KnownDetect(p)
  BY <1>9 DEF KnownDetect
<1>10. CASE Peek(p) \/ Select(p)
  BY <1>10 DEF Peek, Select
<1>11. CASE ExeDomain(p)
  BY <1>11 DEF ExeDomain
<1>12. CASE HybridDomain(p) \/ HybridName(p) \/ GeneralDomain(p)
  BY <1>12 DEF HybridDomain, HybridName, GeneralDomain
<1>13. CASE ExeRegion(p) \/ HybridRegion(p)
  BY <1>13 DEF ExeRegion, HybridRegion
<1>14. CASE GeneralRegion(p) \/ Detected(p)
  BY <1>14 DEF GeneralRegion, Detected
<1>15. CASE Headers(p)
  BY <1>15 DEF Headers
<1>16. CASE AskInstance(p) \/ Instance(p)
  BY <1>16 DEF AskInstance, Instance
<1> QED
  BY <1>1, <1>2, <1>3, <1>4, <1>5, <1>6, <1>7, <1>8, <1>9, <1>10, <1>11, <1>12, <1>13, <1>14,
     <1>15, <1>16, Zenon DEF CallerStep, Detection

\* Where a caller gets to only in one way.
LEMMA Arrivals ==
    ASSUME CallersTyped, Frames, NEW p \in Callers, Begin(p) \/ CallerStep(p)
    PROVE  /\ pc'[p] = "provision" => ExeLock(p) /\ path = "unknown"
           /\ pc'[p] = "instance" => AskInstance(p)
           /\ pc'[p] = "general" => op'[p] = "region" \/ ~site.hosted
           /\ pc'[p] = "peek" => GetServerHost(p)
           /\ pc'[p] = "write" => selected = None
           /\ pc'[p] = "metaDetect" => AskMeta(p)
           /\ pc'[p] = "known" => AskMeta(p) \/ MetaDetect(p) \/ KnownDetect(p)
           /\ pc'[p] = "knownDetect" => AskKnown(p)
           /\ pc'[p] = "meta" => OnStack("meta", stack[p]) \/ FileDetect(p)
<1> DEFINE Goal ==
           /\ pc'[p] = "provision" => ExeLock(p) /\ path = "unknown"
           /\ pc'[p] = "instance" => AskInstance(p)
           /\ pc'[p] = "general" => op'[p] = "region" \/ ~site.hosted
           /\ pc'[p] = "peek" => GetServerHost(p)
           /\ pc'[p] = "write" => selected = None
           /\ pc'[p] = "metaDetect" => AskMeta(p)
           /\ pc'[p] = "known" => AskMeta(p) \/ MetaDetect(p) \/ KnownDetect(p)
           /\ pc'[p] = "knownDetect" => AskKnown(p)
           /\ pc'[p] = "meta" => OnStack("meta", stack[p]) \/ FileDetect(p)
<1> SUFFICES Goal
  OBVIOUS
<1>1. ASSUME NEW l \in InCall, CallReturns(p, l) PROVE Goal
  <2>1. pc'[p] = Head(stack[p]) /\ Head(stack[p]) \in Backs /\ stack[p] # <<>>
    BY <1>1, MovedByReturn DEF Moved
  <2>2. stack[p] \in Seq(Labels)
    BY DEF CallersTyped
  <2>3. pc'[p] = "meta" => OnStack("meta", stack[p])
    BY <2>1, <2>2, PopOn
  <2> QED BY <2>1, <2>3 DEF Backs
<1>2. \A l \in InCall : CallReturns(p, l) => Goal
  BY <1>1
<1>3. /\ \A l, m : Jumps(p, l, m) => pc'[p] = m
      /\ \A l, m, b : Calls(p, l, m, b) => pc'[p] = m
      /\ CallerEnds(p) => pc'[p] = "idle"
  BY DEF Jumps, Calls, CallerEnds, CallersTyped
<1> HIDE DEF Goal
<1>4. CASE Begin(p)
  <2>1. pc'[p] \in {"peek", "exe", "transport"} /\ (pc'[p] = "peek" => GetServerHost(p))
    BY <1>4 DEF Begin, GetServerHost, GetRegionId, Request, Begins, CallersTyped
  <2> QED BY <2>1 DEF Goal
<1>5. CASE ExePeek(p)
  BY <1>2, <1>3, <1>5, LabelsKnown DEF ExePeek, Goal, InExe
<1>6. CASE ExeLock(p)
  BY <1>2, <1>3, <1>6, LabelsKnown DEF ExeLock, Goal, InExe
<1>7. CASE Provision(p)
  BY <1>2, <1>7, LabelsKnown DEF Provision, InExe
<1>8. CASE Transport(p) \/ GetRootCAs(p)
  BY <1>2, <1>3, <1>8, LabelsKnown DEF Transport, GetRootCAs, Goal
<1>9. CASE ReadsFile(p)
  BY <1>2, <1>3, <1>9, LabelsKnown DEF ReadsFile, Goal
<1>10. CASE FileDetect(p)
  BY <1>2, <1>3, <1>10, LabelsKnown DEF FileDetect, Goal, Trials
<1>11. CASE AskMeta(p)
  BY <1>3, <1>11 DEF AskMeta, Goal
<1>12. CASE MetaDetect(p)
  BY <1>2, <1>3, <1>12, LabelsKnown DEF MetaDetect, Goal, Trials
<1>13. CASE AskKnown(p)
  BY <1>2, <1>3, <1>13, LabelsKnown DEF AskKnown, Goal, Trials
<1>14. CASE KnownDetect(p)
  BY <1>2, <1>3, <1>14, LabelsKnown DEF KnownDetect, Goal, Trials
<1>15. CASE Peek(p)
  BY <1>3, <1>15 DEF Peek, Goal
<1>16. CASE Select(p) \/ ExeDomain(p)
  BY <1>3, <1>16 DEF Select, ExeDomain, Selected, Goal
<1>17. CASE HybridDomain(p)
  BY <1>3, <1>17 DEF HybridDomain, Selected, Goal
<1>18. CASE HybridName(p) \/ GeneralDomain(p)
  BY <1>3, <1>18 DEF HybridName, GeneralDomain, Selected, Goal
<1>19. CASE ExeRegion(p) \/ HybridRegion(p) \/ Detected(p)
  BY <1>3, <1>19 DEF ExeRegion, HybridRegion, Detected, Answers, Goal
<1>20. CASE GeneralRegion(p)
  <2>1. op[p] = "region"
    BY <1>20, Stacks DEF GeneralRegion, Calls, Answers, IsAt, Frames, OfRegion
  <2>2. Calls(p, "generalRegion", "general", "detected") => op'[p] = "region"
    BY <2>1 DEF Calls
  <2> QED BY <1>3, <1>20, <2>2 DEF GeneralRegion, Answers, Goal
<1>21. CASE Headers(p) \/ Instance(p)
  BY <1>3, <1>21 DEF Headers, Instance, Sends, Goal
<1>22. CASE AskInstance(p)
  BY <1>3, <1>22 DEF AskInstance, Goal
<1> QED
  BY <1>4, <1>5, <1>6, <1>7, <1>8, <1>9, <1>10, <1>11, <1>12, <1>13, <1>14, <1>15, <1>16, <1>17,
     <1>18, <1>19, <1>20, <1>21, <1>22, Zenon DEF CallerStep, Detection

LEMMA PeekFirst ==
    ASSUME Frames, NEW p \in Callers, Begin(p) \/ CallerStep(p), pc[p] = "peek"
    PROVE  Peek(p)
<1> USE DEF IsAt, Jumps, Calls, CallReturns
<1>1. ~Begin(p)
  <2>1. op[p] = "host"
    BY Stacks DEF Frames, OfHost
  <2> QED BY <2>1 DEF Begin, GetServerHost, GetRegionId, Request, Begins
<1>2. ~(ExePeek(p) \/ ExeLock(p) \/ Provision(p) \/ Transport(p) \/ GetRootCAs(p))
  BY DEF ExePeek, ExeLock, Provision, Transport, GetRootCAs
<1>3. ~Detection(p)
  BY DEF Detection, ReadsFile, FileDetect, AskMeta, MetaDetect, AskKnown, KnownDetect
<1>4. ~(Select(p) \/ ExeDomain(p) \/ HybridDomain(p) \/ HybridName(p) \/ GeneralDomain(p))
  BY DEF Select, ExeDomain, HybridDomain, HybridName, GeneralDomain
<1>5. ~(ExeRegion(p) \/ HybridRegion(p) \/ GeneralRegion(p) \/ Detected(p))
  BY DEF ExeRegion, HybridRegion, GeneralRegion, Detected
<1>6. ~(Headers(p) \/ AskInstance(p) \/ Instance(p))
  BY DEF Headers, AskInstance, Instance
<1> QED BY <1>1, <1>2, <1>3, <1>4, <1>5, <1>6 DEF CallerStep

LEMMA HostAnswers ==
    ASSUME CallersTyped, Frames, NEW p \in Callers, Begin(p) \/ CallerStep(p)
    PROVE  UNCHANGED <<domain, selected>> \/ (op[p] = "host" /\ CallerEnds(p))
<1>1. pc[p] \in OfHost => op[p] = "host"
  BY Stacks DEF Frames
<1>2. ExeDomain(p) => UNCHANGED <<domain, selected>> \/ (op[p] = "host" /\ CallerEnds(p))
  BY <1>1 DEF ExeDomain, IsAt, OfHost, Selected, answered
<1>3. HybridDomain(p) => UNCHANGED <<domain, selected>> \/ (op[p] = "host" /\ CallerEnds(p))
  BY <1>1 DEF HybridDomain, IsAt, OfHost, Selected, answered
<1>4. HybridName(p) => op[p] = "host" /\ CallerEnds(p)
  BY <1>1 DEF HybridName, IsAt, OfHost, Selected
<1>5. GeneralDomain(p) => op[p] = "host" /\ CallerEnds(p)
  BY <1>1 DEF GeneralDomain, IsAt, OfHost, Selected
<1> QED BY <1>2, <1>3, <1>4, <1>5, WhatChanges

LEMMA OtherCallersStay ==
    ASSUME CallersTyped, Frames, NEW p \in Callers, Begin(p) \/ CallerStep(p), NEW q \in Callers, q # p
    PROVE  op'[q] = op[q] /\ pc'[q] = pc[q] /\ stack'[q] = stack[q] /\ found'[q] = found[q]
<1>1. op'[q] = op[q] /\ pc'[q] = pc[q] /\ stack'[q] = stack[q]
  BY FrameStep DEF Framing, Moved
<1>2. found'[q] = found[q]
  <2>1. Begin(p) => found'[q] = found[q]
    BY DEF Begin, GetServerHost, GetRegionId, Request, Begins, CallersTyped
  <2>2. CallerEnds(p) => found'[q] = found[q]
    BY DEF CallerEnds, CallersTyped
  <2>3. ReadsFile(p) \/ AskMeta(p) \/ AskKnown(p) => found'[q] = found[q]
    BY DEF ReadsFile, AskMeta, AskKnown, CallersTyped
  <2> QED BY <2>1, <2>2, <2>3, WhatChanges
<1> QED BY <1>1, <1>2

LEMMA RegionsKnown ==
    /\ {Here, Registered, Given, Named, None, ""} \subseteq Regions
    /\ \A w \in Worlds : w.file \in Regions /\ w.reachable \subseteq Regions
BY DEF Regions

LEMMA CallersTypedStep ==
    ASSUME ApiAssumption, CallersTyped, Frames, site \in WorldType, regionFile \in Regions, domain \in Regions,
           NEW p \in Callers, Begin(p) \/ CallerStep(p)
    PROVE  CallersTyped' /\ Frames'
<1>1. op' \in [Callers -> {"none", "host", "region", "request"}] /\ pc' \in [Callers -> Labels]
      /\ stack' \in [Callers -> Seq(Labels)]
  BY FrameStep DEF Framing, Moved
<1>2. found' \in [Callers -> Regions]
  <2>1. {None, Named, Here, domain, regionFile} \subseteq Regions
    BY RegionsKnown
  <2>2. Begin(p) => found' \in [Callers -> Regions]
    BY <2>1 DEF Begin, GetServerHost, GetRegionId, Request, Begins, CallersTyped
  <2>3. CallerEnds(p) => found' \in [Callers -> Regions]
    BY <2>1 DEF CallerEnds, CallersTyped
  <2>4. ReadsFile(p) \/ AskMeta(p) \/ AskKnown(p) => found' \in [Callers -> Regions]
    BY <2>1 DEF ReadsFile, AskMeta, AskKnown, CallersTyped
  <2> QED BY <2>2, <2>3, <2>4, WhatChanges DEF CallersTyped
<1>3. Frames'
  <2> SUFFICES ASSUME NEW q \in Callers PROVE Framed(op'[q], pc'[q], stack'[q])
    BY DEF Frames
  <2>1. CASE q = p
    BY <2>1, FrameStep DEF Framing, Moved
  <2>2. CASE q # p
    BY <2>2, OtherCallersStay DEF Frames
  <2> QED BY <2>1, <2>2
<1> QED BY <1>1, <1>2, <1>3 DEF CallersTyped

LEMMA OneSelectingStep ==
    ASSUME CallersTyped, Frames, OneSelecting, NEW p \in Callers, Begin(p) \/ CallerStep(p)
    PROVE  OneSelecting'
<1>1. op'[p] = "host" => op[p] = "host" \/ GetServerHost(p)
  <2>1. Begin(p) /\ op'[p] = "host" => GetServerHost(p)
    BY DEF Begin, GetServerHost, GetRegionId, Request, Begins, CallersTyped
  <2>2. CallerEnds(p) => op'[p] = "none"
    BY DEF CallerEnds, CallersTyped
  <2> QED BY <2>1, <2>2, WhatChanges
<1>2. GetServerHost(p) => /\ domain = None /\ \A q \in Callers : op[q] # "host"
                          /\ pc'[p] = "peek" /\ UNCHANGED <<domain, selected, site>>
  BY DEF GetServerHost, Begins, answered, machine, CallersTyped
<1>3. UNCHANGED site
  BY WhatChanges
<1>4. ASSUME op'[p] = "host", op[p] = "host"
      PROVE  pc'[p] # "peek" /\ selected = None /\ domain = None /\ UNCHANGED <<domain, selected>>
             /\ (pc'[p] = "general" => ~site.hosted)
  <2>1. pc'[p] # "peek" /\ (pc'[p] = "general" => ~site.hosted)
    BY <1>2, <1>4, Arrivals
  <2>2. UNCHANGED <<domain, selected>>
    BY <1>4, HostAnswers DEF CallerEnds, CallersTyped
  <2>3. selected = None
    <3>1. CASE pc[p] = "peek"
      BY <1>4, <3>1, PeekFirst DEF Peek, CallerEnds, CallersTyped
    <3>2. CASE pc[p] # "peek"
      BY <1>4, <3>2 DEF OneSelecting
    <3> QED BY <3>1, <3>2
  <2> QED BY <1>4, <2>1, <2>2, <2>3 DEF OneSelecting
<1>5. \A q \in Callers : q # p /\ op[q] = "host" => op[p] # "host" /\ op'[p] # "host" /\ UNCHANGED <<domain, selected>>
  BY <1>1, <1>2, HostAnswers DEF OneSelecting
<1>6. \A q \in Callers : q # p => op'[q] = op[q] /\ pc'[q] = pc[q]
  BY OtherCallersStay
<1>7. \A q, r \in Callers : op'[q] = "host" /\ op'[r] = "host" => q = r
  BY <1>5, <1>6 DEF OneSelecting
<1>8. ASSUME NEW q \in Callers, op'[q] = "host"
      PROVE  domain' = None /\ (pc'[q] # "peek" => selected' = None) /\ (pc'[q] = "general" => ~site'.hosted)
  <2>1. CASE q # p
    BY <1>3, <1>5, <1>6, <1>8, <2>1 DEF OneSelecting
  <2>2. CASE q = p
    BY <1>1, <1>2, <1>3, <1>4, <1>8, <2>2
  <2> QED BY <2>1, <2>2
<1> QED BY <1>7, <1>8 DEF OneSelecting

LEMMA OneRunStep ==
    ASSUME CallersTyped, Frames, OneRun, NEW p \in Callers, Begin(p) \/ CallerStep(p)
    PROVE  OneRun'
<1>1. \A q \in Callers : q # p => pc'[q] = pc[q]
  BY OtherCallersStay
<1>2. CASE Provision(p)
  <2>1. pc[p] = "provision" /\ pc'[p] # "provision"
    BY <1>2, Arrivals DEF Provision, CallReturns, IsAt, ExeLock, Jumps
  <2>2. \A q \in Callers : pc'[q] # "provision"
    BY <1>1, <2>1 DEF OneRun
  <2>3. /\ runs' \in 0 .. 1 /\ (provisioned' => site'.exe) /\ path' # "unknown"
    BY <1>2, <2>1 DEF Provision, machine, OneRun
  <2> QED BY <2>2, <2>3 DEF OneRun
<1>3. CASE UNCHANGED provision
  <2>1. UNCHANGED <<path, provisioned, runs, site>>
    BY <1>3, WhatChanges DEF provision
  <2>2. pc'[p] = "provision" => path = "unknown" /\ \A q \in Callers : pc[q] # "provision"
    BY Arrivals DEF ExeLock, Provisioning, IsAt
  <2> QED BY <1>1, <2>1, <2>2 DEF OneRun
<1> QED BY <1>2, <1>3, WhatChanges

\* The invariant: the machine, what is answered, kept, in the file; and the above.
Placed ==
    /\ site \in WorldType /\ site.reachable \subseteq Regions /\ site.file \in Regions
    /\ Here \in site.reachable

LEMMA ReachedIsNamed ==
    ASSUME ApiAssumption, Placed PROVE None \notin site.reachable
BY DEF ApiAssumption, Placed, WorldType

LEMMA NamesApart ==
    ASSUME ApiAssumption
    PROVE  None \notin Providers /\ {Given, Named, Registered} \subseteq STRING /\ None \notin {Given, Named, Registered}
BY DEF ApiAssumption

\* The call goes on while it has somewhere to return to.
LEMMA OpStays ==
    ASSUME Frames, NEW p \in Callers, Begin(p) \/ CallerStep(p), pc[p] \in InCall
    PROVE  op' = op /\ op[p] # "none" /\ ~Begin(p)
<1> USE DEF IsAt, Jumps, Calls, CallReturns
<1>0. op[p] # "none"
  BY FrameTyped DEF Frames, InCall, InExe, Trials
<1>1. ~Begin(p)
  BY <1>0 DEF Begin, GetServerHost, GetRegionId, Request, Begins
<1>2. ExePeek(p) \/ ExeLock(p) \/ Provision(p) \/ Transport(p) \/ GetRootCAs(p) => op' = op
  BY DEF ExePeek, ExeLock, Provision, Transport, GetRootCAs
<1>3. Detection(p) => op' = op
  BY DEF Detection, ReadsFile, FileDetect, AskMeta, MetaDetect, AskKnown, KnownDetect
<1>4. /\ pc[p] \notin {"peek", "write", "exeDomain", "hybridDomain", "hybridName", "generalDomain"}
      /\ pc[p] \notin {"exeRegion", "hybridRegion", "generalRegion", "detected", "headers", "instance"}
  BY DEF InCall, InExe, Trials
<1>5. ~(Peek(p) \/ Select(p) \/ ExeDomain(p) \/ HybridDomain(p) \/ HybridName(p) \/ GeneralDomain(p))
  BY <1>4 DEF Peek, Select, ExeDomain, HybridDomain, HybridName, GeneralDomain
<1>6. ~(ExeRegion(p) \/ HybridRegion(p) \/ GeneralRegion(p) \/ Detected(p))
  BY <1>4 DEF ExeRegion, HybridRegion, GeneralRegion, Detected
<1>7. ~(Headers(p) \/ AskInstance(p) \/ Instance(p))
  BY <1>4 DEF Headers, AskInstance, Instance
<1> QED BY <1>0, <1>1, <1>2, <1>3, <1>5, <1>6, <1>7 DEF CallerStep

\* What a caller found stays as it is while it waits to be called back.
LEMMA FoundStays ==
    ASSUME CallersTyped, Frames, NEW p \in Callers, Begin(p) \/ CallerStep(p),
           op'[p] = "request" \/ pc[p] \in InExe \cup {"transport", "pool", "fileDetect", "metaDetect", "knownDetect"}
    PROVE  found'[p] = found[p] \/ Request(p)
<1>1. ASSUME Begin(p) PROVE found'[p] = found[p] \/ Request(p)
  <2>1. op[p] = "none" /\ pc[p] = "idle"
    BY <1>1, FrameTyped DEF Begin, GetServerHost, GetRegionId, Request, Begins, Frames
  <2>2. op'[p] = "request"
    BY <2>1 DEF InExe
  <2> QED BY <1>1, <2>2 DEF Begin, GetServerHost, GetRegionId, Begins, CallersTyped
<1>2. ASSUME CallerEnds(p) PROVE op'[p] = "none" /\ pc'[p] = "idle"
  BY <1>2 DEF CallerEnds, CallersTyped
<1>3. ASSUME ReadsFile(p) \/ AskMeta(p) \/ AskKnown(p) PROVE FALSE
  <2>1. pc[p] \in {"general", "meta", "known"}
    BY <1>3 DEF ReadsFile, AskMeta, AskKnown, Jumps, Calls, CallReturns, IsAt
  <2>2. op[p] # "request"
    BY <2>1, Stacks DEF Frames, Trials
  <2>3. op'[p] = op[p]
    BY <1>3 DEF ReadsFile, AskMeta, AskKnown, Jumps, Calls, CallReturns
  <2> QED BY <2>1, <2>2, <2>3 DEF InExe
<1>4. ASSUME CallerEnds(p) PROVE FALSE
  <2>1. pc[p] \in InCall
    BY <1>2, <1>4 DEF InCall, Trials
  <2> QED BY <1>2, <1>4, <2>1, OpStays
<1> QED BY <1>1, <1>3, <1>4, WhatChanges DEF CallersTyped

\* What a caller has found when it decides which server, or which region, is named.
LEMMA ServerStep ==
    ASSUME ApiAssumption, CallersTyped, Frames, Placed, OneSelecting, NamedBy, Sought,
           NEW p \in Callers, Begin(p) \/ CallerStep(p)
    PROVE  /\ NamedBy'
           /\ domain # None => UNCHANGED <<domain, selected>>
           /\ general # None => general' # None
<1> DEFINE Goal == /\ selected' = "exe" => domain' \in {None, Given}
                   /\ selected' = "hybrid" => domain' \in {Registered, Named}
                   /\ selected' = "general" => domain' \in site.reachable /\ general # None
                   /\ selected' = None => domain' = None
<1>1. Goal
  <2>1. CASE UNCHANGED <<domain, selected>>
    BY <2>1 DEF NamedBy
  <2>2. CASE ExeDomain(p)
    <3>1. CASE provisioned
      <4>1. selected' = "exe" /\ domain' \in {None, Given}
        BY <2>2, <3>1 DEF ExeDomain, Selected
      <4> QED BY <4>1, NamesApart DEF Providers
    <3>2. CASE ~provisioned
      BY <2>1, <2>2, <3>2 DEF ExeDomain, answered
    <3> QED BY <3>1, <3>2
  <2>3. CASE HybridDomain(p)
    <3>1. CASE site.hosted
      <4>1. selected' = "hybrid" /\ domain' = Named
        BY <2>3, <3>1 DEF HybridDomain, Selected
      <4> QED BY <4>1, NamesApart DEF Providers
    <3>2. CASE ~site.hosted
      BY <2>1, <2>3, <3>2 DEF HybridDomain, answered
    <3> QED BY <3>1, <3>2
  <2>4. CASE HybridName(p)
    <3>1. selected' = "hybrid" /\ domain' = Registered
      BY <2>4 DEF HybridName, Selected
    <3> QED BY <3>1, NamesApart DEF Providers
  <2>5. CASE GeneralDomain(p)
    <3>1. CASE found[p] # None
      <4>1. selected' = "general" /\ domain' = found[p] /\ pc[p] = "generalDomain"
        BY <2>5, <3>1 DEF GeneralDomain, Selected, IsAt
      <4>2. found[p] \in site.reachable /\ general # None
        BY <3>1, <4>1 DEF Sought
      <4> QED BY <4>1, <4>2, NamesApart DEF Providers
    <3>2. CASE found[p] = None
      BY <2>1, <2>5, <3>2 DEF GeneralDomain, answered
    <3> QED BY <3>1, <3>2
  <2> HIDE DEF Goal
  <2> QED BY <2>1, <2>2, <2>3, <2>4, <2>5, WhatChanges
<1>2. general # None => general' # None
  <2>1. FileDetect(p) \/ MetaDetect(p) \/ KnownDetect(p) =>
           UNCHANGED general \/ (general' = found[p] /\ found[p] \in site.reachable)
    BY DEF FileDetect, MetaDetect, KnownDetect, Misses, Stores, Detects, answered
  <2> QED BY <2>1, ReachedIsNamed, WhatChanges
<1>3. domain # None => UNCHANGED <<domain, selected>>
  BY HostAnswers DEF OneSelecting
<1>4. UNCHANGED site
  BY WhatChanges
<1>5. NamedBy'
  BY <1>1, <1>2, <1>4 DEF NamedBy
<1> QED BY <1>2, <1>3, <1>5

LEMMA RequestedStep ==
    ASSUME ApiAssumption, CallersTyped, Frames, Placed, OneSelecting, NamedBy, Sought, Requested,
           NEW p \in Callers, Begin(p) \/ CallerStep(p)
    PROVE  Requested'
<1> SUFFICES ASSUME NEW q \in Callers
             PROVE  /\ op'[q] = "request" => found'[q] = domain' /\ domain' # None
                    /\ pc'[q] = "instance" => selected' = "general"
    BY DEF Requested
<1>1. domain # None => UNCHANGED <<domain, selected>>
  BY ServerStep
<1>2. CASE q # p
  <2>1. op'[q] = op[q] /\ pc'[q] = pc[q] /\ found'[q] = found[q]
    BY <1>2, OtherCallersStay
  <2>2. pc[q] = "instance" => op[q] = "request"
    BY Stacks DEF Frames, OfRequest
  <2> QED BY <1>1, <2>1, <2>2 DEF Requested
<1>3. CASE q = p
  <2>1. Request(p) => found'[p] = domain /\ domain # None /\ UNCHANGED domain
    BY DEF Request, Begins, CallersTyped, answered
  <2>2. op'[p] = "request" => op[p] = "request" \/ Request(p)
    <3>1. Begin(p) /\ op'[p] = "request" => Request(p)
      BY DEF Begin, GetServerHost, GetRegionId, Begins, CallersTyped
    <3>2. CallerEnds(p) => op'[p] = "none"
      BY DEF CallerEnds, CallersTyped
    <3> QED BY <3>1, <3>2, WhatChanges
  <2>3. op'[p] = "request" => found'[p] = domain' /\ domain' # None
    BY <1>1, <2>1, <2>2, FoundStays DEF Requested
  <2>4. AskInstance(p) => UNCHANGED selected /\ selected = "general"
    BY DEF AskInstance, answered
  <2> QED BY <1>3, <2>3, <2>4, Arrivals
<1> QED BY <1>2, <1>3

LEMMA HeadersStep ==
    ASSUME ApiAssumption, CallersTyped, Frames, Placed, NamedBy, Requested, HeadersOfServer,
           selected \in Providers \cup {None}, NEW p \in Callers, Begin(p) \/ CallerStep(p)
    PROVE  HeadersOfServer'
<1>1. UNCHANGED site
  BY WhatChanges
<1>2. CASE UNCHANGED sent
  BY <1>1, <1>2 DEF HeadersOfServer
<1>3. ASSUME NEW by, sent' = <<found[p], by>>, op[p] = "request",
             \/ by = selected /\ selected \in Providers
             \/ by = None /\ selected \notin {"exe", "general"}
      PROVE  HeadersOfServer'
  <2>1. sent'[1] = domain /\ sent'[2] = by /\ domain # None
    BY <1>3 DEF Requested
  <2>2. selected # None /\ None \notin Providers
    BY <2>1, NamesApart DEF NamedBy
  <2>3. CASE by = "exe"
    BY <1>3, <2>1, <2>2, <2>3 DEF Providers, HeadersOfServer, NamedBy
  <2>4. CASE by = "hybrid"
    BY <1>3, <2>1, <2>2, <2>4 DEF Providers, HeadersOfServer, NamedBy
  <2>5. CASE by = "general"
    BY <1>1, <1>3, <2>1, <2>2, <2>5 DEF Providers, HeadersOfServer, NamedBy
  <2>6. CASE by = None
    BY <1>3, <2>1, <2>2, <2>6 DEF Providers, HeadersOfServer, NamedBy
  <2> QED BY <1>3, <2>3, <2>4, <2>5, <2>6 DEF Providers
<1>4. pc[p] \in {"headers", "instance"} => op[p] = "request"
  BY Stacks DEF Frames, OfRequest
<1>5. CASE Headers(p)
  <2>1. PICK by : /\ sent' = <<found[p], by>>
                  /\ \/ by = selected /\ (selected = "general" => general # None)
                     \/ by = None /\ selected # "exe" /\ (selected = "general" => general = None)
    BY <1>5 DEF Headers, Sends
  <2>2. selected # None
    BY <1>4, <1>5 DEF Headers, IsAt, Requested, NamedBy
  <2>3. selected = "general" => general # None
    BY DEF NamedBy
  <2> QED BY <1>3, <1>4, <1>5, <2>1, <2>2, <2>3 DEF Headers, IsAt
<1>6. CASE Instance(p)
  <2>1. sent' = <<found[p], selected>> /\ selected = "general" /\ pc[p] = "instance"
    BY <1>6 DEF Instance, Sends, Requested, IsAt
  <2> QED BY <1>3, <1>4, <2>1 DEF Providers
<1> QED BY <1>2, <1>5, <1>6, WhatChanges

LEMMA HeadingStack ==
    ASSUME NEW p, NEW x PROVE Heading(p, x) <=> pc[p] = x \/ OnStack(x, stack[p])
BY DEF Heading, OnStack

LEMMA HeadingStackNext ==
    ASSUME NEW p, NEW x PROVE Heading(p, x)' <=> pc'[p] = x \/ OnStack(x, stack'[p])
BY DEF Heading, OnStack

LEMMA WaitsInCall ==
    ASSUME Frames, NEW p \in Callers, NEW x \in {"meta", "fileDetect"}, OnStack(x, stack[p])
    PROVE  pc[p] \in InExe \cup {"transport", "pool"}
<1>1. CASE pc[p] \in Trials \cup {"general"}
  BY <1>1, Stacks, OnShort DEF Frames
<1>2. CASE pc[p] \in OfHost \cup OfRegion \cup OfRequest \cup {"idle"}
  BY <1>2, Stacks, OnShort DEF Frames
<1> QED BY <1>1, <1>2, FrameTyped DEF Frames, Labels

\* A trial is headed for by whoever reads the file, and by nobody else.
LEMMA HeadingStep ==
    ASSUME CallersTyped, Frames, NEW p \in Callers, Begin(p) \/ CallerStep(p),
           NEW x \in {"meta", "fileDetect"}, Heading(p, x)'
    PROVE  OnStack(x, stack[p]) \/ ReadsFile(p) \/ (x = "meta" /\ FileDetect(p))
<1> DEFINE Goal == OnStack(x, stack[p]) \/ ReadsFile(p) \/ (x = "meta" /\ FileDetect(p))
<1>h. pc'[p] = x \/ OnStack(x, stack'[p])
  BY HeadingStackNext
<1>t. stack[p] \in Seq(Labels)
  BY DEF CallersTyped
<1>1. \A l \in InCall : CallReturns(p, l) => Goal
  <2> SUFFICES ASSUME NEW l \in InCall, CallReturns(p, l) PROVE OnStack(x, stack[p])
    OBVIOUS
  <2>1. pc'[p] = Head(stack[p]) /\ stack'[p] = Tail(stack[p]) /\ stack[p] # <<>>
    BY MovedByReturn DEF Moved
  <2> QED BY <1>h, <1>t, <2>1, PopOn
<1>2. ASSUME NEW l, NEW m \in Labels \ {x}, Jumps(p, l, m) PROVE Goal
  BY <1>h, <1>2, MovedByJump DEF Moved
<1>3. ASSUME NEW l, NEW m \in Labels \ {x}, NEW b \in Labels \ {x}, Calls(p, l, m, b) PROVE Goal
  <2>1. pc'[p] = m /\ stack'[p] = <<b>> \o stack[p]
    BY <1>3, MovedByCall DEF Moved
  <2> QED BY <1>h, <1>3, <1>t, <2>1, PushOn
<1>4. ASSUME CallerEnds(p) PROVE Goal
  BY <1>h, <1>4, MovedByEnd DEF Moved
<1>5. ASSUME Begin(p) PROVE Goal
  <2>1. /\ pc'[p] \in {"peek", "exe", "transport"}
        /\ stack'[p] \in {<<>>, <<"exeRegion">>, <<"headers">>}
    BY <1>5 DEF Begin, GetServerHost, GetRegionId, Request, Begins, CallersTyped
  <2> QED BY <1>h, <2>1, OnShort
<1>6. Labels \ {"meta", "fileDetect"} \subseteq Labels \ {x}
  OBVIOUS
<1>7. {"exe", "exeLock", "provision", "metaDetect", "known", "knownDetect", "transport", "pool", "general",
       "write", "exeDomain", "hybridDomain", "hybridName", "generalDomain", "exeRegion", "hybridRegion",
       "generalRegion", "detected", "headers", "instance"} \subseteq Labels \ {x}
  BY DEF Labels, InExe, Trials, OfHost, OfRegion, OfRequest
<1>8. {"exe", "exeLock", "provision", "fileDetect", "meta", "metaDetect", "known", "knownDetect",
       "transport", "pool", "general"} \subseteq InCall
  BY DEF InCall, InExe, Trials
<1> HIDE DEF Goal
<1>10. ExePeek(p) \/ ExeLock(p) \/ Provision(p) => Goal
  BY <1>1, <1>2, <1>7, <1>8 DEF ExePeek, ExeLock, Provision
<1>11. Transport(p) \/ GetRootCAs(p) => Goal
  BY <1>1, <1>3, <1>7, <1>8 DEF Transport, GetRootCAs
<1>12. ReadsFile(p) => Goal
  BY DEF Goal
<1>13. FileDetect(p) => Goal
  <2>1. ASSUME FileDetect(p), x = "fileDetect" PROVE Goal
    BY <1>1, <1>2, <1>8, <2>1, LabelsKnown DEF FileDetect, Trials
  <2> QED BY <2>1 DEF Goal
<1>14. AskMeta(p) \/ AskKnown(p) => Goal
  BY <1>1, <1>2, <1>7, <1>8 DEF AskMeta, AskKnown
<1>15. MetaDetect(p) \/ KnownDetect(p) => Goal
  BY <1>1, <1>2, <1>7, <1>8 DEF MetaDetect, KnownDetect
<1>16. Peek(p) \/ Select(p) => Goal
  BY <1>2, <1>3, <1>4, <1>7 DEF Peek, Select
<1>17. ExeDomain(p) => Goal
  BY <1>2, <1>4, <1>7 DEF ExeDomain, Selected
<1>18. HybridDomain(p) \/ HybridName(p) \/ GeneralDomain(p) => Goal
  BY <1>3, <1>4, <1>7 DEF HybridDomain, HybridName, GeneralDomain, Selected
<1>19. ExeRegion(p) \/ HybridRegion(p) \/ GeneralRegion(p) \/ Detected(p) => Goal
  BY <1>2, <1>3, <1>4, <1>7 DEF ExeRegion, HybridRegion, GeneralRegion, Detected, Answers
<1>20. Headers(p) \/ AskInstance(p) \/ Instance(p) => Goal
  BY <1>2, <1>4, <1>7 DEF Headers, AskInstance, Instance, Sends
<1>21. Goal
  BY <1>5, <1>10, <1>11, <1>12, <1>13, <1>14, <1>15, <1>16, <1>17, <1>18, <1>19, <1>20
     DEF CallerStep, Detection
<1> QED BY <1>21 DEF Goal

LEMMA ReturnsToNamer ==
    ASSUME Frames, NEW p \in Callers, pc[p] \in InExe \cup {"transport", "pool"}
    PROVE  Head(stack[p]) # "generalDomain"
<1>1. AsksExe(op[p], stack[p]) \/ AsksTransport(op[p], stack[p])
  BY Stacks DEF Frames
<1> QED BY <1>1, Pops, ZenonT(30) DEF AsksExe, AsksTransport

LEMMA TrialReturns ==
    ASSUME CallersTyped, Frames, NEW p \in Callers, NEW l \in Trials \cup {"general"}, CallReturns(p, l),
           NEW x \in {"meta", "fileDetect"}
    PROVE  pc[p] = l /\ ~Heading(p, x)' /\ pc'[p] \in {"generalDomain", "detected"}
<1>1. pc[p] = l /\ pc'[p] = Head(stack[p]) /\ stack'[p] = Tail(stack[p])
  BY MovedByReturn, LabelsKnown DEF Moved
<1>2. stack[p] \in {<<"generalDomain">>, <<"detected">>}
  BY <1>1, Stacks DEF Frames
<1>3. pc'[p] \in {"generalDomain", "detected"} /\ stack'[p] = <<>>
  BY <1>1, <1>2, Pops, Zenon
<1> QED BY <1>1, <1>3, HeadingStackNext, OnShort

LEMMA DomainFound ==
    ASSUME CallersTyped, Frames, NEW p \in Callers, Begin(p) \/ CallerStep(p), pc'[p] = "generalDomain"
    PROVE  \/ op[p] = "host" /\ pc[p] = "general" /\ site.hosted
           \/ found'[p] = None
           \/ /\ pc[p] \in {"fileDetect", "metaDetect", "knownDetect"} /\ Detects(p)
              /\ UNCHANGED <<found, hitches>> /\ general' = found[p]
<1> DEFINE Goal == \/ op[p] = "host" /\ pc[p] = "general" /\ site.hosted
                   \/ found'[p] = None
                   \/ /\ pc[p] \in {"fileDetect", "metaDetect", "knownDetect"} /\ Detects(p)
                      /\ UNCHANGED <<found, hitches>> /\ general' = found[p]
<1>1. \A l, m : Jumps(p, l, m) /\ m # "generalDomain" => FALSE
  BY DEF Jumps, CallersTyped
<1>2. \A l, m, b : Calls(p, l, m, b) /\ m # "generalDomain" => FALSE
  BY DEF Calls, CallersTyped
<1>3. ~CallerEnds(p)
  BY DEF CallerEnds, CallersTyped
<1>4. \A l \in InExe \cup {"transport", "pool"} : ~CallReturns(p, l)
  BY ReturnsToNamer, MovedByReturn, LabelsKnown DEF Moved
<1>5. ~Begin(p)
  BY DEF Begin, GetServerHost, GetRegionId, Request, Begins, CallersTyped
<1>6. ~(ExePeek(p) \/ ExeLock(p) \/ Provision(p) \/ Transport(p) \/ GetRootCAs(p))
  BY <1>1, <1>2, <1>4 DEF ExePeek, ExeLock, Provision, Transport, GetRootCAs, InExe
<1>7. ReadsFile(p) => Goal
  <2> SUFFICES ASSUME ReadsFile(p) PROVE op[p] = "host" /\ pc[p] = "general" /\ site.hosted
    OBVIOUS
  <2>1. site.hosted /\ CallReturns(p, "general")
    BY <1>2 DEF ReadsFile
  <2>2. pc[p] = "general" /\ Head(stack[p]) = "generalDomain"
    BY <2>1, MovedByReturn, LabelsKnown DEF Moved
  <2>3. stack[p] # <<"detected">>
    BY <2>2, Pops
  <2> QED BY <2>1, <2>2, <2>3, Stacks DEF Frames
<1>8. FileDetect(p) => Goal
  BY <1>1 DEF FileDetect, CallReturns, IsAt, NoHitch, Stores, requests
<1>9. MetaDetect(p) \/ KnownDetect(p) => Goal
  BY <1>1 DEF MetaDetect, KnownDetect, CallReturns, IsAt, NoHitch, Stores, requests
<1>10. AskMeta(p) => Goal
  BY <1>1 DEF AskMeta
<1>11. AskKnown(p) => Goal
  BY <1>1 DEF AskKnown, CallersTyped
<1>12. ~(Peek(p) \/ Select(p) \/ ExeDomain(p) \/ HybridDomain(p) \/ HybridName(p))
  BY <1>1, <1>2, <1>3 DEF Peek, Select, ExeDomain, HybridDomain, HybridName, Selected
<1>13. ~(GeneralDomain(p) \/ ExeRegion(p) \/ HybridRegion(p) \/ GeneralRegion(p) \/ Detected(p))
  BY <1>1, <1>2, <1>3 DEF GeneralDomain, ExeRegion, HybridRegion, GeneralRegion, Detected, Selected, Answers
<1>14. ~(Headers(p) \/ AskInstance(p) \/ Instance(p))
  BY <1>1, <1>3 DEF Headers, AskInstance, Instance, Sends
<1> HIDE DEF Goal
<1>15. Goal
  BY <1>5, <1>6, <1>7, <1>8, <1>9, <1>10, <1>11, <1>12, <1>13, <1>14 DEF CallerStep, Detection
<1> QED BY <1>15 DEF Goal

\* If no request has failed, the first region whose server answers is the right one.
LEMMA DetectsRight ==
    ASSUME Sought, Placed, hitches = 0, NEW p \in Callers, Detects(p),
           pc[p] \in {"fileDetect", "metaDetect", "knownDetect"}
    PROVE  found[p] = RightRegion /\ (pc[p] # "fileDetect" => ~KnownFile /\ found[p] = Here)
<1>1. CASE pc[p] = "fileDetect"
  <2>1. Heading(p, "fileDetect")
    BY <1>1 DEF Heading
  <2>2. found[p] \in (IF KnownFile THEN {site.file} ELSE {site.file, Here} \ {""})
    BY <2>1 DEF Sought
  <2> QED BY <1>1, <2>2 DEF Detects, KnownFile, RightRegion
<1>2. CASE pc[p] # "fileDetect"
  BY <1>2 DEF Sought, RightRegion
<1> QED BY <1>1, <1>2

LEMMA ReadsHeading ==
    ASSUME CallersTyped, Frames, NEW p \in Callers, ReadsFile(p), NEW x \in {"meta", "fileDetect"}, Heading(p, x)'
    PROVE  found'[p] = regionFile /\ x = IF regionFile = "" THEN "meta" ELSE "fileDetect"
<1> DEFINE b == IF regionFile = "" THEN "meta" ELSE "fileDetect"
<1>1. ~site.hosted
  BY TrialReturns DEF ReadsFile
<1>2. pc[p] = "general" /\ pc'[p] = "transport" /\ stack'[p] = <<b>> \o stack[p] /\ found'[p] = regionFile
  BY <1>1 DEF ReadsFile, Calls, IsAt, CallersTyped
<1>3. b \in Labels
  BY DEF Labels, Trials
<1>4. ~OnStack(x, stack[p])
  BY <1>2, WaitsInCall DEF InExe
<1>5. OnStack(x, stack'[p])
  BY <1>2, HeadingStackNext
<1> HIDE DEF b
<1>6. x = b
  BY <1>2, <1>3, <1>4, <1>5, PushOn DEF CallersTyped
<1> QED BY <1>2, <1>6 DEF b

LEMMA HitchesGrow ==
    ASSUME hitches \in Nat, NEW p \in Callers, Begin(p) \/ CallerStep(p), hitches' = 0
    PROVE  hitches = 0 /\ UNCHANGED hitches
BY WhatChanges

\* Who is to try the region of the file has found the right one; nobody else tries then.
LEMMA HeadedFor ==
    ASSUME ApiAssumption, CallersTyped, Frames, Placed, Sought, Located, hitches \in Nat,
           NEW p \in Callers, Begin(p) \/ CallerStep(p), hitches' = 0
    PROVE  /\ Heading(p, "fileDetect")' =>
                 found'[p] \in (IF KnownFile THEN {site.file} ELSE {site.file, Here} \ {""})
           /\ KnownFile => ~Heading(p, "meta")'
<1>1. hitches = 0
  BY HitchesGrow
<1>2. \A x \in {"meta", "fileDetect"} : OnStack(x, stack[p]) => Heading(p, x) /\ found'[p] = found[p]
  <2> SUFFICES ASSUME NEW x \in {"meta", "fileDetect"}, OnStack(x, stack[p])
               PROVE  Heading(p, x) /\ found'[p] = found[p]
    OBVIOUS
  <2>1. pc[p] \in InExe \cup {"transport", "pool"}
    BY WaitsInCall
  <2>2. ~Begin(p)
    BY <2>1, OpStays DEF InCall
  <2> QED BY <2>1, <2>2, FoundStays, HeadingStack DEF Begin
<1>3. ASSUME Heading(p, "fileDetect")'
      PROVE  found'[p] \in (IF KnownFile THEN {site.file} ELSE {site.file, Here} \ {""})
  <2>1. OnStack("fileDetect", stack[p]) \/ ReadsFile(p)
    BY <1>3, HeadingStep
  <2>2. CASE OnStack("fileDetect", stack[p])
    BY <1>1, <1>2, <2>2 DEF Sought
  <2>3. CASE ReadsFile(p)
    <3>1. found'[p] = regionFile /\ regionFile # ""
      BY <1>3, <2>3, ReadsHeading
    <3> QED BY <1>1, <3>1 DEF Located
  <2> QED BY <2>1, <2>2, <2>3
<1>4. ASSUME KnownFile, Heading(p, "meta")' PROVE FALSE
  <2>1. OnStack("meta", stack[p]) \/ ReadsFile(p) \/ FileDetect(p)
    BY <1>4, HeadingStep
  <2>2. CASE OnStack("meta", stack[p])
    BY <1>1, <1>2, <1>4, <2>2 DEF Sought
  <2>3. CASE ReadsFile(p)
    <3>1. regionFile = ""
      BY <1>4, <2>3, ReadsHeading
    <3> QED BY <1>1, <1>4, <3>1 DEF Located, KnownFile
  <2>4. CASE FileDetect(p)
    <3>1. pc[p] = "fileDetect" /\ Misses(p)
      BY <1>4, <2>4, TrialReturns DEF FileDetect, Jumps, IsAt, Trials
    <3>2. found[p] = site.file
      BY <1>1, <1>4, <3>1 DEF Sought, Heading
    <3>3. Detects(p)
      BY <1>4, <3>2 DEF KnownFile, Detects
    <3> QED BY <1>1, <3>1, <3>3 DEF Misses, Hitch
  <2> QED BY <2>1, <2>2, <2>3, <2>4
<1> QED BY <1>3, <1>4

LEMMA SoughtStep ==
    ASSUME ApiAssumption, CallersTyped, Frames, Placed, OneSelecting, NamedBy, Sought, Located, hitches \in Nat,
           NEW p \in Callers, Begin(p) \/ CallerStep(p)
    PROVE  Sought'
<1>1. /\ UNCHANGED <<KnownFile, RightRegion, site>>
      /\ general # None => general' # None
  BY WhatChanges, ServerStep DEF KnownFile, RightRegion
<1>2. hitches' = 0 => hitches = 0
  BY HitchesGrow
<1>3. ASSUME NEW q \in Callers, pc'[q] \in {"metaDetect", "knownDetect"} PROVE found'[q] = Here
  <2>1. CASE q # p
    BY <1>3, <2>1, OtherCallersStay DEF Sought
  <2>2. CASE q = p /\ pc'[p] = "metaDetect"
    BY <2>2, Arrivals DEF AskMeta, Jumps, CallersTyped
  <2>3. CASE q = p /\ pc'[p] = "knownDetect"
    <3>1. AskKnown(p)
      BY <2>3, Arrivals
    <3>2. ~CallReturns(p, "known")
      BY <2>3, TrialReturns DEF Trials
    <3> QED BY <2>3, <3>1, <3>2 DEF AskKnown, CallersTyped
  <2> QED BY <1>3, <2>1, <2>2, <2>3
<1>4. ASSUME NEW q \in Callers, pc'[q] = "generalDomain", found'[q] # None
      PROVE  found'[q] \in site.reachable /\ general' # None /\ (hitches' = 0 => found'[q] = RightRegion)
  <2>1. CASE q # p
    BY <1>1, <1>2, <1>4, <2>1, OtherCallersStay DEF Sought
  <2>2. CASE q = p
    <3>1. /\ pc[p] \in {"fileDetect", "metaDetect", "knownDetect"} /\ Detects(p)
          /\ UNCHANGED <<found, hitches>> /\ general' = found[p]
      BY <1>4, <2>2, DomainFound DEF OneSelecting
    <3>2. hitches = 0 => found[p] = RightRegion
      BY <3>1, DetectsRight
    <3> QED BY <2>2, <3>1, <3>2, ReachedIsNamed DEF Detects
  <2> QED BY <2>1, <2>2
<1>5. ASSUME NEW q \in Callers, hitches' = 0
      PROVE  /\ Heading(q, "fileDetect")' =>
                   found'[q] \in (IF KnownFile THEN {site.file} ELSE {site.file, Here} \ {""})
             /\ KnownFile => ~Heading(q, "meta")' /\ pc'[q] \notin {"metaDetect", "known", "knownDetect"}
  <2>1. CASE q # p
    <3>1. pc'[q] = pc[q] /\ stack'[q] = stack[q] /\ found'[q] = found[q]
      BY <2>1, OtherCallersStay
    <3>2. \A x : Heading(q, x)' <=> Heading(q, x)
      BY <3>1, HeadingStack, HeadingStackNext
    <3> QED BY <1>2, <1>5, <3>1, <3>2 DEF Sought
  <2>2. CASE q = p
    <3>1. ASSUME KnownFile, pc'[p] \in {"metaDetect", "known", "knownDetect"} PROVE FALSE
      <4>1. pc[p] \in {"meta", "metaDetect", "known", "knownDetect"}
        BY <3>1, Arrivals DEF AskMeta, MetaDetect, KnownDetect, AskKnown, Jumps, CallReturns, IsAt
      <4>2. pc[p] = "meta" => Heading(p, "meta")
        BY DEF Heading
      <4> QED BY <1>2, <1>5, <3>1, <4>1, <4>2 DEF Sought
    <3> QED BY <1>5, <2>2, <3>1, HeadedFor
  <2> QED BY <2>1, <2>2
<1> QED BY <1>1, <1>3, <1>4, <1>5 DEF Sought

LEMMA LocatedStep ==
    ASSUME ApiAssumption, CallersTyped, Frames, Placed, OneSelecting, OneRun, NamedBy, Sought, Located,
           hitches \in Nat, selected \in Providers \cup {None}, NEW p \in Callers, Begin(p) \/ CallerStep(p)
    PROVE  Located'
<1> SUFFICES ASSUME hitches' = 0 PROVE Located'
  BY DEF Located
<1>1. hitches = 0 /\ UNCHANGED <<KnownFile, RightRegion, site, regionFile>>
  BY HitchesGrow, WhatChanges DEF KnownFile, RightRegion
<1>2. /\ general' \in {None, RightRegion}
      /\ KnownFile => saving' = saving
      /\ ~KnownFile => saving' \subseteq saving \cup {<<Here, "open">>}
  <2>1. CASE UNCHANGED <<general, saving>>
    BY <1>1, <2>1 DEF Located
  <2>2. CASE FileDetect(p)
    <3>1. pc[p] = "fileDetect" /\ UNCHANGED saving /\ (general' = general \/ (Detects(p) /\ general' = found[p]))
      BY <2>2 DEF FileDetect, Jumps, CallReturns, IsAt, Stores, Misses, answered, machine
    <3> QED BY <1>1, <3>1, DetectsRight DEF Located
  <2>3. CASE MetaDetect(p) \/ KnownDetect(p)
    <3>1. /\ pc[p] \in {"metaDetect", "knownDetect"}
          /\ \/ UNCHANGED <<general, saving>>
             \/ Detects(p) /\ general' = found[p] /\ saving' = saving \cup {<<found[p], "open">>}
      BY <2>3 DEF MetaDetect, KnownDetect, Jumps, CallReturns, IsAt, Stores, Misses, answered, machine
    <3>2. Detects(p) => found[p] = RightRegion /\ found[p] = Here /\ ~KnownFile
      BY <1>1, <3>1, DetectsRight
    <3> QED BY <2>1, <3>1, <3>2
  <2> QED BY <2>1, <2>2, <2>3, WhatChanges
<1>3. selected' = "general" => domain' = RightRegion
  <2>1. CASE UNCHANGED <<domain, selected>>
    BY <1>1, <2>1 DEF Located
  <2>2. CASE ExeDomain(p) \/ HybridDomain(p) \/ HybridName(p)
    <3>1. UNCHANGED <<domain, selected>> \/ selected' \in {"exe", "hybrid"}
      BY <2>2 DEF ExeDomain, HybridDomain, HybridName, Selected, answered
    <3> QED BY <2>1, <3>1
  <2>3. CASE GeneralDomain(p)
    <3>1. CASE found[p] # None
      <4>1. domain' = found[p] /\ pc[p] = "generalDomain"
        BY <2>3, <3>1 DEF GeneralDomain, Selected, IsAt
      <4> QED BY <1>1, <3>1, <4>1 DEF Sought
    <3>2. CASE found[p] = None
      BY <2>1, <2>3, <3>2 DEF GeneralDomain, answered
    <3> QED BY <3>1, <3>2
  <2> QED BY <2>1, <2>2, <2>3, WhatChanges
<1>4. ~site.exe => region' \in {None, Registered, RightRegion}
  <2>1. CASE UNCHANGED region
    BY <1>1, <2>1 DEF Located
  <2>2. CASE ExeRegion(p)
    <3>1. provisioned \/ UNCHANGED region
      BY <2>2 DEF ExeRegion, answered
    <3> QED BY <2>1, <3>1 DEF OneRun
  <2>3. CASE HybridRegion(p)
    <3>1. region' \in {None, Registered} \/ UNCHANGED region
      BY <2>3 DEF HybridRegion, Answers, answered
    <3> QED BY <2>1, <3>1
  <2>4. CASE GeneralRegion(p) \/ Detected(p)
    <3>1. region' \in {None, general} \/ UNCHANGED region
      BY <2>4 DEF GeneralRegion, Detected, Answers, answered
    <3> QED BY <1>1, <2>1, <3>1 DEF Located
  <2> QED BY <2>1, <2>2, <2>3, <2>4, WhatChanges
<1>5. KnownFile => regionFile' = site.file /\ saving' = {}
  BY <1>1, <1>2 DEF Located
<1>6. ~KnownFile => /\ regionFile' \in {site.file, "", Here}
                    /\ saving' \subseteq {<<Here, "open">>, <<Here, "write">>}
  <2>1. ~KnownFile => saving \subseteq {<<Here, "open">>, <<Here, "write">>} /\ regionFile \in {site.file, "", Here}
    BY <1>1 DEF Located
  <2> QED BY <1>1, <1>2, <2>1
<1> QED BY <1>1, <1>2, <1>3, <1>4, <1>5, <1>6 DEF Located

Answered ==
    /\ {domain, region, general} \subseteq Regions /\ selected \in Providers \cup {None}
    /\ category \in {"unknown", "vpc", "classic", "hybrid"}
KeptOnce ==
    /\ path \in {"unknown", "none", "path"} /\ provisioned \in BOOLEAN
    /\ pool \in {None, "bundled", Given, ""} /\ instance \in {None, "id", "unknown"}
OnFile ==
    /\ regionFile \in Regions \ {None}
    /\ saving \subseteq site.reachable \X {"open", "write"}
Bounded == hitches \in 0 .. MaxHitches /\ restarts \in 0 .. MaxRestarts

ServerInv ==
    /\ Placed /\ CallersTyped /\ Answered /\ KeptOnce /\ OnFile /\ Bounded
    /\ Frames /\ OneSelecting /\ OneRun /\ NamedBy /\ Requested /\ Sought /\ Located /\ HeadersOfServer

LEMMA AnsweredStep ==
    ASSUME CallersTyped, Answered, NEW p \in Callers, Begin(p) \/ CallerStep(p)
    PROVE  Answered'
<1>1. {Registered, Given, Named, None, "", found[p]} \subseteq Regions
  BY RegionsKnown DEF CallersTyped
<1>2. {domain', general'} \subseteq Regions /\ selected' \in Providers \cup {None}
  <2>1. domain' \in Regions /\ selected' \in Providers \cup {None}
    <3>1. CASE ExeDomain(p) \/ HybridDomain(p) \/ HybridName(p) \/ GeneralDomain(p)
      BY <1>1, <3>1 DEF ExeDomain, HybridDomain, HybridName, GeneralDomain, Selected, answered, Answered, Providers
    <3>2. CASE UNCHANGED <<domain, selected>>
      BY <3>2 DEF Answered
    <3> QED BY <3>1, <3>2, WhatChanges
  <2>2. general' \in Regions
    <3>1. FileDetect(p) \/ MetaDetect(p) \/ KnownDetect(p) => UNCHANGED general \/ general' = found[p]
      BY DEF FileDetect, MetaDetect, KnownDetect, Misses, Stores, answered
    <3> QED BY <1>1, <3>1, WhatChanges DEF Answered
  <2> QED BY <2>1, <2>2
<1>3. region' \in Regions
  <2>1. ExeRegion(p) \/ HybridRegion(p) => region' \in {region, None, Given, Registered}
    BY DEF ExeRegion, HybridRegion, Answers, Offered, answered
  <2>2. GeneralRegion(p) \/ Detected(p) => region' \in {region, None, general}
    BY DEF GeneralRegion, Detected, Answers, answered
  <2> QED BY <1>1, <2>1, <2>2, WhatChanges DEF Answered
<1>4. category' \in {category, "vpc", "classic", "hybrid"}
  <2> USE DEF answered, Misses, Stores, Selected, Answers, Sends
  <2>1. Begin(p) => UNCHANGED category
    BY DEF Begin, GetServerHost, GetRegionId, Request, Begins
  <2>2. ExePeek(p) \/ ExeLock(p) \/ Provision(p) \/ Transport(p) \/ GetRootCAs(p) => UNCHANGED category
    BY DEF ExePeek, ExeLock, Provision, Transport, GetRootCAs
  <2>3. Detection(p) => category' \in {category, "vpc", "classic"}
    BY DEF Detection, ReadsFile, FileDetect, AskMeta, MetaDetect, AskKnown, KnownDetect
  <2>4. Peek(p) \/ Select(p) \/ ExeDomain(p) => UNCHANGED category
    BY DEF Peek, Select, ExeDomain
  <2>5. HybridDomain(p) \/ HybridName(p) \/ GeneralDomain(p) => category' \in {category, "hybrid"}
    BY DEF HybridDomain, HybridName, GeneralDomain
  <2>6. ExeRegion(p) \/ HybridRegion(p) \/ GeneralRegion(p) \/ Detected(p) => UNCHANGED category
    BY DEF ExeRegion, HybridRegion, GeneralRegion, Detected
  <2>7. Headers(p) \/ AskInstance(p) \/ Instance(p) => UNCHANGED category
    BY DEF Headers, AskInstance, Instance
  <2> QED BY <2>1, <2>2, <2>3, <2>4, <2>5, <2>6, <2>7 DEF CallerStep
<1> QED BY <1>2, <1>3, <1>4 DEF Answered

LEMMA KeptOnceStep ==
    ASSUME Placed, KeptOnce, NEW p \in Callers, Begin(p) \/ CallerStep(p)
    PROVE  KeptOnce'
<1>1. path' \in {"unknown", "none", "path"} /\ provisioned' \in BOOLEAN
  <2>1. Provision(p) => path' \in {"none", "path"} /\ provisioned' \in {provisioned, site.exe}
    BY DEF Provision
  <2> QED BY <2>1, WhatChanges DEF KeptOnce, provision, Placed, WorldType
<1>2. pool' \in {None, "bundled", Given, ""}
  <2>1. GetRootCAs(p) => pool' \in {"bundled", Given, ""}
    BY DEF GetRootCAs, Offered
  <2> QED BY <2>1, WhatChanges DEF KeptOnce
<1>3. instance' \in {None, "id", "unknown"}
  <2>1. Instance(p) => instance' \in {"id", "unknown"}
    BY DEF Instance
  <2> QED BY <2>1, WhatChanges DEF KeptOnce
<1> QED BY <1>1, <1>2, <1>3 DEF KeptOnce

LEMMA BoundsAreNat == ASSUME ApiAssumption PROVE MaxHitches \in Nat /\ MaxRestarts \in Nat
BY Zenon DEF ApiAssumption

LEMMA BoundedIsNat ==
    ASSUME ApiAssumption, Bounded PROVE hitches \in Nat
BY BoundsAreNat DEF Bounded

\* The invariant is kept by every step of a caller ...
LEMMA CallerInvStep ==
    ASSUME ApiAssumption, ServerInv, NEW p \in Callers, Begin(p) \/ CallerStep(p)
    PROVE  ServerInv'
<1> USE DEF ServerInv
<1>1. UNCHANGED <<site, regionFile, restarts>>
  BY WhatChanges
<1>2. hitches \in Nat /\ MaxHitches \in Nat
  BY BoundedIsNat DEF ApiAssumption
<1>3. Placed' /\ Bounded'
  BY <1>1, <1>2, WhatChanges DEF Placed, Bounded
<1>4. CallersTyped' /\ Frames'
  BY CallersTypedStep DEF Placed, OnFile, Answered
<1>5. Answered' /\ KeptOnce'
  BY AnsweredStep, KeptOnceStep
<1>6. OnFile'
  <2>1. FileDetect(p) \/ MetaDetect(p) \/ KnownDetect(p) =>
           UNCHANGED saving \/ (found[p] \in site.reachable /\ saving' = saving \cup {<<found[p], "open">>})
    BY DEF FileDetect, MetaDetect, KnownDetect, Misses, Stores, Detects, machine
  <2> QED BY <1>1, <2>1, WhatChanges DEF OnFile
<1>7. OneSelecting' /\ OneRun'
  BY OneSelectingStep, OneRunStep
<1>8. NamedBy' /\ Requested' /\ HeadersOfServer'
  BY ServerStep, RequestedStep, HeadersStep DEF Answered
<1>9. Sought' /\ Located'
  BY <1>2, SoughtStep, LocatedStep DEF Answered
<1> QED BY <1>3, <1>4, <1>5, <1>6, <1>7, <1>8, <1>9

LEMMA ServerInvInit == ASSUME ApiAssumption, ServerInit PROVE ServerInv
<1> USE DEF ServerInit
<1>1. Placed
  BY RegionsKnown DEF Placed, ApiAssumption
<1>2. None # "" /\ "" \in Regions /\ None \in Regions /\ site.file \in Regions \ {None}
  BY RegionsKnown DEF ApiAssumption, WorldType
<1>3. CallersTyped /\ Frames
  <2>1. "idle" \in Labels /\ <<>> \in Seq(Labels)
    BY DEF Labels
  <2>2. Framed("none", "idle", <<>>)
    BY DEF Framed
  <2> QED BY <1>2, <2>1, <2>2 DEF CallersTyped, Frames
<1>4. Answered /\ KeptOnce /\ OnFile /\ Bounded
  <2>1. Answered /\ KeptOnce
    BY <1>2 DEF Answered, KeptOnce
  <2>2. OnFile
    BY <1>2 DEF OnFile
  <2>3. Bounded
    BY BoundsAreNat DEF Bounded
  <2> QED BY <2>1, <2>2, <2>3
<1>5. OneSelecting /\ OneRun
  BY DEF OneSelecting, OneRun
<1>6. None \notin Providers
  BY NamesApart
<1>7. NamedBy /\ Requested /\ HeadersOfServer
  BY <1>6 DEF NamedBy, Requested, HeadersOfServer, Providers
<1>8. Sought
  <2>1. \A p \in Callers, x \in {"meta", "fileDetect"} : ~Heading(p, x)
    BY HeadingStack, OnShort
  <2> QED BY <2>1 DEF Sought
<1>9. Located
  BY <1>6 DEF Located, KnownFile, RightRegion, Providers
<1> QED BY <1>1, <1>3, <1>4, <1>5, <1>7, <1>8, <1>9 DEF ServerInv

\* ... by the writing of the file, by deregister and by a restart.
LEMMA SaveInvStep ==
    ASSUME ApiAssumption, ServerInv, NEW x \in Regions, Save(x) PROVE ServerInv'
<1> USE DEF ServerInv
<1>1. UNCHANGED <<site, domain, selected, region, general, category, path, provisioned, runs, pool, instance,
                  sent, op, pc, stack, found, hitches, restarts>>
  BY DEF Save, answered, provision, requests, callers
<1>2. /\ <<x, "open">> \in saving \/ <<x, "write">> \in saving
      /\ regionFile' \in {"", x}
      /\ saving' \subseteq saving \cup {<<x, "write">>}
  BY DEF Save
<1>3. x \in site.reachable
  BY <1>2 DEF OnFile
<1>4. Placed' /\ CallersTyped' /\ Answered' /\ KeptOnce' /\ Bounded' /\ Frames' /\ OneSelecting' /\ OneRun'
  BY <1>1 DEF Placed, CallersTyped, Answered, KeptOnce, Bounded, Frames, OneSelecting, OneRun
<1>5. OnFile'
  <2>1. x # None /\ "" # None /\ "" \in Regions
    BY <1>3, ReachedIsNamed, RegionsKnown DEF ApiAssumption
  <2>2. regionFile' \in Regions \ {None}
    BY <1>2, <2>1
  <2>3. <<x, "write">> \in site.reachable \X {"open", "write"}
    BY <1>3
  <2>4. saving' \subseteq site.reachable \X {"open", "write"}
    BY <1>2, <2>3 DEF OnFile
  <2> QED BY <1>1, <2>2, <2>4 DEF OnFile
<1>6. NamedBy' /\ Requested' /\ HeadersOfServer'
  BY <1>1 DEF NamedBy, Requested, HeadersOfServer
<1>7. UNCHANGED <<KnownFile, RightRegion>>
  BY <1>1 DEF KnownFile, RightRegion
<1>8. Sought'
  <2>1. \A p \in Callers, y \in {"meta", "fileDetect"} : Heading(p, y)' <=> Heading(p, y)
    BY <1>1 DEF Heading
  <2> QED BY <1>1, <1>7, <2>1 DEF Sought
<1>9. Located'
  <2> SUFFICES ASSUME hitches = 0 PROVE Located'
    BY <1>1 DEF Located
  <2>1. ~KnownFile /\ x = Here
    BY <1>2 DEF Located
  <2>2. regionFile' \in {"", Here} /\ saving' \subseteq saving \cup {<<Here, "write">>}
    BY <1>2, <2>1
  <2> QED BY <1>1, <1>7, <2>1, <2>2 DEF Located
<1> QED BY <1>4, <1>5, <1>6, <1>8, <1>9

LEMMA DeregisterInvStep == ASSUME ServerInv, Deregister PROVE ServerInv'
<1> USE DEF ServerInv
<1>1. UNCHANGED <<regionFile, domain, selected, region, general, category, path, provisioned, runs, pool,
                  instance, sent, op, pc, stack, found, saving, hitches, restarts>>
  BY DEF Deregister, answered, provision, requests, callers
<1>2. /\ site' \in WorldType /\ site'.hosted = site.hosted /\ site'.exe = site.exe
      /\ site'.file = site.file /\ site'.reachable = site.reachable
  BY DEF Deregister, Placed, WorldType
<1>3. Placed' /\ CallersTyped' /\ Answered' /\ KeptOnce' /\ OnFile' /\ Bounded'
  BY <1>1, <1>2 DEF Placed, CallersTyped, Answered, KeptOnce, OnFile, Bounded
<1>4. Frames' /\ OneSelecting' /\ OneRun' /\ NamedBy' /\ Requested' /\ HeadersOfServer'
  BY <1>1, <1>2 DEF Frames, OneSelecting, OneRun, NamedBy, Requested, HeadersOfServer
<1>5. UNCHANGED <<KnownFile, RightRegion>>
  BY <1>2 DEF KnownFile, RightRegion
<1>6. Sought'
  <2>1. \A p \in Callers, y \in {"meta", "fileDetect"} : Heading(p, y)' <=> Heading(p, y)
    BY <1>1 DEF Heading
  <2> QED BY <1>1, <1>2, <1>5, <2>1 DEF Sought
<1>7. Located'
  BY <1>1, <1>2, <1>5 DEF Located
<1> QED BY <1>3, <1>4, <1>6, <1>7

LEMMA RestartInvStep == ASSUME ApiAssumption, ServerInv, Restart PROVE ServerInv'
<1> USE DEF ServerInv, Restart
<1>1. Placed' /\ None \in Regions
  BY RegionsKnown DEF Placed
<1>2. CallersTyped' /\ Frames'
  <2>1. "idle" \in Labels /\ <<>> \in Seq(Labels)
    BY DEF Labels
  <2>2. Framed("none", "idle", <<>>)
    BY DEF Framed
  <2> QED BY <1>1, <2>1, <2>2 DEF CallersTyped, Frames
<1>3. Answered' /\ KeptOnce' /\ OnFile' /\ Bounded'
  <2>1. Answered' /\ KeptOnce' /\ OnFile'
    BY <1>1 DEF Answered, KeptOnce, OnFile
  <2>2. Bounded'
    BY BoundsAreNat DEF Bounded
  <2> QED BY <2>1, <2>2
<1>4. OneSelecting' /\ OneRun'
  BY DEF OneSelecting, OneRun
<1>5. None \notin Providers
  BY NamesApart
<1>6. NamedBy' /\ Requested' /\ HeadersOfServer'
  BY <1>5 DEF NamedBy, Requested, HeadersOfServer, Providers
<1>7. UNCHANGED <<KnownFile, RightRegion>>
  BY DEF KnownFile, RightRegion
<1>8. Sought'
  <2>1. \A p \in Callers, x \in {"meta", "fileDetect"} : ~Heading(p, x)'
    BY HeadingStackNext, OnShort
  <2> QED BY <2>1 DEF Sought
<1>9. Located'
  BY <1>5, <1>7 DEF Located, Providers
<1> QED BY <1>1, <1>2, <1>3, <1>4, <1>6, <1>8, <1>9

LEMMA ServerInvStep ==
    ASSUME ApiAssumption, ServerInv, [ServerNext]_serverVars PROVE ServerInv'
<1>1. ASSUME UNCHANGED serverVars PROVE ServerInv'
  <2> USE <1>1 DEF serverVars
  <2>1. Placed' = Placed /\ CallersTyped' = CallersTyped /\ Answered' = Answered /\ KeptOnce' = KeptOnce
    BY DEF Placed, CallersTyped, Answered, KeptOnce
  <2>2. OnFile' = OnFile /\ Bounded' = Bounded /\ Frames' = Frames /\ OneSelecting' = OneSelecting
    BY DEF OnFile, Bounded, Frames, OneSelecting
  <2>3. OneRun' = OneRun /\ NamedBy' = NamedBy /\ Requested' = Requested /\ HeadersOfServer' = HeadersOfServer
    BY DEF OneRun, NamedBy, Requested, HeadersOfServer
  <2>4. Sought' = Sought /\ Located' = Located
    BY DEF Sought, Heading, Located, KnownFile, RightRegion
  <2> QED BY <2>1, <2>2, <2>3, <2>4 DEF ServerInv
<1> QED BY <1>1, CallerInvStep, SaveInvStep, DeregisterInvStep, RestartInvStep DEF ServerNext

\* The types, for any callers: what GetServerHost, GetRegionId, HttpGet and the providers share.
THEOREM ServerTypesHold == ASSUME ApiAssumption PROVE ServerSpec => []ServerTypeOK
<1>1. ServerInv => ServerTypeOK
  <2> SUFFICES ASSUME ServerInv PROVE ServerTypeOK
    OBVIOUS
  <2>1. \A p \in Callers : Len(stack[p]) <= 3 /\ (op[p] = "none") = IsAt(p, "idle")
    BY FrameTyped DEF ServerInv, Frames, IsAt
  <2> QED
    BY <2>1 DEF ServerInv, Placed, CallersTyped, Answered, KeptOnce, OnFile, Bounded, ServerTypeOK
<1> QED BY <1>1, ServerInvInit, ServerInvStep, PTL DEF ServerSpec

\* However many callers find at once that nobody has run the executable, one of them runs it
\* (ExternalExecutableProvider looks again under its lock); a request carries the headers of
\* the provider that named its server (GetExtraHTTPHeaders); and domain and region are of one
\* region that is reached, whoever else looks for it or writes the file (GeneralProvider).
THEOREM ServerIsRight == ASSUME ApiAssumption PROVE ServerSpec => []RightServer
<1>1. ServerInv => ProvisionedOnce
  BY DEF ServerInv, OneRun, ProvisionedOnce
<1>2. ServerInv => HeadersOfServer
  BY DEF ServerInv
<1>3. ServerInv => OneRegion
  BY DEF ServerInv, NamedBy, Located, OneRegion
<1>4. ServerInv => RightServer
  BY <1>1, <1>2, <1>3 DEF RightServer
<1> QED BY <1>4, ServerInvInit, ServerInvStep, PTL DEF ServerSpec
=============================================================================
