---------------------------- MODULE AgentProofs ----------------------------
(***************************************************************************)
(* The self kills of the agent's monitor, for any bounds, the keys of      *)
(* encrypted data, for any number of commands and keys, the timers of      *)
(* state configurations, for any number of configurations and callbacks,   *)
(* and the runs of the inventory, for any number of types.                 *)
(***************************************************************************)
EXTENDS Perfmon, CryptData, StateManager, Inventory, FiniteSetTheorems, TLAPS

(***************************************************************************)
(* Perfmon, whatever checks overlap.  The count of memory is that of the   *)
(* overloads in a row at every moment (MemoryCounted); that of the         *)
(* processor is no higher, except from the setting up of the cgroup to the *)
(* reset of the count (CpuCounted).                                        *)
(***************************************************************************)
Places == {"none", "ask", "count", "cpu", "setup", "limit", "reset", "mem"}
Kills == {"no", "cpu", "cgroup", "mem"}

CountsTyped ==
    /\ cpu \in 0 .. MaxCount /\ mem \in 0 .. MaxCount
    /\ cpuRow \in 0 .. MaxCount /\ memRow \in 0 .. MaxCount
    /\ started \in 0 .. MaxTasks
ChecksTyped ==
    /\ checks \in [Checks -> [at : Places, over : Sample]]
    /\ limited \in BOOLEAN /\ tasks \in BOOLEAN /\ dead \in Kills

\* What an end for memory says does not depend on the number of checks.
MemoryCounted ==
    /\ mem = memRow
    /\ dead = "mem" => memRow >= OverloadLimit

\* Is some check about to reset the count of the processor, after the cgroup was set up?
Limiting == \E c \in Checks : checks[c].at \in {"limit", "reset"}
OneCheck == \A c, d \in Checks : c = d

CpuCounted ==
    /\ ~Limiting => cpu <= cpuRow
    /\ OneCheck => \A c \in Checks : checks[c].at = "setup" => cpu >= OverloadLimit
    /\ dead = "cgroup" => cpuRow >= OverloadLimit \/ Limiting
    /\ dead = "cpu" => cpuRow >= OverloadLimit \/ ~OneCheck

\* The moves of a check, and the function they leave.
LEMMA GoesTo ==
    ASSUME ChecksTyped, NEW c \in Checks, NEW place \in Places, Goes(c, place)
    PROVE  /\ checks' \in [Checks -> [at : Places, over : Sample]]
           /\ checks'[c].at = place
           /\ \A d \in Checks \ {c} : checks'[d] = checks[d]
  BY DEF ChecksTyped, Goes

LEMMA NextCount ==
    ASSUME PerfmonAssumption, NEW n \in 0 .. MaxCount, NEW over
    PROVE  Counted(n, over) \in 0 .. MaxCount
  BY DEF PerfmonAssumption, Counted, Next1

LEMMA TypedStep ==
    PerfmonAssumption /\ CountsTyped /\ ChecksTyped /\ [Next]_vars => CountsTyped' /\ ChecksTyped'
<1> SUFFICES ASSUME PerfmonAssumption, CountsTyped, ChecksTyped, [Next]_vars
             PROVE  CountsTyped' /\ ChecksTyped'
  OBVIOUS
<1>1. CASE TaskStarts
  BY <1>1 DEF TaskStarts, CountsTyped, ChecksTyped, counts, history, PerfmonAssumption
<1>2. CASE TaskEnds
  BY <1>2 DEF TaskEnds, CountsTyped, ChecksTyped, counts, history
<1>3. CASE Tick
  <2>1. PICK c \in Checks, s \in Sample :
           checks' = [checks EXCEPT ![c] = [at |-> "ask", over |-> s]]
    BY <1>3 DEF Tick
  <2> QED
    BY <1>3, <2>1 DEF Tick, CountsTyped, ChecksTyped, Places, counts, history
<1>4. ASSUME NEW c \in Checks, Asks(c) PROVE CountsTyped' /\ ChecksTyped'
  BY <1>4, GoesTo DEF Asks, CountsTyped, ChecksTyped, Places, counts, history
<1>5. ASSUME NEW c \in Checks, Counts(c) PROVE CountsTyped' /\ ChecksTyped'
  BY <1>5, GoesTo, NextCount DEF Counts, CountsTyped, ChecksTyped, Places
<1>6. ASSUME NEW c \in Checks, LooksAtCpu(c) PROVE CountsTyped' /\ ChecksTyped'
  BY <1>6, GoesTo DEF LooksAtCpu, CountsTyped, ChecksTyped, Places, Kills, counts, history
<1>7. ASSUME NEW c \in Checks, SetsUp(c) PROVE CountsTyped' /\ ChecksTyped'
  BY <1>7, GoesTo DEF SetsUp, CountsTyped, ChecksTyped, Places, Kills, counts, PerfmonAssumption
<1>8. ASSUME NEW c \in Checks, Limits(c) \/ Resets(c) PROVE CountsTyped' /\ ChecksTyped'
  <2>1. CASE Limits(c)
    BY <2>1, GoesTo DEF Limits, CountsTyped, ChecksTyped, Places, history
  <2>2. CASE Resets(c)
    <3>1. CountsTyped'
      BY <2>2 DEF Resets, CountsTyped, history, PerfmonAssumption
    <3>2. ChecksTyped'
      BY <2>2, GoesTo DEF Resets, ChecksTyped, Places
    <3> QED
      BY <3>1, <3>2
  <2> QED
    BY <1>8, <2>1, <2>2
<1>9. ASSUME NEW c \in Checks, LooksAtMem(c) PROVE CountsTyped' /\ ChecksTyped'
  BY <1>9, GoesTo DEF LooksAtMem, CountsTyped, ChecksTyped, Places, Kills, counts, history
<1>10. CASE UNCHANGED vars
  BY <1>10 DEF vars, CountsTyped, ChecksTyped, counts, history
<1> QED
  BY <1>1, <1>2, <1>3, <1>4, <1>5, <1>6, <1>7, <1>8, <1>9, <1>10 DEF Next, Check

LEMMA MemoryStep == MemoryCounted /\ [Next]_vars => MemoryCounted'
  BY DEF MemoryCounted, Next, TaskStarts, TaskEnds, Tick, Check, Asks, Counts, LooksAtCpu,
     SetsUp, Limits, Resets, LooksAtMem, Alive, vars, counts, history

LEMMA CpuStep ==
    ASSUME PerfmonAssumption, CountsTyped, ChecksTyped, CpuCounted, [Next]_vars
    PROVE  CpuCounted'
<1> USE DEF CpuCounted, OneCheck, Limiting
<1>0. /\ cpu \in 0 .. MaxCount /\ cpuRow \in 0 .. MaxCount /\ MaxCount \in Nat
      /\ cpu' \in 0 .. MaxCount /\ cpuRow' \in 0 .. MaxCount
  BY TypedStep DEF CountsTyped, PerfmonAssumption
<1>1. CASE TaskStarts \/ TaskEnds
  BY <1>1 DEF TaskStarts, TaskEnds, counts, history
<1>2. CASE Tick
  <2>1. PICK c \in Checks, s \in Sample :
           /\ checks[c].at = "none"
           /\ checks' = [checks EXCEPT ![c] = [at |-> "ask", over |-> s]]
    BY <1>2 DEF Tick
  <2>2. /\ checks'[c].at = "ask"
        /\ \A d \in Checks \ {c} : checks'[d] = checks[d]
    BY <2>1 DEF ChecksTyped
  <2> QED
    BY <1>2, <2>1, <2>2 DEF Tick, counts, history, Alive
<1>3. ASSUME NEW c \in Checks, Check(c) PROVE CpuCounted'
  <2>0. ASSUME NEW place \in Places, Goes(c, place)
        PROVE  /\ checks'[c].at = place
               /\ \A d \in Checks \ {c} : checks'[d] = checks[d]
    BY <2>0, GoesTo
  <2>1. CASE Asks(c)
    BY <2>0, <2>1 DEF Asks, Places, Alive, counts, history
  <2>2. CASE Counts(c)
    <3>1. checks'[c].at = "cpu" /\ checks[c].at = "count"
      BY <2>0, <2>2 DEF Counts, Places
    <3>2. cpu <= cpuRow => cpu' <= cpuRow'
      BY <1>0, <2>2 DEF Counts, Counted, Next1
    <3>3. dead' = "no"
      BY <2>2 DEF Counts, Alive
    <3>4. Limiting' <=> Limiting
      BY <2>0, <2>2, <3>1 DEF Counts, Places
    <3>5. OneCheck => \A d \in Checks : checks'[d].at = "setup" => cpu' >= OverloadLimit
      BY <3>1
    <3> QED
      BY <3>2, <3>3, <3>4, <3>5
  <2>3. CASE LooksAtCpu(c)
    <3>1. CASE cpu < OverloadLimit /\ Goes(c, "mem") /\ dead' = dead
      BY <2>0, <2>3, <3>1 DEF LooksAtCpu, Places, Alive, counts, history
    <3>2. CASE cpu >= OverloadLimit /\ Goes(c, "setup") /\ dead' = dead
      BY <2>0, <2>3, <3>2 DEF LooksAtCpu, Places, Alive, counts, history
    <3>3. CASE cpu >= OverloadLimit /\ dead' = "cgroup" /\ UNCHANGED checks
      BY <1>0, <2>3, <3>3 DEF LooksAtCpu, OverloadLimit, counts, history
    <3> QED
      BY <2>3, <3>1, <3>2, <3>3 DEF LooksAtCpu
  <2>4. CASE SetsUp(c)
    <3>1. CASE Goes(c, "limit") /\ dead' = dead
      BY <2>0, <2>4, <3>1 DEF SetsUp, Places, Alive, counts
    <3>2. CASE dead' = "cpu" /\ UNCHANGED <<checks, cpuRow>>
      <4>1. OneCheck => ~Limiting /\ cpu >= OverloadLimit
        BY <2>4 DEF SetsUp
      <4> QED
        BY <1>0, <2>4, <3>2, <4>1 DEF SetsUp, OverloadLimit, counts
    <3> QED
      BY <2>4, <3>1, <3>2 DEF SetsUp
  <2>5. CASE Limits(c)
    BY <2>0, <2>5 DEF Limits, Places, Alive, history
  <2>6. CASE Resets(c)
    <3>1. checks'[c].at = "mem" /\ cpu' = 0 /\ dead' = "no" /\ cpuRow' = cpuRow
      BY <2>0, <2>6 DEF Resets, Places, Alive, history
    <3>2. OneCheck => \A d \in Checks : checks'[d].at # "setup"
      BY <3>1
    <3> QED
      BY <1>0, <3>1, <3>2
  <2>7. CASE LooksAtMem(c)
    <3>1. dead' # "cgroup" /\ dead' # "cpu"
      BY <2>7 DEF LooksAtMem, Alive
    <3>2. UNCHANGED checks \/ Goes(c, "none")
      BY <2>7 DEF LooksAtMem
    <3> QED
      BY <2>0, <2>7, <3>1, <3>2 DEF LooksAtMem, Places, counts, history
  <2> QED
    BY <1>3, <2>1, <2>2, <2>3, <2>4, <2>5, <2>6, <2>7 DEF Check
<1>4. CASE UNCHANGED vars
  BY <1>4 DEF vars, counts, history
<1> QED
  BY <1>1, <1>2, <1>3, <1>4 DEF Next

LEMMA InitCounted ==
    PerfmonAssumption /\ Init => CountsTyped /\ ChecksTyped /\ MemoryCounted /\ CpuCounted
<1> SUFFICES ASSUME PerfmonAssumption, Init
             PROVE  CountsTyped /\ ChecksTyped /\ MemoryCounted /\ CpuCounted
  OBVIOUS
<1>1. CountsTyped /\ MemoryCounted
  BY DEF PerfmonAssumption, Init, CountsTyped, MemoryCounted
<1>2. ChecksTyped
  BY DEF Init, ChecksTyped, Places, Kills, Sample, NoLoad
<1>3. CpuCounted
  BY DEF Init, CpuCounted, OverloadLimit, NoLoad
<1> QED
  BY <1>1, <1>2, <1>3

\* The counts stay within their bounds, and every check is at a place of checkCpuMemLoad.
THEOREM MonitorTypes == ASSUME PerfmonAssumption PROVE Spec => []TypeOK
<1>1. CountsTyped /\ ChecksTyped => TypeOK
  BY DEF CountsTyped, ChecksTyped, TypeOK, Places, Kills
<1> QED
  BY <1>1, InitCounted, TypedStep, PTL DEF Spec

\* Both self kills, however many checks overlap: that for memory comes after three checked
\* overloads in a row; that of the processor too, and after three more once the cgroup was
\* set up, unless a check has still to reset the count of before (reachCpuOverloadLimit).
THEOREM KillsAreEarned == ASSUME PerfmonAssumption PROVE Spec => []KillIsEarned
<1> DEFINE Inv == CountsTyped /\ ChecksTyped /\ MemoryCounted /\ CpuCounted
<1>1. Init => Inv
  BY InitCounted
<1>2. Inv /\ [Next]_vars => Inv'
  BY TypedStep, MemoryStep, CpuStep
<1>3. Inv => KillIsEarned
  BY DEF MemoryCounted, CpuCounted, Limiting, OneCheck, KillIsEarned
<1> QED
  BY <1>1, <1>2, <1>3, PTL DEF Spec

(***************************************************************************)
(* CryptData.                                                              *)
(***************************************************************************)
\* Where the commands and their handlers are.
CommandsTyped ==
    /\ cpc \in [Commands -> {"idle", "waiting", "exited", "panicked"}]
    /\ exit \in [Commands -> ExitCodes]
    /\ hpc \in [Commands -> HandlerPlaces]
RequestsTyped ==
    /\ op \in [Commands -> Operations \cup {"none"}]
    /\ key \in [Commands -> KeyIds \cup {NoKey}]
    /\ name \in [Commands -> Names \cup {NoKey}]
    /\ \A c \in Commands : hpc[c] # "idle" => /\ op[c] \in Operations
                                             /\ key[c] \in KeyIds /\ name[c] \in Names
StoresTyped ==
    /\ now \in 0 .. MaxTime
    /\ keys \in [KeyIds -> Nat \cup {NoKey}]
    /\ params \in [Names -> Nat \cup {NoKey}]
CleanerTyped ==
    /\ cleaner \in {"idle", "keys", "params"}
    /\ cleaner = "keys" => todo \subseteq KeyIds
    /\ cleaner = "params" => todo \subseteq Names
    /\ cleaner = "idle" => todo = {}
    /\ reader \in Names \cup {NoKey}

CryptInv == CommandsTyped /\ RequestsTyped /\ StoresTyped /\ CleanerTyped

LEMMA CryptBegins == ASSUME CryptAssumption, CryptInit PROVE CryptInv
<1>1. CommandsTyped
  BY DEF CryptInit, CommandsTyped, ExitCodes, HandlerPlaces
<1>2. RequestsTyped
  BY DEF CryptInit, RequestsTyped
<1>3. StoresTyped
  BY DEF CryptInit, CryptAssumption, StoresTyped
<1>4. CleanerTyped
  BY DEF CryptInit, CleanerTyped
<1> QED
  BY <1>1, <1>2, <1>3, <1>4 DEF CryptInv

LEMMA CryptStep ==
    ASSUME CryptAssumption, CryptInv, [CryptNext]_cryptVars
    PROVE  /\ CryptInv'
           /\ \A k \in KeyIds : keys[k] # NoKey => keys'[k] \in {keys[k], NoKey}
<1> USE DEF CryptInv, cmdVars, reqVars, cleanVars
<1> DEFINE Kept == \A k \in KeyIds : keys[k] # NoKey => keys'[k] \in {keys[k], NoKey}
<1>1. ASSUME NEW c \in Commands, Dials(c)
      PROVE  CryptInv' /\ Kept
  <2>1. CommandsTyped'
    BY <1>1 DEF Dials, CommandsTyped, ExitCodes, HandlerPlaces, RequestsTyped
  <2>2. RequestsTyped'
    BY <1>1 DEF Dials, CommandsTyped, RequestsTyped, ExitCodes, HandlerPlaces
  <2>3. StoresTyped' /\ Kept
    BY <1>1 DEF Dials, CommandsTyped, RequestsTyped, StoresTyped, CleanerTyped, CryptAssumption
  <2>4. CleanerTyped'
    BY <1>1 DEF Dials, CleanerTyped, StoresTyped, Expired
  <2> QED
    BY <2>1, <2>2, <2>3, <2>4
<1>2. ASSUME NEW c \in Commands, DialFails(c)
      PROVE  CryptInv' /\ Kept
  <2>1. CommandsTyped'
    BY <1>2 DEF DialFails, CommandsTyped, ExitCodes, HandlerPlaces, RequestsTyped
  <2>2. RequestsTyped'
    BY <1>2 DEF DialFails, CommandsTyped, RequestsTyped, ExitCodes, HandlerPlaces
  <2>3. StoresTyped' /\ Kept
    BY <1>2 DEF DialFails, CommandsTyped, RequestsTyped, StoresTyped, CleanerTyped, CryptAssumption
  <2>4. CleanerTyped'
    BY <1>2 DEF DialFails, CleanerTyped, StoresTyped, Expired
  <2> QED
    BY <2>1, <2>2, <2>3, <2>4
<1>3. ASSUME NEW c \in Commands, GetsReply(c)
      PROVE  CryptInv' /\ Kept
  <2>1. CommandsTyped'
    BY <1>3 DEF GetsReply, CommandsTyped, ExitCodes, HandlerPlaces, RequestsTyped
  <2>2. RequestsTyped'
    BY <1>3 DEF GetsReply, CommandsTyped, RequestsTyped, ExitCodes, HandlerPlaces
  <2>3. StoresTyped' /\ Kept
    BY <1>3 DEF GetsReply, CommandsTyped, RequestsTyped, StoresTyped, CleanerTyped, CryptAssumption
  <2>4. CleanerTyped'
    BY <1>3 DEF GetsReply, CleanerTyped, StoresTyped, Expired
  <2> QED
    BY <2>1, <2>2, <2>3, <2>4
<1>4. ASSUME NEW c \in Commands, CallFails(c)
      PROVE  CryptInv' /\ Kept
  <2>1. CommandsTyped'
    BY <1>4 DEF CallFails, CommandsTyped, ExitCodes, HandlerPlaces, RequestsTyped
  <2>2. RequestsTyped'
    BY <1>4 DEF CallFails, CommandsTyped, RequestsTyped, ExitCodes, HandlerPlaces
  <2>3. StoresTyped' /\ Kept
    BY <1>4 DEF CallFails, CommandsTyped, RequestsTyped, StoresTyped, CleanerTyped, CryptAssumption
  <2>4. CleanerTyped'
    BY <1>4 DEF CallFails, CleanerTyped, StoresTyped, Expired
  <2> QED
    BY <2>1, <2>2, <2>3, <2>4
<1>5. ASSUME NEW c \in Commands, ReplyLost(c)
      PROVE  CryptInv' /\ Kept
  <2>1. CommandsTyped'
    BY <1>5 DEF ReplyLost, CommandsTyped, ExitCodes, HandlerPlaces, RequestsTyped
  <2>2. RequestsTyped'
    BY <1>5 DEF ReplyLost, CommandsTyped, RequestsTyped, ExitCodes, HandlerPlaces
  <2>3. StoresTyped' /\ Kept
    BY <1>5 DEF ReplyLost, CommandsTyped, RequestsTyped, StoresTyped, CleanerTyped, CryptAssumption
  <2>4. CleanerTyped'
    BY <1>5 DEF ReplyLost, CleanerTyped, StoresTyped, Expired
  <2> QED
    BY <2>1, <2>2, <2>3, <2>4
<1>6. ASSUME NEW c \in Commands, NextCommand(c)
      PROVE  CryptInv' /\ Kept
  <2>1. CommandsTyped'
    BY <1>6 DEF NextCommand, CommandsTyped, ExitCodes, HandlerPlaces, RequestsTyped
  <2>2. RequestsTyped'
    BY <1>6 DEF NextCommand, CommandsTyped, RequestsTyped, ExitCodes, HandlerPlaces
  <2>3. StoresTyped' /\ Kept
    BY <1>6 DEF NextCommand, CommandsTyped, RequestsTyped, StoresTyped, CleanerTyped,
       CryptAssumption
  <2>4. CleanerTyped'
    BY <1>6 DEF NextCommand, CleanerTyped, StoresTyped, Expired
  <2> QED
    BY <2>1, <2>2, <2>3, <2>4
<1>7. ASSUME NEW c \in Commands, LoadKey(c)
      PROVE  CryptInv' /\ Kept
  <2>1. CommandsTyped'
    BY <1>7 DEF LoadKey, Handler, CommandsTyped, ExitCodes, HandlerPlaces, RequestsTyped,
       CryptAssumption
  <2>2. RequestsTyped'
    BY <1>7 DEF LoadKey, Handler, CommandsTyped, RequestsTyped, ExitCodes, HandlerPlaces
  <2>3. StoresTyped' /\ Kept
    BY <1>7 DEF LoadKey, Handler, CommandsTyped, RequestsTyped, StoresTyped, CleanerTyped,
       CryptAssumption
  <2>4. CleanerTyped'
    BY <1>7 DEF LoadKey, Handler, CleanerTyped, StoresTyped, Expired
  <2> QED
    BY <2>1, <2>2, <2>3, <2>4
<1>8. ASSUME NEW c \in Commands, DeleteExpired(c)
      PROVE  CryptInv' /\ Kept
  <2>1. CommandsTyped'
    BY <1>8 DEF DeleteExpired, Handler, CommandsTyped, ExitCodes, HandlerPlaces, RequestsTyped
  <2>2. RequestsTyped'
    BY <1>8 DEF DeleteExpired, Handler, CommandsTyped, RequestsTyped, ExitCodes, HandlerPlaces
  <2>3. StoresTyped' /\ Kept
    BY <1>8 DEF DeleteExpired, Handler, CommandsTyped, RequestsTyped, StoresTyped, CleanerTyped,
       CryptAssumption
  <2>4. CleanerTyped'
    BY <1>8 DEF DeleteExpired, Handler, CleanerTyped, StoresTyped, Expired
  <2> QED
    BY <2>1, <2>2, <2>3, <2>4
<1>9. ASSUME NEW c \in Commands, StoreKey(c)
      PROVE  CryptInv' /\ Kept
  <2>1. CommandsTyped'
    BY <1>9 DEF StoreKey, Handler, CommandsTyped, ExitCodes, HandlerPlaces, RequestsTyped
  <2>2. RequestsTyped'
    BY <1>9 DEF StoreKey, Handler, CommandsTyped, RequestsTyped, ExitCodes, HandlerPlaces
  <2>3. StoresTyped' /\ Kept
    BY <1>9 DEF StoreKey, Handler, CommandsTyped, RequestsTyped, StoresTyped, CleanerTyped,
       CryptAssumption
  <2>4. CleanerTyped'
    BY <1>9 DEF StoreKey, Handler, CleanerTyped, StoresTyped, Expired
  <2> QED
    BY <2>1, <2>2, <2>3, <2>4
<1>10. ASSUME NEW c \in Commands, RemoveRsaKey(c)
      PROVE  CryptInv' /\ Kept
  <2>1. CommandsTyped'
    BY <1>10 DEF RemoveRsaKey, Handler, CommandsTyped, ExitCodes, HandlerPlaces, RequestsTyped
  <2>2. RequestsTyped'
    BY <1>10 DEF RemoveRsaKey, Handler, CommandsTyped, RequestsTyped, ExitCodes, HandlerPlaces
  <2>3. StoresTyped' /\ Kept
    BY <1>10 DEF RemoveRsaKey, Handler, CommandsTyped, RequestsTyped, StoresTyped, CleanerTyped,
       CryptAssumption
  <2>4. CleanerTyped'
    BY <1>10 DEF RemoveRsaKey, Handler, CleanerTyped, StoresTyped, Expired
  <2> QED
    BY <2>1, <2>2, <2>3, <2>4
<1>11. ASSUME NEW c \in Commands, StoreParam(c)
      PROVE  CryptInv' /\ Kept
  <2>1. CommandsTyped'
    BY <1>11 DEF StoreParam, Handler, CommandsTyped, ExitCodes, HandlerPlaces, RequestsTyped
  <2>2. RequestsTyped'
    BY <1>11 DEF StoreParam, Handler, CommandsTyped, RequestsTyped, ExitCodes, HandlerPlaces
  <2>3. StoresTyped' /\ Kept
    BY <1>11 DEF StoreParam, Handler, CommandsTyped, RequestsTyped, StoresTyped, CleanerTyped,
       CryptAssumption
  <2>4. CleanerTyped'
    BY <1>11 DEF StoreParam, Handler, CleanerTyped, StoresTyped, Expired
  <2> QED
    BY <2>1, <2>2, <2>3, <2>4
<1>12. CASE ClockTicks
  <2>1. CommandsTyped'
    BY <1>12 DEF ClockTicks, CommandsTyped, ExitCodes, HandlerPlaces, RequestsTyped
  <2>2. RequestsTyped'
    BY <1>12 DEF ClockTicks, CommandsTyped, RequestsTyped, ExitCodes, HandlerPlaces
  <2>3. StoresTyped' /\ Kept
    BY <1>12 DEF ClockTicks, CommandsTyped, RequestsTyped, StoresTyped, CleanerTyped,
       CryptAssumption
  <2>4. CleanerTyped'
    BY <1>12 DEF ClockTicks, CleanerTyped, StoresTyped, Expired
  <2> QED
    BY <2>1, <2>2, <2>3, <2>4
<1>13. CASE ClearStarts
  <2>1. CommandsTyped'
    BY <1>13 DEF ClearStarts, CommandsTyped, ExitCodes, HandlerPlaces, RequestsTyped
  <2>2. RequestsTyped'
    BY <1>13 DEF ClearStarts, CommandsTyped, RequestsTyped, ExitCodes, HandlerPlaces
  <2>3. StoresTyped' /\ Kept
    BY <1>13 DEF ClearStarts, CommandsTyped, RequestsTyped, StoresTyped, CleanerTyped,
       CryptAssumption
  <2>4. CleanerTyped'
    BY <1>13 DEF ClearStarts, CleanerTyped, StoresTyped, Expired
  <2> QED
    BY <2>1, <2>2, <2>3, <2>4
<1>14. CASE ClearKey
  <2>1. CommandsTyped'
    BY <1>14 DEF ClearKey, CommandsTyped, ExitCodes, HandlerPlaces, RequestsTyped
  <2>2. RequestsTyped'
    BY <1>14 DEF ClearKey, CommandsTyped, RequestsTyped, ExitCodes, HandlerPlaces
  <2>3. StoresTyped' /\ Kept
    BY <1>14 DEF ClearKey, CommandsTyped, RequestsTyped, StoresTyped, CleanerTyped, CryptAssumption
  <2>4. CleanerTyped'
    BY <1>14 DEF ClearKey, CleanerTyped, StoresTyped, Expired
  <2> QED
    BY <2>1, <2>2, <2>3, <2>4
<1>15. CASE ClearParamsStarts
  <2>1. CommandsTyped'
    BY <1>15 DEF ClearParamsStarts, CommandsTyped, ExitCodes, HandlerPlaces, RequestsTyped
  <2>2. RequestsTyped'
    BY <1>15 DEF ClearParamsStarts, CommandsTyped, RequestsTyped, ExitCodes, HandlerPlaces
  <2>3. StoresTyped' /\ Kept
    BY <1>15 DEF ClearParamsStarts, CommandsTyped, RequestsTyped, StoresTyped, CleanerTyped,
       CryptAssumption
  <2>4. CleanerTyped'
    BY <1>15 DEF ClearParamsStarts, CleanerTyped, StoresTyped, Expired
  <2> QED
    BY <2>1, <2>2, <2>3, <2>4
<1>16. CASE ClearParam
  <2>1. CommandsTyped'
    BY <1>16 DEF ClearParam, CommandsTyped, ExitCodes, HandlerPlaces, RequestsTyped
  <2>2. RequestsTyped'
    BY <1>16 DEF ClearParam, CommandsTyped, RequestsTyped, ExitCodes, HandlerPlaces
  <2>3. StoresTyped' /\ Kept
    BY <1>16 DEF ClearParam, CommandsTyped, RequestsTyped, StoresTyped, CleanerTyped,
       CryptAssumption
  <2>4. CleanerTyped'
    BY <1>16 DEF ClearParam, CleanerTyped, StoresTyped, Expired
  <2> QED
    BY <2>1, <2>2, <2>3, <2>4
<1>17. CASE ClearEnds
  <2>1. CommandsTyped'
    BY <1>17 DEF ClearEnds, CommandsTyped, ExitCodes, HandlerPlaces, RequestsTyped
  <2>2. RequestsTyped'
    BY <1>17 DEF ClearEnds, CommandsTyped, RequestsTyped, ExitCodes, HandlerPlaces
  <2>3. StoresTyped' /\ Kept
    BY <1>17 DEF ClearEnds, CommandsTyped, RequestsTyped, StoresTyped, CleanerTyped, CryptAssumption
  <2>4. CleanerTyped'
    BY <1>17 DEF ClearEnds, CleanerTyped, StoresTyped, Expired
  <2> QED
    BY <2>1, <2>2, <2>3, <2>4
<1>18. CASE DeletesParam
  <2>1. CommandsTyped'
    BY <1>18 DEF DeletesParam, CommandsTyped, ExitCodes, HandlerPlaces, RequestsTyped
  <2>2. RequestsTyped'
    BY <1>18 DEF DeletesParam, CommandsTyped, RequestsTyped, ExitCodes, HandlerPlaces
  <2>3. StoresTyped' /\ Kept
    BY <1>18 DEF DeletesParam, CommandsTyped, RequestsTyped, StoresTyped, CleanerTyped,
       CryptAssumption
  <2>4. CleanerTyped'
    BY <1>18 DEF DeletesParam, CleanerTyped, StoresTyped, Expired
  <2> QED
    BY <2>1, <2>2, <2>3, <2>4
<1>19. ASSUME NEW n \in Names, FindsExpired(n)
      PROVE  CryptInv' /\ Kept
  <2>1. CommandsTyped'
    BY <1>19 DEF FindsExpired, CommandsTyped, ExitCodes, HandlerPlaces, RequestsTyped
  <2>2. RequestsTyped'
    BY <1>19 DEF FindsExpired, CommandsTyped, RequestsTyped, ExitCodes, HandlerPlaces
  <2>3. StoresTyped' /\ Kept
    BY <1>19 DEF FindsExpired, CommandsTyped, RequestsTyped, StoresTyped, CleanerTyped,
       CryptAssumption
  <2>4. CleanerTyped'
    BY <1>19 DEF FindsExpired, CleanerTyped, StoresTyped, Expired
  <2> QED
    BY <2>1, <2>2, <2>3, <2>4
<1>20. CASE UNCHANGED cryptVars
  <2>1. CommandsTyped'
    BY <1>20 DEF cryptVars, CommandsTyped, ExitCodes, HandlerPlaces, RequestsTyped
  <2>2. RequestsTyped'
    BY <1>20 DEF cryptVars, CommandsTyped, RequestsTyped, ExitCodes, HandlerPlaces
  <2>3. StoresTyped' /\ Kept
    BY <1>20 DEF cryptVars, CommandsTyped, RequestsTyped, StoresTyped, CleanerTyped, CryptAssumption
  <2>4. CleanerTyped'
    BY <1>20 DEF cryptVars, CleanerTyped, StoresTyped, Expired
  <2> QED
    BY <2>1, <2>2, <2>3, <2>4
<1> QED
  BY <1>1, <1>2, <1>3, <1>4, <1>5, <1>6, <1>7, <1>8, <1>9, <1>10, <1>11, <1>12, <1>13, <1>14,
     <1>15, <1>16, <1>17, <1>18, <1>19, <1>20 DEF CryptNext, CommandStep, HandlerStep,
     CleanerStep

\* The types, and that a handler at work has its request.
THEOREM CryptTypes == ASSUME CryptAssumption PROVE CryptSpec => []CryptTypeOK
<1>1. CryptInv => CryptTypeOK
  BY DEF CryptInv, CommandsTyped, RequestsTyped, StoresTyped, CleanerTyped, CryptTypeOK
<1> QED
  BY <1>1, CryptBegins, CryptStep, PTL DEF CryptSpec

\* A stored key is not replaced by another: every way to delete it is a step of its own, and of
\* two generators that found the id unused LoadOrStore lets one store (storeKey).
THEOREM KeysAreKept == ASSUME CryptAssumption PROVE CryptSpec => KeyNotReplaced
<1>1. CryptInv /\ [CryptNext]_cryptVars =>
         [\A k \in KeyIds : keys[k] # NoKey => keys'[k] \in {keys[k], NoKey}]_cryptVars
  BY CryptStep
<1> QED
  BY <1>1, CryptBegins, CryptStep, PTL DEF CryptSpec, KeyNotReplaced

-----------------------------------------------------------------------------
(***************************************************************************)
(* StateManager.  A callback has its configuration as long as it runs      *)
(* (JobsKnow), one is inside stateConfigEnforceLock (OneInside), and the   *)
(* timers lag behind the configurations only in a refresh (TimersFollow).  *)
(***************************************************************************)
ServerTypes ==
    /\ time \in 0..MaxChange /\ srvInterval \in Intervals
    /\ srv \in [Configs -> Definition \cup {None}]
    /\ applied \in [Configs -> 0..MaxChange] /\ real \in [Configs -> 0..MaxChange]
CacheTypes ==
    /\ cached \in Answer \cup {None} /\ file \in Answer \cup {None}
    /\ interval \in Intervals \cup {OneDay}
    /\ known \in [Configs -> Config \cup {None}]
    /\ timers \in [Configs -> Schedules \cup {None}]
PlaceTypes ==
    /\ mtimer \in {"nil", "drift", "run"} /\ lock \in {"free", "refresh", "perf"}
    /\ rpc \in RefreshPlaces /\ perf \in {"idle", "locking", "running", "panicked"}
    /\ crashes \in 0..MaxCrash
Job == [pc : {"idle", "drift", "wait", "enforce", "report"}, id : Configs \cup {None},
        config : Config \cup {None}, own : BOOLEAN]
JobTypes == job \in [Jobs -> Job]

\* A callback has its configuration from its start to its end, and a timer waits for none
\* that has ended.
JobsKnow ==
    \A j \in Jobs :
        /\ job[j].pc # "idle" => job[j].id \in Configs /\ job[j].config \in Config
        /\ job[j].own => job[j].pc # "idle"
\* stateConfigEnforceLock.
OneInside == \A i, j \in Enforcing : i = j

StatesInv ==
    /\ ServerTypes /\ CacheTypes /\ PlaceTypes /\ JobTypes /\ JobsKnow
    /\ OneInside /\ TimersFollow /\ CallbacksOwned

LEMMA StatesInvTypes == ASSUME StatesInv PROVE StatesTypeOK
BY DEF StatesInv, StatesTypeOK, ServerTypes, CacheTypes, PlaceTypes, JobTypes, Job

LEMMA StatesInvInit == ASSUME StateManagerAssumption, StatesInit PROVE StatesInv
<1> USE DEF StateManagerAssumption, StatesInit
<1>1. ServerTypes
  BY DEF ServerTypes
<1>2. CacheTypes
  BY DEF CacheTypes
<1>3. PlaceTypes
  BY DEF PlaceTypes, RefreshPlaces
<1>4. JobTypes
  BY DEF JobTypes, Job, IdleJob
<1>5. JobsKnow /\ OneInside /\ CallbacksOwned
  BY DEF JobsKnow, OneInside, Enforcing, CallbacksOwned, IdleJob
<1>6. TimersFollow
  BY DEF TimersFollow, NewTimer
<1> QED BY <1>1, <1>2, <1>3, <1>4, <1>5, <1>6 DEF StatesInv

\* What the server answers in full is an answer.
LEMMA FullAnswerTyped == ASSUME StateManagerAssumption, ServerTypes PROVE FullAnswer \in Answer
<1>1. \A c \in Configs : srv[c] # None =>
        [time |-> srv[c].time, mode |-> srv[c].mode, sched |-> srv[c].sched,
         done |-> applied[c] >= srv[c].time] \in Config
  <2> SUFFICES ASSUME NEW c \in Configs, srv[c] # None
      PROVE [time |-> srv[c].time, mode |-> srv[c].mode, sched |-> srv[c].sched,
             done |-> applied[c] >= srv[c].time] \in Config
    OBVIOUS
  <2>1. srv[c] \in Definition
    BY DEF ServerTypes
  <2>2. (applied[c] >= srv[c].time) \in BOOLEAN
    BY <2>1 DEF ServerTypes, Definition
  <2> QED BY <2>1, <2>2 DEF Definition, Config
<1> QED BY <1>1 DEF FullAnswer, Answer, ServerTypes

LEMMA ServerStep ==
    ASSUME StateManagerAssumption, StatesInv, [StatesNext]_stateVars PROVE ServerTypes'
<1> USE DEF StateManagerAssumption, StatesInv, ServerTypes
<1>1. ASSUME NEW c \in Configs, ServerChanges(c) PROVE ServerTypes'
  <2>1. time' \in 1..MaxChange /\ srvInterval' \in Intervals
    BY <1>1 DEF ServerChanges
  <2>2. srv' \in [Configs -> Definition \cup {None}]
    BY <1>1, <2>1 DEF ServerChanges, Definition
  <2> QED BY <1>1, <2>1, <2>2 DEF ServerChanges
<1>2. ASSUME NEW j \in Jobs, Applies(j) PROVE ServerTypes'
  <2>1. job[j].id \in Configs /\ job[j].config.time \in 0..MaxChange
    BY <1>2 DEF Applies, JobsKnow, Config
  <2> QED BY <2>1, <1>2 DEF Applies, srvVars
<1>3. ASSUME NEW j \in Jobs, Reports(j) PROVE ServerTypes'
  BY <1>3 DEF Reports, JobsKnow
<1>4. CASE UNCHANGED <<srvVars, real>>
  BY <1>4 DEF srvVars
<1>5. ASSUME StatesNext PROVE
        \/ UNCHANGED <<srvVars, real>> \/ \E c \in Configs : ServerChanges(c)
        \/ \E j \in Jobs : Applies(j) \/ Reports(j)
  BY <1>5, Zenon DEF StatesNext, JobStarts, DriftEnds, RefreshStep, RefreshStarts, UsesCache,
        Fetches, NotChanged, FetchFails, NotSupported, LocksToCancel, Cancels, LocksToInit,
        Inits, RefreshTimers,
        JobStep, JobDrifts, JobLocks, JobEnds, PerfChecks, PerfLocks, PerfReads, Restart
<1>6. CASE UNCHANGED stateVars
  BY <1>6, <1>4 DEF stateVars
<1> QED BY <1>1, <1>2, <1>3, <1>4, <1>5, <1>6

\* Using an answer keeps the types, and what the timers are made for is known to have
\* changed only before they are refreshed.
LEMMA UsesStep ==
    ASSUME StateManagerAssumption, StatesInv, NEW r \in Answer, Uses(r), UNCHANGED timers
    PROVE /\ interval' \in Intervals \cup {OneDay} /\ known' \in [Configs -> Config \cup {None}]
          /\ rpc' \in {"cancel", "timers"} /\ (rpc' # "timers" => known' = known)
BY DEF StatesInv, CacheTypes, Uses, Answer

LEMMA CacheStep ==
    ASSUME StateManagerAssumption, StatesInv, [StatesNext]_stateVars PROVE CacheTypes'
<1> USE DEF StateManagerAssumption, StatesInv, CacheTypes
<1>1. CASE RefreshStarts
  BY <1>1 DEF RefreshStarts, configs
<1>2. CASE UsesCache \/ NotChanged
  <2>1. Uses(cached) /\ cached \in Answer /\ UNCHANGED <<cached, file, timers>>
    BY <1>2 DEF UsesCache, NotChanged, cache
  <2> QED BY <2>1, UsesStep
<1>3. CASE Fetches
  <2>1. FullAnswer \in Answer
    BY FullAnswerTyped
  <2>2. Uses(FullAnswer) /\ UNCHANGED timers /\ cached' = FullAnswer /\ file' \in {file, FullAnswer}
    BY <1>3 DEF Fetches
  <2> HIDE DEF CacheTypes, StatesInv
  <2>3. /\ interval' \in Intervals \cup {OneDay} /\ known' \in [Configs -> Config \cup {None}]
    BY <2>1, <2>2, UsesStep
  <2> QED BY <2>1, <2>2, <2>3 DEF CacheTypes, StatesInv
<1>4. CASE RefreshTimers
  <2>1. \A c \in Configs : NewTimer(c) \in Schedules \cup {None}
    BY DEF NewTimer, Config
  <2> QED BY <2>1, <1>4 DEF RefreshTimers, cache
<1>5. CASE Restart \/ NotSupported
  BY <1>5 DEF Restart, NotSupported, cache, configs
<1>6. CASE UNCHANGED <<cached, file, interval, known, timers>>
  BY <1>6
<1>7. ASSUME StatesNext PROVE
        \/ UNCHANGED <<cached, file, interval, known, timers>> \/ NotSupported
        \/ RefreshStarts \/ UsesCache \/ NotChanged \/ Fetches \/ RefreshTimers \/ Restart
  BY <1>7, Zenon DEF StatesNext, ServerChanges, JobStarts, DriftEnds, RefreshStep, FetchFails,
        LocksToCancel, Cancels, LocksToInit, Inits, cache, configs, refresh,
        JobStep, JobDrifts, JobLocks, Applies, Reports, JobEnds, PerfChecks, PerfLocks, PerfReads
<1>8. CASE UNCHANGED stateVars
  BY <1>8, <1>6 DEF stateVars, cache, configs, refresh
<1> QED BY <1>1, <1>2, <1>3, <1>4, <1>5, <1>6, <1>7, <1>8

LEMMA PlaceStep ==
    ASSUME StateManagerAssumption, StatesInv, [StatesNext]_stateVars PROVE PlaceTypes'
<1> USE DEF PlaceTypes
<1>i. PlaceTypes /\ MaxCrash \in Nat
  BY DEF StatesInv, StateManagerAssumption
<1>1. CASE \E c \in Configs : ServerChanges(c) \/ \E j \in Jobs : JobStarts(j, c)
  BY <1>1, <1>i DEF ServerChanges, JobStarts, refresh
<1>2. CASE DriftEnds
  BY <1>2, <1>i DEF DriftEnds, refresh
<1>3. CASE RefreshStep
  BY <1>3, <1>i DEF RefreshStep, RefreshStarts, UsesCache, Fetches, NotChanged, FetchFails, NotSupported,
        LocksToCancel, Cancels, LocksToInit, Inits, RefreshTimers, RefreshGoto, Uses, RefreshPlaces
<1>4. CASE \E j \in Jobs : JobStep(j)
  BY <1>4, <1>i DEF JobStep, JobDrifts, JobLocks, Applies, Reports, JobEnds, refresh
<1>5. CASE PerfChecks \/ PerfLocks \/ PerfReads
  BY <1>5, <1>i DEF PerfChecks, PerfLocks, PerfReads, refresh
<1>6. CASE Restart
  BY <1>6, <1>i DEF Restart, RefreshPlaces
<1>7. CASE UNCHANGED stateVars
  BY <1>7, <1>i DEF stateVars, refresh
<1> QED BY <1>1, <1>2, <1>3, <1>4, <1>5, <1>6, <1>7 DEF StatesNext

\* What a step may do to the callbacks: nothing, one starts, goes on or ends, the timers take
\* their leave of some, or all are gone.
GoesOn(j) ==
    /\ job[j].pc # "idle"
    /\ \E place \in {"wait", "enforce", "report"} :
          /\ job' = [job EXCEPT ![j].pc = place]
          /\ place = "enforce" => Enforcing = {}
          /\ place = "report" => job[j].pc = "enforce"
          /\ place = "wait" => job[j].pc = "drift"
EndsJob(j) == job[j].pc \in {"enforce", "report"} /\ job' = [job EXCEPT ![j] = IdleJob]

LEMMA JobsDo ==
    ASSUME [StatesNext]_stateVars
    PROVE \/ UNCHANGED job
          \/ UNCHANGED <<known, timers>> /\ \E j \in Jobs, c \in Configs : JobStarts(j, c)
          \/ UNCHANGED <<known, timers>> /\ \E j \in Jobs : GoesOn(j) \/ EndsJob(j)
          \/ RefreshTimers \/ Restart
<1>1. CASE \E c \in Configs : ServerChanges(c)
  BY <1>1 DEF ServerChanges
<1>2. ASSUME NEW c \in Configs, NEW j \in Jobs, JobStarts(j, c)
      PROVE UNCHANGED <<known, timers>>
  BY <1>2 DEF JobStarts, configs
<1>3. CASE RefreshStep
  BY <1>3 DEF RefreshStep, RefreshStarts, UsesCache, Fetches, NotChanged, FetchFails, NotSupported,
              LocksToCancel, Cancels, LocksToInit, Inits
<1>4. ASSUME NEW j \in Jobs, JobStep(j)
      PROVE UNCHANGED <<known, timers>> /\ (GoesOn(j) \/ EndsJob(j))
  <2>1. CASE JobDrifts(j)
    BY <2>1 DEF JobDrifts, GoesOn, configs
  <2>2. CASE JobLocks(j)
    BY <2>2 DEF JobLocks, GoesOn, configs
  <2>3. CASE Applies(j)
    BY <2>3 DEF Applies, GoesOn, configs
  <2>4. CASE Reports(j) \/ JobEnds(j)
    BY <2>4 DEF Reports, JobEnds, EndsJob, configs
  <2> QED BY <1>4, <2>1, <2>2, <2>3, <2>4 DEF JobStep
<1>5. CASE DriftEnds \/ PerfChecks \/ PerfLocks \/ PerfReads
  BY <1>5 DEF DriftEnds, PerfChecks, PerfLocks, PerfReads
<1>6. CASE UNCHANGED stateVars
  BY <1>6 DEF stateVars
<1> QED BY <1>1, <1>2, <1>3, <1>4, <1>5, <1>6 DEF StatesNext

LEMMA JobsStep ==
    ASSUME StateManagerAssumption, StatesInv, [StatesNext]_stateVars
    PROVE JobTypes' /\ JobsKnow'
<1>i. JobTypes /\ JobsKnow /\ known \in [Configs -> Config \cup {None}]
  BY DEF StatesInv, CacheTypes
<1>0. IdleJob \in Job /\ IdleJob.pc = "idle" /\ IdleJob.own = FALSE
  BY DEF IdleJob, Job
<1> USE DEF JobTypes, JobsKnow
<1>1. CASE UNCHANGED job
  BY <1>1, <1>i
<1>2. ASSUME NEW j \in Jobs, NEW c \in Configs, JobStarts(j, c) PROVE JobTypes' /\ JobsKnow'
  <2> DEFINE new == [pc |-> IF known[c].sched = "cron" THEN "drift" ELSE "wait",
                     id |-> c, config |-> known[c], own |-> TRUE]
  <2>1. job' = [job EXCEPT ![j] = new] /\ known[c] \in Config
    BY <1>2, <1>i DEF JobStarts
  <2>2. new \in Job /\ new.pc # "idle" /\ new.id \in Configs /\ new.config \in Config
    BY <2>1 DEF Job
  <2> HIDE DEF new
  <2> QED BY <2>1, <2>2, <1>i
<1>3. ASSUME NEW j \in Jobs, GoesOn(j) PROVE JobTypes' /\ JobsKnow'
  <2>1. PICK place \in {"wait", "enforce", "report"} : job' = [job EXCEPT ![j].pc = place]
    BY <1>3 DEF GoesOn
  <2>2. job[j].pc # "idle"
    BY <1>3 DEF GoesOn
  <2> QED BY <2>1, <2>2, <1>i DEF Job
<1>4. ASSUME NEW j \in Jobs, EndsJob(j) PROVE JobTypes' /\ JobsKnow'
  BY <1>4, <1>i, <1>0 DEF EndsJob
<1>5. CASE RefreshTimers
  <2> DEFINE left(j) == IF job[j].own /\ NewTimer(job[j].id) # timers[job[j].id]
                        THEN [job[j] EXCEPT !.own = FALSE] ELSE job[j]
  <2>1. job' = [j \in Jobs |-> left(j)]
    BY <1>5 DEF RefreshTimers
  <2>2. \A j \in Jobs : left(j) \in Job /\ left(j).pc = job[j].pc /\ left(j).id = job[j].id
                        /\ left(j).config = job[j].config /\ (left(j).own => job[j].own)
    BY <1>i DEF Job
  <2> HIDE DEF left
  <2> QED BY <2>1, <2>2, <1>i
<1>6. CASE Restart
  BY <1>6, <1>0 DEF Restart
<1> QED BY <1>1, <1>2, <1>3, <1>4, <1>5, <1>6, JobsDo

LEMMA OneInsideStep ==
    ASSUME StatesInv, [StatesNext]_stateVars PROVE OneInside'
<1>i. JobTypes /\ OneInside
  BY DEF StatesInv
<1> USE DEF OneInside, Enforcing, JobTypes
<1>1. CASE UNCHANGED job
  BY <1>1, <1>i
<1>2. ASSUME NEW j \in Jobs, NEW c \in Configs, JobStarts(j, c) PROVE Enforcing' \subseteq Enforcing
  BY <1>2, <1>i DEF JobStarts
<1>3. ASSUME NEW j \in Jobs, GoesOn(j) PROVE Enforcing' \subseteq Enforcing \/ Enforcing' = {j}
  <2>1. PICK place \in {"wait", "enforce", "report"} :
          /\ job' = [job EXCEPT ![j].pc = place]
          /\ place = "enforce" => Enforcing = {}
          /\ place = "report" => job[j].pc = "enforce"
    BY <1>3 DEF GoesOn
  <2>2. \A i \in Jobs : job'[i].pc = IF i = j THEN place ELSE job[i].pc
    BY <2>1, <1>i DEF Job
  <2> QED BY <2>1, <2>2
<1>4. ASSUME NEW j \in Jobs, EndsJob(j) PROVE Enforcing' \subseteq Enforcing
  BY <1>4, <1>i DEF EndsJob, IdleJob
<1>5. CASE RefreshTimers
  <2>1. \A j \in Jobs : job'[j].pc = job[j].pc
    BY <1>5, <1>i DEF RefreshTimers, Job
  <2> QED BY <2>1, <1>i
<1>6. CASE Restart
  BY <1>6 DEF Restart, IdleJob
<1> QED BY <1>1, <1>2, <1>3, <1>4, <1>5, <1>6, <1>i, JobsDo

LEMMA FollowStep ==
    ASSUME StateManagerAssumption, StatesInv, [StatesNext]_stateVars PROVE TimersFollow'
<1>i. TimersFollow
  BY DEF StatesInv
<1> USE DEF TimersFollow
<1>1. CASE UNCHANGED <<known, timers>> /\ (rpc = "timers" => rpc' = "timers")
  BY <1>1, <1>i DEF NewTimer
<1>2. CASE UsesCache \/ NotChanged \/ Fetches
  <2>1. PICK r : Uses(r) /\ rpc = "loaded" /\ UNCHANGED timers
    BY <1>2 DEF UsesCache, NotChanged, Fetches
  <2> QED BY <2>1, <1>i DEF Uses, NewTimer
<1>3. CASE RefreshTimers
  BY <1>3 DEF RefreshTimers, NewTimer
<1>4. CASE Restart
  BY <1>4 DEF Restart, NewTimer
<1>5. CASE \E c \in Configs : ServerChanges(c) \/ \E j \in Jobs : JobStarts(j, c)
  BY <1>5, <1>1 DEF ServerChanges, JobStarts, configs, refresh
<1>6. CASE DriftEnds \/ PerfChecks \/ PerfLocks \/ PerfReads
  BY <1>6, <1>1 DEF DriftEnds, PerfChecks, PerfLocks, PerfReads, configs, refresh
<1>7. CASE RefreshStarts \/ FetchFails \/ NotSupported \/ LocksToCancel \/ Cancels \/ LocksToInit \/ Inits
  BY <1>7, <1>1 DEF RefreshStarts, FetchFails, NotSupported, LocksToCancel, Cancels,
     LocksToInit, Inits, configs,
                    RefreshGoto
<1>8. CASE \E j \in Jobs : JobStep(j)
  BY <1>8, <1>1 DEF JobStep, JobDrifts, JobLocks, Applies, Reports, JobEnds, configs, refresh
<1>9. CASE UNCHANGED stateVars
  BY <1>9, <1>1 DEF stateVars, configs, refresh
<1> QED BY <1>2, <1>3, <1>4, <1>5, <1>6, <1>7, <1>8, <1>9 DEF StatesNext, RefreshStep

LEMMA OwnedStep ==
    ASSUME StatesInv, [StatesNext]_stateVars PROVE CallbacksOwned'
<1>i. JobTypes /\ CallbacksOwned /\ JobsKnow
  BY DEF StatesInv
<1> USE DEF CallbacksOwned, JobTypes
<1>1. ASSUME UNCHANGED job, ~Restart, ~RefreshTimers PROVE UNCHANGED timers
  BY <1>1, Zenon DEF StatesNext, ServerChanges, JobStarts, DriftEnds, RefreshStep, FetchFails, NotSupported,
        RefreshStarts, UsesCache, Fetches, NotChanged,
        LocksToCancel, Cancels, LocksToInit, Inits, configs, stateVars,
        JobStep, JobDrifts, JobLocks, Applies, Reports, JobEnds, PerfChecks, PerfLocks, PerfReads
<1>2. ASSUME NEW j \in Jobs, NEW c \in Configs, JobStarts(j, c), UNCHANGED timers
      PROVE CallbacksOwned'
  <2>1. /\ \A i \in Jobs : ~(job[i].own /\ job[i].id = c)
        /\ job'[j].id = c /\ timers[c] # None
        /\ \A i \in Jobs : i # j => job'[i] = job[i]
    BY <1>2, <1>i DEF JobStarts
  <2> QED BY <2>1, <1>2, <1>i
<1>3. ASSUME NEW j \in Jobs, GoesOn(j), UNCHANGED timers PROVE CallbacksOwned'
  <2>1. \A i \in Jobs : job'[i].own = job[i].own /\ job'[i].id = job[i].id
    BY <1>3, <1>i DEF GoesOn, Job
  <2> QED BY <2>1, <1>3, <1>i
<1>4. ASSUME NEW j \in Jobs, EndsJob(j), UNCHANGED timers PROVE CallbacksOwned'
  <2>1. /\ ~job'[j].own
        /\ \A i \in Jobs : i # j => job'[i] = job[i]
    BY <1>4, <1>i DEF EndsJob, IdleJob
  <2> QED BY <2>1, <1>4, <1>i
<1>5. CASE RefreshTimers
  <2>1. \A j \in Jobs : job'[j].own =>
          job[j].own /\ job'[j].id = job[j].id /\ NewTimer(job[j].id) = timers[job[j].id]
    BY <1>5, <1>i DEF RefreshTimers, Job
  <2>2. \A j \in Jobs : job[j].own => job[j].id \in Configs
    BY <1>i DEF JobsKnow
  <2>3. \A c \in Configs : timers'[c] = NewTimer(c)
    BY <1>5 DEF RefreshTimers
  <2>4. \A j \in Jobs : job'[j].own => timers'[job'[j].id] # None
    BY <2>1, <2>2, <2>3, <1>i
  <2> QED BY <2>1, <2>4, <1>i
<1>6. CASE Restart
  BY <1>6 DEF Restart, IdleJob
<1>7. ASSUME UNCHANGED <<job, timers>> PROVE CallbacksOwned'
  BY <1>7, <1>i
<1> QED BY <1>1, <1>2, <1>3, <1>4, <1>5, <1>6, <1>7, JobsDo

LEMMA StatesInvStep ==
    ASSUME StateManagerAssumption, StatesInv, [StatesNext]_stateVars PROVE StatesInv'
BY ServerStep, CacheStep, PlaceStep, JobsStep, OneInsideStep, FollowStep, OwnedStep DEF StatesInv

\* What is pairwise equal is at most one.
LEMMA OneInsideIsOne == ASSUME OneInside PROVE OneEnforces
<1>1. CASE Enforcing = {}
  BY <1>1, FS_EmptySet DEF OneEnforces
<1>2. ASSUME NEW j \in Enforcing PROVE OneEnforces
  <2>1. Enforcing = {j}
    BY DEF OneInside
  <2>2. Cardinality({j}) = 1
    BY FS_Singleton
  <2> QED BY <2>1, <2>2 DEF OneEnforces
<1> QED BY <1>1, <1>2

\* What the state manager keeps has its type, past restarts and changed intervals.
THEOREM StateTypesHold == ASSUME StateManagerAssumption PROVE StatesSpec => []StatesTypeOK
<1>1. StatesInit => StatesInv
  BY StatesInvInit
<1>2. StatesInv /\ [StatesNext]_stateVars => StatesInv'
  BY StatesInvStep
<1>3. StatesInv => StatesTypeOK
  BY StatesInvTypes
<1> QED BY <1>1, <1>2, <1>3, PTL DEF StatesSpec

\* States are applied by one callback at a time, the timers are those of the configurations
\* that are known, and none waits for a callback of another timer.
THEOREM StatesKeepStep == ASSUME StateManagerAssumption PROVE StatesSpec => []StatesInStep
<1>1. StatesInit => StatesInv
  BY StatesInvInit
<1>2. StatesInv /\ [StatesNext]_stateVars => StatesInv'
  BY StatesInvStep
<1>3. StatesInv => StatesInStep
  BY OneInsideIsOne DEF StatesInv, StatesInStep
<1> QED BY <1>1, <1>2, <1>3, PTL DEF StatesSpec

-----------------------------------------------------------------------------
(***************************************************************************)
(* Inventory.  A request that is accepted, whole or with hashes, leaves on *)
(* the server what was collected, and hashes are kept after one alone.     *)
(***************************************************************************)
\* The type invariant, and that hashes wait only while they are being kept.
InventoryInv ==
    /\ InventoryTypeOK
    /\ stage \notin {"update", "write"} => hashes = {}
    /\ CompliantIsKnown

LEMMA InventoryInvInit == ASSUME InventoryAssumption, InventoryInit PROVE InventoryInv
<1>1. Empty \in [Types -> Contents \cup {Missing}]
  BY DEF Empty
<1>2. InventoryTypeOK
  <2>1. torn \in BOOLEAN
    BY Zenon DEF InventoryInit
  <2>2. /\ contentChanges \in 0..MaxChanges /\ troubles \in 0..MaxTroubles
        /\ {server, hashFile, contentHashStore, items} \subseteq [Types -> Contents \cup {Missing}]
        /\ content \in [Types -> Contents] /\ hashes \subseteq Collected
        /\ stage = "idle" /\ status = Missing
    BY <1>1 DEF InventoryAssumption, InventoryInit
  <2> QED BY <2>1, <2>2 DEF InventoryTypeOK
<1> QED BY <1>2 DEF InventoryInit, InventoryInv, CompliantIsKnown

LEMMA InventoryTypeStep ==
    ASSUME InventoryAssumption, InventoryInv, [InventoryNext]_itemVars PROVE InventoryTypeOK'
<1> USE DEF InventoryAssumption, InventoryTypeOK, Empty, disk, bounds, Trouble, Fine
<1>i. InventoryTypeOK /\ (stage \notin {"update", "write"} => hashes = {})
  BY DEF InventoryInv
<1>1. CASE ContentChanges
  BY <1>1, <1>i DEF ContentChanges, Collected
<1>2. CASE Gathers
  <2>1. hashes' = {} /\ stage' \in {"idle", "load"} /\ status' \in {"compliant", "failed", Missing}
        /\ troubles' \in 0..MaxTroubles
    BY <1>2, <1>i DEF Gathers
  <2>2. items' \in [Types -> Contents \cup {Missing}]
    BY <1>2, <1>i DEF Gathers
  <2> QED BY <2>1, <2>2, <1>2, <1>i DEF Gathers
<1>3. CASE Loads
  BY <1>3, <1>i DEF Loads, Collected
<1>4. CASE Sends
  <2>1. server' \in [Types -> Contents \cup {Missing}]
    BY <1>4, <1>i DEF Sends, Puts
  <2>2. hashes' \subseteq Collected /\ stage' \in {"idle", "whole", "update"}
        /\ status' \in {"compliant", "failed", Missing} /\ troubles' \in 0..MaxTroubles
    BY <1>4, <1>i DEF Sends, Fails
  <2> QED BY <2>1, <2>2, <1>4, <1>i DEF Sends, Collected
<1>5. CASE UpdateContentHash
  <2>1. PICK i \in hashes : contentHashStore' = [contentHashStore EXCEPT ![i] = items[i]]
    BY <1>5 DEF UpdateContentHash
  <2>2. contentHashStore' \in [Types -> Contents \cup {Missing}]
    BY <2>1, <1>i DEF Collected
  <2>3. hashes' \subseteq hashes /\ stage' \in {"update", "write"}
        /\ troubles' \in 0..MaxTroubles
    BY <1>5, <1>i DEF UpdateContentHash
  <2>6. torn' \in BOOLEAN
    BY <1>5, <1>i, Zenon DEF UpdateContentHash
  <2>4. UNCHANGED <<content, server, hashFile, items, status, contentChanges>>
    BY <1>5 DEF UpdateContentHash
  <2>5. Collected' = Collected
    BY <2>4 DEF Collected
  <2> QED BY <2>2, <2>3, <2>4, <2>5, <2>6, <1>i
<1>6. CASE Writes
  <2>1. UNCHANGED <<content, server, contentHashStore, items, hashes, status, contentChanges>>
    BY <1>6 DEF Writes
  <2>2. /\ hashFile' \in {hashFile, contentHashStore}
        /\ troubles' \in 0..MaxTroubles /\ stage' = "update"
    BY <1>6, <1>i DEF Writes
  <2>4. torn' \in BOOLEAN
    BY <1>6, <1>i, Zenon DEF Writes
  <2>3. Collected' = Collected
    BY <2>1 DEF Collected
  <2> QED BY <2>1, <2>2, <2>3, <2>4, <1>i
<1>7. CASE Ends
  BY <1>7, <1>i DEF Ends, Collected
<1>8. CASE Crash
  BY <1>8, <1>i DEF Crash, Collected
<1>9. CASE UNCHANGED itemVars
  BY <1>9, <1>i DEF itemVars, Collected
<1> QED
  BY <1>1, <1>2, <1>3, <1>4, <1>5, <1>6, <1>7, <1>8, <1>9 DEF InventoryNext, Step

\* Hashes wait only while they are being kept, since runs follow one another.
LEMMA HashesWaitStep ==
    ASSUME InventoryInv, [InventoryNext]_itemVars
    PROVE (stage \notin {"update", "write"} => hashes = {})'
BY DEF InventoryInv, InventoryNext, Step, ContentChanges, Gathers, Loads, Sends, Fails,
       UpdateContentHash, Writes, Ends, Crash, itemVars

\* A request that is accepted leaves on the server what was collected, whether it went whole
\* or as a hash.
LEMMA AcceptedIsKnown ==
    ASSUME InventoryTypeOK, Accepts, Puts
    PROVE \A i \in Collected : server'[i] = items[i]
BY DEF InventoryTypeOK, Accepts, Puts, Whole, Collected

LEMMA CompliantStep ==
    ASSUME InventoryAssumption, InventoryInv, [InventoryNext]_itemVars PROVE CompliantIsKnown'
<1> USE DEF CompliantIsKnown
<1>i. InventoryTypeOK /\ CompliantIsKnown
  BY DEF InventoryInv
<1>1. CASE ContentChanges
  <2>1. \A i \in Types : server'[i] \in {server[i], Missing}
    BY <1>1, <1>i DEF ContentChanges, InventoryTypeOK
  <2> QED BY <2>1, <1>1, <1>i DEF ContentChanges, Collected
<1>2. CASE Sends
  <2>1. CASE stage' = "update"
    <3>1. Accepts /\ Puts /\ items' = items
      BY <2>1, <1>2 DEF Sends, Fails
    <3> QED BY <3>1, <1>i, AcceptedIsKnown DEF Collected
  <2>2. CASE stage' # "update"
    BY <2>2, <1>2 DEF Sends, Fails
  <2> QED BY <2>1, <2>2
<1>3. CASE Gathers \/ Loads \/ Ends \/ Crash
  BY <1>3 DEF Gathers, Loads, Ends, Crash
<1>4. CASE UpdateContentHash \/ Writes
  BY <1>4, <1>i DEF UpdateContentHash, Writes, Collected
<1>5. CASE UNCHANGED itemVars
  BY <1>5, <1>i DEF itemVars, Collected
<1> QED
  BY <1>1, <1>2, <1>3, <1>4, <1>5 DEF InventoryNext, Step

\* Once a run is about to be compliant the server has all that it collected, for any number
\* of types, changes, lost answers and crashes.
THEOREM CompliantRunsAreKnown ==
    ASSUME InventoryAssumption PROVE InventorySpec => [](InventoryTypeOK /\ CompliantIsKnown)
<1>1. InventoryInit => InventoryInv
  BY InventoryInvInit
<1>2. InventoryInv /\ [InventoryNext]_itemVars => InventoryInv'
  BY InventoryTypeStep, HashesWaitStep, CompliantStep DEF InventoryInv
<1>3. InventoryInv => InventoryTypeOK /\ CompliantIsKnown
  BY DEF InventoryInv
<1> QED BY <1>1, <1>2, <1>3, PTL DEF InventorySpec
============================================================================
