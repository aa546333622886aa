----------------------------- MODULE CryptData -----------------------------
(***************************************************************************)
(* Key pairs and secret parameters with an expiry (agent/cryptdata), used  *)
(* through IPC by the commands of the data-encryption command line: a      *)
(* command calls the agent (agent/ipc/client), whose handler runs in a     *)
(* goroutine of its own (agent/ipc/server), and a timer clears what has    *)
(* expired.  Both maps are sync.Map: each of their operations is atomic,   *)
(* a function that uses two is not.                                        *)
(*                                                                         *)
(* A stored key or parameter is represented by its ExpiredTimestamp.       *)
(***************************************************************************)
EXTENDS Integers, FiniteSets

CONSTANTS KeyIds, Names,   \* ids of key pairs, names of secret parameters
          Commands,        \* command line processes
          Timeouts,        \* validity periods, in seconds
          MaxTime,         \* bound of the clock
          Operations,      \* the commands in use
          NoKey

CryptAssumption ==
    /\ Timeouts \subseteq Nat /\ MaxTime \in Nat
    /\ NoKey \notin KeyIds /\ NoKey \notin Names
    /\ Operations \subseteq {"gen", "remove", "use", "createParam"}

VARIABLES now,
          keys, params,     \* keyPairs_, secretParams_
          cpc, exit,        \* command: where it is, and its exit code
          hpc,              \* the handler of its request
          op, key, name,    \* the request
          cleaner, todo,    \* the timer callback, and what it is to delete
          reader            \* a task that found this parameter expired

cmdVars == <<cpc, exit>>
reqVars == <<op, key, name>>
cleanVars == <<cleaner, todo>>
cryptVars == <<now, keys, params, cmdVars, hpc, reqVars, cleanVars, reader>>

HandlerPlaces == {"idle", "start", "delExpired", "store", "delete",
                  "storeParam", "ok", "duplicated", "notExist"}
ExitCodes == {"none", "ok", "duplicated", "notExist", "other"}

\* The type invariant.
CryptTypeOK ==
    /\ now \in 0..MaxTime
    /\ keys \in [KeyIds -> Nat \cup {NoKey}]
    /\ params \in [Names -> Nat \cup {NoKey}]
    /\ cpc \in [Commands -> {"idle", "waiting", "exited", "panicked"}]
    /\ exit \in [Commands -> ExitCodes]
    /\ hpc \in [Commands -> HandlerPlaces]
    /\ op \in [Commands -> Operations \cup {"none"}]
    /\ key \in [Commands -> KeyIds \cup {NoKey}]
    /\ name \in [Commands -> Names \cup {NoKey}]
    /\ cleaner \in {"idle", "keys", "params"}
    /\ todo \subseteq KeyIds \cup Names
    /\ reader \in Names \cup {NoKey}

CryptInit ==
    /\ now = 0
    /\ keys = [k \in KeyIds |-> NoKey]
    /\ params = [n \in Names |-> NoKey]
    /\ cpc = [c \in Commands |-> "idle"]
    /\ exit = [c \in Commands |-> "none"]
    /\ hpc = [c \in Commands |-> "idle"]
    /\ op = [c \in Commands |-> "none"]
    /\ key = [c \in Commands |-> NoKey]
    /\ name = [c \in Commands |-> NoKey]
    /\ cleaner = "idle" /\ todo = {} /\ reader = NoKey

ClockTicks ==
    /\ now < MaxTime /\ now' = now + 1
    /\ UNCHANGED <<keys, params, cmdVars, hpc, reqVars, cleanVars, reader>>

(* --------------------------- the command line --------------------------- *)

Dials(c) ==
    /\ cpc[c] = "idle" /\ hpc[c] = "idle"
    /\ \E o \in Operations, k \in KeyIds, n \in Names :
         /\ op' = [op EXCEPT ![c] = o]
         /\ key' = [key EXCEPT ![c] = k]
         /\ name' = [name EXCEPT ![c] = n]
    /\ cpc' = [cpc EXCEPT ![c] = "waiting"]
    /\ exit' = [exit EXCEPT ![c] = "none"]
    /\ hpc' = [hpc EXCEPT ![c] = "start"]
    /\ UNCHANGED <<now, keys, params, cleanVars, reader>>

\* newClient: two attempts to connect.
DialFails(c) ==
    /\ cpc[c] = "idle" /\ hpc[c] = "idle"
    /\ cpc' = [cpc EXCEPT ![c] = "exited"]
    /\ exit' = [exit EXCEPT ![c] = "other"]
    /\ UNCHANGED <<now, keys, params, hpc, reqVars, cleanVars, reader>>

\* The handler's answer arrives; its status becomes the exit code.
GetsReply(c) ==
    /\ cpc[c] = "waiting" /\ hpc[c] \in {"ok", "duplicated", "notExist"}
    /\ cpc' = [cpc EXCEPT ![c] = "exited"]
    /\ exit' = [exit EXCEPT ![c] = hpc[c]]
    /\ hpc' = [hpc EXCEPT ![c] = "idle"]
    /\ UNCHANGED <<now, keys, params, reqVars, cleanVars, reader>>

\* The call fails or lasts longer than grpcTimeout: no response.  RmRsaKeyPair
\* logs the status of that response.
CallFails(c) ==
    /\ cpc[c] = "waiting"
    /\ IF op[c] = "remove"
       THEN cpc' = [cpc EXCEPT ![c] = "panicked"] /\ exit' = exit
       ELSE /\ cpc' = [cpc EXCEPT ![c] = "exited"]
            /\ exit' = [exit EXCEPT ![c] = "other"]
    /\ UNCHANGED <<now, keys, params, hpc, reqVars, cleanVars, reader>>

\* Nobody waits for the handler's answer any more.
ReplyLost(c) ==
    /\ cpc[c] # "waiting" /\ hpc[c] \in {"ok", "duplicated", "notExist"}
    /\ hpc' = [hpc EXCEPT ![c] = "idle"]
    /\ UNCHANGED <<now, keys, params, cmdVars, reqVars, cleanVars, reader>>

\* The user runs another command.
NextCommand(c) ==
    /\ cpc[c] \in {"exited", "panicked"} /\ hpc[c] = "idle"
    /\ cpc' = [cpc EXCEPT ![c] = "idle"]
    /\ UNCHANGED <<now, keys, params, exit, hpc, reqVars, cleanVars, reader>>

(* ------------------------------- Mutants -------------------------------- *)

\* Store instead of LoadOrStore.
StoreKeyAnyway(c) ==
    /\ hpc[c] = "store"
    /\ \E t \in Timeouts : keys' = [keys EXCEPT ![key[c]] = now + t]
    /\ hpc' = [hpc EXCEPT ![c] = "ok"]
    /\ UNCHANGED <<now, params, cmdVars, reqVars, cleanVars, reader>>

(* ----------------------- the handlers of the agent ---------------------- *)

Handler(c, from, to) ==
    /\ hpc[c] = from
    /\ hpc' = [hpc EXCEPT ![c] = to]

\* loadKey: what the operation does next with a valid key, and without one.  An
\* expired key is deleted in a second operation on the map.
LoadKey(c) ==
    LET k == keys[key[c]]
        Found == CASE op[c] = "gen" -> "duplicated"
                   [] op[c] = "remove" -> "delete"
                   [] op[c] = "use" -> "ok"
                   [] op[c] = "createParam" -> "storeParam"
        Refusal == IF op[c] = "gen" THEN "store" ELSE "notExist"
    IN /\ Handler(c, "start", IF k = NoKey THEN Refusal
                              ELSE IF k < now THEN "delExpired" ELSE Found)
       /\ UNCHANGED <<now, keys, params, cmdVars, reqVars, cleanVars, reader>>

DeleteExpired(c) ==
    /\ Handler(c, "delExpired", IF op[c] = "gen" THEN "store" ELSE "notExist")
    /\ keys' = [keys EXCEPT ![key[c]] = NoKey]
    /\ UNCHANGED <<now, params, cmdVars, reqVars, cleanVars, reader>>

\* storeKey: LoadOrStore.
StoreKey(c) ==
    /\ Handler(c, "store", IF keys[key[c]] = NoKey THEN "ok" ELSE "duplicated")
    /\ IF keys[key[c]] = NoKey
       THEN \E t \in Timeouts : keys' = [keys EXCEPT ![key[c]] = now + t]
       ELSE keys' = keys
    /\ UNCHANGED <<now, params, cmdVars, reqVars, cleanVars, reader>>

RemoveRsaKey(c) ==
    /\ Handler(c, "delete", "ok")
    /\ keys' = [keys EXCEPT ![key[c]] = NoKey]
    /\ UNCHANGED <<now, params, cmdVars, reqVars, cleanVars, reader>>

\* CreateSecretParam, after the decryption: an old value is overwritten.
StoreParam(c) ==
    /\ Handler(c, "storeParam", "ok")
    /\ \E t \in Timeouts : params' = [params EXCEPT ![name[c]] = now + t]
    /\ UNCHANGED <<now, keys, cmdVars, reqVars, cleanVars, reader>>

\* GetSecretParam, in a task whose parameters name a secret: an expired value
\* is deleted in a second operation on the map.
FindsExpired(n) ==
    /\ reader = NoKey /\ params[n] # NoKey /\ params[n] < now
    /\ reader' = n
    /\ UNCHANGED <<now, keys, params, cmdVars, hpc, reqVars, cleanVars>>

DeletesParam ==
    /\ reader # NoKey
    /\ params' = [params EXCEPT ![reader] = NoKey]
    /\ reader' = NoKey
    /\ UNCHANGED <<now, keys, cmdVars, hpc, reqVars, cleanVars>>

(* ------------------------- the clearing callback ------------------------ *)

Expired(m) == {x \in DOMAIN m : m[x] # NoKey /\ m[x] <= now}

ClearStarts ==
    /\ cleaner = "idle"
    /\ cleaner' = "keys"
    /\ todo' = Expired(keys)
    /\ UNCHANGED <<now, keys, params, cmdVars, hpc, reqVars, reader>>

ClearKey ==
    /\ cleaner = "keys"
    /\ \E k \in todo : keys' = [keys EXCEPT ![k] = NoKey] /\ todo' = todo \ {k}
    /\ UNCHANGED <<now, params, cmdVars, hpc, reqVars, cleaner, reader>>

ClearParamsStarts ==
    /\ cleaner = "keys" /\ todo = {}
    /\ cleaner' = "params"
    /\ todo' = Expired(params)
    /\ UNCHANGED <<now, keys, params, cmdVars, hpc, reqVars, reader>>

ClearParam ==
    /\ cleaner = "params"
    /\ \E n \in todo :
         params' = [params EXCEPT ![n] = NoKey] /\ todo' = todo \ {n}
    /\ UNCHANGED <<now, keys, cmdVars, hpc, reqVars, cleaner, reader>>

ClearEnds ==
    /\ cleaner = "params" /\ todo = {}
    /\ cleaner' = "idle"
    /\ UNCHANGED <<now, keys, params, cmdVars, hpc, reqVars, todo, reader>>

HandlerStep(c) ==
    \/ LoadKey(c) \/ DeleteExpired(c) \/ StoreKey(c) \/ RemoveRsaKey(c)
    \/ StoreParam(c)
CommandStep(c) ==
    \/ Dials(c) \/ DialFails(c) \/ GetsReply(c) \/ CallFails(c) \/ ReplyLost(c)
    \/ NextCommand(c)
CleanerStep ==
    ClearStarts \/ ClearKey \/ ClearParamsStarts \/ ClearParam \/ ClearEnds

CryptNext ==
    \/ ClockTicks
    \/ \E c \in Commands : CommandStep(c) \/ HandlerStep(c)
    \/ CleanerStep
    \/ (\E n \in Names : FindsExpired(n)) \/ DeletesParam

CryptSpec == CryptInit /\ [][CryptNext]_cryptVars

\* Handlers are scheduled, and the timer fires every minute.
CryptLiveSpec ==
    /\ CryptSpec /\ WF_cryptVars(CleanerStep)
    /\ \A c \in Commands : WF_cryptVars(HandlerStep(c))

(* ------------------------------ properties ------------------------------ *)

\* A key is never replaced: of two generators that both found the id unused,
\* one fails with ErrKeyIdDuplicated, so that what was encrypted for a key
\* can be decrypted as long as the key is there.
KeyNotReplaced ==
    [][\A k \in KeyIds : keys[k] # NoKey => keys'[k] \in {keys[k], NoKey}]_cryptVars

\* Secrets do not outlive their expiry for ever: the timer clears expired keys
\* and parameters even if nobody asks for them again.
ExpiredAreCleared ==
    /\ \A k \in KeyIds : (keys[k] # NoKey /\ keys[k] <= now)
                           ~> (keys[k] = NoKey \/ keys[k] > now)
    /\ \A n \in Names : (params[n] # NoKey /\ params[n] <= now)
                           ~> (params[n] = NoKey \/ params[n] > now)

\* "KeyPair[%s] has expired for %d second, so delete it" (cryptdata.go): what
\* is deleted has expired, unless RemoveRsaKey deletes it.
DeletedKeyExpired ==
    [][\A k \in KeyIds : keys[k] # NoKey /\ keys'[k] = NoKey =>
          \/ keys[k] <= now
          \/ \E c \in Commands : hpc[c] = "delete" /\ key[c] = k]_cryptVars

\* "if return error, client will get a nil resp and lose the error code"
\* (server.go): a command whose call failed still exits with a code.
CommandsExit == \A c \in Commands : cpc[c] # "panicked"
=============================================================================
