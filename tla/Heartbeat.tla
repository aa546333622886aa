------------------------------ MODULE Heartbeat ------------------------------
(***************************************************************************)
(* The heart-beats of the agent (src/agent/heartbeat/heartbeat.go).        *)
(*                                                                         *)
(* The main goroutine sends the first one, with up to three attempts; the  *)
(* heart-beat timer, which has been started before, sends the others.  The *)
(* two share, without a lock, the scheme that is to be used next and the   *)
(* counter of what has been sent; the mutex covers the quota of retries,   *)
(* three in an hour, with the retry itself.                                *)
(*                                                                         *)
(* The counters appear as their difference: since is _sendCounter -        *)
(* _lastHttpFailedSendCounter, up to the value at which http is tried      *)
(* again.                                                                  *)
(***************************************************************************)
EXTENDS Integers

CONSTANTS
    HttpAgain,      \* 24 * 60 in the code
    Quota,          \* 3 in the code
    PingAttempts,   \* 3 in the code: those of the main goroutine
    Settings        \* where an instance may be: whether it is registered in hybrid
                    \* mode, the schemes that always work, those that fail now and then

Pingers == {"main", "timer"}
Schemes == {"http", "https"}

PingAssumption ==
    /\ HttpAgain \in Nat \ {0, 1} /\ Quota \in Nat \ {0} /\ PingAttempts \in Nat \ {0}
    /\ Settings \subseteq [hybrid : BOOLEAN, steady : SUBSET Schemes, flapping : SUBSET Schemes]

Other(s) == IF s = "http" THEN "https" ELSE "http"

VARIABLES
    setting,     \* that of the instance
    tryHttp,     \* _tryHttp
    since,       \* _sendCounter - _lastHttpFailedSendCounter
    retries,     \* _retryCounter
    hourOver,    \* an hour has passed since _startTime
    at,          \* at[p] : where pinger p is in doPing
    scheme,      \* scheme[p] : that of its first request
    attempts,    \* attempts of the main goroutine that remain
    sinceHttp,   \* history: heart-beats since http was last requested, without
                 \* those that the timer sends while the main goroutine is at it
    missed       \* history: heart-beats that failed, one after the other

pingVars == <<setting, tryHttp, since, retries, hourOver, at, scheme, attempts, sinceHttp, missed>>

Capped(n, limit) == IF n < limit THEN n ELSE limit
Enough == HttpAgain + 1
Bound == HttpAgain + 5        \* bound of the history variables

PingInit ==
    /\ setting \in Settings
    /\ tryHttp = TRUE /\ since = 0
    /\ retries = 0 /\ hourOver = TRUE        \* _startTime is the zero time
    /\ at = [p \in Pingers |-> "idle"]
    /\ scheme = [p \in Pingers |-> "http"]
    /\ attempts = PingAttempts
    /\ sinceHttp = 0 /\ missed = 0

(***************************************************************************)
(* doPing chooses a scheme.                                                *)
(***************************************************************************)
TriesHttpAgain == since > HttpAgain

Choice == IF setting.hybrid THEN "https"
          ELSE IF tryHttp \/ TriesHttpAgain THEN "http" ELSE "https"

Pings(p) ==
    /\ at[p] = "idle"
    /\ p = "main" => attempts > 0
    /\ tryHttp' = (tryHttp \/ TriesHttpAgain)
    /\ scheme' = [scheme EXCEPT ![p] = Choice]
    /\ at' = [at EXCEPT ![p] = "request"]
    /\ UNCHANGED <<since, retries, hourOver, attempts, sinceHttp, missed>>

(***************************************************************************)
(* Requests.  One over a steady scheme succeeds, one over a flapping       *)
(* scheme may, over any other none does.                                   *)
(***************************************************************************)
MaySucceed(s) == s \in setting.steady \cup setting.flapping
MayFail(s) == s \notin setting.steady

Requests(s) ==
    /\ sinceHttp' = IF s = "http" THEN 0 ELSE sinceHttp
    /\ UNCHANGED <<hourOver, scheme, attempts>>

Goto(p, step) == at' = [at EXCEPT ![p] = step]

(* Mutant: the scheme stays what it is. *)
KeepsScheme(s) == UNCHANGED <<tryHttp, since>>

\* The scheme of the next heart-beat: http after a success over http or a
\* failure over https; https, counted from now on, the other way round.
UseNext(s) ==
    /\ tryHttp' = (s = "http")
    /\ since' = IF s = "https" THEN 0 ELSE since

\* The first request.  An error with a status below 500 is not retried.
FirstRequest(p) ==
    /\ at[p] = "request"
    /\ Requests(scheme[p])
    /\ \/ /\ MaySucceed(scheme[p])
          /\ Goto(p, "acknowledged") /\ UNCHANGED <<tryHttp, since>>
       \/ /\ MayFail(scheme[p])
          /\ Goto(p, "lock") /\ UNCHANGED <<tryHttp, since>>
       \/ /\ MayFail(scheme[p])
          /\ Goto(p, "failed") /\ UseNext(Other(scheme[p]))
    /\ UNCHANGED <<retries, missed>>

Retrying == {"retry", "other"}

RetriesNow == IF hourOver THEN 0 ELSE retries

QuotaUsed == RetriesNow >= Quota

\* _retryMutex, which is held until invokePingRequest returns.
LocksRetry(p) ==
    /\ at[p] = "lock" /\ \A q \in Pingers : at[q] \notin Retrying
    /\ hourOver' = FALSE
    /\ IF QuotaUsed
       THEN /\ retries' = RetriesNow
            /\ Goto(p, "failed") /\ UseNext(Other(scheme[p]))
       ELSE /\ retries' = RetriesNow + 1
            /\ Goto(p, "retry") /\ UNCHANGED <<tryHttp, since>>
    /\ UNCHANGED <<scheme, attempts, sinceHttp, missed>>

\* The retry over the same scheme; then, but for hybrid, the other scheme.
Retries(p) ==
    /\ at[p] = "retry"
    /\ Requests(scheme[p])
    /\ \/ /\ MaySucceed(scheme[p])
          /\ Goto(p, "acknowledged") /\ UseNext(scheme[p])
       \/ /\ MayFail(scheme[p])
          /\ IF setting.hybrid THEN Goto(p, "failed") /\ UseNext(Other(scheme[p]))
             ELSE Goto(p, "other") /\ UNCHANGED <<tryHttp, since>>
    /\ UNCHANGED <<retries, missed>>

UsesOther(p) ==
    /\ at[p] = "other"
    /\ Requests(Other(scheme[p]))
    /\ \/ MaySucceed(Other(scheme[p])) /\ Goto(p, "acknowledged")
       \/ MayFail(Other(scheme[p])) /\ Goto(p, "failed")
    /\ UseNext(Other(scheme[p]))
    /\ UNCHANGED <<retries, missed>>

(***************************************************************************)
(* The end of a heart-beat.  The main goroutine stops at its first success *)
(* or after its attempts, and only then advances _sendCounter.             *)
(***************************************************************************)
Ends(p) ==
    /\ at[p] \in {"acknowledged", "failed"}
    /\ Goto(p, "idle")
    /\ LET again == p = "main" /\ at[p] = "failed" /\ attempts > 1 IN
         /\ attempts' = IF p = "timer" THEN attempts
                        ELSE IF again THEN attempts - 1 ELSE 0
         /\ since' = IF again THEN since ELSE Capped(since + 1, Enough)
         /\ sinceHttp' = IF attempts' > 0 THEN sinceHttp ELSE Capped(sinceHttp + 1, Bound)
    /\ missed' = IF at[p] = "acknowledged" THEN 0 ELSE Capped(missed + 1, Bound)
    /\ UNCHANGED <<tryHttp, retries, hourOver, scheme>>

HourPasses ==
    /\ ~hourOver
    /\ hourOver' = TRUE
    /\ UNCHANGED <<tryHttp, since, retries, at, scheme, attempts, sinceHttp, missed>>

Pinger(p) == Pings(p) \/ FirstRequest(p) \/ LocksRetry(p) \/ Retries(p)
             \/ UsesOther(p) \/ Ends(p)

PingNext ==
    /\ (\E p \in Pingers : Pinger(p)) \/ HourPasses
    /\ UNCHANGED setting

\* Requests have timeouts, and the timer fires again and again.
PingSpec == PingInit /\ [][PingNext]_pingVars
                     /\ \A p \in Pingers : WF_pingVars(Pinger(p))

(***************************************************************************)
(* Properties.                                                             *)
(***************************************************************************)
\* Every variable has a value of its type, within the quota of retries, and
\* one pinger at a time retries.
PingTypeOK ==
    /\ setting \in Settings
    /\ tryHttp \in BOOLEAN /\ hourOver \in BOOLEAN
    /\ since \in 0 .. Enough /\ retries \in 0 .. Quota
    /\ at \in [Pingers -> Retrying \cup
                 {"idle", "request", "lock", "acknowledged", "failed"}]
    /\ scheme \in [Pingers -> Schemes]
    /\ attempts \in 0 .. PingAttempts
    /\ sinceHttp \in 0 .. Bound /\ missed \in 0 .. Bound
    /\ {p \in Pingers : at[p] \in Retrying} # Pingers

\* While one scheme that may be used works all the time a failed heart-beat makes the
\* next one use it: no more fail in a row than there are pingers, and one that tried
\* the other scheme once more (doPing, invokePingRequest).
Usable == IF setting.hybrid THEN setting.steady \ {"http"} ELSE setting.steady
FewMissed == Usable # {} => missed <= 3

\* While https works http is tried again after so many heart-beats over it: doPing
\* compares after the last of them, and those at the start have been counted as one.
HttpTriedAgain ==
    ~setting.hybrid /\ "https" \in setting.steady => sinceHttp <= HttpAgain + 2

\* In hybrid mode no request, retry or switch goes over http: "internet for
\* hybrid mode is obviously untrusted" (doPing).
HybridIsHttps ==
    setting.hybrid => \A p \in Pingers : at[p] # "idle" => scheme[p] = "https" /\ at[p] # "other"

BeatsArrive == FewMissed /\ HttpTriedAgain /\ HybridIsHttps
=============================================================================
