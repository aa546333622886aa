---------------------------- MODULE PluginHealth ----------------------------
(***************************************************************************)
(* The two periodic health checks of the plugins                           *)
(* (src/agent/pluginmanager/pluginmanager.go).                             *)
(*                                                                         *)
(* The scan asks acs-plugin-manager for the status of every plugin; the    *)
(* pull reads the heartbeat files of the persistent ones.  Each has a timer*)
(* and the two are to keep avoidTime apart.  In lazy mode the pull compares*)
(* what it reads with lastPluginStatusRecord and reports changes only.     *)
(*                                                                         *)
(* Time is discrete: Tick passes one unit and is possible when nothing is  *)
(* due.  A timer (module Timer) counts down from the interval of its       *)
(* schedule, again and again, and RefreshTimer starts the countdown anew;  *)
(* a callback that is still running is not started twice.  That a scan     *)
(* starts the plugins that do not run is left to the plugins here: they    *)
(* may start and stop at any time.                                         *)
(***************************************************************************)
EXTENDS Integers

CONSTANTS
    Plugins,       \* persistent plugins
    Avoid,         \* avoidTime, and the spread of the start of the timers
    ScanIntervals, \* values of pluginHealthScanInterval, ...
    PullIntervals, \* ... of pluginHealthPullInterval
    FirstScan, FirstPull,  \* and what loadIntervalConf left them at
    PullSetsScan,  \* may the answer to a pull change the interval of scans?
    PostsLost,     \* may the post of a pull fail?
    MaxWork,       \* bound on the time a check takes
    MaxChanges     \* bound on the changes of a status

HealthAssumption ==
    /\ Avoid \in Nat \ {0} /\ MaxWork \in Nat /\ MaxChanges \in Nat
    /\ ScanIntervals \cup PullIntervals \subseteq Nat \ {0}
    /\ FirstScan \in ScanIntervals /\ FirstPull \in PullIntervals
    /\ PullSetsScan \in BOOLEAN /\ PostsLost \in BOOLEAN

VARIABLES
    scanInterval, pullInterval,  \* the package variables
    scanTimer, pullTimer,        \* interval of the schedule, and the time left
    since,     \* time since lastPluginHealthCheckTime, up to Far
    scanAt, pullAt,              \* control states of the callbacks
    scanFor, pullFor,            \* the time they have been at it
    lastSeen,  \* time since the last scan as the pull has read it
    lazy,      \* lazyReport
    record,    \* lastPluginStatusRecord
    status,    \* what the heartbeat file of a plugin tells
    told,      \* what the last pull that arrived told the server
    changes    \* changes of a status so far

timeVars == <<scanTimer, pullTimer, since, scanFor, pullFor, lastSeen>>
confVars == <<scanInterval, pullInterval, lazy>>
plugVars == <<status, changes>>
vars == <<timeVars, confVars, plugVars, scanAt, pullAt, record, told>>

Far == CHOOSE n \in {i + 1 : i \in ScanIntervals} : \A i \in ScanIntervals : n > i

\* "none": not installed, or no heartbeat file that could be read.
Statuses == {"none", "running", "fail"}
Silence == [p \in Plugins |-> "none"]

\* The type invariant: the times stay within their bounds.
TypeOK ==
    /\ scanInterval \in ScanIntervals /\ pullInterval \in PullIntervals
    /\ scanTimer \in [interval : ScanIntervals, left : Nat]
    /\ pullTimer \in [interval : PullIntervals, left : Nat]
    /\ since \in 0 .. Far /\ lastSeen \in 0 .. Far
    /\ scanAt \in {"idle", "work"} /\ pullAt \in {"idle", "wait", "post"}
    /\ scanFor \in 0 .. MaxWork /\ pullFor \in 0 .. MaxWork
    /\ lazy \in BOOLEAN
    /\ {record, status, told} \subseteq [Plugins -> Statuses]
    /\ changes \in 0 .. MaxChanges

\* InitPluginCheckTimer: the first scan is within a minute, the first pull in
\* the minute after it.  (A MutableScheduled fires at once when it is run.)
Init ==
    /\ scanInterval = FirstScan /\ pullInterval = FirstPull
    /\ \E n \in 0 .. Avoid : scanTimer = [interval |-> FirstScan, left |-> n]
    /\ \E n \in Avoid .. 2 * Avoid : pullTimer = [interval |-> FirstPull, left |-> n]
    /\ since = Far /\ lastSeen = Far
    /\ scanAt = "idle" /\ pullAt = "idle" /\ scanFor = 0 /\ pullFor = 0
    /\ lazy = FALSE
    /\ record = Silence /\ told = Silence
    /\ status \in [Plugins -> {"none", "running"}]
    /\ changes = 0

-----------------------------------------------------------------------------
(* Mutants: what a plausible slip in the code would make of the definition     *)
(* below whose name each extends.                                              *)

\* The lazy comparison looks at which plugins there are, not at their status.
NothingNewNames ==
    \A p \in Plugins : (status[p] = "none") = (record[p] = "none")

-----------------------------------------------------------------------------
\* refreshTimer: SetInterval, and the countdown starts again.
Refreshed(interval) == [interval |-> interval, left |-> interval]

Smaller(m, n) == IF m < n THEN m ELSE n

\* pluginHealthCheckPull goes on once avoidTime has passed since the scan.
Waited == pullAt = "wait" /\ lastSeen >= Avoid

\* Time passes when no timer and no deadline is due.
Tick ==
    /\ scanTimer.left > 0 /\ pullTimer.left > 0 /\ ~Waited
    /\ scanAt = "work" => scanFor < MaxWork
    /\ pullAt = "post" => pullFor < MaxWork
    /\ scanTimer' = [scanTimer EXCEPT !.left = @ - 1]
    /\ pullTimer' = [pullTimer EXCEPT !.left = @ - 1]
    /\ since' = Smaller(since + 1, Far)
    /\ scanFor' = IF scanAt = "work" THEN scanFor + 1 ELSE 0
    /\ pullFor' = IF pullAt = "post" THEN pullFor + 1 ELSE 0
    /\ lastSeen' = IF pullAt = "wait" THEN Smaller(lastSeen + 1, Far) ELSE lastSeen
    /\ UNCHANGED <<confVars, plugVars, scanAt, pullAt, record, told>>

\* A plugin is installed, started, stopped, removed, or misses its heartbeat.
StatusChanges(p) ==
    /\ changes < MaxChanges
    /\ \E s \in Statuses \ {status[p]} : status' = [status EXCEPT ![p] = s]
    /\ changes' = changes + 1
    /\ UNCHANGED <<timeVars, confVars, scanAt, pullAt, record, told>>

\* The countdown is over: it starts again, and the callback unless it runs.
ScanFires ==
    /\ scanTimer.left = 0
    /\ scanTimer' = Refreshed(scanTimer.interval)
    /\ IF scanAt = "idle"
       THEN scanAt' = "work" /\ since' = 0 /\ scanFor' = 0
       ELSE UNCHANGED <<scanAt, since, scanFor>>
    /\ UNCHANGED <<pullTimer, pullFor, lastSeen, confVars, plugVars, pullAt, record, told>>

\* The scan has reported and the answer sets both intervals, of which only its
\* own reaches a timer, and the mode of the pulls, ...  (A command and a request
\* take longer than a pull that need not wait takes to read both variables.)
ScanAnswered ==
    /\ scanAt = "work"
    /\ ~Waited
    /\ scanInterval' \in ScanIntervals
    /\ pullInterval' \in PullIntervals
    /\ lazy' \in BOOLEAN
    /\ scanTimer' = Refreshed(scanInterval')
    /\ scanAt' = "idle"
    /\ UNCHANGED <<pullTimer, since, scanFor, pullFor, lastSeen, plugVars, pullAt,
                   record, told>>

\* ... or there was nothing to report or no answer.
ScanFails ==
    /\ scanAt = "work"
    /\ scanAt' = "idle"
    /\ UNCHANGED <<timeVars, confVars, plugVars, pullAt, record, told>>

PullFires ==
    /\ pullTimer.left = 0
    /\ pullTimer' = Refreshed(pullTimer.interval)
    /\ IF pullAt = "idle"
       THEN pullAt' = "wait" /\ lastSeen' = since
       ELSE UNCHANGED <<pullAt, lastSeen>>
    /\ UNCHANGED <<scanTimer, since, scanFor, pullFor, confVars, plugVars, scanAt,
                   record, told>>

\* remainTime, the time until the next scan as the pull computes it.
Remain == scanInterval - lastSeen
NextScanClose == Remain < Avoid

\* The comparison of curPluginStatusRecord with lastPluginStatusRecord.
NothingNew == status = record

\* The pull is cancelled, finds no heartbeat, or has nothing new to tell, ...
PullSilent ==
    /\ Waited
    /\ NextScanClose \/ status = Silence \/ (lazy /\ NothingNew)
    /\ pullAt' = "idle"
    /\ UNCHANGED <<timeVars, confVars, plugVars, scanAt, record, told>>

\* ... or records what it has read and posts it.
PullPosts ==
    /\ Waited
    /\ ~NextScanClose /\ status # Silence /\ ~(lazy /\ NothingNew)
    /\ record' = status
    /\ pullAt' = "post" /\ pullFor' = 0
    /\ UNCHANGED <<scanTimer, pullTimer, since, scanFor, lastSeen, confVars, plugVars,
                   scanAt, told>>

\* The answer sets both intervals, of which only that of the pull reaches a timer.
PullAnswered ==
    /\ pullAt = "post"
    /\ told' = record
    /\ pullInterval' \in PullIntervals
    /\ scanInterval' \in IF PullSetsScan THEN ScanIntervals ELSE {scanInterval}
    /\ lazy' \in BOOLEAN
    /\ pullTimer' = Refreshed(pullInterval')
    /\ pullAt' = "idle"
    /\ UNCHANGED <<scanTimer, since, scanFor, pullFor, lastSeen, plugVars, scanAt, record>>

\* The post is not repeated when it fails.  An answer that cannot be parsed is
\* one to a report that has arrived.
PullFails ==
    /\ pullAt = "post"
    /\ \/ PostsLost /\ UNCHANGED told
       \/ told' = record
    /\ pullAt' = "idle"
    /\ UNCHANGED <<timeVars, confVars, plugVars, scanAt, record>>

Scan == ScanFires \/ ScanAnswered \/ ScanFails
Pull == PullFires \/ PullSilent \/ PullPosts \/ PullAnswered \/ PullFails

Next == Tick \/ Scan \/ Pull \/ \E p \in Plugins : StatusChanges(p)

Spec == Init /\ [][Next]_vars

\* Time passes, timers fire, and the checks end: every wait in them has a
\* deadline.
Fairness == WF_vars(Tick) /\ WF_vars(Scan) /\ WF_vars(Pull)

LiveSpec == Spec /\ Fairness

-----------------------------------------------------------------------------
(* Properties. *)

\* "The distance between pluginHealthPull and pluginHealthScan must exceed
\* avoidTime": a pull reports neither soon after a scan has started nor soon
\* before the next one does, however the intervals are changed.
KeptApart ==
    [][pullAt = "wait" /\ pullAt' = "post"
         => since >= Avoid /\ scanTimer.left >= Avoid]_vars

\* A pull keeps silent about heartbeats that it has read only when the server
\* knows them: laziness hides no change.
SilenceIsKnown ==
    [][pullAt = "wait" /\ pullAt' = "idle" /\ ~NextScanClose /\ status # Silence
         => told = status]_vars

\* A status that stays is told, whatever mode the server asks for: pulls are
\* not for ever cancelled because of a scan.
ChangesAreTold == <>[](status # Silence => told = status)
=============================================================================
