----------------------------- MODULE UpdatePrep -----------------------------
(***************************************************************************)
(* The preparation of an update: safeUpdate and checkLocalDirectory of     *)
(* src/agent/update/routine.go, with the phases of src/common/update.      *)
(*                                                                         *)
(* A check asks the service for a version.  If its directory is there and  *)
(* agrees with its hash file, its update script is executed; else the      *)
(* package is downloaded, compared with its checksum, extracted and the    *)
(* new agent validated first.  Every step may fail or end after the time   *)
(* for the preparation, which ends the check; and the agent may crash and  *)
(* start again, with what is on the disk by then.  The waiting for running *)
(* tasks before the script is module FetchUpdate.                          *)
(*                                                                         *)
(* Nothing in the repository writes the hash file: a package brings it.    *)
(***************************************************************************)
EXTENDS Integers, FiniteSets

CONSTANTS
    Versions,      \* the versions, numbers
    Invalid,       \* those whose agent is not for this machine
    First,         \* the version that is installed
    Elapsed,       \* seconds that may have gone when the download begins
    Preparation,   \* seconds for the preparation (40 at start, then 60)
    MaxDownload,   \* seconds for the download (30)
    MaxOffers,     \* bound on the changes of mind of the service
    MaxTroubles    \* bound on errors, timeouts and crashes

PrepAssumption ==
    /\ Versions \subseteq Nat /\ Invalid \subseteq Versions /\ First \in Versions
    /\ Elapsed \subseteq Nat
    /\ {Preparation, MaxDownload, MaxOffers, MaxTroubles} \subseteq Nat

Files == {"hash", "agent", "script"}

VARIABLES
    disk,      \* the files of the installed versions: "none", "half", "good"
    package,   \* the downloaded package of a version: "none", "bad", "good"
    current,   \* the version that runs
    offer,     \* the version the service wants
    phase,     \* what the check is at; "new" after an update
    target,    \* its version
    limit,     \* the timeout of the download, 0 for none
    todo,      \* files still to extract
    writing,   \* those being written
    offers, troubles

check == <<phase, target, limit, todo, writing>>
prepVars == <<disk, package, current, offer, check, offers, troubles>>

Present(v) == \E f \in Files : disk[v][f] # "none"
Whole(v) == \A f \in Files : disk[v][f] = "good"

\* The type invariant.
PrepTypeOK ==
    /\ disk \in [Versions -> [Files -> {"none", "half", "good"}]]
    /\ package \in [Versions -> {"none", "bad", "good"}]
    /\ {current, offer, target} \subseteq Versions
    /\ phase \in {"idle", "fetch", "local", "download", "md5", "remove", "extract",
                  "validate", "execute", "new"}
    /\ limit \in 0 .. MaxDownload
    /\ todo \subseteq Files /\ writing \subseteq todo
    /\ offers \in 0 .. MaxOffers /\ troubles \in 0 .. MaxTroubles

PrepInit ==
    /\ disk = [v \in Versions |-> [f \in Files |-> IF v = First THEN "good" ELSE "none"]]
    /\ package = [v \in Versions |-> "none"]
    /\ current = First /\ offer = First
    /\ phase = "idle" /\ target = First /\ limit = 0
    /\ todo = {} /\ writing = {}
    /\ offers = 0 /\ troubles = 0

Trouble == troubles < MaxTroubles /\ troubles' = troubles + 1

\* The end of a step: in time, or the check is over.
Proceed(next) ==
    \/ phase' = next /\ UNCHANGED troubles
    \/ phase' = "idle" /\ Trouble

\* The service wants another version, an older one perhaps.
ServiceOffers ==
    /\ offers < MaxOffers /\ offers' = offers + 1
    /\ offer' \in Versions \ {offer}
    /\ UNCHANGED <<disk, package, current, check, troubles>>

\* The bootstrap, or the timer of InitCheckUpdateTimer.
Check ==
    /\ phase \in {"idle", "new"} /\ phase' = "fetch"
    /\ UNCHANGED <<disk, package, current, offer, target, limit, todo, writing, offers, troubles>>

FetchUpdateInfo ==
    /\ phase = "fetch"
    /\ target' = offer
    /\ IF offer = current THEN phase' = "idle" /\ UNCHANGED troubles
       ELSE Proceed("local")
    /\ UNCHANGED <<disk, package, current, offer, limit, todo, writing, offers>>

(* Mutant: a directory is trusted for its name. *)
CheckName ==
    /\ phase = "local"
    /\ IF Present(target) THEN phase' = "execute" /\ UNCHANGED <<disk, troubles>>
       ELSE Proceed("download") /\ UNCHANGED disk
    /\ UNCHANGED <<package, current, offer, target, limit, todo, writing, offers>>

(* Mutant: a directory that is not whole ends the check. *)
CheckGivesUp ==
    /\ phase = "local"
    /\ IF Whole(target) THEN phase' = "execute" /\ UNCHANGED <<disk, troubles>>
       ELSE IF Present(target) THEN phase' = "idle" /\ UNCHANGED <<disk, troubles>>
       ELSE Proceed("download") /\ UNCHANGED disk
    /\ UNCHANGED <<package, current, offer, target, limit, todo, writing, offers>>

\* checkLocalDirectory: a directory that does not agree with its hash file
\* loses it.
CheckLocalDirectory ==
    /\ phase = "local"
    /\ IF Whole(target) THEN phase' = "execute" /\ UNCHANGED <<disk, troubles>>
       ELSE Proceed("download") /\ disk' = [disk EXCEPT ![target]["hash"] = "none"]
    /\ UNCHANGED <<package, current, offer, target, limit, todo, writing, offers>>

Smaller(a, b) == IF a < b THEN a ELSE b

\* DownloadPackage.  Five seconds are kept for a report; a timeout of 0 is none.
Download ==
    /\ phase = "download"
    /\ \E e \in Elapsed :
          LET time == Smaller(Preparation - e, MaxDownload) - 5
          IN  IF e >= Preparation \/ time < 0
              THEN phase' = "idle" /\ Trouble /\ UNCHANGED <<package, limit>>
              ELSE /\ limit' = time
                   /\ \/ package' = [package EXCEPT ![target] = "good"] /\ Proceed("md5")
                      \/ Trouble /\ package' = [package EXCEPT ![target] = "bad"]
                         /\ phase' \in {"md5", "idle"}
    /\ UNCHANGED <<disk, current, offer, target, todo, writing, offers>>

\* The rest of the check runs under a deferred RemoveUpdatePackage.
CleanUp == package' = [package EXCEPT ![target] = "none"]
Ends == phase' = "idle" /\ Trouble /\ CleanUp

CompareFileMD5 ==
    /\ phase = "md5"
    /\ IF package[target] = "good"
       THEN (phase' = "remove" /\ UNCHANGED <<package, troubles>>) \/ Ends
       ELSE phase' = "idle" /\ CleanUp /\ UNCHANGED troubles
    /\ UNCHANGED <<disk, current, offer, target, limit, todo, writing, offers>>

NoFiles == [f \in Files |-> "none"]
Removed(old) == [v \in Versions |-> IF v \in old THEN NoFiles ELSE disk[v]]

RemoveOldVersion ==
    /\ phase = "remove"
    /\ disk' = Removed({v \in Versions : v < current})
    /\ \/ phase' = "extract" /\ todo' = Files /\ UNCHANGED <<package, troubles>>
       \/ Ends /\ UNCHANGED todo
    /\ UNCHANGED <<current, offer, target, limit, writing, offers>>

(***************************************************************************)
(* ExtractPackage, file by file, over whatever is there.                   *)
(***************************************************************************)
ExtractOpens ==
    /\ phase = "extract" /\ writing = {}
    /\ \E f \in todo : writing' = {f} /\ disk' = [disk EXCEPT ![target][f] = "half"]
    /\ UNCHANGED <<package, current, offer, phase, target, limit, todo, offers, troubles>>

\* What a bad package holds is as bad.
ExtractCopies ==
    /\ phase = "extract"
    /\ \E f \in writing :
          /\ todo' = todo \ {f} /\ writing' = {}
          /\ disk' = IF package[target] = "good" THEN [disk EXCEPT ![target][f] = "good"] ELSE disk
    /\ UNCHANGED <<package, current, offer, phase, target, limit, offers, troubles>>

ExtractFails ==
    /\ phase = "extract"
    /\ Ends
    /\ todo' = {} /\ writing' = {}
    /\ UNCHANGED <<disk, current, offer, target, limit, offers>>

ExtractDone ==
    /\ phase = "extract" /\ todo = {}
    /\ (phase' = "validate" /\ UNCHANGED <<package, troubles>>) \/ Ends
    /\ UNCHANGED <<disk, current, offer, target, limit, todo, writing, offers>>

\* ValidateExecutable, on the agent of the new version.
Validate ==
    /\ phase = "validate"
    /\ CleanUp
    /\ IF target \in Invalid THEN phase' = "idle" /\ UNCHANGED troubles
       ELSE Proceed("execute")
    /\ UNCHANGED <<disk, current, offer, target, limit, todo, writing, offers>>

\* ExecuteUpdateScriptRunner: the script stops this agent and starts the new
\* one, or fails.
ExecuteUpdateScript ==
    /\ phase = "execute"
    /\ \/ phase' = "new" /\ current' = target /\ UNCHANGED troubles
       \/ phase' = "idle" /\ Trouble /\ UNCHANGED current
    /\ UNCHANGED <<disk, package, offer, target, limit, todo, writing, offers>>

\* The agent dies at any point of a check, and starts.
Crash ==
    /\ phase \notin {"idle", "new"} /\ Trouble
    /\ phase' = "idle" /\ todo' = {} /\ writing' = {}
    /\ UNCHANGED <<disk, package, current, offer, target, limit, offers>>

Step ==
    \/ Check \/ FetchUpdateInfo \/ CheckLocalDirectory \/ Download \/ CompareFileMD5
    \/ RemoveOldVersion \/ ExtractOpens \/ ExtractCopies \/ ExtractDone \/ Validate
    \/ ExecuteUpdateScript

PrepNext == Step \/ ServiceOffers \/ ExtractFails \/ Crash

PrepSpec == PrepInit /\ [][PrepNext]_prepVars

\* The timer fires for ever and a check gets on; troubles are bounded.
LiveSpec == PrepSpec /\ WF_prepVars(Step)

(***************************************************************************)
(* Properties.                                                             *)
(***************************************************************************)
\* No update script is executed from a directory an earlier check, or an agent
\* that crashed, left half written, nor from a package that was damaged.
ScriptIsWhole == phase = "execute" => Whole(target)

\* The directory of the agent that runs is left alone, also when the service
\* goes back to an older version.
CurrentIsWhole == Whole(current)

\* What is executed by the agent, or as the agent, is all there.
WhatRunsIsWhole == ScriptIsWhole /\ CurrentIsWhole

\* What the service wants at last is what runs, whatever was left on the disk.
Updates == <>[](current = offer)

\* "Validate agent executable file format and architecture": the script of an
\* agent for another machine is not executed.
ValidatedRuns == phase = "execute" => target \notin Invalid

\* "Remove old versions, only preserving no more than two versions after
\* installation".
TwoVersions == phase = "new" => Cardinality({v \in Versions : Present(v)}) <= 2

\* "A timeout of zero means no timeout": a download in the preparation has one.
DownloadIsBounded == phase = "md5" => limit > 0
=============================================================================
