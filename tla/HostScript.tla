----------------------------- MODULE HostScript -----------------------------
(***************************************************************************)
(* The script file of one task on the host, over deliveries of the task,   *)
(* crashes of the agent and failures of the disk.  The file outlives the   *)
(* agent, and is how a task that was begun before a crash is known.  The   *)
(* command is a shell script.                                              *)
(***************************************************************************)
EXTENDS Naturals

CONSTANTS
    MaxDeliveries,  \* bounds the deliveries, or the firings of a schedule
    MaxCrashes,     \* bounds the crashes
    MaxFailures     \* bounds what fails: the disk, the shell, a report

VARIABLES
    once,           \* RunTaskOnce or RunTaskNextRebootOnly; else a schedule or every reboot
    secret,         \* the content holds an oos-secret, and the file is to be removed
    file,           \* "none", "part" or "whole"
    executable,
    at, useScriptFile,
    acked,          \* the server has the last report
    starts,         \* commands started
    ranPart,        \* one of them had a part of the script
    deliveries, crashes, failures
scriptVars == <<once, secret, file, executable, at, useScriptFile, acked, starts, ranPart, deliveries,
          crashes, failures>>

ScriptAssumption == MaxDeliveries \in Nat /\ MaxCrashes \in Nat /\ MaxFailures \in Nat

task == <<once, secret>>
disk == <<file, executable>>
commands == <<starts, ranPart>>
bounds == <<deliveries, crashes>>

ScriptInit ==
    /\ once \in BOOLEAN /\ secret \in BOOLEAN
    /\ file = "none" /\ executable = FALSE
    /\ at = "idle" /\ useScriptFile = FALSE
    /\ acked = FALSE /\ starts = 0 /\ ranPart = FALSE
    /\ deliveries = 0 /\ crashes = 0 /\ failures = 0

Goes(from, to) == at = from /\ at' = to
Fine == UNCHANGED failures
Failure == failures < MaxFailures /\ failures' = failures + 1

\* The server delivers a task until it has its last report; a schedule fires again.
Deliver ==
    /\ Goes("idle", "path")
    /\ once => ~acked
    /\ deliveries < MaxDeliveries
    /\ deliveries' = deliveries + 1
    /\ acked' = FALSE
    /\ UNCHANGED <<task, disk, useScriptFile, commands, crashes, failures>>

\* Prepare: without a directory the content itself becomes the command.
GetScriptPath ==
    /\ \/ Goes("path", "save") /\ useScriptFile' = TRUE /\ Fine
       \/ Goes("path", "shell") /\ useScriptFile' = FALSE /\ Failure
    /\ UNCHANGED <<task, disk, acked, commands, bounds>>

(* Mutant: whose script is there, runs it. *)
FindsAnyScript ==
    /\ file # "none"
    /\ Goes("save", "chmod")
    /\ UNCHANGED <<task, disk, useScriptFile, acked, commands, bounds, failures>>

\* SaveScriptFile: a file that is there is an error for a task that runs once, and
\* the script of any other.
FindsScript ==
    /\ file # "none"
    /\ Goes("save", IF once THEN "error" ELSE "chmod")
    /\ UNCHANGED <<task, disk, useScriptFile, acked, commands, bounds, failures>>
CreatesScript ==
    /\ file = "none"
    /\ Goes("save", "write")
    /\ file' = "part" /\ executable' = FALSE
    /\ UNCHANGED <<task, useScriptFile, acked, commands, bounds, failures>>
WritesScript ==
    /\ \/ Goes("write", "chmod") /\ file' = "whole" /\ Fine /\ UNCHANGED useScriptFile
       \/ Goes("write", "shell") /\ file' = "none" /\ Failure /\ useScriptFile' = FALSE
    /\ UNCHANGED <<task, executable, acked, commands, bounds>>

Chmod ==
    /\ Goes("chmod", "shell")
    /\ \/ executable' = TRUE /\ Fine /\ UNCHANGED useScriptFile
       \/ useScriptFile' = FALSE /\ Failure /\ UNCHANGED executable
    /\ UNCHANGED <<task, file, acked, commands, bounds>>

LookPath ==
    /\ \/ Goes("shell", "start") /\ Fine
       \/ Goes("shell", "error") /\ Failure
    /\ UNCHANGED <<task, disk, useScriptFile, acked, commands, bounds>>

\* SyncRun: the command starts, or cannot be started.
Start ==
    /\ \/ /\ Goes("start", "running") /\ Fine
          /\ starts' = starts + 1
          /\ ranPart' = (ranPart \/ (useScriptFile /\ file = "part"))
       \/ Goes("start", "report") /\ Failure /\ UNCHANGED commands
    /\ UNCHANGED <<task, disk, useScriptFile, acked, bounds>>

Exits ==
    /\ Goes("running", "report")
    /\ UNCHANGED <<task, disk, useScriptFile, acked, commands, bounds, failures>>

\* The last report; after four attempts it is given up.
Reports ==
    /\ \/ Goes("report", "cleanup")
       \/ Goes("error", "idle")         \* Run returns without Cleanup
    /\ \/ acked' = TRUE /\ Fine
       \/ acked' = FALSE /\ Failure
    /\ UNCHANGED <<task, disk, useScriptFile, commands, bounds>>

Cleanup ==
    /\ Goes("cleanup", "idle")
    /\ file' = IF secret THEN "none" ELSE file
    /\ UNCHANGED <<task, executable, useScriptFile, acked, commands, bounds, failures>>

Crash ==
    /\ crashes < MaxCrashes
    /\ crashes' = crashes + 1
    /\ at' = "idle" /\ useScriptFile' = FALSE
    /\ UNCHANGED <<task, disk, acked, commands, deliveries, failures>>

ScriptNext ==
    \/ Deliver \/ GetScriptPath \/ FindsScript \/ CreatesScript \/ WritesScript \/ Chmod
    \/ LookPath \/ Start \/ Exits \/ Reports \/ Cleanup \/ Crash

ScriptSpec == ScriptInit /\ [][ScriptNext]_scriptVars

-----------------------------------------------------------------------------
ScriptTypeOK ==
    /\ {once, secret, executable, useScriptFile, acked, ranPart} \subseteq BOOLEAN
    /\ file \in {"none", "part", "whole"} /\ starts \in 0..MaxDeliveries
    /\ at \in {"idle", "path", "save", "write", "chmod", "shell", "start", "running", "report",
               "error", "cleanup"}
    /\ deliveries \in 0..MaxDeliveries /\ crashes \in 0..MaxCrashes
    /\ failures \in 0..MaxFailures

\* A task that runs once is started once, though the agent crashes at any point
\* and the server delivers it again: the file of the first attempt is found.
RunsOnce == once /\ failures = 0 => starts <= 1

\* What is executed is the whole script, for one that runs once whatever fails; for
\* another, unless the agent crashed while it wrote the file.
RunsWhole == ranPart => ~once /\ crashes > 0

\* Between two invocations no secret is left on the disk.
SecretsGone ==
    secret /\ at = "idle" /\ crashes = 0 /\ failures = 0 => file = "none"

\* HostProcessor and SaveScriptFile together, whatever ends the agent between two of
\* their steps: a script that is to run once does, whole, and leaves no secret.
ScriptIsSafe == RunsOnce /\ RunsWhole /\ SecretsGone
=============================================================================
