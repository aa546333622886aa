--------------------------- MODULE ServiceControl ---------------------------
(***************************************************************************)
(* The commands that make the agent a service of the system, and start and *)
(* stop it: --install, --remove, --start, --stop.  Each system has its own *)
(* way; a command may fail in the middle, or be killed.  What the system   *)
(* does with a service (systemctl, initctl, the control manager) is not    *)
(* part of the agent; the script for System V is.                          *)
(***************************************************************************)
EXTENDS Naturals

CONSTANTS
    Platforms,      \* "systemd", "upstart", "sysv", "windows", "freebsd"
    MaxTroubles     \* bounds what fails, and the commands that are killed

VARIABLES
    platform,
    conf,           \* the unit, job, script or entry: "deleting" when only the agent keeps it
    enabled,        \* whether it is linked to be started
    recovery,       \* whether the control manager is told to restart it
    pidFile,        \* of the script: whose pid it has
    running, waiting, \* the agent; or it is to be started again
    op, step,       \* the command and where it is
    promised,       \* an install has said "ok", and no remove was asked for since
    stopped,        \* a stop has said "ok", and nothing has started the agent since
    troubles

service == <<conf, enabled, recovery>>
agent == <<pidFile, running, waiting>>
command == <<op, step>>
answers == <<promised, stopped>>
vars == <<platform, service, agent, command, answers, troubles>>

Ops == {"install", "remove", "start", "stop"}
ServiceAssumption ==
    /\ Platforms \subseteq {"systemd", "upstart", "sysv", "windows", "freebsd"}
    /\ MaxTroubles \in Nat

Init ==
    /\ platform \in Platforms
    /\ conf = "none" /\ enabled = FALSE /\ recovery = FALSE
    /\ pidFile = "none" /\ running = FALSE /\ waiting = FALSE
    /\ op = "none" /\ step = "none" /\ promised = FALSE /\ stopped = FALSE
    /\ troubles = 0

Trouble == troubles < MaxTroubles /\ troubles' = troubles + 1
Fine == UNCHANGED troubles

At(o, s) == op = o /\ step = s
Then(s) == step' = s /\ UNCHANGED <<op, answers>>
Leaves == op' = "none" /\ step' = "none"
Fails == Leaves /\ UNCHANGED answers

\* runRootCommand: one command of the binary; a second is not run before it has ended.
Ask(o) ==
    /\ op = "none"
    /\ op' = o /\ step' = "first"
    /\ promised' = (promised /\ o # "remove")
    /\ UNCHANGED <<platform, service, agent, stopped, troubles>>

\* It is killed between two of its steps.
Killed ==
    /\ op # "none" /\ Fails /\ Trouble
    /\ UNCHANGED <<platform, service, agent>>

-----------------------------------------------------------------------------
Installed == Leaves /\ promised' = TRUE /\ UNCHANGED stopped
UnixLike == platform # "windows"

\* Install of the four others: what is there already is not touched, and is not looked at.
InstallCreates ==
    /\ At("install", "first") /\ UnixLike
    /\ \/ conf # "none" /\ Fails /\ Fine /\ UNCHANGED conf
       \/ conf = "none" /\ Then("write") /\ Fine /\ conf' = "empty"
       \/ conf = "none" /\ Fails /\ Trouble /\ UNCHANGED conf
    /\ UNCHANGED <<platform, enabled, recovery, agent>>

\* The template is written to it, which upstart has enough with.
InstallWrites ==
    /\ At("install", "write")
    /\ \/ /\ Fine /\ conf' = "whole"
          /\ IF platform = "upstart" THEN Installed
             ELSE Then(IF platform = "systemd" THEN "reload" ELSE "chmod")
       \/ Trouble /\ Fails /\ UNCHANGED conf
    /\ UNCHANGED <<platform, enabled, recovery, agent>>

\* systemctl daemon-reload, and systemctl enable.
SystemdInstall ==
    /\ op = "install" /\ platform = "systemd"
    /\ \/ step = "reload" /\ Then("enable") /\ Fine /\ UNCHANGED enabled
       \/ step = "enable" /\ Installed /\ Fine /\ enabled' = TRUE
       \/ step \in {"reload", "enable"} /\ Fails /\ Trouble /\ UNCHANGED enabled
    /\ UNCHANGED <<platform, conf, recovery, agent>>

\* chmod; then the links for the runlevels and chkconfig, of which no error is returned.
SysvInstall ==
    /\ At("install", "chmod") /\ platform = "sysv"
    /\ \/ Installed /\ Fine /\ enabled' = TRUE
       \/ Installed /\ Trouble /\ UNCHANGED enabled
       \/ Fails /\ Trouble /\ UNCHANGED enabled
    /\ UNCHANGED <<platform, conf, recovery, agent>>

\* chmod; that rc.conf enables the script is left to who installs the package.
FreebsdInstall ==
    /\ At("install", "chmod") /\ platform = "freebsd"
    /\ \/ Installed /\ Fine
       \/ Fails /\ Trouble
    /\ UNCHANGED <<platform, service, agent>>

\* An entry that starts by itself; it is deleted again when its event source cannot be
\* made, and stays when its recovery cannot be set.
WindowsInstall ==
    /\ op = "install" /\ platform = "windows"
    /\ \/ /\ step = "first" /\ UNCHANGED recovery
          /\ \/ conf # "none" /\ Fails /\ Fine /\ UNCHANGED <<conf, enabled>>
             \/ conf = "none" /\ Then("source") /\ Fine /\ conf' = "whole" /\ enabled' = TRUE
             \/ conf = "none" /\ Fails /\ Trouble /\ UNCHANGED <<conf, enabled>>
       \/ /\ step = "source" /\ UNCHANGED recovery
          /\ \/ Then("recovery") /\ Fine /\ UNCHANGED <<conf, enabled>>
             \/ Fails /\ Trouble /\ conf' = "none" /\ enabled' = FALSE
       \/ /\ step = "recovery" /\ UNCHANGED <<conf, enabled>>
          /\ \/ Installed /\ Fine /\ recovery' = TRUE
             \/ Fails /\ Trouble /\ UNCHANGED recovery
    /\ UNCHANGED <<platform, agent>>

-----------------------------------------------------------------------------
\* Uninstall: systemctl disable, which needs the unit, and then the file.
SystemdRemove ==
    /\ op = "remove" /\ platform = "systemd"
    /\ \/ step = "first" /\ conf # "none" /\ Then("file") /\ Fine /\ enabled' = FALSE
          /\ UNCHANGED conf
       \/ step = "first" /\ conf = "none" /\ Fails /\ Fine /\ UNCHANGED <<conf, enabled>>
       \/ step = "file" /\ Fails /\ Fine /\ conf' = "none" /\ UNCHANGED enabled
       \/ Fails /\ Trouble /\ UNCHANGED <<conf, enabled>>
    /\ UNCHANGED <<platform, recovery, agent>>

\* Of the others: the file; the links for the runlevels stay.
FileRemove ==
    /\ At("remove", "first") /\ platform \in {"upstart", "sysv", "freebsd"} /\ Fails
    /\ \/ Fine /\ conf' = "none"
       \/ Trouble /\ UNCHANGED conf
    /\ UNCHANGED <<platform, enabled, recovery, agent>>

\* The entry of an agent that runs is gone when the agent is; that its event source
\* cannot be removed as well is said, and changes nothing.
WindowsRemove ==
    /\ At("remove", "first") /\ platform = "windows" /\ Fails
    /\ \/ /\ Fine /\ enabled' = FALSE /\ recovery' = FALSE /\ waiting' = FALSE
          /\ conf' = IF conf # "none" /\ running THEN "deleting" ELSE "none"
       \/ Trouble /\ UNCHANGED <<service, waiting>>
    /\ UNCHANGED <<platform, pidFile, running>>

-----------------------------------------------------------------------------
Runs == running' = TRUE /\ waiting' = FALSE
Started == Leaves /\ stopped' = FALSE /\ UNCHANGED promised

\* Start: the manager starts what it knows; one that runs is left as it is, which is an
\* error for the control manager and for upstart.
ManagerStarts ==
    /\ At("start", "first") /\ platform # "sysv"
    /\ \/ conf = "whole" /\ ~running /\ Started /\ Fine /\ Runs
       \/ conf # "whole" /\ Fails /\ Fine /\ UNCHANGED <<running, waiting>>
       \/ running /\ Fails /\ Fine /\ UNCHANGED <<running, waiting>>
       \/ Fails /\ Trouble /\ UNCHANGED <<running, waiting>>
    /\ UNCHANGED <<platform, service, pidFile>>

\* is_running: there is a process with the pid that the file has.
is_running == pidFile \in {"agent", "other"}
\* start of the script; an agent that another has started is not noticed before the lock.
SysvStarts ==
    /\ At("start", "first") /\ platform = "sysv"
    /\ \/ conf = "whole" /\ is_running /\ Fails /\ Fine /\ UNCHANGED agent
       \/ conf = "whole" /\ ~is_running /\ ~running /\ Started /\ Fine /\ Runs
          /\ pidFile' = "agent"
       \/ conf # "whole" /\ Fails /\ Fine /\ UNCHANGED agent
       \/ Fails /\ Trouble /\ UNCHANGED agent
    /\ UNCHANGED <<platform, service>>

Stopped == Leaves /\ stopped' = TRUE /\ UNCHANGED promised
Deleted == IF conf = "deleting" THEN "none" ELSE conf

\* Stop: with systemd nothing that is loaded is an error, nor does it start again.
ManagerStops ==
    /\ At("stop", "first") /\ platform # "sysv"
    /\ \/ /\ running \/ (waiting /\ platform \in {"systemd", "upstart"})
             \/ (conf # "none" /\ platform = "systemd")
          /\ Stopped /\ Fine /\ running' = FALSE /\ waiting' = FALSE /\ conf' = Deleted
       \/ ~running /\ Fails /\ Fine /\ UNCHANGED <<running, waiting, conf>>
       \/ Fails /\ Trouble /\ UNCHANGED <<running, waiting, conf>>
    /\ UNCHANGED <<platform, enabled, recovery, pidFile>>

\* stop of the script: who has the pid is sent a signal, and ten seconds to end.
SysvStops ==
    /\ At("stop", "first") /\ platform = "sysv"
    /\ \/ /\ conf = "whole" /\ Stopped /\ Fine /\ UNCHANGED waiting
          /\ running' = (running /\ pidFile # "agent")
          /\ pidFile' = IF is_running THEN "none" ELSE pidFile
       \/ conf # "whole" /\ Fails /\ Fine /\ UNCHANGED agent
       \/ Fails /\ Trouble /\ UNCHANGED agent
    /\ UNCHANGED <<platform, service>>

-----------------------------------------------------------------------------
\* The agent ends with an error; the manager starts it again after a while.
AgentEnds ==
    /\ running /\ running' = FALSE /\ conf' = Deleted
    /\ waiting' = (platform \in {"systemd", "upstart"} \/ (recovery /\ conf = "whole"))
    /\ pidFile' = IF pidFile = "agent" THEN "dead" ELSE pidFile
    /\ UNCHANGED <<platform, enabled, recovery, command, answers, troubles>>

Restarts ==
    /\ waiting /\ Runs
    /\ UNCHANGED <<platform, service, pidFile, command, answers, troubles>>

\* Another process gets the pid.
Reused ==
    /\ pidFile = "dead" /\ pidFile' = "other"
    /\ UNCHANGED <<platform, service, running, waiting, command, answers, troubles>>

\* What the system starts when it boots.
BootStarts ==
    /\ conf = "whole"
    /\ platform \in {"systemd", "sysv", "windows"} => enabled
Boot ==
    /\ running' = BootStarts /\ waiting' = FALSE /\ conf' = Deleted
    /\ pidFile' = IF platform = "sysv" /\ BootStarts THEN "agent" ELSE "none"
    /\ Leaves /\ stopped' = FALSE /\ UNCHANGED promised
    /\ IF op = "none" THEN Fine ELSE Trouble
    /\ UNCHANGED <<platform, enabled, recovery>>

Step ==
    \/ InstallCreates \/ InstallWrites \/ SystemdInstall \/ SysvInstall \/ FreebsdInstall
    \/ WindowsInstall \/ SystemdRemove \/ FileRemove \/ WindowsRemove
    \/ ManagerStarts \/ SysvStarts \/ ManagerStops \/ SysvStops

Next == (\E o \in Ops : Ask(o)) \/ Step \/ Killed \/ AgentEnds \/ Restarts \/ Reused \/ Boot

\* Whoever wants the agent installed stops it, removes it and installs it until it is.
Fairness == WF_vars(Step) /\ \A o \in {"stop", "remove", "install"} : SF_vars(Ask(o))
Spec == Init /\ [][Next]_vars /\ Fairness

-----------------------------------------------------------------------------
TypeOK ==
    /\ platform \in Platforms /\ conf \in {"none", "empty", "whole", "deleting"}
    /\ pidFile \in {"none", "agent", "dead", "other"}
    /\ {enabled, recovery, running, waiting, promised, stopped} \subseteq BOOLEAN
    /\ op \in Ops \cup {"none"}
    /\ step \in {"none", "first", "write", "reload", "enable", "chmod", "source",
                 "recovery", "file"}
    /\ troubles \in 0..MaxTroubles

\* What --install calls ok is complete, and is started at every boot and, by the
\* control manager, after every crash, whatever was left by an earlier one that
\* failed or was killed.  (The script's links are made without a look.)
OkIsInstalled ==
    promised => /\ conf = "whole"
                /\ platform # "sysv" => BootStarts
                /\ platform = "windows" => recovery

\* What --stop calls ok has stopped: no agent runs, and none is started again, until
\* a start or a boot.
OkIsStopped == stopped => ~running /\ ~waiting

\* However far an install or a remove got that failed or was killed, it can be
\* repaired with the commands alone: who repeats them has the agent installed.
Repairs == []<>promised
=============================================================================
