------------------------------ MODULE Perfmon ------------------------------
(***************************************************************************)
(* The monitor of the agent's own load (src/agent/perfmon).                *)
(*                                                                         *)
(* Every five seconds a sample of processor and memory is taken and a      *)
(* goroutine started to check it.  A check is skipped while tasks run,     *)
(* which leaves the counts of overloads as they are.  Three overloads of   *)
(* memory end the agent; three of the processor put it into a cgroup, and  *)
(* three more end it.  Checks that report to the service take their time,  *)
(* and share the counts and cpuCgroupLimit without a lock.                 *)
(***************************************************************************)
EXTENDS Integers, FiniteSets

CONSTANTS
    Checks,         \* the goroutines that may check at a time
    MaxCount,       \* bound on the counts: the service never sees more
    MaxTasks,       \* bound on the tasks
    CgroupWorks     \* may the cgroup be set up?

PerfmonAssumption ==
    MaxCount \in Nat \ {0} /\ MaxTasks \in Nat /\ CgroupWorks \subseteq BOOLEAN

OverloadLimit == 3   \* OVERLAOD_LIMIT

VARIABLES
    cpu, mem,     \* cpu_overload_count and mem_overload_count
    limited,      \* cpuCgroupLimit
    checks,       \* what each goroutine is at, with its sample
    tasks,        \* is a task running?
    started,      \* tasks that were started
    dead,         \* the self kill: "no", "cpu", "cgroup" or "mem"
    cpuRow, memRow  \* history: checked overloads since the last one without,
                    \* and for the processor since the cgroup was set up

counts == <<cpu, mem, limited>>
history == <<cpuRow, memRow>>
vars == <<counts, checks, tasks, started, dead, history>>

Sample == [cpu : BOOLEAN, mem : BOOLEAN]   \* overloaded?

\* The type invariant.
TypeOK ==
    /\ cpu \in 0 .. MaxCount /\ mem \in 0 .. MaxCount
    /\ {limited, tasks} \subseteq BOOLEAN /\ started \in 0 .. MaxTasks
    /\ checks \in [Checks -> [at : {"none", "ask", "count", "cpu", "setup", "limit", "reset", "mem"},
                              over : Sample]]
    /\ dead \in {"no", "cpu", "cgroup", "mem"}
    /\ cpuRow \in 0 .. MaxCount /\ memRow \in 0 .. MaxCount

NoLoad == [cpu |-> FALSE, mem |-> FALSE]

Init ==
    /\ cpu = 0 /\ mem = 0 /\ limited = FALSE
    /\ checks = [c \in Checks |-> [at |-> "none", over |-> NoLoad]]
    /\ tasks = FALSE /\ started = 0 /\ dead = "no"
    /\ cpuRow = 0 /\ memRow = 0

Alive == dead = "no"
Goes(c, place) == checks' = [checks EXCEPT ![c].at = place]

\* The factories of tasks and sessions, the update and the state manager.
TaskStarts ==
    /\ Alive /\ ~tasks /\ started < MaxTasks
    /\ tasks' = TRUE /\ started' = started + 1
    /\ UNCHANGED <<counts, checks, dead, history>>

TaskEnds ==
    /\ Alive /\ tasks
    /\ tasks' = FALSE
    /\ UNCHANGED <<counts, checks, started, dead, history>>

\* generatePerfData; a sample that fails counts as no load.
Tick ==
    /\ Alive
    /\ \E c \in Checks, s \in Sample :
          checks[c].at = "none" /\ checks' = [checks EXCEPT ![c] = [at |-> "ask", over |-> s]]
    /\ UNCHANGED <<counts, tasks, started, dead, history>>

(***************************************************************************)
(* checkCpuMemLoad.                                                        *)
(***************************************************************************)
Asks(c) ==
    /\ Alive /\ checks[c].at = "ask"
    /\ Goes(c, IF tasks THEN "none" ELSE "count")
    /\ UNCHANGED <<counts, tasks, started, dead, history>>

Next1(n) == IF n < MaxCount THEN n + 1 ELSE n
Counted(n, over) == IF over THEN Next1(n) ELSE 0

(* Mutant: a sample without overload leaves the counts alone. *)
CountsUp(c) ==
    /\ Alive /\ checks[c].at = "count"
    /\ LET over == checks[c].over
       IN  /\ cpu' = IF over.cpu THEN Next1(cpu) ELSE cpu
           /\ mem' = IF over.mem THEN Next1(mem) ELSE mem
           /\ cpuRow' = Counted(cpuRow, over.cpu) /\ memRow' = Counted(memRow, over.mem)
    /\ Goes(c, "cpu")
    /\ UNCHANGED <<limited, tasks, started, dead>>

Counts(c) ==
    /\ Alive /\ checks[c].at = "count"
    /\ LET over == checks[c].over
       IN  /\ cpu' = Counted(cpu, over.cpu) /\ mem' = Counted(mem, over.mem)
           /\ cpuRow' = Counted(cpuRow, over.cpu) /\ memRow' = Counted(memRow, over.mem)
    /\ Goes(c, "cpu")
    /\ UNCHANGED <<limited, tasks, started, dead>>

\* reachCpuOverloadLimit: the first time, the cgroup; then the end.
LooksAtCpu(c) ==
    /\ Alive /\ checks[c].at = "cpu"
    /\ \/ cpu < OverloadLimit /\ Goes(c, "mem") /\ UNCHANGED dead
       \/ cpu >= OverloadLimit /\ ~limited /\ Goes(c, "setup") /\ UNCHANGED dead
       \/ cpu >= OverloadLimit /\ limited /\ dead' = "cgroup" /\ UNCHANGED checks
    /\ UNCHANGED <<counts, tasks, started, history>>

\* InitCgroup, and the report of it.
SetsUp(c) ==
    /\ Alive /\ checks[c].at = "setup"
    /\ \E works \in CgroupWorks :
          IF works THEN Goes(c, "limit") /\ cpuRow' = 0 /\ UNCHANGED dead
                   ELSE dead' = "cpu" /\ UNCHANGED <<checks, cpuRow>>
    /\ UNCHANGED <<counts, tasks, started, memRow>>

Limits(c) ==
    /\ Alive /\ checks[c].at = "limit"
    /\ limited' = TRUE
    /\ Goes(c, "reset")
    /\ UNCHANGED <<cpu, mem, tasks, started, dead, history>>

Resets(c) ==
    /\ Alive /\ checks[c].at = "reset"
    /\ cpu' = 0
    /\ Goes(c, "mem")
    /\ UNCHANGED <<mem, limited, tasks, started, dead, history>>

LooksAtMem(c) ==
    /\ Alive /\ checks[c].at = "mem"
    /\ IF mem >= OverloadLimit THEN dead' = "mem" /\ UNCHANGED checks
                               ELSE Goes(c, "none") /\ UNCHANGED dead
    /\ UNCHANGED <<counts, tasks, started, history>>

Check(c) ==
    \/ Asks(c) \/ Counts(c) \/ LooksAtCpu(c) \/ SetsUp(c) \/ Limits(c) \/ Resets(c)
    \/ LooksAtMem(c)

Next == TaskStarts \/ TaskEnds \/ Tick \/ \E c \in Checks : Check(c)

Spec == Init /\ [][Next]_vars

\* Samples are taken and checked for ever, and tasks end.
LiveSpec ==
    /\ Spec /\ WF_vars(Tick) /\ WF_vars(TaskEnds)
    /\ \A c \in Checks : WF_vars(Check(c))

(***************************************************************************)
(* Properties.                                                             *)
(***************************************************************************)
\* The agent does not decide to end for less than three overloads in a row, nor for
\* those it had before its cgroup: "cgroup limit cpu not work, self kill".  For memory
\* that is so however many checks overlap.  For the processor an overlapping check may
\* take the overloads from before the cgroup for later ones, but only while the check
\* that has set it up has not returned to reset their count; and one that finds no
\* cgroup to be had may have been overtaken by a sample without overload.
KillIsEarned ==
    /\ dead = "mem" => memRow >= OverloadLimit
    /\ dead = "cgroup" =>
          cpuRow >= OverloadLimit \/ \E c \in Checks : checks[c].at \in {"limit", "reset"}
    /\ dead = "cpu" => cpuRow >= OverloadLimit \/ \E c, d \in Checks : c # d

\* It does not, whatever checks overlap.
CpuKillIsEarned == dead = "cgroup" => cpuRow >= OverloadLimit

\* An agent that is overloaded for good does not stay so.
Overloaded(s) == \A c \in Checks : checks[c].at # "none" => checks[c].over = s
OverloadEnds == (<>[]Overloaded([cpu |-> TRUE, mem |-> FALSE])) => <>(dead # "no")
MemoryEnds == (<>[]Overloaded([cpu |-> FALSE, mem |-> TRUE])) => <>(dead # "no")

\* The load is watched "only while no task runs": no task is running when the
\* agent ends itself.
TasksSurvive == dead # "no" => ~tasks
=============================================================================
