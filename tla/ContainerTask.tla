--------------------------- MODULE ContainerTask ---------------------------
(***************************************************************************)
(* A task that runs in a container: which runtime and which container it   *)
(* is given when it is created, what each invocation checks, and how the   *)
(* command is started, waited for and asked about.  The runtimes and their *)
(* containers are the environment: they come, go and cannot be reached.    *)
(***************************************************************************)
EXTENDS Naturals, Sequences, FiniteSets

CONSTANTS
    Containers,
    NameOf, RuntimeOf,  \* of each container
    PartOf,             \* pairs of names: the first occurs in the second
    Endpoints,          \* the runtimes behind the endpoints of CRI, in their order
    Wanted,             \* what tasks ask for: a runtime, an id and a name, or None
    MaxChanges,         \* bounds the changes of the environment
    MaxInvocations,     \* bounds the invocations of the task
    None

VARIABLES
    state,              \* of each container: "RUNNING", "EXITED" or "absent"
    up,                 \* what can be reached: the API of docker, and endpoints
    changes,
    wanted,             \* by the task
    processor,          \* "docker" or "cri"
    foundContainers,    \* containers and their state, of a DockerProcessor
    pc,
    todo, available,    \* endpoints to try, and whether one has answered
    target, process,    \* the container of the command, and the command
    expired, retries,
    canceled,
    outcome,            \* what the processor returned last
    invocations

environment == <<state, up, changes>>
task == <<wanted, processor, foundContainers>>
search == <<todo, available>>
command == <<target, process, expired, retries>>
reports == <<canceled, outcome, invocations>>
vars == <<environment, task, pc, search, command, reports>>

\* The API of docker, besides the endpoints, which count from 1.
API == 0
maxInspectionRetries == 5
Supported == {Endpoints[e] : e \in DOMAIN Endpoints}

ContainerAssumption ==
    /\ NameOf \in [Containers -> {NameOf[c] : c \in Containers}]
    /\ DOMAIN RuntimeOf = Containers
    /\ \A c \in Containers : <<NameOf[c], NameOf[c]>> \in PartOf
    /\ \A w \in Wanted : w.id \in Containers \cup {None}
    /\ MaxChanges \in Nat /\ MaxInvocations \in Nat \ {0}

Init ==
    /\ state \in [Containers -> {"RUNNING", "EXITED"}]
    /\ up \in {{API} \cup DOMAIN Endpoints, DOMAIN Endpoints, {API}} /\ changes = 0
    /\ wanted \in Wanted /\ processor = None /\ foundContainers = <<>>
    /\ pc = "new" /\ todo = <<>> /\ available = FALSE
    /\ target = None /\ process = "none" /\ expired = FALSE /\ retries = 0
    /\ canceled = FALSE /\ outcome = "none" /\ invocations = 0

-----------------------------------------------------------------------------
\* A container that leaves, or stops, takes its processes along.
Changes ==
    /\ changes < MaxChanges /\ changes' = changes + 1
    /\ \/ \E c \in Containers, s \in {"RUNNING", "EXITED", "absent"} :
             /\ state[c] # s /\ state' = [state EXCEPT ![c] = s]
             /\ process' = IF process = "runs" /\ target = c THEN "ended" ELSE process
             /\ UNCHANGED up
       \/ \E e \in {API} \cup DOMAIN Endpoints :
             /\ up' = IF e \in up THEN up \ {e} ELSE up \cup {e}
             /\ UNCHANGED <<state, process>>
    /\ UNCHANGED <<task, pc, search, target, expired, retries, reports>>

ProcessEnds ==
    /\ process = "runs" /\ process' = "ended"
    /\ UNCHANGED <<environment, task, pc, search, target, expired, retries, reports>>

Present(r) == {c \in Containers : RuntimeOf[c] = r /\ state[c] # "absent"}
HasId(c) == wanted.id = None \/ c = wanted.id
HasName(c) == wanted.name = None \/ NameOf[c] = wanted.name

\* The API filters by id or else by name, which it finds in longer names too; who asks
\* for both compares the names.
Listed ==
    {c \in Present("docker") :
        /\ HasId(c)
        /\ wanted.id = None /\ wanted.name # None => <<wanted.name, NameOf[c]>> \in PartOf
        /\ wanted.id # None => HasName(c)}

\* DetectContainerProcessor, when the task is created: any error leads to CRI.
Detect ==
    /\ pc = "new" /\ pc' = "idle"
    /\ IF /\ wanted.runtime \in {None, "docker"} /\ API \in up
          /\ Cardinality(Listed) = 1
       THEN /\ processor' = "docker"
            /\ foundContainers' = [c \in Listed |-> state[c]]
       ELSE processor' = "cri" /\ UNCHANGED foundContainers
    /\ UNCHANGED <<environment, wanted, search, command, reports>>

-----------------------------------------------------------------------------
Invoke ==
    /\ pc = "idle" /\ invocations < MaxInvocations
    /\ pc' = "check" /\ invocations' = invocations + 1
    /\ outcome' = "none"
    /\ target' = None /\ process' = "none" /\ expired' = FALSE /\ retries' = 0
    /\ UNCHANGED <<environment, task, search, canceled>>

Report(o) == pc' = "idle" /\ outcome' = o

\* PreCheck of a DockerProcessor looks at what was found when the task was created.
CheckDocker ==
    /\ pc = "check" /\ processor = "docker"
    /\ \E c \in DOMAIN foundContainers :
          IF foundContainers[c] # "RUNNING" THEN Report("invalid") /\ UNCHANGED target
          ELSE pc' = "create" /\ target' = c /\ UNCHANGED outcome
    /\ UNCHANGED <<environment, task, search, process, expired, retries, canceled, invocations>>

CheckCRI ==
    /\ pc = "check" /\ processor = "cri"
    /\ IF wanted.runtime # None /\ (wanted.id = None \/ wanted.runtime \notin Supported)
       THEN Report("invalid") /\ UNCHANGED search
       ELSE /\ pc' = "prepare" /\ UNCHANGED outcome
            /\ available' = FALSE
            /\ todo' = SelectSeq([e \in DOMAIN Endpoints |-> e],
                           LAMBDA e : wanted.runtime \in {None, Endpoints[e]})
    /\ UNCHANGED <<environment, task, command, canceled, invocations>>

\* getRuntimeService tries the endpoints one by one.
Search ==
    /\ pc = "prepare" /\ todo # <<>>
    /\ todo' = Tail(todo)
    /\ LET e == Head(todo)
           containers == {c \in Present(Endpoints[e]) : HasId(c)}
           ofName == {c \in containers : HasName(c)}
           Refused == Report("refused") /\ UNCHANGED target
       IN  IF e \notin up THEN UNCHANGED <<pc, available, target, outcome>>
           ELSE /\ available' = TRUE
                /\ CASE wanted.id # None /\ containers # {} /\ ofName = {} -> Refused
                     [] ofName = {} /\ (wanted.id = None \/ containers = {}) ->
                           UNCHANGED <<pc, target, outcome>>
                     [] Cardinality(ofName) > 1 -> Refused
                     [] OTHER -> \E c \in ofName :
                           IF state[c] # "RUNNING" THEN Refused
                           ELSE pc' = "sync" /\ target' = c /\ UNCHANGED outcome
    /\ UNCHANGED <<environment, task, process, expired, retries, canceled, invocations>>

NotFound ==
    /\ pc = "prepare" /\ todo = <<>>
    /\ Report(IF available THEN "not found" ELSE "no runtime")
    /\ UNCHANGED <<environment, task, search, command, canceled, invocations>>

-----------------------------------------------------------------------------
Works == API \in up /\ state[target] = "RUNNING"

\* createExec and startAndAttachExec: who fails, or is late, may have started the command.
CreateExec ==
    /\ pc = "create"
    /\ \/ Works /\ pc' = "attach" /\ UNCHANGED outcome
       \/ Report("failed")
    /\ UNCHANGED <<environment, task, search, command, canceled, invocations>>

AttachExec ==
    /\ pc = "attach"
    /\ \/ Works /\ process' = "runs" /\ pc' = "stream" /\ UNCHANGED outcome
       \/ /\ Report("failed")
          /\ process' \in {"none"} \cup (IF Works THEN {"runs"} ELSE {})
    /\ UNCHANGED <<environment, task, search, target, expired, retries, canceled, invocations>>

\* The output ends with the command, or with the connection.
Streamed ==
    /\ pc = "stream"
    /\ \/ (process = "ended" \/ API \notin up) /\ pc' = "inspect" /\ UNCHANGED outcome
       \/ API \notin up /\ Report("failed")
    /\ UNCHANGED <<environment, task, search, command, canceled, invocations>>

Expires ==
    /\ pc \in {"stream", "exec"} /\ ~expired /\ expired' = TRUE
    /\ UNCHANGED <<environment, task, pc, search, target, process, retries, reports>>

TimesOut ==
    /\ pc = "stream" /\ expired
    /\ Report("timeout")
    /\ UNCHANGED <<environment, task, search, command, canceled, invocations>>

Inspect ==
    /\ pc = "inspect"
    /\ \/ Report("failed") /\ UNCHANGED retries
       \/ API \in up /\ process # "runs" /\ Report("finished") /\ UNCHANGED retries
       \/ /\ API \in up /\ process = "runs"
          /\ retries' = retries + 1
          /\ IF retries' = maxInspectionRetries THEN Report("failed") ELSE UNCHANGED <<pc, outcome>>
    /\ UNCHANGED <<environment, task, search, target, process, expired, canceled, invocations>>

\* ExecSync ends the command that is late, and fails without its runtime.
Reaches == state[target] = "RUNNING" /\ \E e \in up \ {API} : Endpoints[e] = RuntimeOf[target]
ExecSync ==
    /\ pc = "sync"
    /\ \/ Reaches /\ process' = "runs" /\ pc' = "exec" /\ UNCHANGED outcome
       \/ Report("failed") /\ UNCHANGED process
    /\ UNCHANGED <<environment, task, search, target, expired, retries, canceled, invocations>>
ExecReturns ==
    /\ pc = "exec"
    /\ \/ process = "ended" /\ Report("finished") /\ UNCHANGED process
       \/ expired /\ process' = "ended" /\ Report("timeout")
       \/ ~Reaches /\ Report("failed") /\ UNCHANGED process
    /\ UNCHANGED <<environment, task, search, target, expired, retries, canceled, invocations>>

\* Cancel of both processors does nothing: the task knows that it is canceled.
Cancel ==
    /\ ~canceled /\ canceled' = TRUE
    /\ UNCHANGED <<environment, task, pc, search, command, outcome, invocations>>

SyncRun ==
    CreateExec \/ AttachExec \/ Streamed \/ TimesOut \/ Inspect \/ ExecSync \/ ExecReturns
Run == CheckDocker \/ CheckCRI \/ Search \/ NotFound \/ SyncRun

Next == Changes \/ ProcessEnds \/ Detect \/ Invoke \/ Run \/ Expires \/ Cancel

\* The goroutine of a task is scheduled, and time passes.
Fairness == WF_vars(Run) /\ WF_vars(Expires)
Spec == Init /\ [][Next]_vars /\ Fairness

-----------------------------------------------------------------------------
TypeOK ==
    /\ state \in [Containers -> {"RUNNING", "EXITED", "absent"}]
    /\ up \subseteq {API} \cup DOMAIN Endpoints /\ changes \in 0..MaxChanges
    /\ wanted \in Wanted /\ processor \in {None, "docker", "cri"}
    /\ DOMAIN foundContainers \subseteq Containers
    /\ pc \in {"new", "idle", "check", "prepare", "create", "attach", "stream", "inspect",
               "sync", "exec"}
    /\ todo \in Seq(DOMAIN Endpoints) /\ {available, expired, canceled} \subseteq BOOLEAN
    /\ target \in Containers \cup {None} /\ process \in {"none", "runs", "ended"}
    /\ retries \in 0..maxInspectionRetries /\ invocations \in 0..MaxInvocations
    /\ outcome \in {"none", "invalid", "refused", "not found", "no runtime", "failed",
                    "finished", "timeout"}

\* A command runs in the container the task asks for: of its id, of its runtime, and of
\* its name; only the API, asked for a name alone, takes one that the name is a part of,
\* if it is the only one.
RunsInTheOne ==
    target # None =>
        /\ wanted.id \in {None, target}
        /\ wanted.runtime \in {None, RuntimeOf[target]}
        /\ \/ wanted.name \in {None, NameOf[target]}
           \/ /\ processor = "docker" /\ wanted.id = None
              /\ <<wanted.name, NameOf[target]>> \in PartOf

\* The exit code that is returned is that of a command that has ended, though its output
\* may have ended before, and a command that timed out had its time.
ReportsTheEnd ==
    /\ outcome = "finished" => process = "ended"
    /\ outcome = "timeout" => expired

\* An invocation ends, whatever becomes of the container and its runtime.
RunEnds == []<>(pc \in {"new", "idle"})
=============================================================================
