------------------------------ MODULE SendFile ------------------------------
(***************************************************************************)
(* The files that the server sends.  Every fetch asks for a list of tasks, *)
(* again when the request fails or nothing is ready, and then checks,      *)
(* writes, gives its mode and its owner to, and answers for, one file      *)
(* after the other.  Fetches run side by side, the agent may be killed in  *)
(* any of them, and the server sends a task again that nobody answers for. *)
(***************************************************************************)
EXTENDS Naturals, Sequences, SequencesExt

CONSTANTS
    Fetchers,       \* goroutines that fetch
    Tasks,
    Info,           \* of each: path, content, overwrite, mode, owner, flaw
    Systems,        \* "linux", "freebsd", "windows"
    Absent,         \* what is at a path without a file
    Apart,          \* no two fetches have a task for one path in hand
    AskTimes,       \* of one request: 4
    Rounds,         \* of requests while nothing is ready: 4
    MaxDeliveries,  \* bounds the tasks that are sent
    MaxMishaps      \* bounds what fails in the machine, and answers that are lost

VARIABLES
    system,
    files,          \* at each path: content, mode, owner, and the task that wrote it
    sendFiles,      \* of a fetch: the tasks that are left
    step,           \* where it is
    attempt, round, \* of its requests
    ret,            \* of sendFile
    answers,        \* the last answer the server has for each task
    delivered, deliveries, mishaps

fetch == <<sendFiles, step, attempt, round, ret>>
bounds == <<delivered, deliveries, mishaps>>
fileVars == <<system, files, fetch, answers, bounds>>

Paths == {Info[t].path : t \in Tasks}
File == [content : {"old", "part"} \cup {Info[t].content : t \in Tasks},
         mode : {"old", "0644"} \cup {Info[t].mode : t \in Tasks},
         owner : {"somebody", "root"} \cup {Info[t].owner : t \in Tasks},
         by : Tasks \cup {Absent}]
Flaws == {"none", "name", "content", "directory", "encoding", "signature", "mode", "user",
          "group"}
SendAssumption ==
    /\ \A t \in Tasks : Info[t].flaw \in Flaws /\ Info[t].overwrite \in BOOLEAN
    /\ Absent \notin File
    /\ Systems \subseteq {"linux", "freebsd", "windows"} /\ Apart \in BOOLEAN
    /\ {AskTimes, Rounds} \subseteq Nat \ {0} /\ {MaxDeliveries, MaxMishaps} \subseteq Nat

\* Each path has no file at first, or somebody's.
Old == [content |-> "old", mode |-> "old", owner |-> "somebody", by |-> Absent]
FilesInit ==
    /\ system \in Systems /\ files \in [Paths -> {Absent, Old}]
    /\ sendFiles = [f \in Fetchers |-> <<>>] /\ step = [f \in Fetchers |-> "idle"]
    /\ attempt = [f \in Fetchers |-> 1] /\ round = [f \in Fetchers |-> 1]
    /\ ret = [f \in Fetchers |-> "none"] /\ answers = [t \in Tasks |-> "none"]
    /\ delivered = {} /\ deliveries = 0 /\ mishaps = 0

Mishap == mishaps < MaxMishaps /\ mishaps' = mishaps + 1
Fine == UNCHANGED mishaps

task(f) == Head(sendFiles[f])
Wanted(f) == Info[task(f)]
At(f, here) == step[f] = here
Goes(f, to) == step' = [step EXCEPT ![f] = to] /\ UNCHANGED <<sendFiles, attempt, round, ret>>
Returns(f, r) ==
    /\ step' = [step EXCEPT ![f] = "report"] /\ ret' = [ret EXCEPT ![f] = r]
    /\ UNCHANGED <<sendFiles, attempt, round>>
Kept == UNCHANGED <<answers, delivered, deliveries>>

-----------------------------------------------------------------------------
Starts(f) ==
    /\ At(f, "idle") /\ Goes(f, "ask") /\ Fine
    /\ UNCHANGED files /\ Kept

InHand == UNION {ToSet(sendFiles[f]) : f \in Fetchers}
\* The tasks that may be sent to a fetch, in one list.
Sendable ==
    {t \in Tasks : /\ t \notin InHand
                   /\ Apart => \A u \in InHand : Info[u].path # Info[t].path}
Lists ==
    {l \in {<<>>} \cup {<<t>> : t \in Sendable} \cup {<<t, u>> : t, u \in Sendable} :
        deliveries + Len(l) <= MaxDeliveries}

\* FetchTaskList: a request is repeated while it fails, and the whole while the server says
\* 408; what the last answer has is taken.
Asks(f) ==
    /\ At(f, "ask") /\ Fine
    /\ \/ /\ attempt[f] < AskTimes /\ attempt' = [attempt EXCEPT ![f] = @ + 1]
          /\ UNCHANGED <<sendFiles, step, round, ret, delivered, deliveries>>
       \/ /\ round[f] < Rounds /\ round' = [round EXCEPT ![f] = @ + 1]
          /\ attempt' = [attempt EXCEPT ![f] = 1]
          /\ UNCHANGED <<sendFiles, step, ret, delivered, deliveries>>
       \/ \E l \in Lists :
             /\ l = <<>> => attempt[f] = AskTimes \/ round[f] = Rounds
             /\ attempt' = [attempt EXCEPT ![f] = 1] /\ round' = [round EXCEPT ![f] = 1]
             /\ sendFiles' = [sendFiles EXCEPT ![f] = l]
             /\ step' = [step EXCEPT ![f] = IF l = <<>> THEN "idle" ELSE "check"]
             /\ delivered' = delivered \cup ToSet(l) /\ deliveries' = deliveries + Len(l)
             /\ UNCHANGED ret
    /\ UNCHANGED <<files, answers>>

\* What sendFile looks at before it writes.  A file where the directory should be is
\* already an error of MkdirAll.
Rejected ==
    [name |-> "EInvalidFilePath", content |-> "EEmptyContent",
     directory |-> "ECreateDirFailed", encoding |-> "EInvalidContent",
     signature |-> "EInvalidSignature", mode |-> "EInalidFileMode"]
Checks(f) ==
    /\ At(f, "check") /\ Fine
    /\ IF Wanted(f).flaw \in DOMAIN Rejected THEN Returns(f, Rejected[Wanted(f).flaw])
       ELSE Goes(f, "exists")
    /\ UNCHANGED files /\ Kept

(* Mutant: whether a file may be overwritten is not asked. *)
ExistsUnasked(f) == At(f, "exists") /\ Goes(f, "open") /\ Fine /\ UNCHANGED files /\ Kept

\* writeFile: whether there is a file;
Exists(f) ==
    /\ At(f, "exists") /\ Fine
    /\ IF files[Wanted(f).path] # Absent /\ ~Wanted(f).overwrite
       THEN Returns(f, "EFileAlreadyExist")
       ELSE Goes(f, "open")
    /\ UNCHANGED files /\ Kept

\* WriteFile makes it, or empties it and leaves its mode and its owner,
Opens(f) ==
    /\ At(f, "open")
    /\ \/ /\ Goes(f, "write") /\ Fine
          /\ files' = [files EXCEPT ![Wanted(f).path] =
                IF @ = Absent THEN [content |-> "part", mode |-> "0644", owner |-> "root",
                                    by |-> task(f)]
                ELSE [@ EXCEPT !.content = "part", !.by = task(f)]]
       \/ Returns(f, "EFileCreateFail") /\ Mishap /\ UNCHANGED files
    /\ Kept

\* and writes it.
Writes(f) ==
    /\ At(f, "write")
    /\ \/ /\ Goes(f, IF system = "linux" THEN "chmod" ELSE "owner") /\ Fine
          /\ files' = [files EXCEPT ![Wanted(f).path].content = Wanted(f).content]
       \/ Returns(f, "EFileCreateFail") /\ Mishap /\ UNCHANGED files
    /\ Kept

Chmods(f) ==
    /\ At(f, "chmod")
    /\ \/ /\ Goes(f, "owner") /\ Fine
          /\ files' = [files EXCEPT ![Wanted(f).path].mode = Wanted(f).mode]
       \/ Returns(f, "EChmodError") /\ Mishap /\ UNCHANGED files
    /\ Kept

\* changeFileOwner: nothing is done on Windows, nor for root; others are looked up only now.
NoOwner(t) == system = "windows" \/ t.owner = "root"
ChangesOwner(f) ==
    /\ At(f, "owner")
    /\ \/ NoOwner(Wanted(f)) /\ Returns(f, "ESuccess") /\ Fine /\ UNCHANGED files
       \/ /\ ~NoOwner(Wanted(f)) /\ Wanted(f).flaw # "none" /\ Fine /\ UNCHANGED files
          /\ Returns(f, IF Wanted(f).flaw = "user" THEN "EInalidUID" ELSE "EInalidGID")
       \/ /\ ~NoOwner(Wanted(f)) /\ Wanted(f).flaw = "none" /\ Returns(f, "ESuccess") /\ Fine
          /\ files' = [files EXCEPT ![Wanted(f).path].owner = Wanted(f).owner]
       \/ ~NoOwner(Wanted(f)) /\ Returns(f, "EChownError") /\ Mishap /\ UNCHANGED files
    /\ Kept

\* doSendFile: SendFileFinished or SendFileInvalid, neither of which posts again.
Reports(f) ==
    /\ At(f, "report")
    /\ sendFiles' = [sendFiles EXCEPT ![f] = Tail(@)] /\ ret' = [ret EXCEPT ![f] = "none"]
    /\ step' = [step EXCEPT ![f] = IF Len(sendFiles[f]) = 1 THEN "idle" ELSE "check"]
    /\ \/ Fine /\ answers' = [answers EXCEPT ![task(f)] = ret[f]]
       \/ Mishap /\ UNCHANGED answers
    /\ UNCHANGED <<files, attempt, round, delivered, deliveries>>

\* The agent is killed, and started again.
Killed ==
    /\ \E f \in Fetchers : step[f] # "idle"
    /\ Mishap
    /\ sendFiles' = [f \in Fetchers |-> <<>>] /\ step' = [f \in Fetchers |-> "idle"]
    /\ attempt' = [f \in Fetchers |-> 1] /\ round' = [f \in Fetchers |-> 1]
    /\ ret' = [f \in Fetchers |-> "none"]
    /\ UNCHANGED files /\ Kept

SendFiles(f) ==
    Checks(f) \/ Exists(f) \/ Opens(f) \/ Writes(f) \/ Chmods(f) \/ ChangesOwner(f) \/ Reports(f)
FilesNext ==
    /\ \E f \in Fetchers : Starts(f) \/ Asks(f) \/ SendFiles(f)
       \/ Killed
    /\ UNCHANGED system

FilesSpec == FilesInit /\ [][FilesNext]_fileVars

-----------------------------------------------------------------------------
FilesTypeOK ==
    /\ system \in Systems /\ files \in [Paths -> File \cup {Absent}]
    /\ sendFiles \in [Fetchers -> Seq(Tasks)]
    /\ step \in [Fetchers -> {"idle", "ask", "check", "exists", "open", "write", "chmod",
                              "owner", "report"}]
    /\ attempt \in [Fetchers -> 1..AskTimes] /\ round \in [Fetchers -> 1..Rounds]
    /\ delivered \subseteq Tasks /\ deliveries \in 0..MaxDeliveries
    /\ mishaps \in 0..MaxMishaps

\* A file that is reported as sent is there as it was asked for: in full, with its mode
\* and its owner, whatever was at the path and whatever failed before.  (The mode is
\* that of Linux, the owner that of all but Windows; of a file that was there root is not
\* made the owner.)
SuccessIsThere ==
    \A f \in Fetchers : At(f, "report") /\ ret[f] = "ESuccess" =>
       LET t == Wanted(f)  file == files[t.path]
       IN  /\ file # Absent /\ file.content = t.content
           /\ system = "linux" => file.mode = t.mode
           /\ NoOwner(t) \/ file.owner = t.owner

\* What is at a path is only lost to a task that may overwrite it: a file that another
\* has made, or that was there, is not changed by any that may not, nor by one that is
\* rejected for its signature, its content or its mode.
OnlyAsAllowed ==
    [][\A p \in Paths : files'[p] # files[p] =>
          LET t == files'[p].by
          IN  /\ Info[t].flaw \notin DOMAIN Rejected
              /\ files[p] = Absent \/ Info[t].overwrite \/ files[p].by = t]_fileVars

\* When all is done and nothing has failed, each task that was sent has been answered
\* for, also those behind one that was rejected.
AllAnswered ==
    mishaps = 0 => \A t \in delivered \ InHand : answers[t] # "none"

FilesAsAsked == SuccessIsThere /\ AllAnswered

\* Both, and none is changed by a task that may not: of every behaviour of sendFile.
FilesArrive == []FilesAsAsked /\ OnlyAsAllowed
=============================================================================
