------------------------------- MODULE Hybrid -------------------------------
(***************************************************************************)
(* The registration of a machine outside the cloud                         *)
(* (src/agent/hybrid/hybrid.go, src/common/apiserver/hybrid.go).           *)
(*                                                                         *)
(* A command with --register asks the server for an instance, with a new   *)
(* key, and writes what the agent needs into files, one after the other;   *)
(* one with --deregister tells the server, in a request signed with that   *)
(* key, and removes the files.  The file of the instance says whether the  *)
(* machine is registered.  The commands are processes of their own, which  *)
(* may be killed anywhere; nothing keeps two of them apart.                *)
(***************************************************************************)
EXTENDS Integers, Sequences

CONSTANTS
    Cmds,        \* the processes that may run at a time
    Refusals,    \* how the server refuses: with an "error" of HTTP or a "code"
    MaxRegs,     \* bound on the registrations
    MaxFailures, \* bound on requests that fail, writes that fail and crashes
    Troubles     \* those that may happen: "request", "write", "crash"

HybridAssumption ==
    /\ MaxRegs \in Nat /\ MaxFailures \in Nat
    /\ Refusals \subseteq {"error", "code"} /\ Troubles \subseteq {"request", "write", "crash"}

Absent == -1
Empty == 0

VARIABLES
    files,      \* the contents of each file: a registration, Empty or Absent
    server,     \* the registrations the server has
    regs,       \* registrations it ever had
    cmd,        \* what each command does
    failures,
    registered, \* history: the registrations that were printed as "register ok"
    released,   \* and as "unregister ok"
    unwritten   \* history: those of which a file could not be written

hybridVars == <<files, server, regs, cmd, failures, registered, released, unwritten>>

\* The files in the order Register writes them, and UnRegister removes them.
Written == <<"network-mode", "pub-key", "pri-key", "region-id", "instance-id", "machine-id">>
RemovalOrder == <<"pub-key", "pri-key", "region-id", "instance-id", "machine-id">>
Names == {Written[i] : i \in DOMAIN Written}

(* Mutant: the instance is written before the keys. *)
InstanceFirst == <<"instance-id", "network-mode", "pub-key", "pri-key", "region-id", "machine-id">>

Order == Written

Idle == [at |-> "idle", reg |-> 0, file |-> 1]

\* The type invariant.
HybridTypeOK ==
    /\ files \in [Names -> Absent .. MaxRegs]
    /\ server \subseteq 1 .. MaxRegs /\ regs \in 0 .. MaxRegs
    /\ cmd \in [Cmds -> [at : {"idle", "check", "post", "create", "write", "sign", "depost", "remove"},
                         reg : Absent .. MaxRegs, file : 1 .. Len(Written)]]
    /\ \A c \in Cmds : cmd[c].at = "idle" => cmd[c] = Idle
    /\ failures \in 0 .. MaxFailures
    /\ registered \subseteq Empty .. MaxRegs /\ released \subseteq Absent .. MaxRegs
    /\ unwritten \subseteq Empty .. MaxRegs

HybridInit ==
    /\ files = [f \in Names |-> Absent]
    /\ server = {} /\ regs = 0
    /\ cmd = [c \in Cmds |-> Idle]
    /\ failures = 0 /\ registered = {} /\ released = {} /\ unwritten = {}

IsHybrid == files["instance-id"] # Absent
Failure(t) == t \in Troubles /\ failures < MaxFailures /\ failures' = failures + 1
Goes(c, at) == cmd' = [cmd EXCEPT ![c].at = at]
CommandEnds(c) == cmd' = [cmd EXCEPT ![c] = Idle]
history == <<registered, released, unwritten>>

\* The user runs a command.
Runs(c, at) ==
    /\ cmd[c].at = "idle"
    /\ Goes(c, at)
    /\ UNCHANGED <<files, server, regs, failures, history>>

Run(c) == \E at \in {"check", "sign"} : Runs(c, at)

CommandCrashes(c) ==
    /\ cmd[c].at # "idle" /\ Failure("crash")
    /\ CommandEnds(c)
    /\ UNCHANGED <<files, server, regs, history>>

(***************************************************************************)
(* Register.                                                               *)
(***************************************************************************)
Checks(c) ==
    /\ cmd[c].at = "check"
    /\ IF IsHybrid THEN CommandEnds(c) ELSE Goes(c, "post")
    /\ UNCHANGED <<files, server, regs, failures, history>>

\* The request, which the server may have served though it failed.
Posts(c) ==
    /\ cmd[c].at = "post"
    /\ \/ /\ regs < MaxRegs
          /\ regs' = regs + 1 /\ server' = server \cup {regs'}
          /\ \/ cmd' = [cmd EXCEPT ![c] = [at |-> "create", reg |-> regs', file |-> 1]] /\ UNCHANGED failures
             \/ CommandEnds(c) /\ Failure("request")
       \/ CommandEnds(c) /\ UNCHANGED <<server, regs, failures>>
    /\ UNCHANGED <<files, history>>

\* Errors are not looked at: after the last file "register ok" is printed, and
\* the service restarted.
GoesOn(c) ==
    IF cmd[c].file < Len(Order)
    THEN /\ cmd' = [cmd EXCEPT ![c] = [at |-> "create", reg |-> cmd[c].reg, file |-> cmd[c].file + 1]]
         /\ UNCHANGED registered
    ELSE CommandEnds(c) /\ registered' = registered \cup {cmd[c].reg}

\* A file that cannot be made stays as it was, one that cannot be written empty.
FailsToWrite(c) ==
    /\ Failure("write") /\ unwritten' = unwritten \cup {cmd[c].reg}
    /\ GoesOn(c)
    /\ UNCHANGED files

\* WriteStringToFile makes the file, or empties it, before it writes.
CreatesFile(c) ==
    /\ cmd[c].at = "create"
    /\ \/ /\ files' = [files EXCEPT ![Order[cmd[c].file]] = Empty]
          /\ Goes(c, "write") /\ UNCHANGED <<failures, registered, unwritten>>
       \/ FailsToWrite(c)
    /\ UNCHANGED <<server, regs, released>>

Writes(c) ==
    /\ cmd[c].at = "write"
    /\ \/ /\ files' = [files EXCEPT ![Order[cmd[c].file]] = cmd[c].reg]
          /\ GoesOn(c) /\ UNCHANGED <<failures, unwritten>>
       \/ FailsToWrite(c)
    /\ UNCHANGED <<server, regs, released>>

(***************************************************************************)
(* UnRegister.                                                             *)
(***************************************************************************)
\* ExtraHTTPHeaders: the instance, and a signature with its key.
Signs(c) ==
    /\ cmd[c].at = "sign"
    /\ cmd' = [cmd EXCEPT ![c] = [at |-> "depost", reg |-> files["instance-id"], file |-> 1]]
    /\ UNCHANGED <<files, server, regs, failures, history>>

Filled(f) == files[f] \notin {Absent, Empty}
Reachable == Filled("region-id")   \* the name of the server
Accepts(r) == Reachable /\ r \in server /\ files["pri-key"] = r
Refuses(r, how) == Reachable /\ ~Accepts(r) /\ how \in Refusals

\* A request that fails, for want of a server or otherwise, has an empty response, which is no refusal.
Deposts(c) ==
    /\ cmd[c].at = "depost"
    /\ LET r == cmd[c].reg
           done == /\ cmd' = [cmd EXCEPT ![c].at = "remove"]
                   /\ released' = released \cup {r}
       IN  \/ Accepts(r) /\ server' = server \ {r} /\ done /\ UNCHANGED failures
           \/ Refuses(r, "error") /\ done /\ UNCHANGED <<server, failures>>
           \/ Refuses(r, "code") /\ CommandEnds(c) /\ UNCHANGED <<server, failures, released>>
           \/ ~Reachable /\ done /\ UNCHANGED <<server, failures>>
           \/ Failure("request") /\ done /\ UNCHANGED server
    /\ UNCHANGED <<files, regs, registered, unwritten>>

\* clean_unregister_data, which does not look at errors either.
Removes(c) ==
    /\ cmd[c].at = "remove"
    /\ \/ files' = [files EXCEPT ![RemovalOrder[cmd[c].file]] = Absent] /\ UNCHANGED failures
       \/ Failure("write") /\ UNCHANGED files
    /\ IF cmd[c].file < Len(RemovalOrder) THEN cmd' = [cmd EXCEPT ![c].file = @ + 1] ELSE CommandEnds(c)
    /\ UNCHANGED <<server, regs, history>>

Register(c) == Checks(c) \/ Posts(c) \/ CreatesFile(c) \/ Writes(c)
UnRegister(c) == Signs(c) \/ Deposts(c) \/ Removes(c)

HybridNext == \E c \in Cmds : Run(c) \/ Register(c) \/ UnRegister(c) \/ CommandCrashes(c)

HybridSpec == HybridInit /\ [][HybridNext]_hybridVars

\* Commands come to their end, and the user goes on deregistering.
HybridLiveSpec ==
    /\ HybridSpec
    /\ \A c \in Cmds :
          /\ WF_hybridVars(Register(c) \/ UnRegister(c))
          /\ SF_hybridVars(Runs(c, "sign"))

(***************************************************************************)
(* Properties.                                                             *)
(***************************************************************************)
\* What signs the requests of an instance is the key that was registered with
\* it, whatever commands were killed before: who has an instance has its key and
\* region too, until they are removed, unless one of its files could not be written.
KeyOfInstance ==
    LET r == files["instance-id"]
    IN  Filled("instance-id") => \A f \in {"pri-key", "region-id"} :
            \/ files[f] = r
            \/ files[f] = Absent /\ r \in released
            \/ r \in unwritten

\* "agent already register, deregister first": a registration never replaces one
\* that the server still has and that the agent uses.
NoneReplaced ==
    [][LET r == files["instance-id"] IN r \in server => files'["instance-id"] \in {r, Absent}]_hybridVars

\* Both, of every step: what the machine is registered as, and signs with, stays
\* together (at first there is no instance).
InstanceIsKept == [][KeyOfInstance']_hybridVars /\ NoneReplaced

\* "register ok": the machine has the registration, until it is deregistered.
RegisterOk ==
    \A r \in registered \ released : r \in server /\ files["instance-id"] = r /\ files["pri-key"] = r

\* "unregister ok": the server knows the instance no more.
UnregisterOk == server \cap released = {}

\* Who goes on deregistering is not registered some time.
Deregisters == []<>~IsHybrid
=============================================================================
