----------------------------- MODULE MCChannels -----------------------------
(***************************************************************************)
(* The channel manager, the limiter of its kicks, the heart-beat of the    *)
(* agent, its choice of a server, and the files the server sends, for TLC: *)
(* what the agent and the server have of each other.  They share no state  *)
(* here: focus is the one that moves in a behaviour, the others stay in an *)
(* initial state.  This module extends ChannelMgr, for an instance in ECS  *)
(* whose server may be overloaded, and the modules of the others.          *)
(***************************************************************************)
EXTENDS ChannelMgr, KickLimit, Heartbeat, SendFile, ApiServer

CONSTANTS g1, g2   \* two goroutines

VARIABLE focus

channelVars == vars

\* A managed instance, which has no gshell.
H == INSTANCE ChannelMgr WITH
        Hybrid <- TRUE, GshellSupport <- TRUE, CoolDownCount <- 2, RetryCount <- 2,
        Attempts <- 2, MaxConns <- 3, MaxOpens <- 1, MaxTroubles <- 3,
        Prompt <- FALSE, Overload <- FALSE
\* An instance in ECS whose troubles end.
L == INSTANCE ChannelMgr WITH
        Hybrid <- FALSE, GshellSupport <- TRUE, CoolDownCount <- 1, RetryCount <- 2,
        Attempts <- 1, MaxConns <- 4, MaxOpens <- 3, MaxTroubles <- 1,
        Prompt <- TRUE, Overload <- FALSE

\* http comes and goes, https works; a managed instance has https alone.
PingSettings == {[hybrid |-> FALSE, steady |-> {"https"}, flapping |-> {"http"}],
                 [hybrid |-> TRUE, steady |-> {}, flapping |-> {"https"}]}

\* Machines in both networks, whose file of the region is missing, right, or that of
\* another machine; with an executable that says all or little; one that is
\* registered; one whose server is named by the environment.
World(special, vpc, offers, content, reachable) ==
    [hosted |-> "hosted" \in special, hybrid |-> "hybrid" \in special, exe |-> "exe" \in special,
     vpc |-> vpc, offers |-> offers, file |-> content, reachable |-> reachable]
ServerWorlds ==
    {World({}, TRUE, {}, "", {"here"}), World({}, TRUE, {}, "old", {"here"}),
     World({}, FALSE, {}, "old", {"here", "old"}), World({}, FALSE, {}, "", {"here"}),
     World({"exe"}, TRUE, {"ca"}, "", {"here"}),
     World({"exe", "hybrid"}, FALSE, {"ca", "domain", "region"}, "", {"here"}),
     World({"hosted"}, TRUE, {}, "", {"here"}), World({"hosted", "hybrid"}, TRUE, {}, "", {"here"}),
     World({"hybrid"}, FALSE, {}, "here", {"here"})}

\* Tasks of every kind.
SentFile(to, content, overwrite, owner, flaw) ==
    [path |-> to, content |-> content, overwrite |-> overwrite, mode |-> "0600",
     owner |-> owner, flaw |-> flaw]
SentFiles == [keeps |-> SentFile("x", "1", FALSE, "user", "none"),
              replaces |-> SentFile("x", "2", TRUE, "root", "none"),
              other |-> SentFile("y", "3", FALSE, "user", "none"),
              unowned |-> SentFile("x", "4", TRUE, "nobody", "user"),
              unsigned |-> SentFile("y", "5", TRUE, "user", "signature")]
\* Two fetches that write one file; or one, of tasks on every system.
F == INSTANCE SendFile WITH Systems <- {"linux"}, AskTimes <- 1, Rounds <- 1
FetchesNext == F!FilesNext /\ delivered' \subseteq {"keeps", "replaces", "other"}
OneFetchNext ==
    /\ FilesNext /\ step'[g2] = "idle"
    /\ delivered' \subseteq {"keeps", "replaces", "unowned", "unsigned"}

ASSUME ApiAssumption /\ SendAssumption /\ F!SendAssumption
ASSUME ChannelAssumption /\ H!ChannelAssumption /\ L!ChannelAssumption
ASSUME KickAssumption /\ PingAssumption

ChannelsInit ==
    /\ \/ focus = "hybrid" /\ H!Init
       \/ focus = "live" /\ L!Init
       \/ focus \in {"ecs", "kick", "ping", "server", "fetches", "files"} /\ Init
    /\ KickInit /\ PingInit /\ ServerInit
    /\ focus # "server" => site = World({}, TRUE, {}, "", {"here"})
    /\ focus # "kick" => period = 0
    /\ focus # "ping" => setting.hybrid
    /\ IF focus = "files" THEN FilesInit ELSE F!FilesInit
    /\ focus \notin {"fetches", "files"} => files = [x \in {"x", "y"} |-> None]
    /\ focus \notin {"ecs", "hybrid", "live"} => net /\ device /\ hostKnown

ChannelsNext ==
    /\ UNCHANGED focus
    /\ \/ /\ \/ focus = "ecs" /\ Next
             \/ focus = "hybrid" /\ H!Next
             \/ focus = "live" /\ L!Next
          /\ UNCHANGED <<kickVars, pingVars, serverVars, fileVars>>
       \/ focus = "kick" /\ KickNext /\ UNCHANGED <<channelVars, pingVars, serverVars, fileVars>>
       \/ focus = "server" /\ ServerNext /\ UNCHANGED <<channelVars, kickVars, pingVars, fileVars>>
       \/ focus = "ping" /\ PingNext /\ UNCHANGED <<channelVars, kickVars, serverVars, fileVars>>
       \/ /\ \/ focus = "fetches" /\ FetchesNext
             \/ focus = "files" /\ OneFetchNext
          /\ UNCHANGED <<channelVars, kickVars, pingVars, serverVars>>

\* The fairness of ChannelMgr.
ChannelsFairness ==
    /\ WF_channelVars(focus = "live" /\ L!NetRecovers)
    /\ WF_channelVars(focus = "live" /\ L!CalmEnds)
    /\ WF_channelVars(focus = "live" /\ L!Tick)
    /\ WF_channelVars(focus = "live" /\ (L!Check \/ L!Checked \/ L!Stop))
    /\ \A p \in L!Procs : /\ SF_channelVars(focus = "live" /\ L!Enter(p))
                          /\ WF_channelVars(focus = "live" /\ L!Selects(p))
    /\ \A i \in L!Conns : WF_channelVars(focus = "live" /\ L!Reader(i))
    /\ WF_channelVars(focus = "live" /\ L!GsReaderLeaves)

ChannelsSpec ==
    /\ ChannelsInit
    /\ [][ChannelsNext]_<<focus, channelVars, kickVars, pingVars, serverVars, fileVars>>
    /\ ChannelsFairness

-----------------------------------------------------------------------------
\* NeverOrphaned is ChannelMgr's, for whichever instance moves; LimitIsExact is KickLimit's,
\* BeatsArrive Heartbeat's, FilesArrive SendFile's and RightServer ApiServer's.

\* ChannelMgr: once the network and the device have settled the agent has an
\* active channel that works, for good.  ApiServer: calls never wait for each other.
ServerIsReached ==
    /\ focus = "live" => L!Recovers
    /\ [](CASE focus = "hybrid" -> H!TypeOK
            [] focus = "live" -> L!TypeOK
            [] OTHER -> TypeOK)
    /\ [](KickTypeOK /\ PingTypeOK /\ FilesTypeOK)
    /\ [](ServerTypeOK /\ NoCircle)
=============================================================================
