----------------------------- MODULE MCSessions -----------------------------
(***************************************************************************)
(* The channel of a session, its task, its port forwarding and its client. *)
(* They share no state here: focus is the one that moves in a behaviour,   *)
(* the others stay in an initial state.  This module extends them, with    *)
(* two sessions that come with one id, and two kicks.                      *)
(***************************************************************************)
EXTENDS SessionChannel, SessionTask, PortForward, SessionClient

VARIABLE focus

\* Sessions that nobody kicks.
L == INSTANCE SessionTask WITH MaxKicks <- 0

ASSUME SessionAssumption /\ L!SessionAssumption /\ PortAssumption /\ ClientAssumption

SessionsInit ==
    /\ focus \in {"channel", "task", "live", "port", "client"}
    /\ Init /\ TaskInit /\ PortInit /\ ClientInit

SessionsNext ==
    /\ UNCHANGED focus
    /\ \/ focus = "channel" /\ Next /\ UNCHANGED <<taskVars, portVars, clientVars>>
       \/ /\ \/ focus = "task" /\ TaskNext
             \/ focus = "live" /\ L!TaskNext
          /\ UNCHANGED <<vars, portVars, clientVars>>
       \/ focus = "port" /\ PortNext /\ UNCHANGED <<vars, taskVars, clientVars>>
       \/ focus = "client" /\ ClientNext /\ UNCHANGED <<vars, taskVars, portVars>>

\* The fairness of SessionChannel, SessionTask and SessionClient, for the one that moves.
SessionsFairness ==
    /\ WF_vars(focus = "channel" /\ Second)
    /\ WF_vars(focus = "channel" /\ CanceledEnds)
    /\ \A i \in Opens :
          /\ WF_vars(focus = "channel" /\ (ReaderAsks(i) \/ ReaderFails(i)
                 \/ ReconnectCloses(i) \/ ReconnectOpens(i) \/ ReconnectFails(i)))
          /\ WF_vars(focus = "channel" /\ Pinger(i))
    /\ \A r \in Runs :
          /\ WF_taskVars(focus = "live" /\ L!Run(r))
          /\ WF_taskVars(focus = "live" /\ L!Watcher(r))
          /\ WF_taskVars(focus = "live" /\ L!Plugin(r))
          /\ WF_taskVars(focus = "live" /\ at[r] \in {"remove", "over"} /\ L!TimerFires(r))
    /\ WF_clientVars(focus = "client" /\ Writer)
    /\ WF_clientVars(focus = "client" /\ ReadLoop)
    /\ WF_clientVars(focus = "client" /\ Read)
    /\ WF_clientVars(focus = "client" /\ SizeLoop)
    /\ WF_clientVars(focus = "client" /\ Returns)

SessionsSpec ==
    SessionsInit /\ [][SessionsNext]_<<focus, vars, taskVars, portVars, clientVars>> /\ SessionsFairness

-----------------------------------------------------------------------------
\* OpenIsHeard and OneReader are SessionChannel's, RunningIsKnown is SessionTask's,
\* HandlerIsAwaited PortForward's, and InputKept SessionClient's.

\* SessionChannel: a channel that nobody reads any more is closed, and its session
\* ended, after a bounded silence.  SessionTask: the plugin of a session that is
\* over, timed out or refused ends.  SessionClient: the client ends with its user,
\* its server or the network, leaves no goroutine but the writer, and has always
\* shown what it was sent, in order.
SessionsEnd ==
    /\ focus = "channel" => DeafEnds
    /\ focus = "live" => L!PluginEnds
    /\ focus = "client" => ClientEnds /\ NobodyStays
    /\ []OutputKept
    /\ [](TypeOK /\ TaskTypeOK /\ PortTypeOK /\ ClientTypeOK)
=============================================================================
