------------------------------- MODULE MCAgent -------------------------------
(***************************************************************************)
(* The state manager, the inventory, the performance monitor and the       *)
(* encrypted data for TLC.  They share no state: focus is the one that     *)
(* moves in a behaviour, the others stay in an initial state.  This module *)
(* extends the four, with two callbacks of the timers of one configuration,*)
(* two checks of the load that overlap, and two commands on one key; other *)
(* instances share their variables.                                        *)
(***************************************************************************)
EXTENDS Perfmon, CryptData, StateManager, Inventory

CONSTANTS a, j1, j2, c1

VARIABLE focus

perfVars == vars

\* One callback, and changes that must be applied in the end.
L == INSTANCE StateManager WITH
        Schedules <- {"cron"}, Monitored <- FALSE, MaxCrash <- 1
\* The refresh timer, which the performance monitor looks at.
W == INSTANCE StateManager WITH
        Schedules <- {"bad"}, Monitored <- TRUE, MaxCrash <- 1
\* One check of the load at a time.
P == INSTANCE Perfmon WITH Checks <- {c1}
\* Two, while no task runs.
O == INSTANCE Perfmon WITH MaxCount <- 3, MaxTasks <- 0
\* One command, whose key expires.
E == INSTANCE CryptData WITH
        Commands <- {c1}, Timeouts <- {1, 2}, MaxTime <- 3,
        Operations <- {"gen", "remove", "use", "createParam"}

ASSUME StateManagerAssumption /\ L!StateManagerAssumption /\ W!StateManagerAssumption
ASSUME PerfmonAssumption /\ P!PerfmonAssumption /\ O!PerfmonAssumption
ASSUME CryptAssumption /\ E!CryptAssumption /\ InventoryAssumption

AgentInit ==
    /\ focus \in {"states", "changes", "watched", "perf", "overlap",
                  "keys", "expiry", "inventory"}
    /\ CASE focus = "changes" -> L!StatesInit [] focus = "watched" -> W!StatesInit
         [] OTHER -> StatesInit
    /\ Init
    /\ IF focus = "expiry" THEN E!CryptInit ELSE CryptInit
    /\ InventoryInit
    /\ focus # "inventory" => content = [i \in Types |-> a]

\* The file matters to a restart alone, and "states" has none.
AgentNext ==
    /\ UNCHANGED focus
    /\ \/ /\ \/ focus = "states" /\ StatesNext /\ UNCHANGED file
             \/ focus = "changes" /\ L!StatesNext /\ job'[j2] = IdleJob
             \/ focus = "watched" /\ W!StatesNext /\ job'[j2] = IdleJob
          /\ UNCHANGED <<perfVars, cryptVars, itemVars>>
       \/ /\ \/ focus = "perf" /\ P!Next
             \/ focus = "overlap" /\ O!Next
          /\ UNCHANGED <<stateVars, cryptVars, itemVars>>
       \/ /\ focus = "inventory" /\ InventoryNext
          /\ UNCHANGED <<stateVars, perfVars, cryptVars>>
       \/ /\ \/ focus = "keys" /\ CryptNext
             \/ focus = "expiry" /\ E!CryptNext
          /\ UNCHANGED <<stateVars, perfVars, itemVars>>

\* The fairness of the four, for the one that moves.
AgentFairness ==
    /\ WF_stateVars(focus = "changes" /\ L!DriftEnds)
    /\ WF_stateVars(focus = "changes" /\ L!RefreshStep)
    /\ SF_stateVars(focus = "changes" /\ L!Fetches)
    /\ SF_stateVars(focus = "changes" /\ (L!LocksToCancel \/ L!LocksToInit))
    /\ SF_stateVars(focus = "changes" /\ L!JobStarts(j1, a))
    /\ WF_stateVars(focus = "changes" /\ L!JobStep(j1))
    /\ SF_stateVars(focus = "changes" /\ L!JobLocks(j1))
    /\ SF_stateVars(focus = "changes" /\ L!Applies(j1))
    /\ WF_perfVars(focus = "perf" /\ P!Tick)
    /\ WF_perfVars(focus = "perf" /\ TaskEnds)
    /\ WF_perfVars(focus = "perf" /\ Check(c1))
    /\ WF_cryptVars(focus = "expiry" /\ E!CleanerStep)
    /\ WF_cryptVars(focus = "expiry" /\ E!HandlerStep(c1))
    /\ WF_itemVars(focus = "inventory" /\ Gathers)
    /\ WF_itemVars(focus = "inventory" /\ Step)

agentVars == <<focus, stateVars, perfVars, cryptVars, itemVars>>
AgentSpec == AgentInit /\ [][AgentNext]_agentVars /\ AgentFairness

-----------------------------------------------------------------------------
\* KillIsEarned is Perfmon's, KeyNotReplaced is CryptData's, StatesInStep is
\* StateManager's.

\* StateManager: the last definition of a configuration is applied in the end,
\* past restarts and a lost cache, and a configuration the server deletes loses
\* its timer.  Perfmon: an agent whose cpu load stays too high, or that uses too
\* much memory, does not stay so.  CryptData: what has expired does not stay in
\* memory.  Inventory: what a compliant run has collected is what the server has, and
\* the server knows at last what the instance has.
SettledInTheEnd ==
    /\ focus = "changes" => L!DefinitionApplied /\ L!DeletedStops
    /\ focus = "perf" => OverloadEnds /\ MemoryEnds
    /\ focus = "expiry" => E!ExpiredAreCleared
    /\ focus = "inventory" => ServerCatchesUp
    /\ [](focus = "perf" => P!KillIsEarned)
    /\ [](CompliantIsKnown /\ InventoryTypeOK /\ TypeOK)
    /\ [](CASE focus = "changes" -> L!StatesTypeOK [] focus = "watched" -> W!StatesTypeOK
            [] OTHER -> StatesTypeOK)
    /\ [](IF focus = "expiry" THEN E!CryptTypeOK ELSE CryptTypeOK)
=============================================================================
