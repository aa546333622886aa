------------------------------ MODULE MCInstall ------------------------------
(***************************************************************************)
(* What the agent installs and keeps in files, for TLC: the preparation of *)
(* an update, the hybrid registration, the list of plugins, their          *)
(* installation and their health, the service of the system, and how an    *)
(* agent has ended.  They share no state: focus is the one that moves in a *)
(* behaviour, the others stay in an initial state.  This module extends    *)
(* PluginStore, for accesses that fail, PluginInstall, UpdatePrep, for     *)
(* three offers with three failures between them, and Hybrid, for one user *)
(* who registers and deregisters; the others are instances.                *)
(***************************************************************************)
EXTENDS PluginStore, PluginInstall, UpdatePrep, Hybrid, Sequences, FiniteSets, TLC

CONSTANTS A, B, C, p

VARIABLES
    focus,
    scanInterval, pullInterval, scanTimer, pullTimer, since, scanAt, pullAt, scanFor,
    pullFor, lastSeen, lazy, record, status, told, changes,
    platform, conf, enabled, recovery, pidFile, running, waiting, cmdOp, step, promised,
    stopped, cmdTroubles,
    now, journal, stderrFile, pc, redirected, lastPanicInfo, event, panicsTold, lost,
    panics, ends

storeVars == vars
healthVars == <<scanInterval, pullInterval, scanTimer, pullTimer, since, scanAt, pullAt,
                scanFor, pullFor, lastSeen, lazy, record, status, told, changes>>
serviceVars == <<platform, conf, enabled, recovery, pidFile, running, waiting, cmdOp, step,
                 promised, stopped, cmdTroubles>>
panicVars == <<now, journal, stderrFile, pc, redirected, lastPanicInfo, event, panicsTold,
               lost, panics, ends>>
otherVars == <<serviceVars, panicVars>>

\* Two offers, of which the agent must take the last.
V == INSTANCE UpdatePrep WITH Elapsed <- {1, 20}, MaxOffers <- 2, MaxTroubles <- 2
\* One user who registers and deregisters, while files cannot be written either,
\* nor removed.
D == INSTANCE Hybrid WITH
        Refusals <- {"error"}, MaxRegs <- 2, MaxFailures <- 2,
        Troubles <- {"request", "write", "crash"}

\* The processes that load the list, without accesses that fail.
L == INSTANCE PluginStore WITH MaxFaults <- 0

\* Two processes that want one version, and one that removes the plugin.
Ask(op, v) == [op |-> op, version |-> v]
OneVersion == A :> {Ask("online", 1), Ask("local", 1)}
              @@ B :> {Ask("online", 1), Ask("file", 1)}
              @@ C :> {Ask("remove", 1)}

\* The server changes the intervals of the two timers; or the plugin changes.
H == INSTANCE PluginHealth WITH
        Plugins <- {p}, Avoid <- 2, ScanIntervals <- {6, 9}, PullIntervals <- {4, 5},
        FirstScan <- 6, FirstPull <- 4, PullSetsScan <- FALSE, PostsLost <- FALSE,
        MaxWork <- 2, MaxChanges <- 2
G == INSTANCE PluginHealth WITH
        Plugins <- {p}, Avoid <- 2, ScanIntervals <- {9}, PullIntervals <- {3},
        FirstScan <- 9, FirstPull <- 3, PullSetsScan <- FALSE, PostsLost <- FALSE,
        MaxWork <- 2, MaxChanges <- 2

\* Every system, where two steps of the commands fail.
W == INSTANCE ServiceControl WITH
        Platforms <- {"systemd", "upstart", "sysv", "windows", "freebsd"},
        MaxTroubles <- 2, op <- cmdOp, troubles <- cmdTroubles

\* Two panics, looked for in the journal, or in the file.
J == INSTANCE LastPanic WITH
        Systemd <- TRUE, Reach <- 1, MaxTime <- 2, MaxPanics <- 2, MaxTroubles <- 1,
        told <- panicsTold, troubles <- ends
F == INSTANCE LastPanic WITH
        Systemd <- FALSE, Reach <- 2, MaxTime <- 1, MaxPanics <- 3, MaxTroubles <- 2,
        told <- panicsTold, troubles <- ends

ASSUME PrepAssumption /\ V!PrepAssumption
ASSUME HybridAssumption /\ D!HybridAssumption
ASSUME ConstantsAssumption /\ L!ConstantsAssumption /\ InstallAssumption
ASSUME H!HealthAssumption /\ G!HealthAssumption
ASSUME W!ServiceAssumption /\ J!PanicAssumption /\ F!PanicAssumption

InstallInit ==
    /\ focus \in {"prep", "updates", "hybrid", "deregister", "store", "load", "install",
                  "health", "tell", "service", "journal", "stderr"}
    /\ PrepInit /\ HybridInit /\ Init /\ PluginInit /\ W!Init /\ J!Init
    /\ focus # "service" => platform = "systemd"
    /\ IF focus = "tell" THEN G!Init ELSE H!Init
    /\ focus \notin {"health", "tell"} =>
          scanTimer.left = 0 /\ pullTimer.left = 2 /\ status = [x \in {p} |-> "none"]

InstallNext ==
    /\ UNCHANGED focus
    /\ \/ /\ \/ focus = "prep" /\ PrepNext
             \/ focus = "updates" /\ V!PrepNext
          /\ UNCHANGED <<hybridVars, storeVars, pluginVars, healthVars, otherVars>>
       \/ /\ \/ focus = "hybrid" /\ HybridNext
             \/ focus = "deregister" /\ D!HybridNext
          /\ UNCHANGED <<prepVars, storeVars, pluginVars, healthVars, otherVars>>
       \/ /\ \/ focus = "store" /\ Next
             \/ focus = "load" /\ L!Next
          /\ UNCHANGED <<prepVars, hybridVars, pluginVars, healthVars, otherVars>>
       \/ /\ focus = "install" /\ PluginNext
          /\ UNCHANGED <<prepVars, hybridVars, storeVars, healthVars, otherVars>>
       \/ /\ \/ focus = "health" /\ H!Next
             \/ focus = "tell" /\ G!Next
          /\ UNCHANGED <<prepVars, hybridVars, storeVars, pluginVars, otherVars>>
       \/ /\ focus = "service" /\ W!Next
          /\ UNCHANGED <<prepVars, hybridVars, storeVars, pluginVars, healthVars, panicVars>>
       \/ /\ \/ focus = "journal" /\ J!Next
             \/ focus = "stderr" /\ F!Next
          /\ UNCHANGED <<prepVars, hybridVars, storeVars, pluginVars, healthVars,
                         serviceVars>>

\* The fairness of the components, for the one that moves.
InstallFairness ==
    /\ WF_prepVars(focus = "updates" /\ V!Step)
    /\ \A c \in Cmds :
          /\ WF_hybridVars(focus = "deregister" /\ (D!Register(c) \/ D!UnRegister(c)))
          /\ SF_hybridVars(focus = "deregister" /\ D!Runs(c, "sign"))
    /\ \A x \in {A, B, C} :
          /\ WF_storeVars(focus = "load" /\
                (L!OpensExisting(x) \/ L!ReadsJson(x) \/ L!CreatesExclusively(x)))
          /\ WF_storeVars(focus = "load" /\ (L!Creates(x) \/ L!Migrates(x) \/ L!Finds(x)))
          /\ SF_storeVars(focus = "load" /\ L!Locks(x))
    /\ WF_healthVars(focus = "tell" /\ G!Tick)
    /\ WF_healthVars(focus = "tell" /\ G!Scan)
    /\ WF_healthVars(focus = "tell" /\ G!Pull)
    /\ WF_serviceVars(focus = "service" /\ W!Step)
    /\ \A o \in {"stop", "remove", "install"} : SF_serviceVars(focus = "service" /\ W!Ask(o))

InstallSpec ==
    /\ InstallInit
    /\ [][InstallNext]_<<focus, prepVars, hybridVars, storeVars, pluginVars, healthVars, otherVars>>
    /\ InstallFairness

-----------------------------------------------------------------------------
\* WhatRunsIsWhole is UpdatePrep's, MigratedOnce is PluginStore's, RunningKept is
\* PluginInstall's and InstanceIsKept is Hybrid's.

\* What is recorded, or told, is so.  PluginInstall: what the database calls installed is
\* unpacked to its end, and one record of a plugin is live, however many install it.
\* PluginStore: while no access fails, a database that nobody is filling holds the plugins
\* of the JSON file.  ServiceControl: what --install calls ok is there to its end and comes
\* back at every boot, and what --stop calls ok has stopped.  PluginHealth: a pull keeps
\* silent only about what the server knows, and does not report close to a scan.
\* LastPanic: no panic is passed over by a search of the journal, nor emptied away with
\* the file.
RecordsAreTrue ==
    /\ [](PluginTypeOK /\ RecordedIsWhole /\ OneLive)
    /\ [](PrepTypeOK /\ HybridTypeOK /\ TypeOK /\ (focus = "load" => L!MigrationKeeps))
    /\ [](W!TypeOK /\ W!OkIsInstalled /\ W!OkIsStopped)
    /\ [](IF focus = "tell" THEN G!TypeOK ELSE H!TypeOK)
    /\ H!SilenceIsKnown /\ H!KeptApart
    /\ [](IF focus = "stderr" THEN F!TypeOK ELSE J!TypeOK /\ J!NonePassedOver)
    /\ F!NoneEmptied

\* UpdatePrep: the last version that is offered is installed in the end, past
\* crashes and failed downloads.  Hybrid: who deregisters again and again is not
\* registered in the end.  PluginStore: who starts to load the list gets it, or an
\* error.  PluginHealth: a change of status that lasts is reported in the end.
\* ServiceControl: whoever repeats the commands has the agent installed.
AttemptsSucceed ==
    /\ focus = "updates" => V!Updates
    /\ focus = "deregister" => D!Deregisters
    /\ focus = "load" => L!LoadEnds
    /\ focus = "tell" => G!ChangesAreTold
    /\ focus = "service" => W!Repairs
=============================================================================
