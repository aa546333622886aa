------------------------------ MODULE MCTimers ------------------------------
(***************************************************************************)
(* Timers, cron tasks, schedules, cron expressions, the script, the output *)
(* and the container of a task, and the log, for TLC.  They share no state *)
(* here: focus is the one that moves in a behaviour, the others stay in an *)
(* initial state.  This module extends CronTask for a timer that nobody    *)
(* shares; the timer of the cron task has a loop of its own.  It extends   *)
(* HostScript, and TaskOutput for one invocation.                          *)
(***************************************************************************)
EXTENDS CronTask, HostScript, TaskOutput, Sequences

CONSTANTS c1, c2, d1, d2, d3, p1, p2, Missing

VARIABLES
    focus, cronLoop,
    kind, start, period, times, phase, now, aim, made, served, again,
    spec, expr, time, runs,
    today, files, mtime, locks, symlinks, link, lpc, began, filename, curFn, unlinked,
    toUnlink, troubles,
    state, up, changes, wanted, processor, foundContainers, dpc, todo, available, target,
    process, expired, retries, ignored, outcome, invocations

timerVars == <<vars, cronLoop>>
scheduleVars == <<kind, start, period, times, phase, now, aim, made, served, again>>
exprVars == <<spec, expr, time, runs>>
logVars == <<today, files, mtime, locks, symlinks, link, lpc, began, filename, curFn,
             unlinked, toUnlink, troubles>>
containerVars == <<state, up, changes, wanted, processor, foundContainers, dpc, todo,
                   available, target, process, expired, retries, ignored, outcome,
                   invocations>>

\* A cron task, whose timer nobody stops, skips or refreshes.
C == INSTANCE CronTask WITH
        Kind <- "cron", Intervals <- {1, 2}, loop <- cronLoop,
        Stoppable <- FALSE, Skippable <- FALSE, Refreshes <- FALSE
S == INSTANCE Schedules WITH
        Width <- 6, Second <- 2, Hour <- 4, Limit <- 12, Values <- {1, 2, 3, 16},
        Instants <- {2, 5, 6, 9}, Starts <- {0, 3, 7}, Late <- 2, MaxTime <- 20

\* Cron expressions, as fields of entries: days at the ends of months and years,
\* leap days, nearest workdays, weeks of a month; a day that no month has, and
\* ranges in the reverse order.
Entry(form, a, b, step) == [form |-> form, a |-> a, b |-> b, step |-> step]
Each(form, a, b, step) == <<Entry(form, a, b, step)>>
At(a) == Each("v", a, 0, 1)
Range(a, b) == Each("a-b", a, b, 1)
Star == Each("*", 0, 0, 1)
Zone == Each("zone", 0, 0, 1)
Clock(s, m, h) == [second |-> s, minute |-> m, hour |-> h]
Date(d, m, w, rest) == [dom |-> d, month |-> m, dow |-> w, rest |-> rest]
CronClocks ==
    {Clock(At(0), At(1), Each("*/s", 0, 0, 2)), Clock(Star, At(0) \o At(2), Range(0, 1)),
     Clock(Each("v/s", 1, 0, 3), Star, Star), Clock(Star, Star, Range(2, 1))}
CronDates ==
    {Date(Star, Star, Star, <<>>),
     Date(At(31), Star, Star, <<At(1972)>>),
     Date(At(29), At(2), Star, <<>>), Date(At(30), At(2), Star, <<>>),
     Date(Each("L", 0, 0, 1), Each("a-b/s", 1, 12, 3), Star, <<Zone>>),
     Date(Each("LW", 0, 0, 1), Star, Star, <<>>),
     Date(Each("vW", 1, 0, 1) \o Each("vW", 15, 0, 1) \o Each("vW", 31, 0, 1), Star, Star, <<>>),
     Date(At(13), Star, At(5), <<>>),
     Date(Star, Star, Each("vL", 5, 0, 1), <<Each("v/s", 1971, 0, 2), Zone>>),
     Date(Star, Star, Each("v#n", 1, 5, 1) \o Each("v#n", 7, 1, 1), <<>>),
     Date(Star, Star, Range(5, 7), <<>>), Date(At(1), Range(12, 1), Star, <<>>),
     Date(Each("*/s", 0, 0, 10), Each("v/s", 6, 0, 5) \o Star, Star, <<Star>>),
     Date(At(1), Star, Star, <<Each("nowhere", 0, 0, 1)>>)}
CronStarts == {<<1970, 1, 1, 0, 0, 0>>, <<1970, 4, 30, 2, 2, 0>>, <<1971, 12, 31, 1, 0, 1>>,
               <<1972, 2, 28, 2, 2, 2>>, <<1973, 12, 31, 2, 2, 2>>}
E == INSTANCE CronExpr WITH
        Top <- 2, LastYear <- 1973, MaxRuns <- 3,
        Clocks <- CronClocks, Dates <- CronDates, Starts <- CronStarts
\* Two invocations with little output each; the extended module has one with much.
A == INSTANCE TaskOutput WITH Rounds <- 2, MaxBytes <- 5
\* The log of the agent and one of its subcommands.
L == INSTANCE RotateLogs WITH
        Procs <- {p1, p2}, MaxAge <- 3, LastDay <- 4, MaxTroubles <- 1, pc <- lpc
\* Two containers of docker, one's name in the other's, and one of containerd.
Names == [c \in {d1, d2, d3} |-> IF c = d2 THEN "web-db" ELSE "web"]
D == INSTANCE ContainerTask WITH
        Containers <- {d1, d2, d3}, NameOf <- Names,
        RuntimeOf <- [c \in {d1, d2, d3} |-> IF c = d3 THEN "containerd" ELSE "docker"],
        PartOf <- {<<"web", "web">>, <<"web-db", "web-db">>, <<"web", "web-db">>},
        Endpoints <- <<"docker", "containerd">>,
        Wanted <- [runtime : {Missing}, id : {Missing}, name : {"web", "web-db"}]
             \cup [runtime : {"docker"}, id : {d1}, name : {Missing, "web-db"}]
             \cup [runtime : {"docker"}, id : {Missing}, name : {"web"}]
             \cup [runtime : {"containerd"}, id : {d3}, name : {"web-db"}]
             \cup [runtime : {"other"}, id : {d1}, name : {Missing}],
        MaxChanges <- 2, MaxInvocations <- 2, pc <- dpc, canceled <- ignored,
        None <- Missing

ASSUME TimerAssumption /\ C!TimerAssumption /\ S!SchedulesAssumption
ASSUME E!CronAssumption /\ L!RotateAssumption /\ D!ContainerAssumption
ASSUME ScriptAssumption /\ OutputAssumption /\ A!OutputAssumption

TimersInit ==
    /\ focus \in {"timer", "cron", "schedule", "expression", "output", "again", "log",
                  "script", "container"}
    /\ CronInit /\ cronLoop = "new" /\ S!Init /\ OutputInit /\ L!Init /\ ScriptInit /\ D!Init
    /\ focus # "script" => once /\ secret
    /\ focus # "timer" => interval = 1 /\ immediatelyDone
    /\ focus # "schedule" => kind = "at" /\ start = 0 /\ times = {2}
    /\ focus \notin {"output", "again"} => periodic
    /\ focus # "container" =>
          /\ state = [c \in {d1, d2, d3} |-> "RUNNING"] /\ up = {0, 1, 2}
          /\ wanted = [runtime |-> Missing, id |-> Missing, name |-> "web"]
    /\ IF focus = "expression" THEN E!Init
       ELSE spec = <<>> /\ expr = E!New /\ time = E!Zero /\ runs = 0

TimersNext ==
    /\ UNCHANGED focus
    /\ \/ /\ focus = "timer" /\ Next
          /\ UNCHANGED <<cronLoop, taskVars, scheduleVars, exprVars, logVars, scriptVars,
                         outputVars, containerVars>>
       \/ /\ focus = "cron" /\ C!CronNext
          /\ UNCHANGED <<loop, scheduleVars, exprVars, logVars, scriptVars, outputVars,
                         containerVars>>
       \/ /\ focus = "schedule" /\ S!Next
          /\ UNCHANGED <<timerVars, taskVars, exprVars, logVars, scriptVars, outputVars,
                         containerVars>>
       \/ /\ focus = "expression" /\ E!Next
          /\ UNCHANGED <<timerVars, taskVars, scheduleVars, logVars, scriptVars, outputVars,
                         containerVars>>
       \/ /\ focus = "log" /\ L!Next
          /\ UNCHANGED <<timerVars, taskVars, scheduleVars, exprVars, scriptVars, outputVars,
                         containerVars>>
       \/ /\ focus = "script" /\ ScriptNext
          /\ UNCHANGED <<timerVars, taskVars, scheduleVars, exprVars, logVars, outputVars,
                         containerVars>>
       \/ /\ \/ focus = "output" /\ OutputNext
             \/ focus = "again" /\ A!OutputNext
          /\ UNCHANGED <<timerVars, taskVars, scheduleVars, exprVars, logVars, scriptVars,
                         containerVars>>
       \/ /\ focus = "container" /\ D!Next
          /\ UNCHANGED <<timerVars, taskVars, scheduleVars, exprVars, logVars, scriptVars,
                         outputVars>>

cronVars == C!allVars

\* The fairness of Timer, CronTask, TaskOutput and ContainerTask, for the one that moves.
TimersFairness ==
    /\ WF_vars(focus = "timer" /\ TimerStep) /\ WF_vars(focus = "timer" /\ Tick)
    /\ SF_vars(focus = "timer" /\ TakesRefresh)
    /\ SF_vars(focus = "timer" /\ TakesQuit)
    /\ SF_vars(focus = "timer" /\ TakesSkip)
    /\ \A c \in {c1, c2} :
          /\ WF_vars(focus = "timer" /\ CallbackStep(c))
          /\ WF_cronVars(focus = "cron" /\ C!CronCallbackStep(c))
    /\ WF_cronVars(focus = "cron" /\ C!TimerStep /\ UNCHANGED taskVars)
    /\ WF_cronVars(focus = "cron" /\ C!Tick /\ UNCHANGED taskVars)
    /\ WF_taskVars(focus = "cron" /\ (C!WorkerTakes \/ C!OnFinish \/ C!WorkerRemoves))
    /\ SF_taskVars(focus = "cron" /\ C!RunReports)
    /\ WF_outputVars(focus = "again" /\ A!RunSteps)
    /\ WF_outputVars(focus = "again" /\ A!Reporter)
    /\ WF_outputVars(focus = "again" /\ (A!CancelReads \/ A!CancelPosts \/ A!CancelKills))
    /\ WF_containerVars(focus = "container" /\ D!Run)
    /\ WF_containerVars(focus = "container" /\ D!Expires)

timersVars == <<focus, timerVars, taskVars, scheduleVars, exprVars, logVars, scriptVars,
                outputVars, containerVars>>
TimersSpec == TimersInit /\ [][TimersNext]_timersVars /\ TimersFairness

-----------------------------------------------------------------------------
\* Schedules: nextRunFrom returns the first instant of the expression after the
\* time it is given; so no instant is served twice, and none passes unserved
\* while the clock runs steadily.  CronExpr: the library that finds the instants of a
\* cron expression finds the closest one, however its days are given.  ContainerTask: a
\* command runs in the container that was asked for, and what is reported as finished
\* has ended.  RotateLogs: what was logged in the last days is in a file that exists, and
\* the link names a file, today's if one has written today.
RightTimeAndPlace ==
    /\ S!TypeOK /\ S!NextIsEarliest /\ S!OnceEach /\ S!NoneMissed
    /\ E!TypeOK /\ E!NextIsClosest
    /\ D!TypeOK /\ D!RunsInTheOne /\ D!ReportsTheEnd
    /\ L!TypeOK /\ L!RecentIsKept /\ L!LinkHolds /\ L!LinkIsCurrent
    /\ IF focus = "cron" THEN C!CronTypeOK ELSE TypeOK
    /\ ScriptTypeOK /\ IF focus = "again" THEN A!OutputTypeOK ELSE OutputTypeOK

\* Timer: Stop is obeyed, though firings, refreshes and skips compete with it in
\* one select, and until then the callback is executed again and again.
\* CronTask: every invocation ends and frees its TaskId, so that later firings are
\* not skipped for ever.  TaskOutput: Run gets past the goroutine of running
\* reports and past a Cancel that posts.  ContainerTask: an invocation ends, whatever
\* becomes of the container and its runtime.
NobodyIsStuck ==
    /\ StopEnds
    /\ focus = "timer" => CallbackRecurs
    /\ C!InvocationEnds
    /\ focus = "again" => A!RunEnds
    /\ focus = "container" => D!RunEnds
=============================================================================
