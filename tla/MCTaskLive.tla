----------------------------- MODULE MCTaskLive -----------------------------
(***************************************************************************)
(* Two instances of TaskEngine for the liveness properties: tasks that run *)
(* once, and a task with a schedule whose jobs two dispatchers deal with.  *)
(* focus says which of them a behaviour is about.                          *)
(***************************************************************************)
EXTENDS Integers, Sequences, FiniteSets

CONSTANTS o1, o2, o3, p1, t1, t2, t3, d1, d2, w1, NoTask, NoOne

VARIABLES
    focus,
    taskId, taskVer, canceled, sent, factory, schedules, schedLock, timer, quit, cb,
    queue, wpc, wtask, pc, jid, jnew, jold, panicked, dereg

engineVars == <<taskId, taskVer, canceled, sent, factory, schedules, schedLock, timer,
                quit, cb, queue, wpc, wtask, pc, jid, jnew, jold, panicked, dereg>>

O == INSTANCE TaskEngine WITH
        OnceIds <- {o1, o2, o3}, PeriodicIds <- {}, Versions <- {1},
        Tasks <- {t1, t2, t3}, Dispatchers <- {d1}, Workers <- {w1}, MaxPending <- 1
P == INSTANCE TaskEngine WITH
        OnceIds <- {}, PeriodicIds <- {p1}, Versions <- {1},
        Tasks <- {t1}, Dispatchers <- {d1, d2}, Workers <- {w1}, MaxPending <- 1

Init == (focus = "once" /\ O!Init) \/ (focus = "periodic" /\ P!Init)

Next ==
    /\ UNCHANGED focus
    /\ (focus = "once" /\ O!Next) \/ (focus = "periodic" /\ P!Next)

\* The fairness of TaskEngine, for the one that moves; tasks that run once have
\* no callback.
Fairness ==
    /\ SF_engineVars(focus = "once" /\ ~panicked /\ O!DispatchStep(d1))
    /\ WF_engineVars(focus = "once" /\ ~panicked /\ O!WorkerStep(w1))
    /\ \A d \in {d1, d2} :
          SF_engineVars(focus = "periodic" /\ ~panicked /\ P!DispatchStep(d))
    /\ SF_engineVars(focus = "periodic" /\ ~panicked /\ P!CallbackStep(t1))
    /\ WF_engineVars(focus = "periodic" /\ ~panicked /\ P!WorkerStep(w1))

Spec == Init /\ [][Next]_<<focus, engineVars>> /\ Fairness

-----------------------------------------------------------------------------
\* OnceEnds and JobsEnd of TaskEngine: an id that runs once leaves the factory,
\* however full the queue of the pool is (TaskPool.RunTask), and no dispatcher
\* stays in RunTask or behind the lock of the schedules for ever.
TasksEnd ==
    /\ \A i \in {o1, o2, o3} : []<>(focus = "once" => factory[i] = NoTask \/ panicked)
    /\ \A d \in {d1, d2} : []<>(d \in DOMAIN pc => pc[d] = "idle" \/ panicked)
=============================================================================
