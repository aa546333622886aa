------------------------------ MODULE OnceTask ------------------------------
(***************************************************************************)
(* What the task engine promises of a non-periodic task, with no pool, no  *)
(* objects and no locks: an id lives through at most one execution at a    *)
(* time, a stop may be acknowledged whenever the task lives, and the task  *)
(* is not gone before the server was told of its end.  TaskEngine          *)
(* implements this module.                                                 *)
(***************************************************************************)
CONSTANT OnceIds  \* TaskIds of non-periodic tasks

VARIABLES life,   \* stage of each id
          told    \* what the server was told of the task that lives

vars == <<life, told>>

Stages == {"absent", "waiting", "running", "over"}

Init ==
    /\ life = [i \in OnceIds |-> "absent"]
    /\ told = [i \in OnceIds |-> {}]

Move(i, from, to) == life[i] = from /\ life' = [life EXCEPT ![i] = to]

Tell(i, what) == told' = [told EXCEPT ![i] = @ \cup {what}]

\* A fetched task is accepted, unless one with its id lives.
Accept(i) == Move(i, "absent", "waiting") /\ UNCHANGED told

\* A worker starts it.
Start(i) == Move(i, "waiting", "running") /\ UNCHANGED told

\* It ends and says so; only one whose cancellation was told may end silently.
Finish(i) ==
    /\ Move(i, "running", "over")
    /\ \/ Tell(i, "ended")
       \/ "canceled" \in told[i] /\ UNCHANGED told

\* A stop is acknowledged, at any stage.
Cancel(i) ==
    /\ life[i] # "absent"
    /\ Tell(i, "canceled")
    /\ UNCHANGED life

\* The id is free again.
Leave(i) ==
    /\ told[i] # {}
    /\ Move(i, "over", "absent")
    /\ told' = [told EXCEPT ![i] = {}]

Next == \E i \in OnceIds : Accept(i) \/ Start(i) \/ Finish(i) \/ Cancel(i) \/ Leave(i)

Spec == Init /\ [][Next]_vars
=============================================================================
