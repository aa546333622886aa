----------------------------- MODULE RotateLogs -----------------------------
(***************************************************************************)
(* The log file, a file for each day behind a link with a constant name.   *)
(* The agent and its subcommands are processes that write one log: the     *)
(* first write of a process on a day opens the file of that day and        *)
(* rotates, that is, it makes the link and removes the files that are too  *)
(* old.  A file is named by its day.  Sizes, generations and counts, which *)
(* the agent does not ask for, are not modelled.                           *)
(***************************************************************************)
EXTENDS Integers, FiniteSets

CONSTANTS
    Procs,      \* the processes that write the log
    MaxAge,     \* days for which a file is kept
    LastDay,    \* bounds the days
    MaxTroubles \* bounds the crashes, and the Writes that span the end of a day

VARIABLES
    today,
    files,      \* the files that exist
    mtime,      \* the last day on which a file was opened new, or written
    locks,      \* the files whose _lock exists
    symlinks,   \* the files whose _symlink exists
    link,       \* the file that the link names, or None
    pc, began, filename, curFn, unlinked, toUnlink, troubles
vars == <<today, files, mtime, locks, symlinks, link, pc, began, filename, curFn, unlinked,
          toUnlink, troubles>>

RotateAssumption ==
    /\ IsFiniteSet(Procs) /\ MaxAge \in Nat /\ MaxAge > 2
    /\ LastDay \in Nat /\ MaxTroubles \in Nat

Days == 1..LastDay
None == 0
disk == <<files, mtime, locks, symlinks, link>>
rest == <<today, unlinked, toUnlink, troubles>>

Init ==
    /\ today = 1
    /\ files = {} /\ mtime = [d \in Days |-> None] /\ locks = {} /\ symlinks = {} /\ link = None
    /\ pc = [p \in Procs |-> "idle"]
    /\ began = [p \in Procs |-> None]       \* the day on which the Write began
    /\ filename = [p \in Procs |-> None]    \* the file that is opened
    /\ curFn = [p \in Procs |-> None]
    /\ unlinked = [p \in Procs |-> FALSE]   \* the file behind the handle has no name any more
    /\ toUnlink = [p \in Procs |-> {}]
    /\ troubles = 0

Goes(p, from, to) == pc[p] = from /\ pc' = [pc EXCEPT ![p] = to]

\* Write, under the mutex of the process: the name is that of the day.
Write(p) ==
    /\ Goes(p, "idle", IF curFn[p] = today THEN "out" ELSE "open")
    /\ began' = [began EXCEPT ![p] = today]
    /\ filename' = [filename EXCEPT ![p] = today]
    /\ UNCHANGED <<disk, rest, curFn>>

OpenFile(p) ==
    LET f == filename[p]
    IN  /\ Goes(p, "open", "lock")
        /\ files' = files \cup {f}
        /\ mtime' = IF f \in files THEN mtime ELSE [mtime EXCEPT ![f] = today]
        /\ UNCHANGED <<locks, symlinks, link, rest, began, filename, curFn>>

\* rotate_nolock.  An error ends it, and Write goes on with the file.
Lock(p) ==
    /\ Goes(p, "lock", IF filename[p] \in locks THEN "switch" ELSE "symlink")
    /\ locks' = locks \cup {filename[p]}
    /\ UNCHANGED <<files, mtime, symlinks, link, rest, began, filename, curFn>>

Symlink(p) ==
    LET fails == filename[p] \in symlinks
    IN  /\ Goes(p, "symlink", IF fails THEN "switch" ELSE "rename")
        /\ symlinks' = symlinks \cup {filename[p]}
        /\ locks' = IF fails THEN locks \ {filename[p]} ELSE locks
        /\ UNCHANGED <<files, mtime, link, rest, began, filename, curFn>>

Rename(p) ==
    /\ Goes(p, "rename", "purge")
    /\ symlinks' = symlinks \ {filename[p]}
    /\ link' = filename[p]
    /\ UNCHANGED <<files, mtime, locks, rest, began, filename, curFn>>

\* The files before the cutoff are left to a goroutine.
TooOld == {f \in files : mtime[f] <= today - MaxAge}
Purge(p) ==
    /\ Goes(p, "purge", "switch")
    /\ toUnlink' = [toUnlink EXCEPT ![p] = @ \cup TooOld]
    /\ locks' = locks \ {filename[p]}
    /\ UNCHANGED <<today, files, mtime, symlinks, link, unlinked, troubles, began, filename, curFn>>

\* The old handle is closed, and the new one takes its place.
Switch(p) ==
    /\ Goes(p, "switch", "out")
    /\ curFn' = [curFn EXCEPT ![p] = filename[p]]
    /\ unlinked' = [unlinked EXCEPT ![p] = filename[p] \notin files]
    /\ UNCHANGED <<disk, today, toUnlink, troubles, began, filename>>

Out(p) ==
    /\ Goes(p, "out", "idle")
    /\ mtime' = [mtime EXCEPT ![curFn[p]] = today]
    /\ UNCHANGED <<files, locks, symlinks, link, rest, began, filename, curFn>>

Unlink(p, f) ==
    /\ f \in toUnlink[p]
    /\ toUnlink' = [toUnlink EXCEPT ![p] = @ \ {f}]
    /\ files' = files \ {f}
    /\ unlinked' = [q \in Procs |-> unlinked[q] \/ (curFn[q] = f /\ f \in files)]
    /\ UNCHANGED <<today, mtime, locks, symlinks, link, pc, began, filename, curFn, troubles>>

\* A Write may see the end of one day, not of two.
Midnight ==
    LET writing == {p \in Procs : pc[p] # "idle"}
    IN  /\ today < LastDay
        /\ \A p \in writing : began[p] = today
        /\ writing # {} => troubles < MaxTroubles
        /\ today' = today + 1
        /\ troubles' = IF writing = {} THEN troubles ELSE troubles + 1
        /\ UNCHANGED <<disk, pc, began, filename, curFn, unlinked, toUnlink>>

\* What is on the disk stays; the process may be started again.
Crash(p) ==
    /\ troubles < MaxTroubles
    /\ troubles' = troubles + 1
    /\ pc' = [pc EXCEPT ![p] = "idle"]
    /\ curFn' = [curFn EXCEPT ![p] = None]
    /\ unlinked' = [unlinked EXCEPT ![p] = FALSE]
    /\ toUnlink' = [toUnlink EXCEPT ![p] = {}]
    /\ UNCHANGED <<today, disk, began, filename>>

Rotates(p) == OpenFile(p) \/ Lock(p) \/ Symlink(p) \/ Rename(p) \/ Purge(p) \/ Switch(p)

Next ==
    \/ \E p \in Procs : Write(p) \/ Rotates(p) \/ Out(p) \/ Crash(p)
    \/ \E p \in Procs, f \in Days : Unlink(p, f)
    \/ Midnight

Spec == Init /\ [][Next]_vars

-----------------------------------------------------------------------------
TypeOK ==
    /\ today \in Days /\ link \in Days \cup {None} /\ troubles \in 0..MaxTroubles
    /\ files \subseteq Days /\ locks \subseteq Days /\ symlinks \subseteq Days
    /\ mtime \in [Days -> Days \cup {None}]
    /\ pc \in [Procs -> {"idle", "open", "lock", "symlink", "rename", "purge", "switch", "out"}]
    /\ unlinked \in [Procs -> BOOLEAN] /\ toUnlink \in [Procs -> SUBSET Days]
    /\ \A v \in {began, filename, curFn} : v \in [Procs -> Days \cup {None}]

\* What was written in the last days is in a file that exists, though another
\* process removes files while this one writes; and no record is written to a
\* file that has lost its name.
RecentIsKept ==
    /\ \A f \in Days : mtime[f] > today - MaxAge => f \in files \/ mtime[f] = None
    /\ \A p \in Procs : pc[p] = "out" => ~unlinked[p]

\* The link never names a file that was removed: the link is made before the
\* files are looked at.
LinkHolds == link # None => link \in files

\* When no process writes, and one has written today, the link names today's file:
\* of two that rotate at once, one does.
LinkIsCurrent ==
    (/\ troubles = 0
     /\ \A p \in Procs : pc[p] = "idle"
     /\ \E p \in Procs : curFn[p] = today) => link = today
=============================================================================
