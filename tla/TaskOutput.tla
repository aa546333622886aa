----------------------------- MODULE TaskOutput -----------------------------
(***************************************************************************)
(* The output of one task (src/agent/taskengine/basetask.go).              *)
(*                                                                         *)
(* The command writes into a buffer.  While it runs, a goroutine of Run    *)
(* reports a chunk of the buffer at each tick; once more than Pre bytes    *)
(* went that way it only moves chunks to task.output.  When the command    *)
(* ended, Run stops that goroutine, reads what is left and reports the end *)
(* of the output, as much as the quota leaves room for, with the number of *)
(* bytes dropped.  A cancel reports from the same fields, meanwhile.  The  *)
(* Task of a periodic task has no running reports and is used again.       *)
(*                                                                         *)
(* Bytes are counted: each reader takes them in order.                     *)
(***************************************************************************)
EXTENDS Integers

CONSTANTS
    Chunk,        \* the buffer of tryRead, 2048
    Pre,          \* defaultQuotoPre, 6000
    DefaultQuota, \* defaultQuoto, 12000
    LogQuota,     \* taskInfo.Output.LogQuota, any number
    Periodic,     \* the kinds of task: is it periodic?
    Cancels,      \* may the task be cancelled?
    Rounds,       \* bound on the invocations of a periodic task
    MaxBytes      \* bound on the output of an invocation

OutputAssumption ==
    /\ {Chunk, Rounds} \subseteq Nat \ {0} /\ {Pre, DefaultQuota, LogQuota, MaxBytes} \subseteq Nat
    /\ Pre + Chunk <= DefaultQuota
    /\ Periodic \subseteq BOOLEAN /\ Cancels \in BOOLEAN

NoReport == [kind |-> "none", text |-> 0, dropped |-> 0]

VARIABLES
    periodic,    \* is taskInfo.Cronat set?
    round,       \* the invocation
    pc,          \* what Run does
    proc,        \* the command: "none", "alive" or "ended"
    status,      \* of SyncRun: "success", "fail" or "timeout"
    written,     \* bytes the command wrote in this invocation
    buffered,    \* bytes in stdouterrWrite
    output,      \* bytes in task.output
    sended,      \* data_sended
    droped,
    stop,        \* is the context cancelled?
    rpc,         \* what the goroutine of the running reports does
    chunk,       \* the bytes it reports
    canceled,
    cpc,         \* what Cancel does
    ran,         \* history: bytes given to running reports in this invocation
    final        \* history: the last report of this invocation

run == <<pc, proc, status>>
bytes == <<written, buffered, output, sended, droped, ran>>
outputVars == <<periodic, round, run, bytes, stop, rpc, chunk, canceled, cpc, final>>

Ends == {"finished", "failed", "timeout"}

\* The type invariant.
OutputTypeOK ==
    /\ {periodic, stop, canceled} \subseteq BOOLEAN /\ round \in 1 .. Rounds
    /\ pc \in {"idle", "running", "stop", "wait", "read", "decide", "final", "clean", "done"}
    /\ proc \in {"none", "alive", "ended"} /\ status \in {"success", "fail", "timeout"}
    /\ {written, buffered, output, sended, droped, ran} \subseteq 0 .. MaxBytes
    /\ rpc \in {"none", "begin", "loop", "select", "append", "post", "add", "closed"}
    /\ chunk \in 0 .. Chunk
    /\ cpc \in {"none", "output", "post", "kill", "done"}
    /\ final = NoReport \/ final \in [kind : Ends, text : 0 .. MaxBytes, dropped : 0 .. MaxBytes]

OutputInit ==
    /\ periodic \in Periodic /\ round = 1
    /\ pc = "idle" /\ proc = "none" /\ status = "success"
    /\ written = 0 /\ buffered = 0 /\ output = 0 /\ sended = 0 /\ droped = 0 /\ ran = 0
    /\ stop = FALSE /\ rpc = "none" /\ chunk = 0
    /\ canceled = FALSE /\ cpc = "none" /\ final = NoReport

Least(a, b) == IF a < b THEN a ELSE b
Quota == IF LogQuota < DefaultQuota THEN DefaultQuota ELSE LogQuota

(***************************************************************************)
(* getReportString: the end of the output that fits the quota.             *)
(***************************************************************************)
Room == Quota - sended
Text(n) == Least(n, Room)
(* Mutant: the number of dropped bytes forgets the running reports. *)
DropsOver(n) == IF n <= Room THEN droped ELSE IF n > Quota THEN n - Quota ELSE 0

Drops(n) == IF n <= Room THEN droped ELSE n - Room

(***************************************************************************)
(* The command and SyncRun.                                                *)
(***************************************************************************)
\* The command, or a child it left behind, writes.
Writes ==
    /\ proc # "none" /\ written < MaxBytes
    /\ \E n \in 1 .. MaxBytes - written :
          written' = written + n /\ buffered' = buffered + n
    /\ UNCHANGED <<periodic, round, run, output, sended, droped, ran, stop, rpc, chunk,
                   canceled, cpc, final>>

\* Run up to the start of the command, which may fail.
RunStarts ==
    /\ pc = "idle"
    /\ stop' = FALSE /\ rpc' = "begin" /\ chunk' = 0
    /\ \/ pc' = "running" /\ proc' = "alive" /\ status' = "success"
       \/ pc' = "stop" /\ proc' = "none" /\ status' = "fail"
    /\ UNCHANGED <<periodic, round, bytes, canceled, cpc, final>>

CommandExits ==
    /\ proc = "alive"
    /\ proc' = "ended"
    /\ UNCHANGED <<periodic, round, pc, status, bytes, stop, rpc, chunk, canceled, cpc, final>>

SyncRunReturns ==
    /\ pc = "running"
    /\ \/ proc = "ended" /\ status' \in {"success", "fail"} /\ UNCHANGED proc
       \/ proc' = "ended" /\ status' = "timeout"
    /\ pc' = "stop"
    /\ UNCHANGED <<periodic, round, bytes, stop, rpc, chunk, canceled, cpc, final>>

(***************************************************************************)
(* The running reports.                                                    *)
(***************************************************************************)
Unchanged == UNCHANGED <<periodic, round, run, written, droped, stop, canceled, cpc, final>>

Begin ==
    /\ rpc = "begin"
    /\ sended' = 0 /\ rpc' = IF periodic THEN "closed" ELSE "loop"
    /\ UNCHANGED <<buffered, output, ran, chunk>> /\ Unchanged

\* The stop has priority over a tick, but not over one that comes together.
Loop ==
    /\ \/ rpc = "loop" /\ rpc' = IF stop THEN "closed" ELSE "select"
       \/ rpc = "select" /\ stop /\ rpc' = "closed"
    /\ UNCHANGED <<buffered, output, sended, ran, chunk>> /\ Unchanged

\* A tick: another chunk is reported, or the report is empty.
Ticks ==
    /\ rpc = "select"
    /\ IF sended > Pre
       THEN rpc' = "append" /\ UNCHANGED <<buffered, ran, chunk>>
       ELSE /\ chunk' = Least(buffered, Chunk)
            /\ buffered' = buffered - chunk' /\ ran' = ran + chunk'
            /\ rpc' = "post"
    /\ UNCHANGED <<output, sended>> /\ Unchanged

Appends ==
    /\ rpc = "append"
    /\ output' = output + Least(buffered, Chunk) /\ buffered' = buffered - Least(buffered, Chunk)
    /\ chunk' = 0 /\ rpc' = "post"
    /\ UNCHANGED <<sended, ran>> /\ Unchanged

\* sendRunningOutput, whether or not the report gets through.
Posts ==
    /\ rpc = "post" /\ rpc' = "add"
    /\ UNCHANGED <<buffered, output, sended, ran, chunk>> /\ Unchanged

Adds ==
    /\ rpc = "add" /\ rpc' = "loop"
    /\ sended' = sended + chunk /\ chunk' = 0
    /\ UNCHANGED <<buffered, output, ran>> /\ Unchanged

Reporter == Begin \/ Loop \/ Ticks \/ Appends \/ Posts \/ Adds

(***************************************************************************)
(* The end of Run.                                                         *)
(***************************************************************************)
StopsSending ==
    /\ pc = "stop"
    /\ stop' = TRUE /\ pc' = "wait"
    /\ UNCHANGED <<periodic, round, proc, status, bytes, rpc, chunk, canceled, cpc, final>>

Waits ==
    /\ pc = "wait" /\ rpc = "closed"
    /\ pc' = "read"
    /\ UNCHANGED <<periodic, round, proc, status, bytes, stop, rpc, chunk, canceled, cpc, final>>

ReadsAll ==
    /\ pc = "read"
    /\ output' = output + buffered /\ buffered' = 0
    /\ pc' = "decide"
    /\ UNCHANGED <<periodic, round, proc, status, written, sended, droped, ran, stop,
                   rpc, chunk, canceled, cpc, final>>

\* IsCancled waits for a Cancel under way.
Decides ==
    /\ pc = "decide"
    /\ \/ status # "success" /\ pc' = "final"
       \/ status = "success" /\ cpc \in {"none", "done"} /\ pc' = IF canceled THEN "clean" ELSE "final"
    /\ UNCHANGED <<periodic, round, proc, status, bytes, stop, rpc, chunk, canceled, cpc, final>>

ReportsEnd ==
    /\ pc = "final"
    /\ droped' = Drops(output)
    /\ final' = [kind |-> CASE status = "success" -> "finished"
                            [] status = "fail" -> "failed"
                            [] OTHER -> "timeout",
                 text |-> Text(output), dropped |-> droped']
    /\ pc' = "clean"
    /\ UNCHANGED <<periodic, round, proc, status, written, buffered, output, sended, ran,
                   stop, rpc, chunk, canceled, cpc>>

Cleans ==
    /\ pc = "clean"
    /\ output' = 0
    /\ pc' = "done"
    /\ UNCHANGED <<periodic, round, proc, status, written, buffered, sended, droped, ran,
                   stop, rpc, chunk, canceled, cpc, final>>

\* startExclusiveInvocation takes the same Task again; the buffer is a new one.
Again ==
    /\ pc = "done" /\ periodic /\ round < Rounds
    /\ pc' = "idle" /\ round' = round + 1
    /\ proc' = "none" /\ status' = "success" /\ rpc' = "none"
    /\ written' = 0 /\ buffered' = 0 /\ ran' = 0 /\ final' = NoReport
    /\ UNCHANGED <<periodic, output, sended, droped, stop, chunk, canceled, cpc>>

RunSteps ==
    RunStarts \/ SyncRunReturns \/ StopsSending \/ Waits \/ ReadsAll \/ Decides \/ ReportsEnd \/ Cleans

(***************************************************************************)
(* Cancel, not quietly.                                                    *)
(***************************************************************************)
CancelBegins ==
    /\ Cancels /\ cpc = "none" /\ ~canceled
    /\ canceled' = TRUE /\ cpc' = "output"
    /\ UNCHANGED <<periodic, round, run, bytes, stop, rpc, chunk, final>>

\* Nothing guards task.output: read while it grows or is emptied, its length
\* is any that it has meanwhile.
CancelReads ==
    /\ cpc = "output"
    /\ \E n \in IF rpc = "append" THEN output .. output + Least(buffered, Chunk)
                ELSE IF pc = "read" THEN output .. output + buffered
                ELSE IF pc = "clean" THEN 0 .. output ELSE {output} :
          droped' = Drops(n)
    /\ cpc' = "post"
    /\ UNCHANGED <<periodic, round, run, written, buffered, output, sended, ran, stop,
                   rpc, chunk, canceled, final>>

CancelPosts ==
    /\ cpc = "post" /\ cpc' = "kill"
    /\ UNCHANGED <<periodic, round, run, bytes, stop, rpc, chunk, canceled, final>>

CancelKills ==
    /\ cpc = "kill" /\ cpc' = "done"
    /\ proc' = IF proc = "alive" THEN "ended" ELSE proc
    /\ UNCHANGED <<periodic, round, pc, status, bytes, stop, rpc, chunk, canceled, final>>

Cancel == CancelBegins \/ CancelReads \/ CancelPosts \/ CancelKills

OutputNext == Writes \/ CommandExits \/ RunSteps \/ Again \/ Reporter \/ Cancel

OutputSpec == OutputInit /\ [][OutputNext]_outputVars

\* Goroutines are scheduled, requests return, and a command has a timeout.
OutputLiveSpec ==
    /\ OutputSpec /\ WF_outputVars(RunSteps) /\ WF_outputVars(Reporter)
    /\ WF_outputVars(CancelReads \/ CancelPosts \/ CancelKills)

(***************************************************************************)
(* Properties.                                                             *)
(***************************************************************************)
\* What Run read of the output was reported while it ran, or is in the last
\* report, or is counted there as dropped, once: getReportString and the
\* goroutine of the running reports agree on what was sent.  (The next invocation of a
\* periodic task starts from droped as it was left.)
OutputAccounted ==
    round = 1 /\ final # NoReport => ran + final.text + final.dropped = written - buffered

\* The reports of an invocation are never longer than its quota together, or
\* than the default one, and getReportString never cuts more than there is.
WithinQuota ==
    /\ final # NoReport => ran + final.text <= Quota
    /\ Room >= 0

\* No running report is sent after the last one: Run waits for the goroutine.
SilentAfterFinal == final # NoReport => rpc \notin {"post", "add"} /\ sended = ran

\* Run, the goroutine of the running reports and Cancel together, over one buffer.
EveryByteOnce == OutputAccounted /\ WithinQuota /\ SilentAfterFinal

\* An invocation that started comes to its end.
RunEnds == (pc = "running") ~> (pc = "done")
=============================================================================
