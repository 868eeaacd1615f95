---------------------------- MODULE LogStreaming ----------------------------
(***************************************************************************)
(* The live log of one benchmark run: PodLogStreamerPool and its streamers *)
(* and the calls K8sJobWatcherService makes to them.  The pages that       *)
(* listen are in LogPages.  Who moves the row and the pods is modelled in  *)
(* detail by BenchmarkLifecycle, and in fewer steps here, where the pods   *)
(* of two launches are told apart, so that what is late may belong to the  *)
(* pod before.  What a line says, and how many there are, is left out.     *)
(*                                                                         *)
(* Continuations of a promise run before the next timer or I/O event: what *)
(* awaits the end of a streamer goes on in the step that ends it.          *)
(***************************************************************************)
EXTENDS Naturals, Sequences

CONSTANTS
    MaxPods,          \* how often the run is launched, plus resumed
    MaxConsecutive,   \* MAX_CONSECUTIVE_FAILURES, 3 in the code
    Streamers,        \* PodLogStreamer objects; one that has left the pool is used again
    LogHandlers,      \* handlePodEvent calls in flight, with the tryLoad each starts
    MaxLogFaults      \* bound on failing reads and restarts

ASSUME LogAssumption ==
    /\ MaxPods \in Nat \ {0} /\ MaxConsecutive \in Nat \ {0}
    /\ MaxLogFaults \in Nat
    /\ "sweep" \notin LogHandlers /\ "none" \notin Streamers /\ Streamers # {}

VARIABLES
    row,        \* the row; a launch between its first write and its last
    pods,       \* the pods of the run, in the order of its launches
    informer,   \* pod events on their way to the watcher
    handler,    \* handlePodEvent
    load,       \* tryLoad, of the handlers and of the sweep
    pool,       \* the entry of the run in PodLogStreamerPool.streamers
    streamer,
    logFaults

rowVars == <<row, pods, informer>>
streamVars == <<pool, streamer>>
logVars == <<rowVars, handler, load, streamVars, logFaults>>

Pods == 1..MaxPods
LogStatus == {"pending", "submitted", "running", "completed", "failed", "canceled", "interrupted"}
LogRow == [status: LogStatus, resumable: BOOLEAN, launching: BOOLEAN]
LogInProgress == {"pending", "submitted", "running"}
PodPhase == {"none", "Pending", "Running", "Succeeded", "Failed", "gone"}
\* `doomed`: its Job was deleted; `result`: result.json is in storage.
Pod == [phase: PodPhase, doomed: BOOLEAN, result: BOOLEAN]
\* What a handler has read: the pod of its event, and the status of the row.
LogHandler == [pc: {"idle", "find", "mark", "attach", "drain", "drained", "fail", "loading"},
               pod: Pods, phase: PodPhase]
LoadPcs == {"idle", "find", "commit"}
Streamer == [pc: {"idle", "reading", "backoff", "stopped"}, pod: Pods,
             failures: 0..MaxConsecutive]

NoPod == [phase |-> "none", doomed |-> FALSE, result |-> FALSE]
FreshPod == [phase |-> "Pending", doomed |-> FALSE, result |-> FALSE]
IdleHandler == [pc |-> "idle", pod |-> 1, phase |-> "none"]
NoStreamer == [pc |-> "idle", pod |-> 1, failures |-> 0]
NewStreamer(p) == [pc |-> "reading", pod |-> p, failures |-> 0]
Loaders == LogHandlers \cup {"sweep"}

LogInit ==
    /\ \E r \in BOOLEAN :
          row = [status |-> "pending", resumable |-> r, launching |-> TRUE]
    /\ pods = [p \in Pods |-> NoPod]
    /\ informer = <<>>
    /\ handler = [h \in LogHandlers |-> IdleHandler]
    /\ load = [l \in Loaders |-> "idle"]
    /\ pool = "none"
    /\ streamer = [s \in Streamers |-> NoStreamer]
    /\ logFaults = 0

Underway == row.status \in LogInProgress
Launched(p) == pods[p].phase # "none"
Newest(p) == Launched(p) /\ \A q \in Pods : Launched(q) => q <= p
SetStatus(s) == row' = [row EXCEPT !.status = s]
Present(p) == pods[p].phase \notin {"none", "gone"}
Alive(p) == pods[p].phase \in {"Pending", "Running"}
HasReport == \E p \in Pods : pods[p].result

-----------------------------------------------------------------------------
(* The row and the pods. *)

\* start() creates the Job, and so the pod, before it writes the row.  After a
\* resume it follows deleteRun, which the code takes to wait for the pods to go.
LaunchPod(p) ==
    /\ row.launching /\ ~Launched(p)
    /\ \A q \in Pods : q < p => pods[q].phase = "gone"
    /\ pods' = [pods EXCEPT ![p] = FreshPod]
    /\ UNCHANGED <<row, informer, handler, load, streamVars, logFaults>>

Submit ==
    /\ row.launching /\ \E p \in Pods : Newest(p) /\ ~pods[p].doomed
    /\ row' = [row EXCEPT !.status = "submitted", !.launching = FALSE]
    /\ UNCHANGED <<pods, informer, handler, load, streamVars, logFaults>>

PodTurns(p, phase) ==
    /\ pods' = [pods EXCEPT ![p].phase = phase]
    /\ informer' = Append(informer, [pod |-> p, phase |-> phase])
    /\ UNCHANGED <<row, handler, load, streamVars, logFaults>>

PodRuns(p) == pods[p].phase = "Pending" /\ PodTurns(p, "Running")
PodEnds(p) ==
    /\ pods[p].phase = "Running"
    /\ PodTurns(p, IF pods[p].result THEN "Succeeded" ELSE "Failed")
PodGoes(p) == Launched(p) /\ pods[p].doomed /\ pods[p].phase # "gone" /\ PodTurns(p, "gone")

PodWrites(p) ==
    /\ pods[p].phase = "Running" /\ ~pods[p].result
    /\ pods' = [pods EXCEPT ![p].result = TRUE]
    /\ UNCHANGED <<row, informer, handler, load, streamVars, logFaults>>

\* The Job of the run is deleted, and its pod goes.
DoomPods == pods' = [p \in Pods |-> [pods[p] EXCEPT !.doomed = Launched(p)]]

\* cancel deletes the Job, unless the row is pending, and writes the row.
Cancel ==
    /\ Underway
    /\ IF row.status = "pending" THEN UNCHANGED pods ELSE DoomPods
    /\ SetStatus("canceled")
    /\ UNCHANGED <<informer, handler, load, streamVars, logFaults>>

\* resume: claim, then deleteRun of the old Job; start() follows.  One launch at
\* a time is enough here.
ResumeRun ==
    /\ row.status = "interrupted" /\ ~row.launching /\ \E p \in Pods : ~Launched(p)
    /\ row' = [row EXCEPT !.status = "pending", !.launching = TRUE] /\ DoomPods
    /\ UNCHANGED <<informer, handler, load, streamVars, logFaults>>

\* The sweep finds no result and no live pod.
SweepEnds ==
    /\ Underway /\ ~HasReport /\ \E p \in Pods : Newest(p) /\ ~Alive(p)
    /\ SetStatus(IF row.resumable THEN "interrupted" ELSE "failed")
    /\ UNCHANGED <<pods, informer, handler, load, streamVars, logFaults>>

-----------------------------------------------------------------------------
(* PodLogStreamer and its pool. *)

Following(s) == streamer[s].pc \in {"reading", "backoff"}

\* Mutant: start does not look whether the run has a streamer.
StartAnother(p) ==
    LET s == CHOOSE s \in Streamers : s # pool /\ ~Following(s)
    IN /\ \E u \in Streamers : u # pool /\ ~Following(u)
       /\ pool' = s /\ streamer' = [streamer EXCEPT ![s] = NewStreamer(p)]

\* start: nothing is done where the run has an entry, whichever pod it is for.
StartStreamer(p) ==
    IF pool # "none" THEN UNCHANGED streamVars
    ELSE LET s == CHOOSE s \in Streamers : ~Following(s)
         IN pool' = s /\ streamer' = [streamer EXCEPT ![s] = NewStreamer(p)]

\* The calls of drainAndStop that await the streamer go on when it is over, and
\* remove the entry.
Drained(hs) ==
    [h \in LogHandlers |-> IF hs[h].pc = "drain" THEN [hs[h] EXCEPT !.pc = "drained"] ELSE hs[h]]

\* abort, and the entry is removed; hs is what the handlers are otherwise.
StopStreamer(hs) ==
    /\ pool' = "none" /\ handler' = Drained(hs)
    /\ streamer' = [s \in Streamers |-> IF s = pool THEN NoStreamer ELSE streamer[s]]

\* s is over by itself: an entry that nobody drains stays.
StreamerOver(s) ==
    IF s = pool /\ \E h \in LogHandlers : handler[h].pc = "drain" THEN StopStreamer(handler)
    ELSE streamer' = [streamer EXCEPT ![s].pc = "stopped"] /\ UNCHANGED <<pool, handler>>

\* k8sLog.log fails, or the stream breaks.
StreamBroke(s) ==
    /\ streamer[s].pc = "reading"
    /\ streamer' = [streamer EXCEPT ![s].pc = "backoff", ![s].failures = @ + 1]
    /\ UNCHANGED <<rowVars, handler, load, pool, logFaults>>

\* Three failures end the streamer, which has waited once more by then.
BackoffOver(s) ==
    /\ streamer[s].pc = "backoff"
    /\ IF streamer[s].failures >= MaxConsecutive
       THEN StreamerOver(s)
       ELSE streamer' = [streamer EXCEPT ![s].pc = "reading"] /\ UNCHANGED <<pool, handler>>
    /\ UNCHANGED <<rowVars, load, logFaults>>

\* The container has exited, or the pod is gone.
LogEnds(s) ==
    /\ streamer[s].pc = "reading" /\ ~Alive(streamer[s].pod)
    /\ StreamerOver(s)
    /\ UNCHANGED <<rowVars, load, logFaults>>

-----------------------------------------------------------------------------
(* K8sJobWatcherService. *)

\* A deleted pod stops the streamer of its run, there and then.
PodDeleted ==
    /\ informer # <<>> /\ Head(informer).phase = "gone"
    /\ informer' = Tail(informer)
    /\ StopStreamer(handler)
    /\ UNCHANGED <<row, pods, load, logFaults>>

PodSeen(h) ==
    /\ informer # <<>> /\ Head(informer).phase # "gone" /\ handler[h].pc = "idle"
    /\ informer' = Tail(informer)
    /\ handler' = [handler EXCEPT ![h] = [pc |-> "find", pod |-> Head(informer).pod,
                                          phase |-> Head(informer).phase]]
    /\ UNCHANGED <<row, pods, load, streamVars, logFaults>>

HandlerAt(h, pc) == handler[h].pc = pc
HandlerGoto(h, pc) == handler' = [handler EXCEPT ![h].pc = pc]
HandlerEnds(h) == handler' = [handler EXCEPT ![h] = IdleHandler]

\* findById fails: the event is dropped.
HandlerThrows(h) ==
    /\ HandlerAt(h, "find") /\ HandlerEnds(h)
    /\ logFaults < MaxLogFaults /\ logFaults' = logFaults + 1
    /\ UNCHANGED <<rowVars, load, streamVars>>

\* What reduce() makes of the event, for the status just read.
Verdict(h) ==
    CASE ~Underway -> "noop"
      [] handler[h].phase = "Succeeded" -> "load-report"
      [] handler[h].phase = "Failed" -> IF row.resumable THEN "noop" ELSE "failed-terminal"
      [] handler[h].phase = "Running" /\ row.status = "submitted" -> "running"
      [] handler[h].phase = "Running" /\ row.status = "running" -> "attach"
      [] OTHER -> "noop"

\* findById, reduce, and execute up to its first await.  Attaching goes by the
\* status read here.  A failed run is not drained: its streamer is aborted.
HandlerFind(h) ==
    /\ HandlerAt(h, "find")
    /\ CASE Verdict(h) = "noop" -> HandlerEnds(h) /\ UNCHANGED streamVars
         [] Verdict(h) = "running" -> HandlerGoto(h, "mark") /\ UNCHANGED streamVars
         [] Verdict(h) = "attach" -> HandlerEnds(h) /\ StartStreamer(handler[h].pod)
         [] Verdict(h) = "load-report" ->
               HandlerGoto(h, IF pool = "none" THEN "drained" ELSE "drain") /\ UNCHANGED streamVars
         [] Verdict(h) = "failed-terminal" -> StopStreamer([handler EXCEPT ![h].pc = "fail"])
    /\ UNCHANGED <<rowVars, load, logFaults>>

HandlerMark(h) ==
    /\ HandlerAt(h, "mark") /\ HandlerGoto(h, "attach")
    /\ SetStatus(IF row.status = "submitted" THEN "running" ELSE row.status)
    /\ UNCHANGED <<pods, informer, load, streamVars, logFaults>>

HandlerFail(h) ==
    /\ HandlerAt(h, "fail") /\ HandlerEnds(h)
    /\ SetStatus(IF Underway THEN "failed" ELSE row.status)
    /\ UNCHANGED <<pods, informer, load, streamVars, logFaults>>

HandlerAttach(h) ==
    /\ HandlerAt(h, "attach") /\ HandlerEnds(h)
    /\ StartStreamer(handler[h].pod)
    /\ UNCHANGED <<rowVars, load, logFaults>>

\* Mutant: drainOrTimeout waits for the end of the stream only.
DrainWaits(h) ==
    /\ HandlerAt(h, "drain") /\ ~Following(pool) /\ StopStreamer(handler)
    /\ UNCHANGED <<rowVars, load, logFaults>>

\* Five seconds have passed, or the streamer was over before.
DrainTimeout(h) ==
    /\ HandlerAt(h, "drain") /\ StopStreamer(handler)
    /\ UNCHANGED <<rowVars, load, logFaults>>

\* The throttle is flushed; tryLoad is not awaited, but keeps its handler here.
HandlerLoads(h) ==
    /\ HandlerAt(h, "drained") /\ HandlerGoto(h, "loading")
    /\ load' = [load EXCEPT ![h] = "find"]
    /\ UNCHANGED <<rowVars, streamVars, logFaults>>

HandlerStep(h) ==
    \/ HandlerFind(h) \/ HandlerMark(h) \/ HandlerAttach(h) \/ HandlerFail(h)
    \/ DrainTimeout(h) \/ HandlerLoads(h)

-----------------------------------------------------------------------------
(* ReportLoader.tryLoad, as far as the row is concerned. *)

\* The sweep loads as soon as there is a result, without draining.
SweepLoads ==
    /\ load["sweep"] = "idle" /\ Underway /\ HasReport
    /\ load' = [load EXCEPT !["sweep"] = "find"]
    /\ UNCHANGED <<rowVars, handler, streamVars, logFaults>>

LoadOver(l) ==
    /\ load' = [load EXCEPT ![l] = "idle"]
    /\ handler' = [h \in LogHandlers |-> IF h = l THEN IdleHandler ELSE handler[h]]

LoadFind(l) ==
    /\ load[l] = "find"
    /\ IF Underway THEN load' = [load EXCEPT ![l] = "commit"] /\ UNCHANGED handler ELSE LoadOver(l)
    /\ UNCHANGED <<rowVars, streamVars, logFaults>>

\* The row is written, if it is still in progress; the stream of the pages is closed.
LoadCommit(l) ==
    /\ load[l] = "commit" /\ LoadOver(l)
    /\ \E s \in {"completed", "failed"} : SetStatus(IF Underway THEN s ELSE row.status)
    /\ UNCHANGED <<pods, informer, streamVars, logFaults>>

LoadStep(l) == LoadFind(l) \/ LoadCommit(l)

-----------------------------------------------------------------------------
\* The API starts again: the informer replays the pod there is.
ApiRestarts ==
    /\ logFaults < MaxLogFaults /\ logFaults' = logFaults + 1
    /\ \/ \E p \in Pods : Present(p) /\ informer' = <<[pod |-> p, phase |-> pods[p].phase]>>
       \/ (\A p \in Pods : ~Present(p)) /\ informer' = <<>>
    /\ handler' = [h \in LogHandlers |-> IdleHandler] /\ load' = [l \in Loaders |-> "idle"]
    /\ row' = [row EXCEPT !.launching = FALSE]
    /\ pool' = "none" /\ streamer' = [s \in Streamers |-> NoStreamer]
    /\ UNCHANGED pods

StreamerStep(s) == StreamBroke(s) \/ BackoffOver(s) \/ LogEnds(s)

LogNext ==
    \/ \E p \in Pods : LaunchPod(p) \/ PodRuns(p) \/ PodEnds(p) \/ PodGoes(p) \/ PodWrites(p)
    \/ Submit \/ Cancel \/ ResumeRun \/ SweepEnds \/ PodDeleted
    \/ \E s \in Streamers : StreamerStep(s)
    \/ \E h \in LogHandlers : PodSeen(h) \/ HandlerThrows(h) \/ HandlerStep(h)
    \/ SweepLoads \/ \E l \in Loaders : LoadStep(l)
    \/ ApiRestarts

LogSpec == LogInit /\ [][LogNext]_logVars

-----------------------------------------------------------------------------
(* Types of all variables. *)
LogTypeOK ==
    /\ row \in LogRow /\ pods \in [Pods -> Pod]
    /\ informer \in Seq([pod: Pods, phase: PodPhase])
    /\ handler \in [LogHandlers -> LogHandler] /\ load \in [Loaders -> LoadPcs]
    /\ pool \in Streamers \cup {"none"} /\ streamer \in [Streamers -> Streamer]
    /\ logFaults \in 0..MaxLogFaults

(* At most one streamer follows the run, so that no page is shown a line by *)
(* two of them: a late handler of an old pod, a drain, a deleted pod and a  *)
(* resumed run may come in any order.                                       *)
OneFollower == \A s, u \in Streamers : Following(s) /\ Following(u) => s = u

(* A stream that hangs does not hold back the verdict of a run whose pod    *)
(* has succeeded: what waits for it goes on, loads the report and closes    *)
(* the row, although nothing is read any more.                              *)
VerdictNotHeld ==
    \A h \in LogHandlers :
        []<>(~Underway \/ handler[h].pc \notin {"drain", "drained", "loading"})
=============================================================================
