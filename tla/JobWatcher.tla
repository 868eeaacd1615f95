----------------------------- MODULE JobWatcher -----------------------------
(***************************************************************************)
(* K8sJobWatcherService, mode "primary": the informer calls handlePodEvent *)
(* for every pod event and does not wait for it, so handlers of one run    *)
(* overlap and each acts on the row it read before its last await.  `reduce`*)
(* (pod-state-reducer.ts) is the pure decision between the two.  Attaching *)
(* the log streamer does not touch a row's status and is left out; the     *)
(* wait for it to drain is an await like the others.                       *)
(***************************************************************************)
EXTENDS ReportLoader

CONSTANT Mode  \* K8S_WATCHER_MODE

ASSUME ModeAssumption == Mode \in {"off", "primary", "poll"}

VARIABLES
    watch,      \* the handlePodEvent calls in flight
    fatalSince  \* firstFatalWaitingAt: runs whose pod was seen in a fatal wait

watcherVars == <<watch, fatalSince>>

WatchPcs == {"idle", "find", "running", "drainLoad", "drainFail"}

\* `phase` is the pod the event carries, until it was reduced; `why` the message
\* of a failing verdict.
Handler == [pc: WatchPcs, run: Runs \cup {NoRun}, phase: PodPhases, why: Reasons]

NoHandler == [pc |-> "idle", run |-> NoRun, phase |-> "none", why |-> "none"]

WatcherInit ==
    /\ watch = [w \in Watchers |-> NoHandler]
    /\ fatalSince = {}

Then(w, pc, why) ==
    watch' = [watch EXCEPT ![w].pc = pc, ![w].why = why, ![w].phase = "none"]
HandlerDone(w) == watch' = [watch EXCEPT ![w] = NoHandler]

-----------------------------------------------------------------------------
(* reduce(): what a pod in this phase asks for.  A fatal wait fails the run *)
(* only when an earlier event started the clock and it has run out.         *)

Reduce(phase, status, waited) ==
    CASE status \notin InProgress -> {"noop"}
      [] phase = "Succeeded" -> {"load-report"}
      [] phase = "Failed" -> {"failed-terminal"}
      [] phase = "Waiting" /\ waited -> {"failed-pre-start", "noop"}
      [] phase = "Running" /\ status = "submitted" -> {"running"}
      [] OTHER -> {"noop"}

\* The informer delivers an add or update with the pod as it is now; the
\* handler acts on that pod after the pod and the row may have moved on.
PodEvent(w, r) ==
    /\ Mode = "primary"
    /\ watch[w].pc = "idle" /\ loader[w].pc = "idle"
    /\ kube[r].phase # "none"
    /\ watch' = [watch EXCEPT ![w] = [pc |-> "find", run |-> r,
                                      phase |-> kube[r].phase, why |-> "none"]]
    /\ UNCHANGED <<recordVars, loader, fatalSince>>

\* handlePodDelete.
PodDeleteEvent(r) ==
    /\ Mode = "primary"
    /\ kube[r].phase = "none" /\ r \in fatalSince
    /\ fatalSince' = fatalSince \ {r}
    /\ UNCHANGED <<recordVars, loader, watch>>

\* Mutant: failed-terminal does not ask whether the run can be resumed.
WatchFindFailsAll(w) ==
    /\ watch[w].pc = "find"
    /\ LET r == watch[w].run
           phase == watch[w].phase
       IN IF ~Found(r)
          THEN HandlerDone(w) /\ UNCHANGED fatalSince
          ELSE /\ fatalSince' = IF phase = "Waiting" THEN fatalSince \cup {r}
                                                     ELSE fatalSince \ {r}
               /\ \E d \in Reduce(phase, rows[r].status, r \in fatalSince) :
                    \/ d = "noop" /\ HandlerDone(w)
                    \/ d = "running" /\ Then(w, "running", "none")
                    \/ d = "load-report" /\ Then(w, "drainLoad", "none")
                    \/ d = "failed-pre-start" /\ Then(w, "drainFail", "preStart")
                    \/ d = "failed-terminal" /\ Then(w, "drainFail", "podFailed")
    /\ UNCHANGED <<recordVars, loader>>

\* findById, trackTiming, reduce, and execute up to its first await.  A failed
\* pod of a resumable run is left to the reconciler, which can see storage.
WatchFind(w) ==
    /\ watch[w].pc = "find"
    /\ LET r == watch[w].run
           phase == watch[w].phase
       IN IF ~Found(r)
          THEN HandlerDone(w) /\ UNCHANGED fatalSince
          ELSE /\ fatalSince' = IF phase = "Waiting" THEN fatalSince \cup {r}
                                                     ELSE fatalSince \ {r}
               /\ \E d \in Reduce(phase, rows[r].status, r \in fatalSince) :
                    \/ d = "noop" /\ HandlerDone(w)
                    \/ d = "running" /\ Then(w, "running", "none")
                    \/ d = "load-report" /\ Then(w, "drainLoad", "none")
                    \/ d = "failed-pre-start" /\ Then(w, "drainFail", "preStart")
                    \/ /\ d = "failed-terminal"
                       /\ IF r \in Resumable THEN HandlerDone(w)
                          ELSE Then(w, "drainFail", "podFailed")
    /\ UNCHANGED <<recordVars, loader>>

\* startedAt becomes the container's start time, which may be long past.
MarkRunning(w) ==
    /\ watch[w].pc = "running"
    /\ LET r == watch[w].run
       IN \E fresh \in BOOLEAN :
             UpdateGuarded(r, {"submitted"},
                           [rows[r] EXCEPT !.status = "running", !.fresh = fresh])
    /\ HandlerDone(w)
    /\ UNCHANGED <<kube, store, notes, loader, fatalSince>>

\* The streamer drained (or five seconds passed); tryLoad is not awaited.
DrainedLoad(w) ==
    /\ watch[w].pc = "drainLoad"
    /\ TryLoad(w, watch[w].run)
    /\ HandlerDone(w)
    /\ UNCHANGED <<recordVars, fatalSince>>

\* Mutant: the failing write has no guard.
DrainedFailUnguarded(w) ==
    /\ watch[w].pc = "drainFail"
    /\ LET r == watch[w].run
       IN \/ Update(r, Closed(r, "failed", watch[w].why))
          \/ ~Found(r) /\ UNCHANGED <<rows, opens>>
    /\ HandlerDone(w)
    /\ UNCHANGED <<kube, store, notes, loader, fatalSince>>

\* Mutant: a run that can be resumed is interrupted here as well.
DrainedFailInterrupts(w) ==
    /\ watch[w].pc = "drainFail"
    /\ LET r == watch[w].run
       IN UpdateGuarded(r, InProgress,
                        Closed(r, IF r \in Resumable THEN "interrupted" ELSE "failed", watch[w].why))
    /\ HandlerDone(w)
    /\ UNCHANGED <<kube, store, notes, loader, fatalSince>>

\* The failing write, guarded by IN_PROGRESS_STATES.
DrainedFail(w) ==
    /\ watch[w].pc = "drainFail"
    /\ LET r == watch[w].run
       IN UpdateGuarded(r, InProgress, Closed(r, "failed", watch[w].why))
    /\ HandlerDone(w)
    /\ UNCHANGED <<kube, store, notes, loader, fatalSince>>

WatchStep(w) == WatchFind(w) \/ MarkRunning(w) \/ DrainedLoad(w) \/ DrainedFail(w)

WatcherNext ==
    \/ \E w \in Watchers : \/ WatchStep(w)
                           \/ \E r \in Runs : PodEvent(w, r)
    \/ \E r \in Runs : PodDeleteEvent(r)

WatcherTypeOK ==
    /\ watch \in [Watchers -> Handler]
    /\ fatalSince \subseteq Runs
=============================================================================
