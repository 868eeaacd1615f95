---------------------------- MODULE ReportLoader ----------------------------
(***************************************************************************)
(* ReportLoader.tryLoad: turn the artifacts of a finished run into a       *)
(* completed row, or a failed one if they cannot be read.  Two callers     *)
(* reach it: the watcher, which does not wait for it, and the reconciler,  *)
(* which does.  Each task that may call it is a member of Loaders and has  *)
(* at most one call running.                                               *)
(***************************************************************************)
EXTENDS BenchmarkRecords

CONSTANTS
    Watchers,  \* handlePodEvent calls that can be in flight at once
    Sweeper    \* the reconciler's sweep

ASSUME LoaderAssumption ==
    /\ IsFiniteSet(Watchers)
    /\ Sweeper \notin Watchers

VARIABLE loader  \* the tryLoad calls in flight

Loaders == Watchers \cup {Sweeper}

LoaderPcs == {"idle", "find", "read", "commit", "notify", "fail", "notifyFailed"}

Load == [pc: LoaderPcs, run: Runs \cup {NoRun}]

NoLoad == [pc |-> "idle", run |-> NoRun]

LoaderInit == loader = [l \in Loaders |-> NoLoad]

Loading(l, pc) == loader[l].pc = pc
Advance(l, pc) == loader' = [loader EXCEPT ![l].pc = pc]
Finish(l) == loader' = [loader EXCEPT ![l] = NoLoad]

\* The call itself, made by the watcher and by the reconciler.
TryLoad(l, r) == loader' = [loader EXCEPT ![l] = [pc |-> "find", run |-> r]]

-----------------------------------------------------------------------------
LoadFind(l) ==
    /\ Loading(l, "find")
    /\ IF Active(loader[l].run) THEN Advance(l, "read") ELSE Finish(l)
    /\ UNCHANGED recordVars

\* All four objects are read, then parsed and gated.  A missing object throws;
\* an unreachable store, a parser or the evaluator gate may throw as well.
LoadRead(l) ==
    /\ Loading(l, "read")
    /\ LET s == store[loader[l].run]
       IN \/ s.meta /\ s.output /\ s.result # "none" /\ Advance(l, "commit")
          \/ Advance(l, "fail")
    /\ UNCHANGED recordVars

\* Mutant: the loader announces the report whether or not its write won.
LoadCommitUnchecked(l) ==
    /\ Loading(l, "commit")
    /\ UpdateGuarded(loader[l].run, InProgress, Closed(loader[l].run, "completed", "none"))
    /\ Advance(l, "notify")
    /\ UNCHANGED <<kube, store, notes>>

\* The guarded write decides who announces the outcome.
LoadCommit(l) ==
    /\ Loading(l, "commit")
    /\ LET r == loader[l].run
       IN /\ UpdateGuarded(r, InProgress, Closed(r, "completed", "none"))
          /\ IF Active(r) THEN Advance(l, "notify") ELSE Finish(l)
    /\ UNCHANGED <<kube, store, notes>>

\* If emit throws, the catch block runs although the row is completed.  The
\* metric snapshots that follow touch nothing modelled here.
NotifyCompleted(l) ==
    /\ Loading(l, "notify")
    /\ \/ Emit(loader[l].run, "completed") /\ Finish(l)
       \/ UNCHANGED notes /\ Advance(l, "fail")
    /\ UNCHANGED <<rows, kube, store, opens>>

\* The catch block: a guarded write too, and the announcement if it won.
LoadFail(l) ==
    /\ Loading(l, "fail")
    /\ LET r == loader[l].run
       IN /\ UpdateGuarded(r, InProgress, Closed(r, "failed", "reportLoad"))
          /\ IF Active(r) THEN Advance(l, "notifyFailed") ELSE Finish(l)
    /\ UNCHANGED <<kube, store, notes>>

NotifyLoadFailed(l) ==
    /\ Loading(l, "notifyFailed")
    /\ \/ Emit(loader[l].run, "reportFailed")
       \/ UNCHANGED notes
    /\ Finish(l)
    /\ UNCHANGED <<rows, kube, store, opens>>

LoaderStep(l) ==
    \/ LoadFind(l) \/ LoadRead(l) \/ LoadCommit(l) \/ NotifyCompleted(l)
    \/ LoadFail(l) \/ NotifyLoadFailed(l)

LoaderNext == \E l \in Loaders : LoaderStep(l)

LoaderTypeOK == loader \in [Loaders -> Load]

-----------------------------------------------------------------------------
(* The verdicts about a run that are written but not announced yet. *)
Announcing(r) ==
    {l \in Loaders : loader[l].run = r /\ loader[l].pc \in {"notify", "notifyFailed"}}
=============================================================================
