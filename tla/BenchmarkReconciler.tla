------------------------- MODULE BenchmarkReconciler -------------------------
(***************************************************************************)
(* BenchmarkReconciler.run: one sweep over the rows that were in progress  *)
(* when it started.  It looks at storage first and at the pods second, and *)
(* acts on three things that age while it runs: the row it listed, the     *)
(* answer of storage, and a pod list taken once per sweep.                 *)
(***************************************************************************)
EXTENDS ReportLoader

VARIABLE sweep

\* "out": not listed; otherwise whether the listed row was in its grace window.
Ages == {"out", "young", "aged"}

SweepPcs == {"idle", "check", "list", "resolve", "loading"}

Sweep == [pc: SweepPcs, boot: BOOLEAN, todo: SUBSET Runs,
          snap: [Runs -> Ages], cur: Runs \cup {NoRun},
          pods: [Runs -> PodPhases \cup {"unlisted"}]]

Unlisted == [r \in Runs |-> "unlisted"]

NoSweep == [pc |-> "idle", boot |-> FALSE, todo |-> {},
            snap |-> [r \in Runs |-> "out"], cur |-> NoRun, pods |-> Unlisted]

SweepInit == sweep = NoSweep

SweepAt(pc) == sweep.pc = pc

\* The loop goes on with the rows that are left, or run() returns.
Continue(s, r) ==
    LET left == s.todo \ {r}
    IN IF left = {} THEN NoSweep
       ELSE [s EXCEPT !.pc = "check", !.todo = left, !.cur = NoRun,
                      !.snap[r] = "out"]

-----------------------------------------------------------------------------
(* listByStatus(IN_PROGRESS_STATES).  `boot` is the sweep without a grace    *)
(* window; a periodic one passes orphanMinAgeMs.  With no row in progress    *)
(* run() returns at once.                                                    *)
SweepBegin(boot) ==
    /\ SweepAt("idle")
    /\ \E r \in Runs : Active(r)
    /\ sweep' = [NoSweep EXCEPT
                    !.pc = "check", !.boot = boot,
                    !.todo = {r \in Runs : Active(r)},
                    !.snap = [r \in Runs |-> IF ~Active(r) THEN "out"
                                             ELSE IF rows[r].fresh THEN "young"
                                             ELSE "aged"]]
    /\ UNCHANGED <<recordVars, loader>>

\* storage.exists(result.json): a hit goes to tryLoad, a miss to the pods, and
\* so does an error.
SweepCheck(r) ==
    /\ SweepAt("check") /\ r \in sweep.todo
    /\ \/ /\ HasResult(r)
          /\ TryLoad(Sweeper, r)
          /\ sweep' = [sweep EXCEPT !.pc = "loading", !.cur = r]
       \/ /\ ~HasResult(r) \/ StorageErrors
          /\ sweep' = [sweep EXCEPT !.cur = r,
                          !.pc = IF sweep.pods = Unlisted THEN "list" ELSE "resolve"]
          /\ UNCHANGED loader
    /\ UNCHANGED recordVars

SweepLoaded ==
    /\ SweepAt("loading")
    /\ loader[Sweeper].pc = "idle"
    /\ sweep' = Continue(sweep, sweep.cur)
    /\ UNCHANGED <<recordVars, loader>>

\* The live pod list, fetched for the first row that needs it and kept.
SweepList ==
    /\ SweepAt("list")
    /\ sweep' = [sweep EXCEPT !.pc = "resolve",
                              !.pods = [r \in Runs |-> kube[r].phase]]
    /\ UNCHANGED <<recordVars, loader>>

\* An unreachable API server aborts the sweep rather than fail anything.
SweepListError ==
    /\ SweepAt("list")
    /\ ClusterErrors
    /\ sweep' = NoSweep
    /\ UNCHANGED <<recordVars, loader>>

\* Mutant: a run without a pod is an orphan at any age.
VerdictAtAnyAge(r) ==
    CASE sweep.pods[r] \in LivePhases -> "none"
      [] sweep.pods[r] = "Succeeded" -> "noResult"
      [] sweep.pods[r] = "Failed" -> "podFailed"
      [] OTHER -> "podGone"

\* The verdict for a row without a report, or none.
Verdict(r) ==
    CASE sweep.pods[r] \in LivePhases -> "none"
      [] sweep.pods[r] = "Succeeded" -> "noResult"
      [] sweep.pods[r] = "Failed" -> "podFailed"
      [] ~sweep.boot /\ sweep.snap[r] = "young" -> "none"
      [] OTHER -> "podGone"

\* A guarded write of the verdict; the sweep goes on whoever won.
SweepResolve ==
    /\ SweepAt("resolve")
    /\ LET r == sweep.cur
           status == IF r \in Resumable THEN "interrupted" ELSE "failed"
       IN /\ IF Verdict(r) = "none"
             THEN UNCHANGED <<rows, opens>>
             ELSE UpdateGuarded(r, InProgress, Closed(r, status, Verdict(r)))
          /\ sweep' = Continue(sweep, r)
    /\ UNCHANGED <<kube, store, notes, loader>>

SweepStep ==
    \/ \E r \in Runs : SweepCheck(r)
    \/ SweepLoaded \/ SweepList \/ SweepListError \/ SweepResolve

SweepTypeOK == sweep \in Sweep
=============================================================================
