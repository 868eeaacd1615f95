-------------------------- MODULE BenchmarkClaims --------------------------
(***************************************************************************)
(* Statements the repository's comments and design notes make about the    *)
(* benchmark service, and that its interleavings do not keep.  Each is the *)
(* subject of a run that ends in a counterexample.                         *)
(***************************************************************************)
EXTENDS BenchmarkLifecycle

\* Past the claim, on the way to a launched Job.
ResumePcs == {"deleteRun", "start", "secret", "job", "patch", "markSubmitted"}

Resuming(q, r) == req[q].kind = "resume" /\ RunOf(q) = r /\ req[q].pc \in ResumePcs

(* "benchmark.status only moves forward and is never overwritten; every      *)
(* writer guards" (2026-05-25-watch-based-runner-status-design.md:109).      *)
(* cancel() and start() write without a condition.                           *)
StatusOnlyForward ==
    [][\A r \in Runs :
          rows[r].status \in {"completed", "failed", "canceled"}
             => rows'[r].status \in {rows[r].status, "deleted"}]_vars

(* "Guards against two concurrent /resume calls both winning"                *)
(* (benchmark.service.ts:361).  A sweep that lists the claimed row, and the  *)
(* dead pod, after the first claim and before its deleteRun took the pod     *)
(* away interrupts the row again, so that a second claim succeeds and its    *)
(* deleteRun can remove the Job of the first.                                *)
OneResumeWins ==
    \A p, q \in Requests : \A r \in Runs :
        Resuming(p, r) /\ Resuming(q, r) => p = q
=============================================================================
