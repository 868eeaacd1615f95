--------------------------- MODULE BenchmarkLedger ---------------------------
(***************************************************************************)
(* The benchmark service implements VerdictLedger: a run is open while its *)
(* row is in progress, and the tasks inside tryLoad that won the guarded   *)
(* write are the ones that owe a notice.                                   *)
(***************************************************************************)
EXTENDS BenchmarkLifecycle

IsOpen == [r \in Runs |-> Active(r)]
Owed == [r \in Runs |-> Announcing(r)]
Given == [r \in Runs |-> notes[r].completed + notes[r].reportFailed]

Ledger == INSTANCE VerdictLedger
            WITH Announcers <- Loaders, open <- IsOpen, opened <- opens,
                 due <- Owed, announced <- Given

(* Every behaviour of the service is a behaviour of the ledger: however the  *)
(* watcher, the sweeps, the API calls and restarts interleave, a verdict is  *)
(* announced by the task that closed the row, and once (report-loader.ts).   *)
LedgerImplemented == Ledger!Spec
=============================================================================
