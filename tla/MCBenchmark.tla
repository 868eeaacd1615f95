----------------------------- MODULE MCBenchmark -----------------------------
(* Instances of BenchmarkLifecycle for TLC. *)
EXTENDS BenchmarkClaims, BenchmarkLedger, TLC

CONSTANTS r1, r2, q1, q2, q3, w1, w2

OwnNames == [r \in Runs |-> r]          \* every run has a name of its own

TaskSymmetry == Permutations(Requests) \cup Permutations(Watchers)
=============================================================================
