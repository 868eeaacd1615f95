-------------------------- MODULE BenchmarkRecords --------------------------
(***************************************************************************)
(* What the parts of the benchmark service share: the benchmark table      *)
(* behind BenchmarkRepository, the Kubernetes objects of a run, the run's  *)
(* artifacts in object storage and the notifications written for it.       *)
(*                                                                         *)
(* The API process holds no lock across an await.  Every part reads a row, *)
(* awaits something, and writes the row back, so the only atomicity the    *)
(* code has is one SQL statement: `update` writes whatever the row is now, *)
(* `updateGuarded` writes only if the status is still one it names.        *)
(***************************************************************************)
EXTENDS Naturals, FiniteSets

CONSTANTS
    Runs,       \* benchmark ids
    Resumable,  \* the runs whose tool declares a checkpoint directory
    Requests,   \* API calls; each is served once, and names the Job it creates
    NoRun,      \* "no run" in the local state of an idle task
    NoJob,      \* "no Job" in the cluster
    ClusterErrors, \* whether calls to the Kubernetes API may fail
    StorageErrors  \* whether calls to the object store may fail

ASSUME RecordsAssumption ==
    /\ Resumable \subseteq Runs
    /\ NoRun \notin Runs
    /\ NoJob \notin Requests
    /\ ClusterErrors \in BOOLEAN
    /\ StorageErrors \in BOOLEAN

VARIABLES
    rows,   \* the benchmark table
    kube,   \* Job, Secret, pod and runner process of each run
    store,  \* meta.json, output files and result.json of each run
    notes,  \* notification rows emitted for each run
    opens   \* history: how often each row entered an in-progress state

recordVars == <<rows, kube, store, notes, opens>>

-----------------------------------------------------------------------------
(* The status column. *)

InProgress == {"pending", "submitted", "running"}
Terminal == {"completed", "failed", "canceled", "interrupted"}

\* A row that was not created yet, or was deleted, cannot be found.
Missing == {"unborn", "deleted"}

Statuses == InProgress \cup Terminal \cup Missing

\* statusMessage, as far as the code that wrote it can be told from it.
Reasons == {"none", "startError", "reportLoad", "preStart", "podFailed",
            "noResult", "podGone"}

\* `fresh` abstracts max(createdAt, startedAt): the row is younger than the
\* orphan grace window.  It is only read, and only kept, while in progress.
Row == [status: Statuses, handle: BOOLEAN, fresh: BOOLEAN, why: Reasons]

Found(r) == rows[r].status \notin Missing
Active(r) == rows[r].status \in InProgress

SetRow(r, row) ==
    /\ rows' = [rows EXCEPT ![r] = row]
    /\ opens' = [opens EXCEPT ![r] =
                    IF row.status \in InProgress /\ ~Active(r) THEN @ + 1 ELSE @]

\* BenchmarkRepository.update: no condition on the status.
Update(r, row) == Found(r) /\ SetRow(r, row)

\* BenchmarkRepository.updateGuarded: a lost race writes nothing.
UpdateGuarded(r, allowed, row) ==
    IF rows[r].status \in allowed
    THEN SetRow(r, row)
    ELSE UNCHANGED <<rows, opens>>

\* The row after it left the in-progress states.
Closed(r, status, why) ==
    [rows[r] EXCEPT !.status = status, !.fresh = FALSE, !.why = why]

-----------------------------------------------------------------------------
(* The cluster.  A Job is named after the run, so a run has at most one,    *)
(* and is identified here by the request that created it.                   *)

LivePhases == {"Pending", "Waiting", "Running"}
DeadPhases == {"Succeeded", "Failed"}
PodPhases == {"none"} \cup LivePhases \cup DeadPhases

\* Where main.py is; "unspawned" and "over" surround the pod's life.
RunnerSteps == {"unspawned", "meta", "tool", "upload", "sentinel", "exit", "over"}

Cluster == [job: Requests \cup {NoJob}, secret: {"none", "unowned", "owned"},
            phase: PodPhases, step: RunnerSteps, rc: {0, 1}]

\* Deleting the Job cascades to the Secret it owns.
WithoutJob(k) ==
    [k EXCEPT !.job = NoJob, !.secret = IF @ = "owned" THEN "none" ELSE @]

-----------------------------------------------------------------------------
(* Object storage.  result.json carries the tool's exit code. *)

Artifacts == [meta: BOOLEAN, output: BOOLEAN, result: {"none", "zero", "nonzero"}]

HasResult(r) == store[r].result # "none"

(* Notifications. *)
Notices == {"completed", "reportFailed", "startFailed"}

Emit(r, n) == notes' = [notes EXCEPT ![r][n] = @ + 1]

-----------------------------------------------------------------------------
RecordsInit ==
    /\ rows = [r \in Runs |-> [status |-> "unborn", handle |-> FALSE,
                               fresh |-> FALSE, why |-> "none"]]
    /\ kube = [r \in Runs |-> [job |-> NoJob, secret |-> "none",
                               phase |-> "none", step |-> "over", rc |-> 0]]
    /\ store = [r \in Runs |-> [meta |-> FALSE, output |-> FALSE,
                                result |-> "none"]]
    /\ notes = [r \in Runs |-> [n \in Notices |-> 0]]
    /\ opens = [r \in Runs |-> 0]

RecordsTypeOK ==
    /\ rows \in [Runs -> Row]
    /\ kube \in [Runs -> Cluster]
    /\ store \in [Runs -> Artifacts]
    /\ notes \in [Runs -> [Notices -> Nat]]
    /\ opens \in [Runs -> Nat]
=============================================================================
