-------------------------- MODULE BenchmarkService --------------------------
(***************************************************************************)
(* BenchmarkService: the create, resume, cancel and delete calls of the    *)
(* API, each an async function that other calls, the watcher, the loader   *)
(* and the reconciler interleave with at every await.  A request is at     *)
(* `pc`, the await it will perform next.  A call that is rejected before   *)
(* it changed anything (404, 400, 409) is not distinguished from a call    *)
(* that was not made.  The validation of the body, of the tool parameters  *)
(* and of the foreign keys precedes every write and is left out.           *)
(***************************************************************************)
EXTENDS BenchmarkRecords

CONSTANT NameOf  \* the name and owner a run is created with

VARIABLE req     \* the API calls in flight

Kinds == {"none", "create", "resume", "cancel", "delete"}

LaunchPcs == {"insert", "claim", "deleteRun", "start", "secret", "job",
              "rollback", "patch", "markSubmitted", "markFailed", "notify"}

RequestPcs == {"idle", "done", "kill", "markCanceled", "deleteRow"} \cup LaunchPcs

Request == [pc: RequestPcs, run: Runs \cup {NoRun}, kind: Kinds]

Idle == [pc |-> "idle", run |-> NoRun, kind |-> "none"]
Done == [pc |-> "done", run |-> NoRun, kind |-> "none"]

ServiceInit == req = [q \in Requests |-> Idle]

Begin(q, r, kind, pc) == req' = [req EXCEPT ![q] = [pc |-> pc, run |-> r, kind |-> kind]]
Goto(q, pc) == req' = [req EXCEPT ![q].pc = pc]
Return(q) == req' = [req EXCEPT ![q] = Done]

At(q, pc) == req[q].pc = pc
RunOf(q) == req[q].run

SetKube(r, k) == kube' = [kube EXCEPT ![r] = k]

-----------------------------------------------------------------------------
(* create(): countActiveByName, then the insert, then start(). *)

ActiveNamed(name) == {r \in Runs : Active(r) /\ NameOf[r] = name}

CreateCheck(q, r) ==
    /\ At(q, "idle")
    /\ rows[r].status = "unborn"
    /\ \A p \in Requests : RunOf(p) # r      \* ids are generated, never shared
    /\ ActiveNamed(NameOf[r]) = {}
    /\ Begin(q, r, "create", "insert")
    /\ UNCHANGED recordVars

CreateInsert(q) ==
    /\ At(q, "insert")
    /\ SetRow(RunOf(q), [status |-> "pending", handle |-> FALSE,
                         fresh |-> TRUE, why |-> "none"])
    /\ Goto(q, "start")
    /\ UNCHANGED <<kube, store, notes>>

-----------------------------------------------------------------------------
(* start(), shared by create() and resume(). *)

\* The row is gone (404), or its connection was deleted (400): both are thrown
\* before the try block, so the row keeps its status.
StartReject(q) ==
    /\ At(q, "start")
    /\ Return(q)
    /\ UNCHANGED recordVars

\* findById, then the connection, adapter, user simulator and evaluator are
\* resolved and the command built; any of these may throw inside the try.
StartResolve(q) ==
    /\ At(q, "start")
    /\ Found(RunOf(q))
    /\ \E pc \in {"secret", "markFailed"} : Goto(q, pc)
    /\ UNCHANGED recordVars

\* createNamespacedSecret with retries: a 409 is success; giving up after five
\* transient errors does not say whether one of them took effect.
CreateSecret(q) ==
    /\ At(q, "secret")
    /\ LET k == kube[RunOf(q)]
           made == [k EXCEPT !.secret = IF @ = "none" THEN "unowned" ELSE @]
       IN \/ SetKube(RunOf(q), made) /\ Goto(q, "job")
          \/ ClusterErrors /\ \E kk \in {k, made} : SetKube(RunOf(q), kk) /\ Goto(q, "markFailed")
    /\ UNCHANGED <<rows, store, notes, opens>>

\* createNamespacedJob likewise.  Only a response that carries the new Job's
\* uid leads to the ownerReferences patch; a 409 carries none.
CreateJob(q) ==
    /\ At(q, "job")
    /\ LET r == RunOf(q)
           k == kube[r]
           made == [k EXCEPT !.job = q, !.phase = "none", !.step = "unspawned",
                             !.rc = 0]
       IN \/ /\ k.job = NoJob
             /\ SetKube(r, made)
             /\ \/ Goto(q, "patch")
                \/ ClusterErrors /\ \E pc \in {"markSubmitted", "rollback"} : Goto(q, pc)
          \/ /\ k.job # NoJob
             /\ UNCHANGED kube
             /\ Goto(q, "markSubmitted")
          \/ /\ ClusterErrors
             /\ UNCHANGED kube
             /\ Goto(q, "rollback")
    /\ UNCHANGED <<rows, store, notes, opens>>

\* The Job could not be created: delete the Secret again, best effort.
RollbackSecret(q) ==
    /\ At(q, "rollback")
    /\ \/ SetKube(RunOf(q), [kube[RunOf(q)] EXCEPT !.secret = "none"])
       \/ ClusterErrors /\ UNCHANGED kube
    /\ Goto(q, "markFailed")
    /\ UNCHANGED <<rows, store, notes, opens>>

\* patchNamespacedSecret: hand the Secret to the Job, best effort.  A Secret
\* whose owner is gone is garbage to the cluster.
PatchSecret(q) ==
    /\ At(q, "patch")
    /\ LET k == kube[RunOf(q)]
       IN \/ /\ k.secret # "none"
             /\ SetKube(RunOf(q), [k EXCEPT !.secret = IF k.job = q THEN "owned" ELSE "none"])
          \/ (ClusterErrors \/ k.secret = "none") /\ UNCHANGED kube
    /\ Goto(q, "markSubmitted")
    /\ UNCHANGED <<rows, store, notes, opens>>

\* The unconditional write that ends a successful start().  Prisma throws
\* P2025 if the row was deleted meanwhile.
MarkSubmitted(q) ==
    /\ At(q, "markSubmitted")
    /\ LET r == RunOf(q)
       IN \/ Update(r, [rows[r] EXCEPT !.status = "submitted", !.handle = TRUE,
                                       !.fresh = TRUE])
          \/ ~Found(r) /\ UNCHANGED <<rows, opens>>
    /\ Return(q)
    /\ UNCHANGED <<kube, store, notes>>

\* The catch block: an unconditional write again, then the notification.
MarkFailed(q) ==
    /\ At(q, "markFailed")
    /\ LET r == RunOf(q)
       IN \/ Update(r, Closed(r, "failed", "startError")) /\ Goto(q, "notify")
          \/ ~Found(r) /\ UNCHANGED <<rows, opens>> /\ Return(q)
    /\ UNCHANGED <<kube, store, notes>>

NotifyStartFailed(q) ==
    /\ At(q, "notify")
    /\ Emit(RunOf(q), "startFailed")
    /\ Return(q)
    /\ UNCHANGED <<rows, kube, store, opens>>

StartStep(q) ==
    \/ StartReject(q) \/ StartResolve(q) \/ CreateSecret(q) \/ CreateJob(q)
    \/ RollbackSecret(q) \/ PatchSecret(q) \/ MarkSubmitted(q)
    \/ MarkFailed(q) \/ NotifyStartFailed(q)

-----------------------------------------------------------------------------
(* cancel(): the status is read once, the Job is deleted only for a row that *)
(* was past pending and had a handle, and the final write is unconditional.  *)

CancelFind(q, r) ==
    /\ At(q, "idle")
    /\ Active(r)
    /\ Begin(q, r, "cancel",
             IF rows[r].status # "pending" /\ rows[r].handle
             THEN "kill" ELSE "markCanceled")
    /\ UNCHANGED recordVars

\* runner.cancel: background deletion, one attempt.  404 is success; any other
\* error reaches the caller, whether or not the deletion took effect.  The same
\* call is the best-effort step of delete(), which swallows the error.
KillJob(q) ==
    /\ At(q, "kill")
    /\ LET r == RunOf(q)
           k == WithoutJob(kube[r])
           next == IF req[q].kind = "delete" THEN "deleteRow" ELSE "markCanceled"
       IN \/ /\ SetKube(r, IF k.step = "unspawned" THEN [k EXCEPT !.step = "over"] ELSE k)
             /\ \/ Goto(q, next)
                \/ ClusterErrors /\ req[q].kind = "cancel" /\ Return(q)
          \/ /\ ClusterErrors
             /\ UNCHANGED kube
             /\ IF req[q].kind = "delete" THEN Goto(q, next) ELSE Return(q)
    /\ UNCHANGED <<rows, store, notes, opens>>

MarkCanceled(q) ==
    /\ At(q, "markCanceled")
    /\ LET r == RunOf(q)
       IN \/ Update(r, Closed(r, "canceled", rows[r].why))
          \/ ~Found(r) /\ UNCHANGED <<rows, opens>>
    /\ Return(q)
    /\ UNCHANGED <<kube, store, notes>>

-----------------------------------------------------------------------------
(* resume(): claim the interrupted row, delete the dead Job, start again. *)

ResumeFind(q, r) ==
    /\ At(q, "idle")
    /\ rows[r].status = "interrupted" /\ r \in Resumable
    /\ Begin(q, r, "resume", "claim")
    /\ UNCHANGED recordVars

\* The compare-and-set on "interrupted"; startedAt becomes now.
ResumeClaim(q) ==
    /\ At(q, "claim")
    /\ LET r == RunOf(q)
       IN /\ UpdateGuarded(r, {"interrupted"},
                 [rows[r] EXCEPT !.status = "pending", !.fresh = TRUE, !.why = "none"])
          /\ IF rows[r].status = "interrupted" THEN Goto(q, "deleteRun") ELSE Return(q)
    /\ UNCHANGED <<kube, store, notes>>

\* Mutant: resume() wipes the artifacts of the dead attempt as well.
ResumeDeleteReport(q) ==
    /\ At(q, "deleteRun")
    /\ store' = [store EXCEPT ![RunOf(q)] =
                    [meta |-> FALSE, output |-> FALSE, result |-> "none"]]
    /\ Goto(q, "start")
    /\ UNCHANGED <<rows, kube, notes, opens>>

\* runner.deleteRun awaits the request for a foreground deletion, and a 404 is
\* success too.  When the API server has accepted it the Job and its pod may be
\* gone, or still there for a while, without a pod to come.  An error,
\* acknowledged or not, ends the call with the row still pending.
ResumeDeleteRun(q) ==
    /\ At(q, "deleteRun")
    /\ LET r == RunOf(q)
           gone == [WithoutJob(kube[r]) EXCEPT !.phase = "none", !.step = "over", !.rc = 0]
           going == [kube[r] EXCEPT !.step = IF @ = "unspawned" THEN "over" ELSE @]
       IN \/ /\ \E k \in IF kube[r].job = NoJob THEN {kube[r]} ELSE {gone, going} : SetKube(r, k)
             /\ Goto(q, "start") \/ (ClusterErrors /\ Return(q))
          \/ ClusterErrors /\ UNCHANGED kube /\ Return(q)
    /\ UNCHANGED <<rows, store, notes, opens>>

-----------------------------------------------------------------------------
(* delete(): for a row with a handle the Job goes first, best effort. *)

DeleteFind(q, r) ==
    /\ At(q, "idle")
    /\ Found(r)
    /\ Begin(q, r, "delete", IF rows[r].handle THEN "kill" ELSE "deleteRow")
    /\ UNCHANGED recordVars

DeleteRow(q) ==
    /\ At(q, "deleteRow")
    /\ LET r == RunOf(q)
       IN \/ Update(r, [status |-> "deleted", handle |-> FALSE, fresh |-> FALSE,
                        why |-> "none"])
          \/ ~Found(r) /\ UNCHANGED <<rows, opens>>
    /\ Return(q)
    /\ UNCHANGED <<kube, store, notes>>

-----------------------------------------------------------------------------
RequestStep(q) ==
    \/ CreateInsert(q)
    \/ StartStep(q)
    \/ KillJob(q) \/ MarkCanceled(q)
    \/ ResumeClaim(q) \/ ResumeDeleteRun(q)
    \/ DeleteRow(q)

ServiceNext ==
    \E q \in Requests :
        \/ RequestStep(q)
        \/ \E r \in Runs : \/ CreateCheck(q, r) \/ CancelFind(q, r)
                           \/ ResumeFind(q, r) \/ DeleteFind(q, r)

ServiceTypeOK == req \in [Requests -> Request]
=============================================================================
