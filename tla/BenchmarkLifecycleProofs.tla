---------------------- MODULE BenchmarkLifecycleProofs ----------------------
(***************************************************************************)
(* Safety of the benchmark service, for any number of runs, requests and   *)
(* watcher tasks, any mode, and any number of restarts.  The service also  *)
(* implements VerdictLedger, and therefore announces at most one verdict   *)
(* for each time a run was opened.                                         *)
(***************************************************************************)
EXTENDS BenchmarkLedger, FiniteSetTheorems, TLAPS

-----------------------------------------------------------------------------
(* The SQL statements keep the table well formed. *)

\* A write of a whole row keeps the table and the history of openings well typed.
LEMMA SetRowTypes ==
    ASSUME RecordsTypeOK, NEW r \in Runs, NEW row \in Row, SetRow(r, row)
    PROVE  rows' \in [Runs -> Row] /\ opens' \in [Runs -> Nat]
BY DEF RecordsTypeOK, SetRow

\* So does BenchmarkRepository.update.
LEMMA UpdateTypes ==
    ASSUME RecordsTypeOK, NEW r \in Runs, NEW row \in Row, Update(r, row)
    PROVE  rows' \in [Runs -> Row] /\ opens' \in [Runs -> Nat]
BY SetRowTypes DEF Update

\* So does BenchmarkRepository.updateGuarded, whichever statuses it names.
LEMMA UpdateGuardedTypes ==
    ASSUME RecordsTypeOK, NEW r \in Runs, NEW row \in Row, NEW allowed,
           UpdateGuarded(r, allowed, row)
    PROVE  rows' \in [Runs -> Row] /\ opens' \in [Runs -> Nat]
BY SetRowTypes DEF UpdateGuarded, RecordsTypeOK

\* A closed row is a row.
LEMMA ClosedIsRow ==
    ASSUME RecordsTypeOK, NEW r \in Runs, NEW status \in Statuses, NEW why \in Reasons
    PROVE  Closed(r, status, why) \in Row
BY DEF RecordsTypeOK, Closed, Row

\* NotifyService.emit keeps the notices well typed.
LEMMA EmitTypes ==
    ASSUME RecordsTypeOK, NEW r \in Runs, NEW n \in Notices, Emit(r, n)
    PROVE  notes' \in [Runs -> [Notices -> Nat]]
BY DEF RecordsTypeOK, Emit

\* Deleting a Job leaves well-typed cluster objects.
LEMMA WithoutJobIsCluster ==
    ASSUME NEW k \in Cluster
    PROVE  WithoutJob(k) \in Cluster
BY DEF WithoutJob, Cluster

\* What a step of the service has to keep; the rest does not change.
ServiceOK ==
    /\ RecordsTypeOK /\ ServiceTypeOK
    /\ \A q \in Requests : req[q].pc \notin {"idle", "done"} => req[q].run \in Runs

\* A call that moves on to its next await keeps the run it is about.
LEMMA GotoKeepsRun ==
    ASSUME ServiceOK, NEW q \in Requests, NEW pc \in RequestPcs, RunOf(q) \in Runs,
           Goto(q, pc)
    PROVE  /\ req' \in [Requests -> Request]
           /\ \A p \in Requests : req'[p].pc \notin {"idle", "done"} => req'[p].run \in Runs
BY DEF ServiceOK, ServiceTypeOK, Request, Goto, RunOf

\* A call that returns needs no run any more, and the others keep theirs.
LEMMA ReturnKeepsRun ==
    ASSUME ServiceOK, NEW q \in Requests, Return(q)
    PROVE  /\ req' \in [Requests -> Request]
           /\ \A p \in Requests : req'[p].pc \notin {"idle", "done"} => req'[p].run \in Runs
BY DEF ServiceOK, ServiceTypeOK, Request, RequestPcs, Kinds, Return, Done

\* A call that begins is given a run.
LEMMA BeginKeepsRun ==
    ASSUME ServiceOK, NEW q \in Requests, NEW r \in Runs, NEW kind \in Kinds,
           NEW pc \in RequestPcs, Begin(q, r, kind, pc)
    PROVE  /\ req' \in [Requests -> Request]
           /\ \A p \in Requests : req'[p].pc \notin {"idle", "done"} => req'[p].run \in Runs
BY DEF ServiceOK, ServiceTypeOK, Request, Begin

\* A Kubernetes call of the service keeps the cluster well typed.
LEMMA SetKubeTypes ==
    ASSUME RecordsTypeOK, NEW r, NEW k \in Cluster, SetKube(r, k)
    PROVE  kube' \in [Runs -> Cluster]
BY DEF RecordsTypeOK, SetKube

\* Every step of start() keeps the types of the service.
LEMMA StartTypes ==
    ASSUME ServiceOK, NEW q \in Requests, StartStep(q)
    PROVE  ServiceOK'
<1> DEFINE r == RunOf(q)
<1>1. req[q].pc \notin {"idle", "done"} => r \in Runs
  BY DEF ServiceOK, RunOf
<1>2. r \in Runs => rows[r] \in Row /\ kube[r] \in Cluster
  BY DEF ServiceOK, RecordsTypeOK
<1> USE DEF At
<1>3. CASE StartReject(q)
  BY <1>3, ReturnKeepsRun DEF StartReject, ServiceOK, ServiceTypeOK, RecordsTypeOK, recordVars
<1>4. CASE StartResolve(q)
  BY <1>1, <1>4, GotoKeepsRun
     DEF StartResolve, ServiceOK, ServiceTypeOK, RecordsTypeOK, recordVars, RequestPcs, LaunchPcs
<1>5. CASE CreateSecret(q)
  <2>0. kube[r] \in Cluster
    BY <1>1, <1>2, <1>5 DEF CreateSecret
  <2>1. UNCHANGED kube \/ \E k \in Cluster : SetKube(r, k)
    BY <2>0, <1>5 DEF CreateSecret, Cluster, PodPhases, RunnerSteps
  <2>4. kube' \in [Runs -> Cluster]
    BY <2>1, SetKubeTypes DEF ServiceOK, RecordsTypeOK
  <2>2. \E pc \in RequestPcs : Goto(q, pc)
    BY <1>5 DEF CreateSecret, RequestPcs, LaunchPcs
  <2>3. r \in Runs /\ UNCHANGED <<rows, store, notes, opens>>
    BY <1>1, <1>5 DEF CreateSecret
  <2> QED
    BY <2>2, <2>3, <2>4, GotoKeepsRun DEF ServiceOK, ServiceTypeOK, RecordsTypeOK
<1>6. CASE CreateJob(q)
  <2>0. kube[r] \in Cluster
    BY <1>1, <1>2, <1>6 DEF CreateJob
  <2>1. UNCHANGED kube \/ \E k \in Cluster : SetKube(r, k)
    BY <2>0, <1>6 DEF CreateJob, Cluster, PodPhases, RunnerSteps
  <2>4. kube' \in [Runs -> Cluster]
    BY <2>1, SetKubeTypes DEF ServiceOK, RecordsTypeOK
  <2>2. \E pc \in RequestPcs : Goto(q, pc)
    BY <1>6 DEF CreateJob, RequestPcs, LaunchPcs
  <2>3. r \in Runs /\ UNCHANGED <<rows, store, notes, opens>>
    BY <1>1, <1>6 DEF CreateJob
  <2> QED
    BY <2>2, <2>3, <2>4, GotoKeepsRun DEF ServiceOK, ServiceTypeOK, RecordsTypeOK
<1>7. CASE RollbackSecret(q)
  <2>0. kube[r] \in Cluster
    BY <1>1, <1>2, <1>7 DEF RollbackSecret
  <2>1. UNCHANGED kube \/ \E k \in Cluster : SetKube(r, k)
    BY <2>0, <1>7 DEF RollbackSecret, Cluster, PodPhases, RunnerSteps
  <2>4. kube' \in [Runs -> Cluster]
    BY <2>1, SetKubeTypes DEF ServiceOK, RecordsTypeOK
  <2>2. \E pc \in RequestPcs : Goto(q, pc)
    BY <1>7 DEF RollbackSecret, RequestPcs, LaunchPcs
  <2>3. r \in Runs /\ UNCHANGED <<rows, store, notes, opens>>
    BY <1>1, <1>7 DEF RollbackSecret
  <2> QED
    BY <2>2, <2>3, <2>4, GotoKeepsRun DEF ServiceOK, ServiceTypeOK, RecordsTypeOK
<1>8. CASE PatchSecret(q)
  <2>0. kube[r] \in Cluster
    BY <1>1, <1>2, <1>8 DEF PatchSecret
  <2>1. UNCHANGED kube \/ \E k \in Cluster : SetKube(r, k)
    BY <2>0, <1>8 DEF PatchSecret, Cluster, PodPhases, RunnerSteps
  <2>4. kube' \in [Runs -> Cluster]
    BY <2>1, SetKubeTypes DEF ServiceOK, RecordsTypeOK
  <2>2. \E pc \in RequestPcs : Goto(q, pc)
    BY <1>8 DEF PatchSecret, RequestPcs, LaunchPcs
  <2>3. r \in Runs /\ UNCHANGED <<rows, store, notes, opens>>
    BY <1>1, <1>8 DEF PatchSecret
  <2> QED
    BY <2>2, <2>3, <2>4, GotoKeepsRun DEF ServiceOK, ServiceTypeOK, RecordsTypeOK
<1>9. CASE MarkSubmitted(q)
  <2>1. [rows[r] EXCEPT !.status = "submitted", !.handle = TRUE, !.fresh = TRUE] \in Row
    BY <1>1, <1>2, <1>9 DEF MarkSubmitted, Row, Statuses, InProgress
  <2>2. rows' \in [Runs -> Row] /\ opens' \in [Runs -> Nat]
    BY <1>1, <1>9, <2>1, UpdateTypes DEF MarkSubmitted, ServiceOK, RecordsTypeOK
  <2> QED
    BY <1>9, <2>2, ReturnKeepsRun DEF MarkSubmitted, ServiceOK, ServiceTypeOK, RecordsTypeOK
<1>10. CASE MarkFailed(q)
  <2>1. Closed(r, "failed", "startError") \in Row
    BY <1>1, <1>10, ClosedIsRow DEF MarkFailed, ServiceOK, Statuses, Terminal, Reasons
  <2>2. rows' \in [Runs -> Row] /\ opens' \in [Runs -> Nat]
    BY <1>1, <1>10, <2>1, UpdateTypes DEF MarkFailed, ServiceOK, RecordsTypeOK
  <2> QED
    BY <1>1, <1>10, <2>2, ReturnKeepsRun, GotoKeepsRun
       DEF MarkFailed, ServiceOK, ServiceTypeOK, RecordsTypeOK, RequestPcs, LaunchPcs
<1>11. CASE NotifyStartFailed(q)
  <2>1. notes' \in [Runs -> [Notices -> Nat]]
    BY <1>1, <1>11, EmitTypes DEF NotifyStartFailed, ServiceOK, Notices
  <2> QED
    BY <1>11, <2>1, ReturnKeepsRun DEF NotifyStartFailed, ServiceOK, ServiceTypeOK, RecordsTypeOK
<1> QED
  BY <1>3, <1>4, <1>5, <1>6, <1>7, <1>8, <1>9, <1>10, <1>11 DEF StartStep
-----------------------------------------------------------------------------
\* Every step of an API call keeps tables and tasks well formed.
LEMMA ServiceTypes ==
    ASSUME ServiceOK, ServiceNext
    PROVE  ServiceOK'
<1> USE DEF At
<1>1. ASSUME NEW q \in Requests, RequestStep(q) PROVE ServiceOK'
  <2> DEFINE r == RunOf(q)
  <2>1. req[q].pc \notin {"idle", "done"} => r \in Runs /\ rows[r] \in Row /\ kube[r] \in Cluster
    BY DEF ServiceOK, RecordsTypeOK, RunOf
  <2>2. CASE CreateInsert(q)
    <3>1. r \in Runs /\ Goto(q, "start") /\ UNCHANGED <<kube, store, notes>>
      BY <2>1, <2>2 DEF CreateInsert
    <3>2. [status |-> "pending", handle |-> FALSE, fresh |-> TRUE, why |-> "none"] \in Row
      BY DEF Row, Statuses, InProgress, Reasons
    <3>3. rows' \in [Runs -> Row] /\ opens' \in [Runs -> Nat]
      BY <2>2, <3>1, <3>2, SetRowTypes DEF CreateInsert, ServiceOK
    <3> QED
      BY <3>1, <3>3, GotoKeepsRun
         DEF ServiceOK, ServiceTypeOK, RecordsTypeOK, RequestPcs, LaunchPcs
  <2>3. CASE StartStep(q)
    BY <2>3, StartTypes
  <2>4. CASE KillJob(q)
    <3>1. r \in Runs /\ kube[r] \in Cluster /\ UNCHANGED <<rows, store, notes, opens>>
      BY <2>1, <2>4 DEF KillJob
    <3>2. WithoutJob(kube[r]) \in Cluster
      BY <3>1, WithoutJobIsCluster
    <3>3. UNCHANGED kube \/ \E k \in Cluster : SetKube(r, k)
      BY <2>4, <3>2 DEF KillJob, Cluster, RunnerSteps
    <3>4. kube' \in [Runs -> Cluster]
      BY <3>3, SetKubeTypes DEF ServiceOK, RecordsTypeOK
    <3>5. Return(q) \/ \E pc \in RequestPcs : Goto(q, pc)
      BY <2>4 DEF KillJob, RequestPcs
    <3> QED
      BY <3>1, <3>4, <3>5, GotoKeepsRun, ReturnKeepsRun DEF ServiceOK, ServiceTypeOK, RecordsTypeOK
  <2>5. CASE MarkCanceled(q)
    <3>1. r \in Runs /\ rows[r].why \in Reasons /\ UNCHANGED <<kube, store, notes>>
      BY <2>1, <2>5 DEF MarkCanceled, Row
    <3>2. Closed(r, "canceled", rows[r].why) \in Row
      BY <3>1, ClosedIsRow DEF ServiceOK, Statuses, Terminal
    <3>3. rows' \in [Runs -> Row] /\ opens' \in [Runs -> Nat]
      BY <2>5, <3>1, <3>2, UpdateTypes DEF MarkCanceled, ServiceOK, RecordsTypeOK
    <3> QED
      BY <2>5, <3>1, <3>3, ReturnKeepsRun DEF MarkCanceled, ServiceOK, ServiceTypeOK, RecordsTypeOK
  <2>6. CASE ResumeClaim(q)
    <3>1. r \in Runs /\ rows[r] \in Row /\ UNCHANGED <<kube, store, notes>>
      BY <2>1, <2>6 DEF ResumeClaim
    <3>2. [rows[r] EXCEPT !.status = "pending", !.fresh = TRUE, !.why = "none"] \in Row
      BY <3>1 DEF Row, Statuses, InProgress, Reasons
    <3>3. rows' \in [Runs -> Row] /\ opens' \in [Runs -> Nat]
      BY <2>6, <3>1, <3>2, UpdateGuardedTypes DEF ResumeClaim, ServiceOK
    <3>4. Return(q) \/ \E pc \in RequestPcs : Goto(q, pc)
      BY <2>6 DEF ResumeClaim, RequestPcs, LaunchPcs
    <3> QED
      BY <3>1, <3>3, <3>4, GotoKeepsRun, ReturnKeepsRun DEF ServiceOK, ServiceTypeOK, RecordsTypeOK
  <2>7. CASE ResumeDeleteRun(q)
    <3>1. r \in Runs /\ kube[r] \in Cluster /\ UNCHANGED <<rows, store, notes, opens>>
      BY <2>1, <2>7 DEF ResumeDeleteRun
    <3>2. WithoutJob(kube[r]) \in Cluster
      BY <3>1, WithoutJobIsCluster
    <3>3. UNCHANGED kube \/ \E k \in Cluster : SetKube(r, k)
      BY <2>7, <3>1, <3>2 DEF ResumeDeleteRun, Cluster, RunnerSteps, PodPhases
    <3>4. kube' \in [Runs -> Cluster]
      BY <3>3, SetKubeTypes DEF ServiceOK, RecordsTypeOK
    <3>5. Return(q) \/ \E pc \in RequestPcs : Goto(q, pc)
      BY <2>7 DEF ResumeDeleteRun, RequestPcs, LaunchPcs
    <3> QED
      BY <3>1, <3>4, <3>5, GotoKeepsRun, ReturnKeepsRun DEF ServiceOK, ServiceTypeOK, RecordsTypeOK
  <2>8. CASE DeleteRow(q)
    <3>1. r \in Runs /\ UNCHANGED <<kube, store, notes>>
      BY <2>1, <2>8 DEF DeleteRow
    <3>2. [status |-> "deleted", handle |-> FALSE, fresh |-> FALSE, why |-> "none"] \in Row
      BY DEF Row, Statuses, Missing, Reasons
    <3>3. rows' \in [Runs -> Row] /\ opens' \in [Runs -> Nat]
      BY <2>8, <3>1, <3>2, UpdateTypes DEF DeleteRow, ServiceOK, RecordsTypeOK
    <3> QED
      BY <2>8, <3>1, <3>3, ReturnKeepsRun DEF DeleteRow, ServiceOK, ServiceTypeOK, RecordsTypeOK
  <2> QED
    BY <1>1, <2>2, <2>3, <2>4, <2>5, <2>6, <2>7, <2>8 DEF RequestStep
<1>2. ASSUME NEW q \in Requests, NEW r \in Runs,
             CreateCheck(q, r) \/ CancelFind(q, r) \/ ResumeFind(q, r) \/ DeleteFind(q, r)
      PROVE  ServiceOK'
  <2>1. \E kind \in Kinds, pc \in RequestPcs : Begin(q, r, kind, pc)
    BY <1>2 DEF CreateCheck, CancelFind, ResumeFind, DeleteFind, Kinds, RequestPcs, LaunchPcs
  <2>2. UNCHANGED recordVars
    BY <1>2 DEF CreateCheck, CancelFind, ResumeFind, DeleteFind
  <2> QED
    BY <2>1, <2>2, BeginKeepsRun DEF ServiceOK, ServiceTypeOK, RecordsTypeOK, recordVars
<1> QED
  BY <1>1, <1>2 DEF ServiceNext

-----------------------------------------------------------------------------
(* The loader. *)

\* What a step of a tryLoad call has to keep.
LoaderOK ==
    /\ RecordsTypeOK /\ LoaderTypeOK
    /\ \A l \in Loaders : loader[l].pc # "idle" => loader[l].run \in Runs

\* A call that goes on keeps the run it works on.
LEMMA AdvanceKeepsRun ==
    ASSUME LoaderOK, NEW l \in Loaders, NEW pc \in LoaderPcs, loader[l].pc # "idle",
           Advance(l, pc)
    PROVE  /\ loader' \in [Loaders -> Load]
           /\ \A m \in Loaders : loader'[m].pc # "idle" => loader'[m].run \in Runs
BY DEF LoaderOK, LoaderTypeOK, Load, Advance

\* A call that returns works on none.
LEMMA FinishKeepsRun ==
    ASSUME LoaderOK, NEW l \in Loaders, Finish(l)
    PROVE  /\ loader' \in [Loaders -> Load]
           /\ \A m \in Loaders : loader'[m].pc # "idle" => loader'[m].run \in Runs
BY DEF LoaderOK, LoaderTypeOK, Load, LoaderPcs, Finish, NoLoad

\* A new call works on the run it was made for.
LEMMA TryLoadKeepsRun ==
    ASSUME LoaderOK, NEW l \in Loaders, NEW r \in Runs, TryLoad(l, r)
    PROVE  /\ loader' \in [Loaders -> Load]
           /\ \A m \in Loaders : loader'[m].pc # "idle" => loader'[m].run \in Runs
BY DEF LoaderOK, LoaderTypeOK, Load, LoaderPcs, TryLoad

\* Every step of a tryLoad call keeps tables and calls well formed.
LEMMA LoaderTypes ==
    ASSUME LoaderOK, NEW l \in Loaders, LoaderStep(l)
    PROVE  LoaderOK'
<1> DEFINE r == loader[l].run
<1>1. r \in Runs /\ loader[l].pc # "idle"
  BY DEF LoaderOK, LoaderStep, LoadFind, LoadRead, LoadCommit, NotifyCompleted, LoadFail,
         NotifyLoadFailed, Loading
<1>2. RecordsTypeOK
  BY DEF LoaderOK
<1>3. Finish(l) \/ \E pc \in LoaderPcs : Advance(l, pc)
  BY DEF LoaderStep, LoadFind, LoadRead, LoadCommit, NotifyCompleted, LoadFail,
         NotifyLoadFailed, LoaderPcs
<1>4. /\ loader' \in [Loaders -> Load]
      /\ \A m \in Loaders : loader'[m].pc # "idle" => loader'[m].run \in Runs
  BY <1>1, <1>3, AdvanceKeepsRun, FinishKeepsRun
<1>5. RecordsTypeOK'
  <2>1. CASE LoadFind(l) \/ LoadRead(l)
    BY <1>2, <2>1 DEF LoadFind, LoadRead, recordVars, RecordsTypeOK
  <2>2. CASE LoadCommit(l)
    <3>1. Closed(r, "completed", "none") \in Row
      BY <1>1, <1>2, ClosedIsRow DEF Statuses, Terminal, Reasons
    <3>2. rows' \in [Runs -> Row] /\ opens' \in [Runs -> Nat]
      BY <1>1, <1>2, <2>2, <3>1, UpdateGuardedTypes DEF LoadCommit
    <3> QED BY <1>2, <2>2, <3>2 DEF LoadCommit, RecordsTypeOK
  <2>3. CASE LoadFail(l)
    <3>1. Closed(r, "failed", "reportLoad") \in Row
      BY <1>1, <1>2, ClosedIsRow DEF Statuses, Terminal, Reasons
    <3>2. rows' \in [Runs -> Row] /\ opens' \in [Runs -> Nat]
      BY <1>1, <1>2, <2>3, <3>1, UpdateGuardedTypes DEF LoadFail
    <3> QED BY <1>2, <2>3, <3>2 DEF LoadFail, RecordsTypeOK
  <2>4. CASE NotifyCompleted(l) \/ NotifyLoadFailed(l)
    <3>1. notes' \in [Runs -> [Notices -> Nat]]
      BY <1>1, <1>2, <2>4, EmitTypes
         DEF NotifyCompleted, NotifyLoadFailed, Notices, RecordsTypeOK
    <3> QED BY <1>2, <2>4, <3>1 DEF NotifyCompleted, NotifyLoadFailed, RecordsTypeOK
  <2> QED BY <2>1, <2>2, <2>3, <2>4 DEF LoaderStep
<1> QED BY <1>4, <1>5 DEF LoaderOK, LoaderTypeOK

-----------------------------------------------------------------------------
(* The watcher. *)

\* What a step of a handlePodEvent call has to keep.
WatcherOK ==
    /\ LoaderOK /\ WatcherTypeOK
    /\ \A w \in Watchers : watch[w].pc # "idle" => watch[w].run \in Runs

\* Every step of the watcher keeps tables, handlers and loaders well formed.
LEMMA WatcherTypes ==
    ASSUME WatcherOK, WatcherNext
    PROVE  WatcherOK'
<1>1. ASSUME NEW r \in Runs, PodDeleteEvent(r) PROVE WatcherOK'
  BY <1>1 DEF PodDeleteEvent, WatcherOK, WatcherTypeOK, LoaderOK, LoaderTypeOK, RecordsTypeOK,
              recordVars
<1>2. ASSUME NEW w \in Watchers, NEW r \in Runs, PodEvent(w, r) PROVE WatcherOK'
  <2>1. kube[r].phase \in PodPhases
    BY DEF WatcherOK, LoaderOK, RecordsTypeOK, Cluster
  <2>2. watch' = [watch EXCEPT ![w] = [pc |-> "find", run |-> r,
                                       phase |-> kube[r].phase, why |-> "none"]]
    BY <1>2 DEF PodEvent
  <2>3. [pc |-> "find", run |-> r, phase |-> kube[r].phase, why |-> "none"] \in Handler
    BY <2>1 DEF Handler, WatchPcs, Reasons
  <2>4. /\ watch' \in [Watchers -> Handler]
        /\ \A v \in Watchers : watch'[v].pc # "idle" => watch'[v].run \in Runs
    BY <2>2, <2>3 DEF WatcherOK, WatcherTypeOK
  <2> QED BY <1>2, <2>4 DEF PodEvent, WatcherOK, WatcherTypeOK, LoaderOK, LoaderTypeOK,
                            RecordsTypeOK, recordVars
<1>3. ASSUME NEW w \in Watchers, WatchStep(w) PROVE WatcherOK'
  <2> DEFINE r == watch[w].run
  <2>1. r \in Runs
    BY <1>3 DEF WatcherOK, WatchStep, WatchFind, MarkRunning, DrainedLoad, DrainedFail
  <2>2. LoaderOK /\ RecordsTypeOK /\ watch[w] \in Handler /\ rows[r] \in Row
    BY <2>1 DEF WatcherOK, WatcherTypeOK, LoaderOK, RecordsTypeOK
  <2>3. HandlerDone(w) \/ \E pc \in WatchPcs, why \in Reasons : Then(w, pc, why)
    BY <1>3 DEF WatchStep, WatchFind, MarkRunning, DrainedLoad, DrainedFail, WatchPcs, Reasons
  <2>4. watch' \in [Watchers -> Handler]
    <3>1. NoHandler \in Handler
      BY DEF NoHandler, Handler, WatchPcs, PodPhases, Reasons
    <3>2. CASE HandlerDone(w)
      BY <3>1, <3>2 DEF WatcherOK, WatcherTypeOK, HandlerDone
    <3>3. ASSUME NEW pc \in WatchPcs, NEW why \in Reasons, Then(w, pc, why)
          PROVE  watch' \in [Watchers -> Handler]
      <4>1. [watch[w] EXCEPT !.pc = pc, !.why = why, !.phase = "none"] \in Handler
        BY <2>2 DEF Handler, PodPhases
      <4>2. watch' = [watch EXCEPT ![w] = [watch[w] EXCEPT !.pc = pc, !.why = why, !.phase = "none"]]
        BY <3>3 DEF Then, WatcherOK, WatcherTypeOK
      <4> QED BY <4>1, <4>2 DEF WatcherOK, WatcherTypeOK
    <3> QED BY <2>3, <3>2, <3>3
  <2>5. \A v \in Watchers : watch'[v].pc # "idle" => watch'[v].run \in Runs
    <3>1. CASE HandlerDone(w)
      BY <3>1 DEF WatcherOK, WatcherTypeOK, HandlerDone, NoHandler
    <3>2. CASE \E pc \in WatchPcs, why \in Reasons : Then(w, pc, why)
      BY <2>1, <3>2 DEF WatcherOK, WatcherTypeOK, Then, Handler
    <3> QED BY <2>3, <3>1, <3>2
  <2>6. fatalSince' \subseteq Runs
    BY <1>3, <2>1 DEF WatcherOK, WatcherTypeOK, WatchStep, WatchFind, MarkRunning, DrainedLoad,
                      DrainedFail
  <2>7. LoaderOK'
    <3>1. CASE WatchFind(w)
      BY <2>2, <3>1 DEF WatchFind, LoaderOK, LoaderTypeOK, RecordsTypeOK, recordVars
    <3>2. CASE MarkRunning(w)
      <4>1. PICK fresh \in BOOLEAN :
               UpdateGuarded(r, {"submitted"},
                             [rows[r] EXCEPT !.status = "running", !.fresh = fresh])
        BY <3>2 DEF MarkRunning
      <4>2. [rows[r] EXCEPT !.status = "running", !.fresh = fresh] \in Row
        BY <2>2 DEF Row, Statuses, InProgress
      <4>3. rows' \in [Runs -> Row] /\ opens' \in [Runs -> Nat]
        BY <2>1, <2>2, <4>1, <4>2, UpdateGuardedTypes
      <4> QED BY <2>2, <3>2, <4>3 DEF MarkRunning, LoaderOK, LoaderTypeOK, RecordsTypeOK
    <3>3. CASE DrainedLoad(w)
      <4>1. /\ loader' \in [Loaders -> Load]
            /\ \A m \in Loaders : loader'[m].pc # "idle" => loader'[m].run \in Runs
        BY <2>1, <2>2, <3>3, TryLoadKeepsRun DEF DrainedLoad, Loaders
      <4> QED BY <2>2, <3>3, <4>1 DEF DrainedLoad, LoaderOK, LoaderTypeOK, RecordsTypeOK, recordVars
    <3>4. CASE DrainedFail(w)
      <4>1. Closed(r, "failed", watch[w].why) \in Row
        BY <2>1, <2>2, ClosedIsRow DEF Handler, Statuses, Terminal
      <4>2. rows' \in [Runs -> Row] /\ opens' \in [Runs -> Nat]
        BY <2>1, <2>2, <3>4, <4>1, UpdateGuardedTypes DEF DrainedFail
      <4> QED BY <2>2, <3>4, <4>2 DEF DrainedFail, LoaderOK, LoaderTypeOK, RecordsTypeOK
    <3> QED BY <1>3, <3>1, <3>2, <3>3, <3>4 DEF WatchStep
  <2> QED BY <2>4, <2>5, <2>6, <2>7 DEF WatcherOK, WatcherTypeOK
<1> QED BY <1>1, <1>2, <1>3 DEF WatcherNext

-----------------------------------------------------------------------------
(* The reconciler. *)

\* What a step of a sweep has to keep.
SweepOK ==
    /\ LoaderOK /\ SweepTypeOK
    /\ sweep.pc \in {"list", "resolve", "loading"} => sweep.cur \in Runs

\* The sweep after the row it worked on, and no sweep, are sweeps.
LEMMA ContinueIsSweep ==
    ASSUME SweepTypeOK, NEW r \in Runs
    PROVE  /\ NoSweep \in Sweep
           /\ Continue(sweep, r) \in Sweep
           /\ NoSweep.pc = "idle" /\ Continue(sweep, r).pc \in {"idle", "check"}
<1>1. NoSweep \in Sweep /\ NoSweep.pc = "idle"
  BY DEF NoSweep, Sweep, SweepPcs, Ages, Unlisted
<1>2. CASE sweep.todo \ {r} = {}
  BY <1>1, <1>2 DEF Continue
<1>3. CASE sweep.todo \ {r} # {}
  <2>1. Continue(sweep, r) = [sweep EXCEPT !.pc = "check", !.todo = sweep.todo \ {r},
                                           !.cur = NoRun, !.snap[r] = "out"]
    BY <1>3 DEF Continue
  <2>2. Continue(sweep, r) \in Sweep
    <3>1. [sweep.snap EXCEPT ![r] = "out"] \in [Runs -> Ages]
      BY DEF SweepTypeOK, Sweep, Ages
    <3>2. Continue(sweep, r) = [sweep EXCEPT !.pc = "check", !.todo = sweep.todo \ {r},
                                   !.cur = NoRun, !.snap = [sweep.snap EXCEPT ![r] = "out"]]
      BY <2>1 DEF SweepTypeOK, Sweep
    <3>3. sweep.todo \ {r} \in SUBSET Runs
      BY DEF SweepTypeOK, Sweep
    <3> QED BY <3>1, <3>2, <3>3 DEF SweepTypeOK, Sweep, SweepPcs
  <2>3. Continue(sweep, r).pc = "check"
    BY <2>1 DEF SweepTypeOK, Sweep
  <2> QED BY <1>1, <2>2, <2>3
<1> QED BY <1>2, <1>3

\* A sweep that begins is a sweep.
LEMMA SweepBeginTypes ==
    ASSUME SweepOK, NEW boot \in BOOLEAN, SweepBegin(boot)
    PROVE  SweepOK'
<1>1. sweep' \in Sweep /\ sweep'.pc = "check"
  BY DEF SweepBegin, NoSweep, Sweep, SweepPcs, Ages, Unlisted
<1> QED
  BY <1>1 DEF SweepBegin, SweepOK, SweepTypeOK, LoaderOK, LoaderTypeOK, RecordsTypeOK, recordVars

\* Every step of a sweep keeps tables, sweep and loaders well formed.
LEMMA SweepTypes ==
    ASSUME SweepOK, SweepStep
    PROVE  SweepOK'
<1>1. ASSUME NEW r \in Runs, SweepCheck(r) PROVE SweepOK'
  <2>1. \E pc \in {"list", "resolve", "loading"} :
           sweep' = [sweep EXCEPT !.pc = pc, !.cur = r]
    BY <1>1 DEF SweepCheck, SweepOK, SweepTypeOK, Sweep
  <2>2. sweep' \in Sweep /\ sweep'.cur = r
    <3>1. PICK pc \in SweepPcs : sweep' = [sweep EXCEPT !.pc = pc, !.cur = r]
      BY <2>1 DEF SweepPcs
    <3> QED BY <3>1 DEF SweepOK, SweepTypeOK, Sweep
  <2>3. /\ loader' \in [Loaders -> Load]
        /\ \A m \in Loaders : loader'[m].pc # "idle" => loader'[m].run \in Runs
    BY <1>1, TryLoadKeepsRun DEF SweepCheck, SweepOK, Loaders, LoaderOK, LoaderTypeOK
  <2> QED
    BY <1>1, <2>2, <2>3
       DEF SweepCheck, SweepOK, SweepTypeOK, LoaderOK, LoaderTypeOK, RecordsTypeOK, recordVars
<1>2. CASE SweepLoaded
  <2>1. sweep.cur \in Runs
    BY <1>2 DEF SweepLoaded, SweepAt, SweepOK
  <2>2. sweep' \in Sweep /\ sweep'.pc \in {"idle", "check"}
    BY <1>2, <2>1, ContinueIsSweep DEF SweepLoaded, SweepOK
  <2> QED
    BY <1>2, <2>2
       DEF SweepLoaded, SweepOK, SweepTypeOK, LoaderOK, LoaderTypeOK, RecordsTypeOK, recordVars
<1>3. CASE SweepList
  <2>1. sweep.cur \in Runs
    BY <1>3 DEF SweepList, SweepAt, SweepOK
  <2>2. [r \in Runs |-> kube[r].phase] \in [Runs -> PodPhases \cup {"unlisted"}]
    BY DEF SweepOK, LoaderOK, RecordsTypeOK, Cluster
  <2>3. sweep' \in Sweep /\ sweep'.cur = sweep.cur
    BY <1>3, <2>2 DEF SweepList, SweepOK, SweepTypeOK, Sweep, SweepPcs
  <2> QED
    BY <1>3, <2>1, <2>3
       DEF SweepList, SweepOK, SweepTypeOK, LoaderOK, LoaderTypeOK, RecordsTypeOK, recordVars
<1>4. CASE SweepListError
  <2>1. sweep' \in Sweep /\ sweep'.pc = "idle"
    BY <1>4 DEF SweepListError, NoSweep, Sweep, SweepPcs, Ages, Unlisted
  <2> QED
    BY <1>4, <2>1
       DEF SweepListError, SweepOK, SweepTypeOK, LoaderOK, LoaderTypeOK, RecordsTypeOK, recordVars
<1>5. CASE SweepResolve
  <2> DEFINE r == sweep.cur
             status == IF r \in Resumable THEN "interrupted" ELSE "failed"
  <2>1. r \in Runs /\ RecordsTypeOK
    BY <1>5 DEF SweepResolve, SweepAt, SweepOK, LoaderOK
  <2>2. sweep' \in Sweep /\ sweep'.pc \in {"idle", "check"}
    BY <1>5, <2>1, ContinueIsSweep DEF SweepResolve, SweepOK
  <2>3. status \in Statuses
    BY DEF Statuses, Terminal
  <2>4. Verdict(r) # "none" => Closed(r, status, Verdict(r)) \in Row
    BY <2>1, <2>3, ClosedIsRow DEF Verdict, Reasons
  <2>5. rows' \in [Runs -> Row] /\ opens' \in [Runs -> Nat]
    <3>1. CASE Verdict(r) = "none"
      BY <1>5, <2>1, <3>1 DEF SweepResolve, RecordsTypeOK
    <3>2. CASE Verdict(r) # "none"
      <4>1. UpdateGuarded(r, InProgress, Closed(r, status, Verdict(r)))
        BY <1>5, <3>2 DEF SweepResolve
      <4> QED BY <2>1, <2>4, <3>2, <4>1, UpdateGuardedTypes
    <3> QED BY <3>1, <3>2
  <2> QED
    BY <1>5, <2>2, <2>5
       DEF SweepResolve, SweepOK, SweepTypeOK, LoaderOK, LoaderTypeOK, RecordsTypeOK
<1> QED BY <1>1, <1>2, <1>3, <1>4, <1>5 DEF SweepStep

-----------------------------------------------------------------------------
(* The cluster and the runner. *)

\* What the world does to a run's Job, pod and artifacts keeps them well formed.
LEMMA RunnerTypes ==
    ASSUME RecordsTypeOK, RunnerNext
    PROVE  RecordsTypeOK'
<1>1. PICK r \in Runs :
          \/ PodSpawn(r) \/ PodWait(r) \/ PodRun(r) \/ RunnerStep(r)
          \/ PodFail(r) \/ PodRemoved(r) \/ JobExpire(r)
  BY DEF RunnerNext
<1>2. kube[r] \in Cluster /\ store[r] \in Artifacts /\ WithoutJob(kube[r]) \in Cluster
  BY WithoutJobIsCluster DEF RecordsTypeOK
<1>3. \E k \in Cluster : Kube(r, k)
  BY <1>1, <1>2
     DEF PodSpawn, PodWait, PodRun, RunnerStep, WriteMeta, ToolExit, WriteOutput, WriteResult,
         PodExit, PodFail, PodRemoved, JobExpire, Cluster, PodPhases, LivePhases, DeadPhases,
         RunnerSteps
<1>4. kube' \in [Runs -> Cluster]
  BY <1>3 DEF Kube, RecordsTypeOK
<1>5. UNCHANGED store \/ \E a \in Artifacts : store' = [store EXCEPT ![r] = a]
  <2>1. CASE WriteMeta(r)
    BY <1>2, <2>1 DEF WriteMeta, RecordsTypeOK, Artifacts
  <2>2. CASE WriteOutput(r)
    BY <1>2, <2>2 DEF WriteOutput, RecordsTypeOK, Artifacts
  <2>3. CASE WriteResult(r)
    BY <1>2, <2>3 DEF WriteResult, RecordsTypeOK, Artifacts
  <2> QED
    BY <1>1, <2>1, <2>2, <2>3
       DEF PodSpawn, PodWait, PodRun, RunnerStep, ToolExit, PodExit, PodFail, PodRemoved, JobExpire
<1>6. store' \in [Runs -> Artifacts]
  BY <1>5 DEF RecordsTypeOK
<1>7. UNCHANGED <<rows, notes, opens>>
  BY <1>1 DEF PodSpawn, PodWait, PodRun, RunnerStep, WriteMeta, ToolExit, WriteOutput,
              WriteResult, PodExit, PodFail, PodRemoved, JobExpire
<1> QED BY <1>4, <1>6, <1>7 DEF RecordsTypeOK

-----------------------------------------------------------------------------
(* The whole service. *)

Typed == TypeOK /\ TasksHaveRuns

\* Typed is what the parts keep, put together.
LEMMA TypedParts ==
    Typed <=> ServiceOK /\ WatcherOK /\ SweepOK /\ api \in Process
BY DEF Typed, TypeOK, TasksHaveRuns, ServiceOK, WatcherOK, SweepOK, LoaderOK, LoaderTypeOK

\* The service starts well formed.
LEMMA TypedInitial == Init => Typed
<1> SUFFICES ASSUME Init PROVE Typed
  OBVIOUS
<1>1. RecordsTypeOK
  <2>1. [status |-> "unborn", handle |-> FALSE, fresh |-> FALSE, why |-> "none"] \in Row
    BY DEF Row, Statuses, Missing, Reasons
  <2>2. [job |-> NoJob, secret |-> "none", phase |-> "none", step |-> "over", rc |-> 0] \in Cluster
    BY DEF Cluster, PodPhases, RunnerSteps
  <2>3. [meta |-> FALSE, output |-> FALSE, result |-> "none"] \in Artifacts
    BY DEF Artifacts
  <2>4. [n \in Notices |-> 0] \in [Notices -> Nat]
    OBVIOUS
  <2> QED BY <2>1, <2>2, <2>3, <2>4 DEF Init, RecordsInit, RecordsTypeOK
<1>2. ServiceTypeOK /\ \A q \in Requests : req[q].pc = "idle"
  BY DEF Init, ServiceInit, Idle, ServiceTypeOK, Request, RequestPcs, Kinds
<1>3. LoaderTypeOK /\ \A l \in Loaders : loader[l].pc = "idle"
  BY DEF Init, LoaderInit, NoLoad, LoaderTypeOK, Load, LoaderPcs
<1>4. WatcherTypeOK /\ \A w \in Watchers : watch[w].pc = "idle"
  BY DEF Init, WatcherInit, NoHandler, WatcherTypeOK, Handler, WatchPcs, PodPhases, Reasons
<1>5. SweepTypeOK /\ sweep.pc = "idle"
  BY DEF Init, SweepInit, NoSweep, SweepTypeOK, Sweep, SweepPcs, Ages, Unlisted
<1>6. api \in Process
  BY LifecycleAssumption DEF Init, Process
<1> QED BY <1>1, <1>2, <1>3, <1>4, <1>5, <1>6 DEF Typed, TypeOK, TasksHaveRuns

\* Every step of the service keeps everything well formed.
LEMMA TypedStep == Typed /\ [Next]_vars => Typed'
<1> SUFFICES ASSUME Typed, [Next]_vars PROVE Typed'
  OBVIOUS
<1>1. ServiceOK /\ LoaderOK /\ WatcherOK /\ SweepOK /\ RecordsTypeOK /\ api \in Process
  BY TypedParts DEF WatcherOK, LoaderOK
<1>2. CASE Service
  <2>1. ServiceOK'
    BY <1>1, <1>2, ServiceTypes DEF Service
  <2> QED BY <1>1, <1>2, <2>1 DEF Service, watcherVars, Typed, TypeOK, TasksHaveRuns, ServiceOK,
             LoaderTypeOK, WatcherTypeOK, SweepTypeOK
<1>3. CASE Loader
  <2>1. LoaderOK'
    BY <1>1, <1>3, LoaderTypes DEF Loader, LoaderNext
  <2> QED BY <1>1, <1>3, <2>1 DEF Loader, watcherVars, Typed, TypeOK, TasksHaveRuns, LoaderOK,
             ServiceTypeOK, WatcherTypeOK, SweepTypeOK
<1>4. CASE Watcher
  <2>1. WatcherOK'
    BY <1>1, <1>4, WatcherTypes DEF Watcher
  <2> QED BY <1>1, <1>4, <2>1 DEF Watcher, Typed, TypeOK, TasksHaveRuns, WatcherOK, LoaderOK,
             ServiceTypeOK, SweepTypeOK
<1>5. CASE Reconciler
  <2>1. SweepOK'
    BY <1>1, <1>5, SweepTypes DEF Reconciler
  <2> QED BY <1>1, <1>5, <2>1 DEF Reconciler, watcherVars, Typed, TypeOK, TasksHaveRuns, SweepOK,
             LoaderOK, ServiceTypeOK, WatcherTypeOK
<1>6. CASE World
  <2>1. RecordsTypeOK'
    BY <1>1, <1>6, RunnerTypes DEF World
  <2> QED BY <1>1, <1>6, <2>1 DEF World, watcherVars, Typed, TypeOK, TasksHaveRuns,
             LoaderTypeOK, ServiceTypeOK, WatcherTypeOK, SweepTypeOK
<1>7. CASE PeriodicSweep
  <2>1. SweepOK'
    BY <1>1, <1>7, SweepBeginTypes DEF PeriodicSweep
  <2> QED BY <1>1, <1>7, <2>1 DEF PeriodicSweep, watcherVars, Typed, TypeOK, TasksHaveRuns,
             SweepOK, LoaderOK, ServiceTypeOK, WatcherTypeOK
<1>8. CASE BootSweep
  <2>1. SweepOK'
    BY <1>1, <1>8, SweepBeginTypes DEF BootSweep
  <2>2. api' \in Process
    BY <1>1, <1>8 DEF BootSweep, Process
  <2> QED BY <1>1, <1>8, <2>1, <2>2 DEF BootSweep, watcherVars, Typed, TypeOK, TasksHaveRuns,
             SweepOK, LoaderOK, ServiceTypeOK, WatcherTypeOK
<1>9. CASE Serve
  <2>1. api' \in Process
    BY <1>1, <1>9 DEF Serve, Process
  <2> QED BY <1>1, <1>9, <2>1 DEF Serve, recordVars, watcherVars, Typed, TypeOK, TasksHaveRuns,
             RecordsTypeOK, LoaderTypeOK, ServiceTypeOK, WatcherTypeOK, SweepTypeOK
<1>10. CASE Crash
  <2>1. RecordsTypeOK'
    BY <1>1, <1>10 DEF Crash, recordVars, RecordsTypeOK
  <2>2. ServiceTypeOK' /\ \A q \in Requests : req'[q].pc \in {"idle", "done"}
    BY <1>10 DEF Crash, ServiceTypeOK, Request, RequestPcs, Kinds, Idle, Done
  <2>3. LoaderTypeOK' /\ \A l \in Loaders : loader'[l].pc = "idle"
    BY <1>10 DEF Crash, LoaderTypeOK, Load, LoaderPcs, NoLoad
  <2>4. WatcherTypeOK' /\ \A w \in Watchers : watch'[w].pc = "idle"
    BY <1>10 DEF Crash, WatcherTypeOK, Handler, NoHandler, WatchPcs, PodPhases, Reasons
  <2>5. SweepTypeOK' /\ sweep'.pc = "idle"
    BY <1>10 DEF Crash, NoSweep, SweepTypeOK, Sweep, SweepPcs, Ages, Unlisted
  <2>6. api' \in Process
    BY <1>1, <1>10, LifecycleAssumption DEF Crash, Process
  <2> QED BY <2>1, <2>2, <2>3, <2>4, <2>5, <2>6 DEF Typed, TypeOK, TasksHaveRuns
<1>11. ASSUME NEW r \in Runs, GraceExpires(r) PROVE Typed'
  <2>1. rows' \in [Runs -> Row]
    BY <1>1, <1>11 DEF GraceExpires, RecordsTypeOK, Row
  <2> QED BY <1>11, <2>1 DEF GraceExpires, watcherVars, Typed, TypeOK, TasksHaveRuns,
             RecordsTypeOK, LoaderTypeOK, ServiceTypeOK, WatcherTypeOK, SweepTypeOK
<1>12. CASE UNCHANGED vars
  BY <1>12 DEF vars, recordVars, watcherVars, Typed, TypeOK, TasksHaveRuns,
             RecordsTypeOK, LoaderTypeOK, ServiceTypeOK, WatcherTypeOK, SweepTypeOK
<1> QED
  BY <1>2, <1>3, <1>4, <1>5, <1>6, <1>7, <1>8, <1>9, <1>10, <1>11, <1>12 DEF Next

(* Every variable keeps its type, in particular the status of a row stays    *)
(* one of the nine, and no task in flight has lost the run it works on.      *)
THEOREM TypeCorrect == Spec => []TypeOK
<1>1. Typed => TypeOK
  BY DEF Typed
<1> QED BY <1>1, TypedInitial, TypedStep, PTL DEF Spec

-----------------------------------------------------------------------------
(* Who writes what. *)

\* The API process never touches the artifacts: only the runner writes storage.
LEMMA OnlyRunnerWritesStore ==
    ASSUME [Next]_vars
    PROVE  UNCHANGED store \/ World
<1>1. CASE Service
  <2>1. ASSUME NEW q \in Requests, RequestStep(q) PROVE UNCHANGED store
    BY <2>1 DEF RequestStep, CreateInsert, StartStep, StartReject, StartResolve, CreateSecret,
        CreateJob, RollbackSecret, PatchSecret, MarkSubmitted, MarkFailed, NotifyStartFailed,
        KillJob, MarkCanceled, ResumeClaim, ResumeDeleteRun, DeleteRow, recordVars
  <2>2. ASSUME NEW q \in Requests, NEW r \in Runs,
               CreateCheck(q, r) \/ CancelFind(q, r) \/ ResumeFind(q, r) \/ DeleteFind(q, r)
        PROVE  UNCHANGED store
    BY <2>2 DEF CreateCheck, CancelFind, ResumeFind, DeleteFind, recordVars
  <2> QED BY <1>1, <2>1, <2>2 DEF Service, ServiceNext
<1>2. CASE Loader
  BY <1>2 DEF Loader, LoaderNext, LoaderStep, LoadFind, LoadRead, LoadCommit, NotifyCompleted,
              LoadFail, NotifyLoadFailed, recordVars
<1>3. CASE Watcher
  BY <1>3 DEF Watcher, WatcherNext, WatchStep, PodEvent, PodDeleteEvent, WatchFind, MarkRunning,
              DrainedLoad, DrainedFail, recordVars
<1>4. CASE Reconciler
  BY <1>4 DEF Reconciler, SweepStep, SweepCheck, SweepLoaded, SweepList, SweepListError,
              SweepResolve, recordVars
<1>5. CASE PeriodicSweep \/ BootSweep \/ Serve \/ Crash
  BY <1>5 DEF PeriodicSweep, BootSweep, Serve, Crash, SweepBegin, recordVars
<1>6. ASSUME NEW r \in Runs, GraceExpires(r) PROVE UNCHANGED store
  BY <1>6 DEF GraceExpires
<1>7. CASE UNCHANGED vars
  BY <1>7 DEF vars, recordVars
<1> QED BY <1>1, <1>2, <1>3, <1>4, <1>5, <1>6, <1>7 DEF Next

\* What is in storage stays there.
LEMMA StoreGrows ==
    ASSUME RecordsTypeOK, [Next]_vars, NEW r \in Runs
    PROVE  /\ store[r].meta => store'[r].meta
           /\ store[r].output => store'[r].output
           /\ HasResult(r) => HasResult(r)'
<1>1. CASE UNCHANGED store
  BY <1>1 DEF HasResult
<1>2. CASE World
  BY <1>2 DEF World, RunnerNext, PodSpawn, PodWait, PodRun, RunnerStep, WriteMeta, ToolExit,
              WriteOutput, WriteResult, PodExit, PodFail, PodRemoved, JobExpire, HasResult,
              RecordsTypeOK, Artifacts
<1> QED BY <1>1, <1>2, OnlyRunnerWritesStore

\* The API process leaves a runner where it is, removes it, or replaces it.
LEMMA ServiceLeavesRunner ==
    ASSUME ServiceOK, ServiceNext, NEW r \in Runs
    PROVE  kube'[r].step \in {kube[r].step, "unspawned", "over"}
<1>1. kube[r] \in Cluster
  BY DEF ServiceOK, RecordsTypeOK
<1>2. ASSUME NEW q \in Requests, RequestStep(q)
      PROVE  UNCHANGED kube \/ \E k \in Cluster :
                /\ SetKube(RunOf(q), k)
                /\ k.step \in {kube[RunOf(q)].step, "unspawned", "over"}
  <2> DEFINE s == RunOf(q)
  <2>1. req[q].pc \notin {"idle", "done"} => s \in Runs /\ kube[s] \in Cluster
    BY DEF ServiceOK, RecordsTypeOK, RunOf
  <2> USE DEF At
  <2>2. CASE CreateSecret(q) \/ RollbackSecret(q)
    <3>1. s \in Runs /\ kube[s] \in Cluster
      BY <2>1, <2>2 DEF CreateSecret, RollbackSecret
    <3>2. \E secret \in {"none", "unowned", "owned"} :
              UNCHANGED kube \/ SetKube(s, [kube[s] EXCEPT !.secret = secret])
      BY <2>2, <3>1 DEF CreateSecret, RollbackSecret, Cluster, SetKube
    <3>3. \A secret \in {"none", "unowned", "owned"} :
             /\ [kube[s] EXCEPT !.secret = secret] \in Cluster
             /\ [kube[s] EXCEPT !.secret = secret].step = kube[s].step
      BY <3>1 DEF Cluster
    <3> QED BY <3>2, <3>3
  <2>3. CASE CreateJob(q)
    <3> DEFINE made == [kube[s] EXCEPT !.job = q, !.phase = "none", !.step = "unspawned", !.rc = 0]
    <3>1. kube[s] \in Cluster
      BY <2>1, <2>3 DEF CreateJob
    <3>2. UNCHANGED kube \/ SetKube(s, made)
      BY <2>3 DEF CreateJob
    <3>3. made \in Cluster /\ made.step = "unspawned"
      BY <3>1 DEF Cluster, PodPhases, RunnerSteps
    <3> QED BY <3>2, <3>3
  <2>4. CASE PatchSecret(q)
    BY <2>1, <2>4 DEF PatchSecret, Cluster
  <2>5. CASE KillJob(q)
    <3>1. s \in Runs /\ kube[s] \in Cluster /\ WithoutJob(kube[s]) \in Cluster
      BY <2>1, <2>5, WithoutJobIsCluster DEF KillJob
    <3>2. WithoutJob(kube[s]).step = kube[s].step
      BY <3>1 DEF WithoutJob, Cluster
    <3> QED BY <2>5, <3>1, <3>2 DEF KillJob, Cluster, RunnerSteps
  <2>6. CASE ResumeDeleteRun(q)
    <3>1. s \in Runs /\ kube[s] \in Cluster /\ WithoutJob(kube[s]) \in Cluster
      BY <2>1, <2>6, WithoutJobIsCluster DEF ResumeDeleteRun
    <3> DEFINE gone == [WithoutJob(kube[s]) EXCEPT !.phase = "none", !.step = "over", !.rc = 0]
    <3> DEFINE going == [kube[s] EXCEPT !.step = IF @ = "unspawned" THEN "over" ELSE @]
    <3>2. UNCHANGED kube \/ SetKube(s, kube[s]) \/ SetKube(s, gone) \/ SetKube(s, going)
      BY <2>6 DEF ResumeDeleteRun
    <3>3. gone \in Cluster /\ gone.step = "over"
      BY <3>1 DEF Cluster, PodPhases, RunnerSteps
    <3>4. going \in Cluster /\ going.step \in {"over", kube[s].step}
      BY <3>1 DEF Cluster, RunnerSteps
    <3> HIDE DEF gone, going
    <3> QED BY <3>1, <3>2, <3>3, <3>4
  <2>7. CASE \/ CreateInsert(q) \/ StartReject(q) \/ StartResolve(q) \/ MarkSubmitted(q)
             \/ MarkFailed(q) \/ NotifyStartFailed(q) \/ MarkCanceled(q) \/ ResumeClaim(q)
             \/ DeleteRow(q)
    BY <2>7 DEF CreateInsert, StartReject, StartResolve, MarkSubmitted, MarkFailed,
        NotifyStartFailed, MarkCanceled, ResumeClaim, DeleteRow, recordVars
  <2> QED
    BY <1>2, <2>2, <2>3, <2>4, <2>5, <2>6, <2>7 DEF RequestStep, StartStep
<1>3. ASSUME NEW q \in Requests, NEW s \in Runs,
             CreateCheck(q, s) \/ CancelFind(q, s) \/ ResumeFind(q, s) \/ DeleteFind(q, s)
      PROVE  UNCHANGED kube
  BY <1>3 DEF CreateCheck, CancelFind, ResumeFind, DeleteFind, recordVars
<1>4. UNCHANGED kube \/ \E s \in {RunOf(q) : q \in Requests}, k \in Cluster :
          /\ kube' = [kube EXCEPT ![s] = k]
          /\ k.step \in {kube[s].step, "unspawned", "over"}
  BY <1>2, <1>3 DEF ServiceNext, SetKube
<1> QED BY <1>1, <1>4 DEF ServiceOK, RecordsTypeOK

-----------------------------------------------------------------------------
(* The runner writes its artifacts in order. *)

RunnerInv == RunnerInOrder /\ SentinelIsLast

\* Only the runner and the service move kube.
LEMMA RunnerInvStep ==
    ASSUME Typed, RunnerInv, [Next]_vars
    PROVE  RunnerInv'
<1>1. RecordsTypeOK /\ ServiceOK
  BY TypedParts DEF ServiceOK
<1>2. CASE World
  <2>1. PICK r \in Runs :
            \/ PodSpawn(r) \/ PodWait(r) \/ PodRun(r) \/ RunnerStep(r)
            \/ PodFail(r) \/ PodRemoved(r) \/ JobExpire(r)
    BY <1>2 DEF World, RunnerNext
  <2>2. kube[r] \in Cluster /\ store[r] \in Artifacts /\ WithoutJob(kube[r]) \in Cluster
    BY <1>1, WithoutJobIsCluster DEF RecordsTypeOK
  <2>3. WithoutJob(kube[r]).step = kube[r].step
    BY <2>2 DEF WithoutJob, Cluster
  <2>4. ASSUME NEW s \in Runs, s # r PROVE kube'[s] = kube[s] /\ store'[s] = store[s]
    BY <1>1, <2>1, <2>4
       DEF RecordsTypeOK, Kube, PodSpawn, PodWait, PodRun, RunnerStep, WriteMeta, ToolExit,
           WriteOutput, WriteResult, PodExit, PodFail, PodRemoved, JobExpire
  <2>5. /\ kube'[r].step \in {"tool", "upload", "sentinel", "exit"} => store'[r].meta
        /\ kube'[r].step \in {"sentinel", "exit"} => store'[r].output
        /\ store'[r].result # "none" => store'[r].meta /\ store'[r].output
    <3>0. /\ kube[r].step \in {"tool", "upload", "sentinel", "exit"} => store[r].meta
          /\ kube[r].step \in {"sentinel", "exit"} => store[r].output
          /\ store[r].result # "none" => store[r].meta /\ store[r].output
      BY DEF RunnerInv, RunnerInOrder, SentinelIsLast, HasResult
    <3>1. CASE PodSpawn(r) \/ PodWait(r) \/ PodRun(r)
      <4>1. kube'[r].step \in {kube[r].step, "meta"}
        BY <1>1, <2>2, <3>1 DEF PodSpawn, PodWait, PodRun, Kube, RecordsTypeOK, Cluster
      <4> QED BY <3>0, <3>1, <4>1 DEF PodSpawn, PodWait, PodRun
    <3>2. CASE WriteMeta(r)
      <4>1. kube'[r].step = "tool" /\ store'[r] = [store[r] EXCEPT !.meta = TRUE]
        BY <1>1, <2>2, <3>2 DEF WriteMeta, Kube, RecordsTypeOK, Cluster
      <4>2. /\ store'[r].meta /\ store'[r].output = store[r].output
            /\ store'[r].result = store[r].result
        BY <2>2, <4>1 DEF Artifacts
      <4> QED BY <3>0, <4>1, <4>2
    <3>3. CASE ToolExit(r) \/ PodExit(r)
      <4>1. CASE ToolExit(r)
        <5>1. PICK rc \in {0, 1} : kube'[r] = [kube[r] EXCEPT !.step = "upload", !.rc = rc]
          BY <1>1, <4>1 DEF ToolExit, Kube, RecordsTypeOK
        <5>2. kube[r].step = "tool" /\ kube'[r].step = "upload"
          BY <2>2, <4>1, <5>1 DEF ToolExit, Cluster
        <5> QED BY <3>0, <4>1, <5>2 DEF ToolExit
      <4>2. CASE PodExit(r)
        <5>1. \E phase : kube'[r] = [kube[r] EXCEPT !.phase = phase, !.step = "over", !.rc = 0]
          BY <1>1, <4>2 DEF PodExit, Kube, RecordsTypeOK
        <5>2. kube'[r].step = "over"
          BY <2>2, <5>1 DEF Cluster
        <5> QED BY <3>0, <4>2, <5>2 DEF PodExit
      <4> QED BY <3>3, <4>1, <4>2
    <3>4. CASE WriteOutput(r)
      <4>1. /\ kube[r].step = "upload" /\ kube'[r].step = "sentinel"
            /\ store'[r] = [store[r] EXCEPT !.output = TRUE]
        BY <1>1, <2>2, <3>4 DEF WriteOutput, Kube, RecordsTypeOK, Cluster
      <4>2. /\ store'[r].output /\ store'[r].meta = store[r].meta
        BY <2>2, <4>1 DEF Artifacts
      <4> QED BY <3>0, <4>1, <4>2
    <3>5. CASE WriteResult(r)
      <4>1. /\ kube[r].step = "sentinel"
            /\ \E res : store'[r] = [store[r] EXCEPT !.result = res]
        BY <1>1, <3>5 DEF WriteResult, RecordsTypeOK
      <4>2. store'[r].output = store[r].output /\ store'[r].meta = store[r].meta
        BY <2>2, <4>1 DEF Artifacts
      <4> QED BY <3>0, <4>1, <4>2
    <3>6. CASE PodFail(r) \/ PodRemoved(r)
      <4>0. \E phase : kube'[r] = [kube[r] EXCEPT !.phase = phase, !.step = "over", !.rc = 0]
        BY <1>1, <3>6 DEF PodFail, PodRemoved, Kube, RecordsTypeOK
      <4>1. kube'[r].step = "over"
        BY <2>2, <4>0 DEF Cluster
      <4> QED BY <3>0, <3>6, <4>1 DEF PodFail, PodRemoved
    <3>7. CASE JobExpire(r)
      <4>1. kube'[r].step = kube[r].step
        BY <1>1, <2>2, <2>3, <3>7 DEF JobExpire, Kube, RecordsTypeOK, Cluster
      <4> QED BY <3>0, <3>7, <4>1 DEF JobExpire
    <3> QED BY <2>1, <3>1, <3>2, <3>3, <3>4, <3>5, <3>6, <3>7 DEF RunnerStep
  <2> QED BY <2>4, <2>5 DEF RunnerInv, RunnerInOrder, SentinelIsLast, HasResult
<1>3. CASE Service
  <2>1. UNCHANGED store \/ World
    BY OnlyRunnerWritesStore
  <2>2. \A r \in Runs : kube'[r].step \in {kube[r].step, "unspawned", "over"}
    BY <1>1, <1>3, ServiceLeavesRunner DEF Service
  <2> QED
    BY <1>2, <2>1, <2>2 DEF RunnerInv, RunnerInOrder, SentinelIsLast, HasResult
<1>4. ASSUME UNCHANGED <<kube, store>> PROVE RunnerInv'
  BY <1>4 DEF RunnerInv, RunnerInOrder, SentinelIsLast, HasResult
<1>5. CASE Loader
  BY <1>4, <1>5 DEF Loader, LoaderNext, LoaderStep, LoadFind, LoadRead, LoadCommit,
                    NotifyCompleted, LoadFail, NotifyLoadFailed, recordVars
<1>6. CASE Watcher
  BY <1>4, <1>6 DEF Watcher, WatcherNext, WatchStep, PodEvent, PodDeleteEvent, WatchFind,
                    MarkRunning, DrainedLoad, DrainedFail, recordVars
<1>7. CASE Reconciler
  BY <1>4, <1>7 DEF Reconciler, SweepStep, SweepCheck, SweepLoaded, SweepList, SweepListError,
                    SweepResolve, recordVars
<1>8. CASE PeriodicSweep \/ BootSweep \/ Serve \/ Crash
  BY <1>4, <1>8 DEF PeriodicSweep, BootSweep, Serve, Crash, SweepBegin, recordVars
<1>9. ASSUME NEW r \in Runs, GraceExpires(r) PROVE RunnerInv'
  BY <1>4, <1>9 DEF GraceExpires
<1>10. CASE UNCHANGED vars
  BY <1>4, <1>10 DEF vars, recordVars
<1> QED
  BY <1>2, <1>3, <1>5, <1>6, <1>7, <1>8, <1>9, <1>10 DEF Next

(* Whoever finds result.json finds every other artifact of the run, after    *)
(* any crash of the runner and any resume (main.py writes it last).          *)
THEOREM SentinelLast == Spec => []SentinelIsLast
<1>1. Init => RunnerInv
  BY DEF Init, RecordsInit, RunnerInv, RunnerInOrder, SentinelIsLast, HasResult
<1>2. Typed /\ RunnerInv /\ [Next]_vars => RunnerInv'
  BY RunnerInvStep
<1>3. RunnerInv => SentinelIsLast
  BY DEF RunnerInv
<1> QED BY <1>1, <1>2, <1>3, TypedInitial, TypedStep, PTL DEF Spec

-----------------------------------------------------------------------------
(* Who completes a run. *)

\* A background task that finds the row closed leaves it alone.
LEMMA GuardedWrite ==
    ASSUME RecordsTypeOK, NEW s \in Runs, NEW row, NEW allowed \in SUBSET InProgress,
           UpdateGuarded(s, allowed, row)
    PROVE  \A r \in Runs : rows'[r] = rows[r] \/ (r = s /\ Active(r) /\ rows'[r] = row)
BY DEF UpdateGuarded, SetRow, RecordsTypeOK, Active

\* A loader changes the row of its own run only, and only while in progress.
LEMMA LoaderWrites ==
    ASSUME LoaderOK, NEW l \in Loaders, LoaderStep(l), NEW r \in Runs, rows'[r] # rows[r]
    PROVE  /\ loader[l].run = r /\ Active(r)
           /\ \/ Loading(l, "commit") /\ rows'[r] = Closed(r, "completed", "none")
              \/ Loading(l, "fail") /\ rows'[r] = Closed(r, "failed", "reportLoad")
<1>1. RecordsTypeOK
  BY DEF LoaderOK
<1>2. CASE LoadCommit(l)
  <2>1. loader[l].run \in Runs
    BY <1>2 DEF LoadCommit, Loading, LoaderOK
  <2>2. UpdateGuarded(loader[l].run, InProgress, Closed(loader[l].run, "completed", "none"))
    BY <1>2 DEF LoadCommit
  <2> QED BY <1>1, <1>2, <2>1, <2>2, GuardedWrite DEF LoadCommit
<1>3. CASE LoadFail(l)
  <2>1. loader[l].run \in Runs
    BY <1>3 DEF LoadFail, Loading, LoaderOK
  <2>2. UpdateGuarded(loader[l].run, InProgress, Closed(loader[l].run, "failed", "reportLoad"))
    BY <1>3 DEF LoadFail
  <2> QED BY <1>1, <1>3, <2>1, <2>2, GuardedWrite DEF LoadFail
<1> QED
  BY <1>2, <1>3 DEF LoaderStep, LoadFind, LoadRead, NotifyCompleted, NotifyLoadFailed, recordVars

\* The watcher changes rows in progress only, and completes none.
LEMMA WatcherWrites ==
    ASSUME WatcherOK, WatcherNext, NEW r \in Runs, rows'[r] # rows[r]
    PROVE  Active(r) /\ rows'[r].status # "completed"
<1>1. RecordsTypeOK /\ rows[r] \in Row
  BY DEF WatcherOK, LoaderOK, RecordsTypeOK
<1>2. PICK w \in Watchers : MarkRunning(w) \/ DrainedFail(w)
  BY DEF WatcherNext, WatchStep, PodEvent, PodDeleteEvent, WatchFind, DrainedLoad, recordVars
<1>3. watch[w].run \in Runs
  BY <1>2 DEF MarkRunning, DrainedFail, WatcherOK
<1>4. CASE MarkRunning(w)
  <2>1. PICK fresh \in BOOLEAN :
          UpdateGuarded(watch[w].run, {"submitted"},
              [rows[watch[w].run] EXCEPT !.status = "running", !.fresh = fresh])
    BY <1>4 DEF MarkRunning
  <2>2. Active(r) /\ rows'[r] = [rows[r] EXCEPT !.status = "running", !.fresh = fresh]
    <3>1. {"submitted"} \in SUBSET InProgress
      BY DEF InProgress
    <3>2. /\ r = watch[w].run /\ Active(r)
          /\ rows'[r] = [rows[watch[w].run] EXCEPT !.status = "running", !.fresh = fresh]
      BY <1>1, <1>3, <2>1, <3>1, GuardedWrite
    <3> QED BY <3>2
  <2> QED BY <1>1, <2>2 DEF Row
<1>5. CASE DrainedFail(w)
  <2>1. UpdateGuarded(watch[w].run, InProgress, Closed(watch[w].run, "failed", watch[w].why))
    BY <1>5 DEF DrainedFail
  <2>2. Active(r) /\ rows'[r] = Closed(r, "failed", watch[w].why)
    BY <1>1, <1>3, <2>1, GuardedWrite
  <2> QED BY <1>1, <2>2 DEF Row, Closed
<1> QED BY <1>2, <1>4, <1>5

\* The reconciler changes rows in progress only, and completes none itself.
LEMMA SweepWrites ==
    ASSUME SweepOK, SweepStep, NEW r \in Runs, rows'[r] # rows[r]
    PROVE  Active(r) /\ rows'[r].status # "completed"
<1>1. RecordsTypeOK /\ rows[r] \in Row
  BY DEF SweepOK, LoaderOK, RecordsTypeOK
<1>2. SweepResolve
  BY DEF SweepStep, SweepCheck, SweepLoaded, SweepList, SweepListError, recordVars
<1>3. sweep.cur \in Runs
  BY <1>2 DEF SweepResolve, SweepAt, SweepOK
<1>4. PICK status \in {"interrupted", "failed"} :
         UpdateGuarded(sweep.cur, InProgress, Closed(sweep.cur, status, Verdict(sweep.cur)))
  BY <1>2 DEF SweepResolve
<1>5. Active(r) /\ rows'[r] = Closed(r, status, Verdict(r))
  BY <1>1, <1>3, <1>4, GuardedWrite
<1> QED BY <1>1, <1>5 DEF Row, Closed

\* Every step of an API call moves the call on, and completes no run.
LEMMA ServiceWrites ==
    ASSUME ServiceOK, ServiceNext
    PROVE  /\ req' # req
           /\ \A r \in Runs : rows'[r] # rows[r] => rows'[r].status # "completed"
<1> USE DEF At
<1>1. \A q \in Requests : req[q] \in Request
  BY DEF ServiceOK, ServiceTypeOK
<1>2. ASSUME NEW q \in Requests, NEW pc, Goto(q, pc), req[q].pc # pc PROVE req' # req
  BY <1>1, <1>2 DEF Goto, ServiceOK, ServiceTypeOK, Request
<1>3. ASSUME NEW q \in Requests, Return(q), req[q].pc # "done" PROVE req' # req
  BY <1>3 DEF Return, Done, ServiceOK, ServiceTypeOK
<1>4. ASSUME NEW q \in Requests, NEW r \in Runs,
             CreateCheck(q, r) \/ CancelFind(q, r) \/ ResumeFind(q, r) \/ DeleteFind(q, r)
      PROVE  req' # req /\ UNCHANGED rows
  BY <1>4 DEF CreateCheck, CancelFind, ResumeFind, DeleteFind, Begin, recordVars, ServiceOK,
              ServiceTypeOK
<1>5. ASSUME NEW q \in Requests, RequestStep(q) PROVE req' # req
  <2>1. CASE StartStep(q)
    BY <1>2, <1>3, <2>1
       DEF StartStep, StartReject, StartResolve, CreateSecret, CreateJob, RollbackSecret,
           PatchSecret, MarkSubmitted, MarkFailed, NotifyStartFailed
  <2>2. CASE ~StartStep(q)
    BY <1>2, <1>3, <1>5, <2>2
       DEF RequestStep, CreateInsert, KillJob, MarkCanceled, ResumeClaim, ResumeDeleteRun, DeleteRow
  <2> QED BY <2>1, <2>2
<1>6. ASSUME NEW q \in Requests, RequestStep(q), NEW r \in Runs, rows'[r] # rows[r]
      PROVE  rows'[r].status # "completed"
  <2> DEFINE s == RunOf(q)
  <2>1. ASSUME NEW row, SetRow(s, row), row.status # "completed" PROVE rows'[r].status # "completed"
    BY <1>6, <2>1 DEF SetRow, ServiceOK, RecordsTypeOK
  <2>2. req[q].pc \notin {"idle", "done"} => s \in Runs /\ rows[s] \in Row
    BY DEF ServiceOK, RecordsTypeOK, RunOf
  <2>3. CASE CreateInsert(q)
    BY <2>1, <2>3 DEF CreateInsert
  <2>4. CASE MarkSubmitted(q)
    <3>1. [rows[s] EXCEPT !.status = "submitted", !.handle = TRUE, !.fresh = TRUE].status = "submitted"
      BY <2>2, <2>4 DEF MarkSubmitted, Row
    <3> QED BY <1>6, <2>1, <2>4, <3>1 DEF MarkSubmitted, Update
  <2>5. CASE MarkFailed(q) \/ MarkCanceled(q)
    <3>1. \A why : Closed(s, "failed", why).status = "failed" /\ Closed(s, "canceled", why).status = "canceled"
      BY <2>2, <2>5 DEF MarkFailed, MarkCanceled, Closed, Row
    <3> QED BY <1>6, <2>1, <2>5, <3>1 DEF MarkFailed, MarkCanceled, Update
  <2>6. CASE ResumeClaim(q)
    <3>1. [rows[s] EXCEPT !.status = "pending", !.fresh = TRUE, !.why = "none"].status = "pending"
      BY <2>2, <2>6 DEF ResumeClaim, Row
    <3> QED BY <1>6, <2>1, <2>6, <3>1 DEF ResumeClaim, UpdateGuarded
  <2>7. CASE DeleteRow(q)
    BY <1>6, <2>1, <2>7 DEF DeleteRow, Update
  <2>8. CASE \/ StartReject(q) \/ StartResolve(q) \/ CreateSecret(q) \/ CreateJob(q)
             \/ RollbackSecret(q) \/ PatchSecret(q) \/ NotifyStartFailed(q)
             \/ KillJob(q) \/ ResumeDeleteRun(q)
    BY <1>6, <2>8 DEF StartReject, StartResolve, CreateSecret, CreateJob, RollbackSecret,
        PatchSecret, NotifyStartFailed, KillJob, ResumeDeleteRun, recordVars
  <2> QED BY <1>6, <2>3, <2>4, <2>5, <2>6, <2>7, <2>8 DEF RequestStep, StartStep
<1> QED BY <1>4, <1>5, <1>6 DEF ServiceNext

-----------------------------------------------------------------------------
\* A step that changes a closed row is a step of an API call.
LEMMA BackgroundBacksOffStep ==
    ASSUME Typed, [Next]_vars, NEW r \in Runs, rows[r].status \in Terminal, rows'[r] # rows[r]
    PROVE  req' # req
<1>1. ServiceOK /\ LoaderOK /\ WatcherOK /\ SweepOK
  BY TypedParts DEF WatcherOK
<1>2. ~Active(r)
  BY DEF Active, InProgress, Terminal
<1>3. CASE Service
  BY <1>1, <1>3, ServiceWrites DEF Service
<1>4. CASE Loader
  BY <1>1, <1>2, <1>4, LoaderWrites DEF Loader, LoaderNext
<1>5. CASE Watcher
  BY <1>1, <1>2, <1>5, WatcherWrites DEF Watcher
<1>6. CASE Reconciler
  BY <1>1, <1>2, <1>6, SweepWrites DEF Reconciler
<1>7. CASE World
  BY <1>7 DEF World, RunnerNext, PodSpawn, PodWait, PodRun, RunnerStep, WriteMeta, ToolExit,
              WriteOutput, WriteResult, PodExit, PodFail, PodRemoved, JobExpire
<1>8. CASE PeriodicSweep \/ BootSweep \/ Serve \/ Crash
  BY <1>8 DEF PeriodicSweep, BootSweep, Serve, Crash, SweepBegin, recordVars
<1>9. ASSUME NEW s \in Runs, GraceExpires(s) PROVE FALSE
  <2>1. s # r
    BY <1>2, <1>9 DEF GraceExpires
  <2> QED BY <1>1, <1>9, <2>1 DEF GraceExpires, ServiceOK, RecordsTypeOK
<1>10. CASE UNCHANGED vars
  BY <1>10 DEF vars, recordVars
<1> QED BY <1>3, <1>4, <1>5, <1>6, <1>7, <1>8, <1>9, <1>10 DEF Next

(* No watcher, loader or sweep ever rewrites a row that was closed under it: *)
(* after a stale read, updateGuarded writes nothing.                         *)
THEOREM BackgroundSafe == Spec => BackgroundBacksOff
<1>1. Typed /\ [Next]_vars => [\A r \in Runs :
         rows[r].status \in Terminal /\ rows'[r] # rows[r] => req' # req]_vars
  BY BackgroundBacksOffStep
<1> QED BY <1>1, TypedInitial, TypedStep, PTL DEF Spec, BackgroundBacksOff

-----------------------------------------------------------------------------
CompletedInv == LoaderSawReport /\ CompletedHasReport

\* Only a loader that saw a report completes a run, and reports do not go away.
LEMMA CompletedInvStep ==
    ASSUME Typed, SentinelIsLast, CompletedInv, [Next]_vars
    PROVE  CompletedInv'
<1> DEFINE Reported(r) == store'[r].meta /\ store'[r].output /\ store'[r].result # "none"
<1>1. ServiceOK /\ LoaderOK /\ WatcherOK /\ SweepOK /\ RecordsTypeOK
  BY TypedParts DEF WatcherOK, LoaderOK
<1>2. \A r \in Runs : HasReport(r) => Reported(r)
  BY <1>1, StoreGrows DEF HasReport, HasResult
<1>3. ASSUME NEW l \in Loaders, loader'[l].pc = "commit"
      PROVE  Reported(loader'[l].run)
  <2>1. ASSUME UNCHANGED loader PROVE Reported(loader'[l].run)
    <3>1. loader[l].run \in Runs
      BY <1>1, <1>3, <2>1 DEF LoaderOK
    <3> QED BY <1>2, <1>3, <2>1, <3>1 DEF CompletedInv, LoaderSawReport
  <2>2. ASSUME NEW m \in Loaders, LoaderStep(m) PROVE Reported(loader'[l].run)
    <3>1. CASE m = l
      <4>1. LoadRead(l) /\ Advance(l, "commit")
        BY <1>1, <1>3, <2>2, <3>1
           DEF LoaderStep, LoadFind, LoadRead, LoadCommit, NotifyCompleted, LoadFail,
               NotifyLoadFailed, Advance, Finish, NoLoad, LoaderOK, LoaderTypeOK, Load
      <4>2. loader'[l].run = loader[l].run /\ loader[l].run \in Runs
        BY <1>1, <4>1 DEF LoadRead, Loading, Advance, LoaderOK, LoaderTypeOK, Load
      <4>3. HasReport(loader[l].run) /\ UNCHANGED store
        BY <1>1, <1>3, <4>1 DEF LoadRead, Advance, LoaderOK, LoaderTypeOK, Load, HasReport,
                          HasResult, recordVars
      <4> QED BY <1>2, <4>2, <4>3
    <3>2. CASE m # l
      <4>1. loader'[l] = loader[l]
        BY <1>1, <2>2, <3>2
           DEF LoaderStep, LoadFind, LoadRead, LoadCommit, NotifyCompleted, LoadFail,
               NotifyLoadFailed, Advance, Finish, LoaderOK, LoaderTypeOK
      <4>2. loader[l].run \in Runs
        BY <1>1, <1>3, <4>1 DEF LoaderOK
      <4> QED BY <1>2, <1>3, <4>1, <4>2 DEF CompletedInv, LoaderSawReport
    <3> QED BY <3>1, <3>2
  <2>3. ASSUME NEW m \in Loaders, NEW r \in Runs, TryLoad(m, r) PROVE Reported(loader'[l].run)
    <3>1. l # m /\ loader'[l] = loader[l]
      BY <1>1, <1>3, <2>3 DEF TryLoad, LoaderOK, LoaderTypeOK
    <3>2. loader[l].run \in Runs
      BY <1>1, <1>3, <3>1 DEF LoaderOK
    <3> QED BY <1>2, <1>3, <3>1, <3>2 DEF CompletedInv, LoaderSawReport
  <2>4. CASE Loader
    BY <2>2, <2>4 DEF Loader, LoaderNext
  <2>5. CASE Watcher
    <3>1. UNCHANGED loader \/ \E w \in Watchers : TryLoad(w, watch[w].run) /\ watch[w].run \in Runs
      BY <1>1, <2>5 DEF Watcher, WatcherNext, WatchStep, PodEvent, PodDeleteEvent, WatchFind,
                        MarkRunning, DrainedLoad, DrainedFail, WatcherOK
    <3> QED BY <2>1, <2>3, <3>1 DEF Loaders
  <2>6. CASE Reconciler
    <3>1. UNCHANGED loader \/ \E r \in Runs : TryLoad(Sweeper, r)
      BY <2>6 DEF Reconciler, SweepStep, SweepCheck, SweepLoaded, SweepList, SweepListError,
                  SweepResolve
    <3> QED BY <2>1, <2>3, <3>1 DEF Loaders
  <2>7. CASE Crash
    BY <1>3, <2>7 DEF Crash, NoLoad
  <2>8. CASE Service \/ World \/ PeriodicSweep \/ BootSweep \/ Serve \/ UNCHANGED vars
    BY <2>1, <2>8 DEF Service, World, PeriodicSweep, BootSweep, Serve, SweepBegin, vars
  <2>9. ASSUME NEW r \in Runs, GraceExpires(r) PROVE UNCHANGED loader
    BY <2>9 DEF GraceExpires
  <2> QED BY <2>1, <2>4, <2>5, <2>6, <2>7, <2>8, <2>9 DEF Next
<1>4. ASSUME NEW r \in Runs, rows'[r].status = "completed" PROVE Reported(r)
  <2>1. CASE rows[r].status = "completed"
    BY <1>2, <2>1 DEF CompletedInv, CompletedHasReport
  <2>2. CASE rows[r].status # "completed"
    <3>1. rows'[r] # rows[r]
      BY <1>4, <2>2
    <3>2. CASE Loader
      <4>1. PICK l \in Loaders : LoaderStep(l)
        BY <3>2 DEF Loader, LoaderNext
      <4>2. loader[l].run = r /\ (Loading(l, "commit") \/ rows'[r] = Closed(r, "failed", "reportLoad"))
        BY <1>1, <3>1, <4>1, LoaderWrites
      <4>3. Closed(r, "failed", "reportLoad").status = "failed"
        BY <1>1 DEF Closed, RecordsTypeOK, Row
      <4> QED BY <1>2, <1>4, <4>2, <4>3 DEF CompletedInv, LoaderSawReport, Loading
    <3>3. CASE Service
      BY <1>1, <1>4, <3>1, <3>3, ServiceWrites DEF Service
    <3>4. CASE Watcher
      BY <1>1, <1>4, <3>1, <3>4, WatcherWrites DEF Watcher
    <3>5. CASE Reconciler
      BY <1>1, <1>4, <3>1, <3>5, SweepWrites DEF Reconciler
    <3>6. CASE World
      BY <3>1, <3>6 DEF World, RunnerNext, PodSpawn, PodWait, PodRun, RunnerStep, WriteMeta,
          ToolExit, WriteOutput, WriteResult, PodExit, PodFail, PodRemoved, JobExpire
    <3>7. CASE PeriodicSweep \/ BootSweep \/ Serve \/ Crash \/ UNCHANGED vars
      BY <3>1, <3>7 DEF PeriodicSweep, BootSweep, Serve, Crash, SweepBegin, recordVars, vars
    <3>8. ASSUME NEW s \in Runs, GraceExpires(s) PROVE FALSE
      <4>1. rows'[r].status = rows[r].status
        BY <1>1, <3>8 DEF GraceExpires, RecordsTypeOK, Row
      <4> QED BY <1>4, <2>2, <4>1
    <3> QED BY <3>2, <3>3, <3>4, <3>5, <3>6, <3>7, <3>8 DEF Next
  <2> QED BY <2>1, <2>2
<1> QED BY <1>3, <1>4 DEF CompletedInv, LoaderSawReport, CompletedHasReport, HasReport, HasResult

(* A completed run has its whole report in storage, whoever loaded it and    *)
(* however often it was resumed (report-loader.ts reads before it commits).  *)
THEOREM CompletedReport == Spec => []CompletedHasReport
<1>1. Init => CompletedInv
  <2> SUFFICES ASSUME Init PROVE CompletedInv
    OBVIOUS
  <2>1. \A l \in Loaders : loader[l].pc = "idle"
    BY DEF Init, LoaderInit, NoLoad
  <2>2. \A r \in Runs : rows[r].status = "unborn"
    BY DEF Init, RecordsInit
  <2> QED BY <2>1, <2>2 DEF CompletedInv, LoaderSawReport, CompletedHasReport
<1>2. Typed /\ SentinelIsLast /\ CompletedInv /\ [Next]_vars => CompletedInv'
  BY CompletedInvStep
<1>3. CompletedInv => CompletedHasReport
  BY DEF CompletedInv
<1> QED BY <1>1, <1>2, <1>3, SentinelLast, TypedInitial, TypedStep, PTL DEF Spec

(* The invariant the runs check for the whole service, from its parts.       *)
THEOREM LifecycleSafe == Spec => []LifecycleInv
<1>1. Init => RunnerInv
  BY DEF Init, RecordsInit, RunnerInv, RunnerInOrder, SentinelIsLast, HasResult
<1>2. Typed /\ RunnerInv /\ [Next]_vars => RunnerInv'
  BY RunnerInvStep
<1>3. Init => CompletedInv
  BY DEF Init, LoaderInit, NoLoad, RecordsInit, CompletedInv, LoaderSawReport, CompletedHasReport
<1>4. Typed /\ SentinelIsLast /\ CompletedInv /\ [Next]_vars => CompletedInv'
  BY CompletedInvStep
<1>5. RunnerInv => SentinelIsLast
  BY DEF RunnerInv
<1>6. Typed /\ RunnerInv /\ CompletedInv => LifecycleInv
  BY DEF Typed, RunnerInv, CompletedInv, LifecycleInv
<1> QED BY <1>1, <1>2, <1>3, <1>4, <1>5, <1>6, TypedInitial, TypedStep, PTL DEF Spec

-----------------------------------------------------------------------------
(* Watcher and reconciler agree on what a dead pod means, whatever they saw. *)
\* What a dead or vanished pod leaves in a row, by the kind of the run.
FitsKind(r, row) ==
    /\ row.status = "interrupted" => r \in Resumable
    /\ row.status = "failed" /\ row.why \in {"podFailed", "noResult", "podGone"}
          => r \notin Resumable

\* A handler that is about to fail a run for its dead pod has looked at the kind
\* of the run before it waited for the log to drain.
DrainFits ==
    \A w \in Watchers :
        watch[w].pc = "drainFail" =>
            \/ watch[w].why = "preStart"
            \/ watch[w].why = "podFailed" /\ watch[w].run \notin Resumable

VerdictInv == PodDeathVerdict /\ DrainFits

\* A write of a row that fits its kind keeps the table so.
LEMMA FittingWrite ==
    ASSUME RecordsTypeOK, PodDeathVerdict, NEW r \in Runs, NEW row, FitsKind(r, row),
           NEW allowed, SetRow(r, row) \/ Update(r, row) \/ UpdateGuarded(r, allowed, row)
    PROVE  PodDeathVerdict'
<1>1. CASE SetRow(r, row)
  BY <1>1 DEF SetRow, RecordsTypeOK, PodDeathVerdict, FitsKind
<1>2. CASE UNCHANGED rows
  BY <1>2 DEF PodDeathVerdict
<1> QED BY <1>1, <1>2 DEF Update, UpdateGuarded

\* A closed row says what it was closed with.
LEMMA ClosedSays ==
    ASSUME RecordsTypeOK, NEW r \in Runs, NEW status, NEW why
    PROVE  Closed(r, status, why).status = status /\ Closed(r, status, why).why = why
BY DEF Closed, RecordsTypeOK, Row

-----------------------------------------------------------------------------
\* No API call interrupts a run, or fails it for a dead pod.
LEMMA ServiceVerdict ==
    ASSUME ServiceOK, ServiceNext, PodDeathVerdict
    PROVE  PodDeathVerdict'
<1>1. RecordsTypeOK
  BY DEF ServiceOK
<1>2. CASE UNCHANGED rows
  BY <1>2 DEF PodDeathVerdict
<1>3. ASSUME NEW q \in Requests,
             \/ CreateInsert(q) \/ MarkSubmitted(q) \/ MarkFailed(q)
             \/ MarkCanceled(q) \/ ResumeClaim(q) \/ DeleteRow(q)
      PROVE  PodDeathVerdict'
  <2>1. PICK r \in Runs : r = RunOf(q)
    BY <1>3 DEF CreateInsert, MarkSubmitted, MarkFailed, MarkCanceled, ResumeClaim, DeleteRow,
                At, RunOf, ServiceOK
  <2>2. rows[r] \in Row
    BY <1>1 DEF RecordsTypeOK
  <2>3. CASE CreateInsert(q)
    <3>1. FitsKind(r, [status |-> "pending", handle |-> FALSE, fresh |-> TRUE, why |-> "none"])
      BY DEF FitsKind
    <3> QED BY <1>1, <2>1, <2>3, <3>1, FittingWrite DEF CreateInsert
  <2>4. CASE MarkSubmitted(q)
    <3>1. FitsKind(r, [rows[r] EXCEPT !.status = "submitted", !.handle = TRUE, !.fresh = TRUE])
      BY <2>2 DEF FitsKind, Row
    <3> QED BY <1>1, <1>2, <2>1, <2>4, <3>1, FittingWrite DEF MarkSubmitted
  <2>5. CASE MarkFailed(q)
    <3>1. FitsKind(r, Closed(r, "failed", "startError"))
      BY <1>1, ClosedSays DEF FitsKind
    <3> QED BY <1>1, <1>2, <2>1, <2>5, <3>1, FittingWrite DEF MarkFailed
  <2>6. CASE MarkCanceled(q)
    <3>1. FitsKind(r, Closed(r, "canceled", rows[r].why))
      BY <1>1, ClosedSays DEF FitsKind
    <3> QED BY <1>1, <1>2, <2>1, <2>6, <3>1, FittingWrite DEF MarkCanceled
  <2>7. CASE ResumeClaim(q)
    <3>1. FitsKind(r, [rows[r] EXCEPT !.status = "pending", !.fresh = TRUE, !.why = "none"])
      BY <2>2 DEF FitsKind, Row
    <3> QED BY <1>1, <2>1, <2>7, <3>1, FittingWrite DEF ResumeClaim
  <2>8. CASE DeleteRow(q)
    <3>1. FitsKind(r, [status |-> "deleted", handle |-> FALSE, fresh |-> FALSE, why |-> "none"])
      BY DEF FitsKind
    <3> QED BY <1>1, <1>2, <2>1, <2>8, <3>1, FittingWrite DEF DeleteRow
  <2> QED BY <1>3, <2>3, <2>4, <2>5, <2>6, <2>7, <2>8
<1> QED BY <1>2, <1>3
        DEF ServiceNext, RequestStep, StartStep, StartReject, StartResolve, CreateSecret, CreateJob,
            RollbackSecret, PatchSecret, NotifyStartFailed, KillJob, ResumeDeleteRun, CreateCheck,
            CancelFind, ResumeFind, DeleteFind, recordVars

\* A loader completes a run, or fails it for its report.
LEMMA LoaderVerdict ==
    ASSUME LoaderOK, NEW l \in Loaders, LoaderStep(l), PodDeathVerdict
    PROVE  PodDeathVerdict'
<1>1. RecordsTypeOK
  BY DEF LoaderOK
<1>2. CASE UNCHANGED rows
  BY <1>2 DEF PodDeathVerdict
<1>3. CASE LoadCommit(l) \/ LoadFail(l)
  <2>1. PICK r \in Runs : r = loader[l].run
    BY <1>3 DEF LoadCommit, LoadFail, Loading, LoaderOK
  <2>2. FitsKind(r, Closed(r, "completed", "none")) /\ FitsKind(r, Closed(r, "failed", "reportLoad"))
    BY <1>1, ClosedSays DEF FitsKind
  <2> QED BY <1>1, <1>3, <2>1, <2>2, FittingWrite DEF LoadCommit, LoadFail
<1> QED BY <1>2, <1>3 DEF LoaderStep, LoadFind, LoadRead, NotifyCompleted, NotifyLoadFailed, recordVars

\* A handler leaves the dead pod of a resumable run to the reconciler, and what
\* it read of the run's kind cannot change while it waits.
LEMMA WatcherVerdict ==
    ASSUME WatcherOK, WatcherNext, VerdictInv
    PROVE  VerdictInv'
<1>1. RecordsTypeOK /\ watch \in [Watchers -> Handler]
  BY DEF WatcherOK, LoaderOK, WatcherTypeOK
<1>2. PodDeathVerdict'
  <2>1. CASE UNCHANGED rows
    BY <2>1 DEF VerdictInv, PodDeathVerdict
  <2>2. ASSUME NEW w \in Watchers, MarkRunning(w) \/ DrainedFail(w) PROVE PodDeathVerdict'
    <3>1. PICK r \in Runs : r = watch[w].run
      BY <2>2 DEF MarkRunning, DrainedFail, WatcherOK
    <3>2. rows[r] \in Row /\ watch[w] \in Handler
      BY <1>1 DEF RecordsTypeOK
    <3>3. CASE MarkRunning(w)
      <4>1. PICK fresh \in BOOLEAN :
               UpdateGuarded(r, {"submitted"},
                             [rows[r] EXCEPT !.status = "running", !.fresh = fresh])
        BY <3>1, <3>3 DEF MarkRunning
      <4>2. FitsKind(r, [rows[r] EXCEPT !.status = "running", !.fresh = fresh])
        BY <3>2 DEF FitsKind, Row
      <4> QED BY <1>1, <4>1, <4>2, FittingWrite DEF VerdictInv
    <3>4. CASE DrainedFail(w)
      <4>1. watch[w].why \in {"podFailed", "noResult", "podGone"} => r \notin Resumable
        BY <3>1, <3>4 DEF DrainedFail, VerdictInv, DrainFits
      <4>2. FitsKind(r, Closed(r, "failed", watch[w].why))
        BY <1>1, <4>1, ClosedSays DEF FitsKind
      <4> QED BY <1>1, <3>1, <3>4, <4>2, FittingWrite DEF DrainedFail, VerdictInv
    <3> QED BY <2>2, <3>3, <3>4
  <2> QED BY <2>1, <2>2 DEF WatcherNext, WatchStep, PodEvent, PodDeleteEvent, WatchFind, DrainedLoad,
             recordVars
<1>3. DrainFits'
  <2>1. CASE UNCHANGED watch
    BY <2>1 DEF VerdictInv, DrainFits
  <2>2. ASSUME NEW w \in Watchers, NEW r \in Runs, PodEvent(w, r) PROVE DrainFits'
    BY <1>1, <2>2 DEF PodEvent, VerdictInv, DrainFits
  <2>3. ASSUME NEW w \in Watchers, HandlerDone(w) PROVE DrainFits'
    BY <1>1, <2>3 DEF HandlerDone, NoHandler, VerdictInv, DrainFits
  <2>4. ASSUME NEW w \in Watchers, NEW pc, NEW why, Then(w, pc, why),
               pc = "drainFail" =>
                   why = "preStart" \/ (why = "podFailed" /\ watch[w].run \notin Resumable)
        PROVE  DrainFits'
    BY <1>1, <2>4 DEF Then, VerdictInv, DrainFits, Handler
  <2>5. ASSUME NEW w \in Watchers, WatchFind(w) PROVE DrainFits'
    BY <2>3, <2>4, <2>5 DEF WatchFind
  <2> QED BY <2>1, <2>2, <2>3, <2>5 DEF WatcherNext, WatchStep, PodDeleteEvent, MarkRunning, DrainedLoad,
             DrainedFail
<1> QED BY <1>2, <1>3 DEF VerdictInv

\* A sweep asks for the kind of the run when it writes.
LEMMA SweepVerdict ==
    ASSUME SweepOK, SweepStep, PodDeathVerdict
    PROVE  PodDeathVerdict'
<1>1. RecordsTypeOK
  BY DEF SweepOK, LoaderOK
<1>2. CASE UNCHANGED rows
  BY <1>2 DEF PodDeathVerdict
<1>3. CASE SweepResolve
  <2>1. PICK r \in Runs : r = sweep.cur
    BY <1>3 DEF SweepResolve, SweepAt, SweepOK
  <2> DEFINE status == IF r \in Resumable THEN "interrupted" ELSE "failed"
  <2>2. FitsKind(r, Closed(r, status, Verdict(r)))
    BY <1>1, ClosedSays DEF FitsKind
  <2>3. UNCHANGED rows \/ UpdateGuarded(r, InProgress, Closed(r, status, Verdict(r)))
    BY <1>3, <2>1 DEF SweepResolve
  <2> QED BY <1>1, <1>2, <2>2, <2>3, FittingWrite
<1> QED BY <1>2, <1>3 DEF SweepStep, SweepCheck, SweepLoaded, SweepList, SweepListError, recordVars

-----------------------------------------------------------------------------
\* No step of the service breaks the agreement.
LEMMA VerdictInvStep ==
    ASSUME Typed, VerdictInv, [Next]_vars
    PROVE  VerdictInv'
<1>1. ServiceOK /\ LoaderOK /\ WatcherOK /\ SweepOK /\ RecordsTypeOK
  BY TypedParts DEF WatcherOK, LoaderOK
<1>2. CASE UNCHANGED <<rows, watch>>
  BY <1>2 DEF VerdictInv, PodDeathVerdict, DrainFits
<1>3. ASSUME UNCHANGED watch PROVE DrainFits'
  BY <1>3 DEF VerdictInv, DrainFits
<1>4. CASE Service
  BY <1>1, <1>3, <1>4, ServiceVerdict DEF Service, watcherVars, VerdictInv
<1>5. CASE Loader
  BY <1>1, <1>3, <1>5, LoaderVerdict DEF Loader, LoaderNext, watcherVars, VerdictInv
<1>6. CASE Watcher
  BY <1>1, <1>6, WatcherVerdict DEF Watcher
<1>7. CASE Reconciler
  BY <1>1, <1>3, <1>7, SweepVerdict DEF Reconciler, watcherVars, VerdictInv
<1>8. CASE World
  <2>1. UNCHANGED <<rows, watch>>
    BY <1>8 DEF World, RunnerNext, PodSpawn, PodWait, PodRun, RunnerStep, WriteMeta, ToolExit,
       WriteOutput, WriteResult, PodExit, PodFail, PodRemoved, JobExpire, watcherVars
  <2> QED BY <1>2, <2>1
<1>9. CASE PeriodicSweep \/ BootSweep \/ Serve
  BY <1>2, <1>9 DEF PeriodicSweep, BootSweep, Serve, SweepBegin, recordVars, watcherVars
<1>10. CASE Crash
  BY <1>10 DEF Crash, NoHandler, recordVars, VerdictInv, PodDeathVerdict, DrainFits
<1>11. ASSUME NEW r \in Runs, GraceExpires(r) PROVE VerdictInv'
  <2>1. \A s \in Runs : rows'[s].status = rows[s].status /\ rows'[s].why = rows[s].why
    BY <1>1, <1>11 DEF GraceExpires, RecordsTypeOK, Row
  <2> QED BY <1>3, <1>11, <2>1 DEF GraceExpires, watcherVars, VerdictInv, PodDeathVerdict
<1>12. CASE UNCHANGED vars
  BY <1>2, <1>12 DEF vars, recordVars, watcherVars
<1> QED BY <1>4, <1>5, <1>6, <1>7, <1>8, <1>9, <1>10, <1>11, <1>12 DEF Next

(* A run with checkpoints is never failed for a dead or vanished pod, and a  *)
(* run without them is never left interrupted, whichever of watcher and      *)
(* reconciler decides and however old what it saw of the pod.                *)
THEOREM PodDeathAgreed == Spec => []PodDeathVerdict
<1>1. Init => VerdictInv
  BY DEF Init, RecordsInit, WatcherInit, NoHandler, VerdictInv, PodDeathVerdict, DrainFits
<1>2. Typed /\ VerdictInv /\ [Next]_vars => VerdictInv'
  BY VerdictInvStep
<1>3. VerdictInv => PodDeathVerdict
  BY DEF VerdictInv
<1> QED BY <1>1, <1>2, <1>3, TypedInitial, TypedStep, PTL DEF Spec

-----------------------------------------------------------------------------
(* The service implements the ledger. *)

LedgerProofs == INSTANCE VerdictLedgerProofs
                  WITH Announcers <- Loaders, open <- IsOpen, opened <- opens,
                       due <- Owed, announced <- Given

LedgerMove == Ledger!Next \/ UNCHANGED <<IsOpen, opens, Owed, Given>>

-----------------------------------------------------------------------------
(* What the ledger sees of the steps the service is made of. *)

\* One SQL statement: nothing, or one row.
OneRow == UNCHANGED <<rows, opens>> \/ \E r \in Runs : SetRow(r, rows'[r])

\* Both kinds of write are of one row, if any.
LEMMA WriteIsOneRow ==
    ASSUME RecordsTypeOK, NEW r \in Runs, NEW row, NEW allowed,
           SetRow(r, row) \/ Update(r, row) \/ UpdateGuarded(r, allowed, row)
    PROVE  OneRow
<1>1. CASE SetRow(r, row)
  BY <1>1 DEF SetRow, RecordsTypeOK, OneRow
<1> QED BY <1>1 DEF Update, UpdateGuarded, OneRow

\* To the ledger, a write of one row opens a run, closes it silently, or is
\* nothing.
LEMMA OneRowMoves ==
    ASSUME RecordsTypeOK, OneRow, UNCHANGED <<Owed, Given>>
    PROVE  LedgerMove
<1>1. CASE UNCHANGED <<rows, opens>>
  BY <1>1 DEF IsOpen, Active, LedgerMove
<1>2. ASSUME NEW r \in Runs, SetRow(r, rows'[r]) PROVE LedgerMove
  <2>1. IsOpen' = [IsOpen EXCEPT ![r] = rows'[r].status \in InProgress]
    BY <1>2 DEF SetRow, RecordsTypeOK, IsOpen, Active
  <2>2. IsOpen[r] = Active(r) /\ opens \in [Runs -> Nat]
    BY DEF IsOpen, RecordsTypeOK
  <2>3. Active(r) \in BOOLEAN /\ IsOpen \in [Runs -> BOOLEAN]
    BY DEF Active, IsOpen
  <2>4. CASE rows'[r].status \in InProgress /\ ~Active(r)
    <3>1. opens' = [opens EXCEPT ![r] = @ + 1]
      BY <1>2, <2>2, <2>4 DEF SetRow
    <3>2. Ledger!Open(r)
      BY <2>1, <2>2, <2>4, <3>1 DEF Ledger!Open
    <3> QED BY <3>2 DEF Ledger!Next, LedgerMove
  <2>5. CASE rows'[r].status \notin InProgress /\ Active(r)
    <3>1. opens' = opens
      BY <1>2, <2>2, <2>5 DEF SetRow
    <3>2. (rows'[r].status \in InProgress) = FALSE
      BY <2>5
    <3>3. IsOpen' = [IsOpen EXCEPT ![r] = FALSE]
      BY <2>1, <3>2, Zenon
    <3>4. Ledger!CloseSilently(r)
      BY <2>2, <2>5, <3>1, <3>3 DEF Ledger!CloseSilently
    <3> QED BY <3>4 DEF Ledger!Next, LedgerMove
  <2>6. CASE (rows'[r].status \in InProgress) = Active(r)
    <3>1. opens' = opens
      BY <1>2, <2>2, <2>6 DEF SetRow
    <3>2. IsOpen' = IsOpen
      BY <2>1, <2>2, <2>3, <2>6
    <3> QED BY <3>1, <3>2 DEF LedgerMove
  <2> QED BY <2>3, <2>4, <2>5, <2>6
<1> QED BY <1>1, <1>2 DEF OneRow

\* A step that at most forgets who owes a notice is a loss to the ledger.
LEMMA ForgettingMoves ==
    ASSUME UNCHANGED <<rows, opens, notes>>,
           \A r \in Runs : Announcing(r)' \subseteq Announcing(r)
    PROVE  LedgerMove
<1>1. UNCHANGED <<IsOpen, opens, Given>>
  BY DEF IsOpen, Active, Given
<1>2. Owed' \in [Runs -> SUBSET Loaders] /\ \A r \in Runs : Owed'[r] \subseteq Owed[r]
  BY DEF Owed, Announcing
<1>3. Ledger!Lose
  BY <1>1, <1>2 DEF Ledger!Lose
<1> QED BY <1>3 DEF Ledger!Next, LedgerMove

\* While no loader moves, what is owed stays the same.
LEMMA LoaderStays ==
    ASSUME UNCHANGED loader
    PROVE  UNCHANGED Owed
BY DEF Owed, Announcing

\* Likewise what was given, while no notification is written.
LEMMA NotesStay ==
    ASSUME UNCHANGED notes
    PROVE  UNCHANGED Given
BY DEF Given

-----------------------------------------------------------------------------
(* The components. *)

\* An API call opens or closes one run at a time and gives no verdict.
LEMMA ServiceMoves ==
    ASSUME ServiceOK, ServiceNext, UNCHANGED loader
    PROVE  LedgerMove
<1>1. RecordsTypeOK
  BY DEF ServiceOK
<1>2. OneRow /\ UNCHANGED Given
  <2>1. ASSUME NEW q \in Requests, RequestStep(q) PROVE OneRow /\ UNCHANGED Given
    <3>1. RunOf(q) \in Runs
      BY <2>1 DEF RequestStep, StartStep, CreateInsert, StartReject, StartResolve, CreateSecret,
         CreateJob, RollbackSecret, PatchSecret, MarkSubmitted, MarkFailed, NotifyStartFailed,
         KillJob, MarkCanceled, ResumeClaim, ResumeDeleteRun, DeleteRow, At, RunOf, ServiceOK
    <3>2. CASE \/ CreateInsert(q) \/ MarkSubmitted(q) \/ MarkFailed(q)
               \/ MarkCanceled(q) \/ ResumeClaim(q) \/ DeleteRow(q)
      <4>1. OneRow
        BY <1>1, <3>1, <3>2, WriteIsOneRow
           DEF CreateInsert, MarkSubmitted, MarkFailed, MarkCanceled, ResumeClaim, DeleteRow, OneRow
      <4> QED BY <3>2, <4>1, NotesStay
                 DEF CreateInsert, MarkSubmitted, MarkFailed, MarkCanceled, ResumeClaim, DeleteRow
    <3>3. CASE NotifyStartFailed(q)
      <4>1. /\ \A r \in Runs : \A n \in Notices \ {"startFailed"} : notes'[r][n] = notes[r][n]
            /\ UNCHANGED <<rows, opens>>
        BY <1>1, <3>1, <3>3 DEF NotifyStartFailed, Emit, RecordsTypeOK, Notices
      <4> QED BY <4>1 DEF OneRow, Given, Notices
    <3>4. CASE \/ StartReject(q) \/ StartResolve(q) \/ CreateSecret(q) \/ CreateJob(q)
               \/ RollbackSecret(q) \/ PatchSecret(q) \/ KillJob(q) \/ ResumeDeleteRun(q)
      <4>1. UNCHANGED <<rows, opens, notes>>
        BY <3>4 DEF StartReject, StartResolve, CreateSecret, CreateJob, RollbackSecret,
                    PatchSecret, KillJob, ResumeDeleteRun, recordVars
      <4> QED BY <4>1, NotesStay DEF OneRow
    <3> QED BY <2>1, <3>2, <3>3, <3>4 DEF RequestStep, StartStep
  <2>2. ASSUME NEW q \in Requests, NEW r \in Runs,
               CreateCheck(q, r) \/ CancelFind(q, r) \/ ResumeFind(q, r) \/ DeleteFind(q, r)
        PROVE  OneRow /\ UNCHANGED Given
    <3>1. UNCHANGED <<rows, opens, notes>>
      BY <2>2 DEF CreateCheck, CancelFind, ResumeFind, DeleteFind, recordVars
    <3> QED BY <3>1, NotesStay DEF OneRow
  <2> QED BY <2>1, <2>2 DEF ServiceNext
<1> QED BY <1>1, <1>2, LoaderStays, OneRowMoves

\* A tryLoad call closes its run and owes the notice, or gives it, or neither.
LEMMA LoaderMoves ==
    ASSUME LoaderOK, NEW l \in Loaders, LoaderStep(l)
    PROVE  LedgerMove
<1>1. RecordsTypeOK /\ loader \in [Loaders -> Load]
  BY DEF LoaderOK, LoaderTypeOK
<1>2. PICK r \in Runs : r = loader[l].run
  BY DEF LoaderOK, LoaderStep, LoadFind, LoadRead, LoadCommit, NotifyCompleted, LoadFail,
         NotifyLoadFailed, Loading
<1>3. ASSUME Finish(l) \/ \E pc \in {"read", "commit", "fail"} : Advance(l, pc)
      PROVE  \A s \in Runs : Announcing(s)' \subseteq Announcing(s)
  BY <1>1, <1>3 DEF Finish, Advance, NoLoad, Announcing, Load
<1>4. CASE LoadFind(l) \/ LoadRead(l)
  BY <1>2, <1>3, <1>4, ForgettingMoves DEF LoadFind, LoadRead, recordVars
<1>5. ASSUME NEW status \in Terminal, NEW why, NEW pc \in {"notify", "notifyFailed"},
             l \notin Announcing(r),
             UpdateGuarded(r, InProgress, Closed(r, status, why)),
             IF Active(r) THEN Advance(l, pc) ELSE Finish(l),
             UNCHANGED notes
      PROVE  LedgerMove
  <2>1. CASE Active(r)
    <3>1. rows' = [rows EXCEPT ![r] = Closed(r, status, why)] /\ opens' = opens
      <4>1. Closed(r, status, why).status = status
        BY <1>1, <1>2 DEF Closed, RecordsTypeOK, Row
      <4>2. status \notin InProgress
        BY DEF Terminal, InProgress
      <4> QED BY <1>1, <1>2, <1>5, <2>1, <4>1, <4>2
                 DEF UpdateGuarded, SetRow, Active, RecordsTypeOK
    <3>2. IsOpen' = [IsOpen EXCEPT ![r] = FALSE]
      <4>1. Closed(r, status, why).status \notin InProgress
        BY <1>1, <1>2 DEF Closed, RecordsTypeOK, Row, Terminal, InProgress
      <4>2. Active(r)' = FALSE /\ \A s \in Runs \ {r} : Active(s)' = Active(s)
        BY <1>1, <1>2, <3>1, <4>1 DEF Active, RecordsTypeOK
      <4> QED BY <4>2 DEF IsOpen
    <3>3. loader' = [loader EXCEPT ![l].pc = pc]
      BY <1>5, <2>1 DEF Advance
    <3>4. Owed' = [Owed EXCEPT ![r] = @ \cup {l}]
      <4>1. Announcing(r)' = Announcing(r) \cup {l}
        BY <1>1, <1>2, <3>3 DEF Announcing, Load
      <4>2. \A s \in Runs \ {r} : Announcing(s)' = Announcing(s)
        BY <1>1, <1>2, <3>3 DEF Announcing, Load
      <4> QED BY <1>2, <4>1, <4>2 DEF Owed
    <3>5. IsOpen[r] /\ l \notin Owed[r] /\ UNCHANGED Given
      BY <1>2, <1>5, <2>1, NotesStay DEF IsOpen, Owed
    <3>6. Ledger!Close(r, l)
      BY <3>1, <3>2, <3>4, <3>5 DEF Ledger!Close
    <3> QED BY <1>2, <3>6 DEF Ledger!Next, LedgerMove
  <2>2. CASE ~Active(r)
    <3>1. UNCHANGED <<rows, opens, notes>>
      BY <1>5, <2>2 DEF UpdateGuarded, Active
    <3> QED BY <1>3, <1>5, <2>2, <3>1, ForgettingMoves
  <2> QED BY <2>1, <2>2
<1>6. CASE LoadCommit(l)
  <2>1. l \notin Announcing(r)
    BY <1>6 DEF LoadCommit, Loading, Announcing
  <2> QED BY <1>2, <1>5, <1>6, <2>1 DEF LoadCommit, Terminal
<1>7. CASE LoadFail(l)
  <2>1. l \notin Announcing(r)
    BY <1>7 DEF LoadFail, Loading, Announcing
  <2> QED BY <1>2, <1>5, <1>7, <2>1 DEF LoadFail, Terminal
<1>8. ASSUME NEW n \in {"completed", "reportFailed"}, l \in Announcing(r), Emit(r, n), Finish(l),
             UNCHANGED <<rows, opens>>
      PROVE  LedgerMove
  <2>1. Given' = [Given EXCEPT ![r] = @ + 1]
    <3>1. \A s \in Runs : notes[s] \in [Notices -> Nat]
      BY <1>1 DEF RecordsTypeOK
    <3>2. \A s \in Runs : notes'[s] = IF s = r THEN [notes[s] EXCEPT ![n] = @ + 1] ELSE notes[s]
      BY <1>1, <1>2, <1>8 DEF Emit, RecordsTypeOK
    <3>3. notes'[r].completed + notes'[r].reportFailed
             = notes[r].completed + notes[r].reportFailed + 1
      <4>1. notes[r].completed \in Nat /\ notes[r].reportFailed \in Nat
        BY <3>1 DEF Notices
      <4>2. /\ notes'[r].completed = IF n = "completed" THEN notes[r].completed + 1
                                                        ELSE notes[r].completed
            /\ notes'[r].reportFailed = IF n = "reportFailed" THEN notes[r].reportFailed + 1
                                                              ELSE notes[r].reportFailed
        BY <3>1, <3>2 DEF Notices
      <4> QED BY <4>1, <4>2
    <3> QED BY <1>2, <3>2, <3>3 DEF Given
  <2>2. Owed' = [Owed EXCEPT ![r] = @ \ {l}]
    <3>1. Announcing(r)' = Announcing(r) \ {l}
      BY <1>1, <1>2, <1>8 DEF Announcing, Finish, NoLoad, Load
    <3>2. \A s \in Runs \ {r} : Announcing(s)' = Announcing(s)
      BY <1>1, <1>2, <1>8 DEF Announcing, Finish, NoLoad, Load
    <3> QED BY <1>2, <3>1, <3>2 DEF Owed
  <2>3. l \in Owed[r] /\ UNCHANGED IsOpen
    BY <1>2, <1>8 DEF Owed, IsOpen, Active
  <2>4. Ledger!Announce(r, l)
    BY <1>8, <2>1, <2>2, <2>3 DEF Ledger!Announce
  <2> QED BY <1>2, <2>4 DEF Ledger!Next, LedgerMove
<1>9. CASE NotifyCompleted(l)
  <2>1. l \in Announcing(r)
    BY <1>2, <1>9 DEF NotifyCompleted, Loading, Announcing
  <2>2. CASE Emit(r, "completed") /\ Finish(l)
    BY <1>8, <1>9, <2>1, <2>2 DEF NotifyCompleted
  <2>3. CASE UNCHANGED notes /\ Advance(l, "fail")
    BY <1>3, <1>9, <2>3, ForgettingMoves DEF NotifyCompleted
  <2> QED BY <1>2, <1>9, <2>2, <2>3 DEF NotifyCompleted
<1>10. CASE NotifyLoadFailed(l)
  <2>1. l \in Announcing(r)
    BY <1>2, <1>10 DEF NotifyLoadFailed, Loading, Announcing
  <2>2. CASE Emit(r, "reportFailed")
    BY <1>8, <1>10, <2>1, <2>2 DEF NotifyLoadFailed
  <2>3. CASE UNCHANGED notes
    BY <1>3, <1>10, <2>3, ForgettingMoves DEF NotifyLoadFailed
  <2> QED BY <1>2, <1>10, <2>2, <2>3 DEF NotifyLoadFailed
<1> QED BY <1>4, <1>6, <1>7, <1>9, <1>10 DEF LoaderStep

\* A new tryLoad call owes nothing yet.
LEMMA TryLoadMoves ==
    ASSUME LoaderOK, NEW l \in Loaders, NEW r \in Runs, TryLoad(l, r), UNCHANGED recordVars
    PROVE  LedgerMove
<1>1. \A s \in Runs : Announcing(s)' \subseteq Announcing(s)
  BY DEF LoaderOK, LoaderTypeOK, TryLoad, Announcing
<1> QED BY <1>1, ForgettingMoves DEF recordVars

\* A handler writes one row, starts a load, or changes nothing here.
LEMMA WatcherMoves ==
    ASSUME WatcherOK, WatcherNext
    PROVE  LedgerMove
<1>1. LoaderOK /\ RecordsTypeOK
  BY DEF WatcherOK, LoaderOK
<1>2. CASE UNCHANGED <<recordVars, loader>>
  BY <1>2, ForgettingMoves DEF recordVars, Announcing
<1>3. ASSUME NEW w \in Watchers, MarkRunning(w) \/ DrainedFail(w) PROVE LedgerMove
  <2>1. watch[w].run \in Runs
    BY <1>3 DEF MarkRunning, DrainedFail, WatcherOK
  <2>2. OneRow
    BY <1>1, <1>3, <2>1, WriteIsOneRow DEF MarkRunning, DrainedFail
  <2> QED BY <1>1, <1>3, <2>2, OneRowMoves, LoaderStays, NotesStay DEF MarkRunning, DrainedFail
<1>4. ASSUME NEW w \in Watchers, DrainedLoad(w) PROVE LedgerMove
  <2>1. watch[w].run \in Runs
    BY <1>4 DEF DrainedLoad, WatcherOK
  <2> QED BY <1>1, <1>4, <2>1, TryLoadMoves DEF DrainedLoad, Loaders
<1> QED BY <1>2, <1>3, <1>4 DEF WatcherNext, WatchStep, PodEvent, PodDeleteEvent, WatchFind

\* So does a step of a sweep.
LEMMA SweepMoves ==
    ASSUME SweepOK, SweepStep
    PROVE  LedgerMove
<1>1. LoaderOK /\ RecordsTypeOK
  BY DEF SweepOK, LoaderOK
<1>2. CASE UNCHANGED <<recordVars, loader>>
  BY <1>2, ForgettingMoves DEF recordVars, Announcing
<1>3. ASSUME NEW r \in Runs, SweepCheck(r) PROVE LedgerMove
  BY <1>1, <1>2, <1>3, TryLoadMoves DEF SweepCheck, Loaders
<1>4. CASE SweepResolve
  <2>1. sweep.cur \in Runs
    BY <1>4 DEF SweepResolve, SweepAt, SweepOK
  <2>2. OneRow
    BY <1>1, <1>4, <2>1, WriteIsOneRow DEF SweepResolve, OneRow
  <2> QED BY <1>1, <1>4, <2>2, OneRowMoves, LoaderStays, NotesStay DEF SweepResolve
<1> QED BY <1>2, <1>3, <1>4 DEF SweepStep, SweepLoaded, SweepList, SweepListError

-----------------------------------------------------------------------------
\* The service starts with an empty ledger.
LEMMA LedgerStarts == Init => Ledger!Init
<1> SUFFICES ASSUME Init PROVE Ledger!Init
  OBVIOUS
<1>1. \A r \in Runs : Active(r) = FALSE
  BY DEF Init, RecordsInit, Active, InProgress
<1>2. \A r \in Runs : Announcing(r) = {}
  BY DEF Init, LoaderInit, NoLoad, Announcing
<1>3. \A r \in Runs : notes[r].completed + notes[r].reportFailed = 0
  BY DEF Init, RecordsInit, Notices
<1>4. opens = [r \in Runs |-> 0]
  BY DEF Init, RecordsInit
<1>5. IsOpen = [r \in Runs |-> FALSE]
  BY <1>1 DEF IsOpen
<1>6. Owed = [r \in Runs |-> {}] /\ Given = [r \in Runs |-> 0]
  BY <1>2, <1>3 DEF Owed, Given
<1> QED BY <1>4, <1>5, <1>6 DEF Ledger!Init

\* Every step of the service is a step of the ledger, or nothing to it.
LEMMA LedgerFollows ==
    ASSUME Typed, [Next]_vars
    PROVE  LedgerMove
<1>1. ServiceOK /\ LoaderOK /\ WatcherOK /\ SweepOK /\ RecordsTypeOK
  BY TypedParts DEF WatcherOK, LoaderOK
<1>2. CASE UNCHANGED <<rows, opens, notes, loader>>
  BY <1>2, ForgettingMoves DEF Announcing
<1>3. CASE Service
  BY <1>1, <1>3, ServiceMoves DEF Service
<1>4. CASE Loader
  BY <1>1, <1>4, LoaderMoves DEF Loader, LoaderNext
<1>5. CASE Watcher
  BY <1>1, <1>5, WatcherMoves DEF Watcher
<1>6. CASE Reconciler
  BY <1>1, <1>6, SweepMoves DEF Reconciler
<1>7. CASE World
  <2>1. UNCHANGED <<rows, opens, notes, loader>>
    BY <1>7 DEF World, RunnerNext, PodSpawn, PodWait, PodRun, RunnerStep, WriteMeta, ToolExit,
       WriteOutput, WriteResult, PodExit, PodFail, PodRemoved, JobExpire
  <2> QED BY <1>2, <2>1
<1>8. CASE PeriodicSweep \/ BootSweep \/ Serve
  BY <1>2, <1>8 DEF PeriodicSweep, BootSweep, Serve, SweepBegin, recordVars
<1>9. CASE Crash
  <2>1. \A r \in Runs : Announcing(r)' = {}
    BY <1>9 DEF Crash, NoLoad, Announcing
  <2> QED BY <1>9, <2>1, ForgettingMoves DEF Crash, recordVars
<1>10. ASSUME NEW r \in Runs, GraceExpires(r) PROVE LedgerMove
  <2>1. IsOpen' = IsOpen
    BY <1>1, <1>10 DEF GraceExpires, IsOpen, Active, RecordsTypeOK, Row
  <2> QED BY <1>10, <2>1, LoaderStays, NotesStay DEF GraceExpires, LedgerMove
<1>11. CASE UNCHANGED vars
  BY <1>2, <1>11 DEF vars, recordVars
<1> QED BY <1>3, <1>4, <1>5, <1>6, <1>7, <1>8, <1>9, <1>10, <1>11 DEF Next

(* The service implements the ledger: every behaviour of API calls, handlers,*)
(* loaders, sweeps and crashes is one of runs opened, closed, and announced  *)
(* by the task that closed them.                                             *)
THEOREM ServiceKeepsLedger == Spec => LedgerImplemented
<1>1. Typed /\ [Next]_vars => [Ledger!Next]_(Ledger!ledger)
  BY LedgerFollows DEF LedgerMove, Ledger!ledger
<1> QED BY <1>1, LedgerStarts, TypedInitial, TypedStep, PTL DEF Spec, LedgerImplemented, Ledger!Spec

\* The ledger the proofs are about is the ledger the service implements.
LEMMA OneLedger ==
    /\ Ledger!Init => LedgerProofs!Init
    /\ Ledger!Next => LedgerProofs!Next
    /\ LedgerProofs!ledger = Ledger!ledger
BY DEF Ledger!Init, LedgerProofs!Init, Ledger!Next, LedgerProofs!Next, Ledger!ledger,
       LedgerProofs!ledger, Ledger!Open, LedgerProofs!Open, Ledger!CloseSilently,
       LedgerProofs!CloseSilently, Ledger!Close, LedgerProofs!Close, Ledger!Announce,
       LedgerProofs!Announce, Ledger!Lose, LedgerProofs!Lose

(* A run is announced at most once for each time it was opened, whoever      *)
(* races for its report: what the ledger promises, read back as the service. *)
THEOREM OneVerdict == Spec => []OneVerdictPerOpening
<1>1. IsFiniteSet(Loaders)
  BY LoaderAssumption, FS_Union, FS_Singleton DEF Loaders
<1>2. IsFiniteSet(Loaders) <=> LedgerProofs!IsFiniteSet(Loaders)
  BY DEF IsFiniteSet, LedgerProofs!IsFiniteSet
<1>3. LedgerProofs!Spec => []LedgerProofs!NoticesBounded
  BY <1>1, <1>2, LedgerProofs!LedgerBounded
<1>4. \A S : LedgerProofs!Cardinality(S) = Cardinality(S)
  BY DEF LedgerProofs!Cardinality, Cardinality
<1>5. LedgerProofs!NoticesBounded => OneVerdictPerOpening
  BY <1>4 DEF LedgerProofs!NoticesBounded, OneVerdictPerOpening, IsOpen, Owed, Given
<1>6. [Ledger!Next]_(Ledger!ledger) => [LedgerProofs!Next]_(LedgerProofs!ledger)
  BY OneLedger DEF Ledger!ledger, LedgerProofs!ledger
<1> QED BY <1>3, <1>5, <1>6, OneLedger, ServiceKeepsLedger, PTL
        DEF LedgerImplemented, Ledger!Spec, LedgerProofs!Spec

-----------------------------------------------------------------------------
(* What a sweep knows of a run is younger than its launch: a row that a       *)
(* sweep holds on its list is neither interrupted nor not yet created, since  *)
(* only the sweep itself interrupts rows, and drops them as it does.          *)

\* The statuses that a launch starts from.
Startable == {"unborn", "interrupted"}

ListedInv ==
    /\ sweep.boot => api.phase = "bootSweep" /\ sweep.pc # "idle"
    /\ \A r \in sweep.todo : sweep.snap[r] # "out"
    /\ sweep.pc \in {"list", "resolve"} => sweep.cur \in sweep.todo
    /\ \A r \in Runs : sweep.snap[r] # "out" => rows[r].status \notin Startable

CallsWhenUp == ~Up => \A q \in Requests : req[q].pc \in {"idle", "done"}

\* Only the sweep blames a pod that is gone.
HandlersBlame == \A w \in Watchers : watch[w].why # "podGone"

SweepInv == ListedInv /\ CallsWhenUp /\ HandlersBlame

\* A row that becomes neither startable nor an orphan.
QuietRow(r) ==
    /\ rows'[r].status \in Startable => rows'[r].status = rows[r].status
    /\ rows'[r].why = "podGone" => rows[r].why = "podGone"

\* Nothing about the rows changes.
LEMMA StillRows == ASSUME UNCHANGED rows PROVE \A r \in Runs : QuietRow(r)
BY DEF QuietRow

\* A write of a row that is neither startable nor newly an orphan.
LEMMA QuietWrite ==
    ASSUME RecordsTypeOK, NEW r \in Runs, NEW row, NEW allowed,
           row.status \notin Startable, row.why # "podGone" \/ row.why = rows[r].why,
           SetRow(r, row) \/ Update(r, row) \/ UpdateGuarded(r, allowed, row)
    PROVE  \A s \in Runs : QuietRow(s)
<1>1. CASE SetRow(r, row)
  BY <1>1 DEF SetRow, RecordsTypeOK, QuietRow
<1>2. CASE UNCHANGED rows
  BY <1>2, StillRows
<1> QED BY <1>1, <1>2 DEF Update, UpdateGuarded

\* A row that is closed for another reason than a vanished pod.
LEMMA QuietClose ==
    ASSUME RecordsTypeOK, NEW r \in Runs, NEW status \in {"completed", "failed", "canceled"}, NEW why, NEW allowed,
           why # "podGone" \/ why = rows[r].why,
           Update(r, Closed(r, status, why)) \/ UpdateGuarded(r, allowed, Closed(r, status, why))
    PROVE  \A s \in Runs : QuietRow(s)
<1> DEFINE row == Closed(r, status, why)
<1>1. row.status = status /\ row.why = why
  BY ClosedSays
<1>2. row.status \notin Startable /\ (row.why # "podGone" \/ row.why = rows[r].why)
  BY <1>1 DEF Startable
<1>3. Update(r, row) \/ UpdateGuarded(r, allowed, row)
  OBVIOUS
<1> HIDE DEF row
<1> QED BY <1>2, <1>3, QuietWrite

-----------------------------------------------------------------------------
\* No call interrupts a run or takes it for an orphan.
LEMMA ServiceRows ==
    ASSUME Typed, ServiceNext
    PROVE  \A r \in Runs : QuietRow(r)
<1>1. ASSUME NEW q \in Requests, NEW r \in Runs,
             CreateCheck(q, r) \/ CancelFind(q, r) \/ ResumeFind(q, r) \/ DeleteFind(q, r)
      PROVE  \A s \in Runs : QuietRow(s)
  BY <1>1, StillRows DEF CreateCheck, CancelFind, ResumeFind, DeleteFind, recordVars
<1>2. ASSUME NEW q \in Requests, RequestStep(q) PROVE \A s \in Runs : QuietRow(s)
  <2> DEFINE r == RunOf(q)
  <2>1. RecordsTypeOK /\ (req[q].pc \notin {"idle", "done"} => r \in Runs /\ rows[r] \in Row)
    BY DEF Typed, TasksHaveRuns, TypeOK, RecordsTypeOK, RunOf
  <2>2. ASSUME NEW row, NEW allowed, r \in Runs, SetRow(r, row) \/ Update(r, row) \/ UpdateGuarded(r, allowed, row),
               row.status \in {"pending", "submitted", "deleted"}, row.why \in {"none", rows[r].why}
        PROVE  \A s \in Runs : QuietRow(s)
    <3>1. row.status \notin Startable /\ (row.why # "podGone" \/ row.why = rows[r].why)
      BY <2>2 DEF Startable
    <3> HIDE DEF r
    <3> QED BY <2>1, <2>2, <3>1, QuietWrite
  <2>3. CASE CreateInsert(q)
    <3> DEFINE row == [status |-> "pending", handle |-> FALSE, fresh |-> TRUE, why |-> "none"]
    <3>1. r \in Runs /\ SetRow(r, row)
      BY <2>1, <2>3 DEF CreateInsert, At
    <3> QED BY <2>2, <3>1
  <2>4. CASE MarkSubmitted(q)
    <3> DEFINE row == [rows[r] EXCEPT !.status = "submitted", !.handle = TRUE, !.fresh = TRUE]
    <3>1. r \in Runs /\ rows[r] \in Row /\ (Update(r, row) \/ UNCHANGED rows)
      BY <2>1, <2>4 DEF MarkSubmitted, At
    <3>2. row.status = "submitted" /\ row.why = rows[r].why
      BY <3>1 DEF Row
    <3> HIDE DEF row
    <3> QED BY <2>2, <3>1, <3>2, StillRows
  <2>5. CASE MarkFailed(q) \/ MarkCanceled(q)
    <3>1. /\ r \in Runs
          /\ \/ Update(r, Closed(r, "failed", "startError"))
             \/ Update(r, Closed(r, "canceled", rows[r].why))
             \/ UNCHANGED rows
      BY <2>1, <2>5 DEF MarkFailed, MarkCanceled, At
    <3> HIDE DEF r
    <3> QED BY <2>1, <3>1, QuietClose, StillRows
  <2>6. CASE ResumeClaim(q)
    <3> DEFINE row == [rows[r] EXCEPT !.status = "pending", !.fresh = TRUE, !.why = "none"]
    <3>1. r \in Runs /\ rows[r] \in Row /\ UpdateGuarded(r, {"interrupted"}, row)
      BY <2>1, <2>6 DEF ResumeClaim, At
    <3>2. row.status = "pending" /\ row.why = "none"
      BY <3>1 DEF Row
    <3> HIDE DEF row
    <3> QED BY <2>2, <3>1, <3>2
  <2>7. CASE DeleteRow(q)
    <3> DEFINE row == [status |-> "deleted", handle |-> FALSE, fresh |-> FALSE, why |-> "none"]
    <3>1. r \in Runs /\ (Update(r, row) \/ UNCHANGED rows)
      BY <2>1, <2>7 DEF DeleteRow, At
    <3> QED BY <2>2, <3>1, StillRows
  <2>8. CASE \/ StartReject(q) \/ StartResolve(q) \/ CreateSecret(q) \/ CreateJob(q)
             \/ RollbackSecret(q) \/ PatchSecret(q) \/ NotifyStartFailed(q)
             \/ KillJob(q) \/ ResumeDeleteRun(q)
    <3>1. UNCHANGED rows
      BY <2>8 DEF StartReject, StartResolve, CreateSecret, CreateJob, RollbackSecret, PatchSecret,
                  NotifyStartFailed, KillJob, ResumeDeleteRun, recordVars
    <3> QED BY <3>1, StillRows
  <2> QED BY <1>2, <2>3, <2>4, <2>5, <2>6, <2>7, <2>8 DEF RequestStep, StartStep
<1> QED BY <1>1, <1>2 DEF ServiceNext

\* Neither does the loader, which closes a row with a report or with none that can
\* be read.
LEMMA LoaderRows ==
    ASSUME Typed, LoaderNext
    PROVE  \A r \in Runs : QuietRow(r)
<1>1. PICK l \in Loaders : LoaderStep(l)
  BY DEF LoaderNext
<1>2. CASE LoadCommit(l) \/ LoadFail(l)
  <2>1. PICK r \in Runs : r = loader[l].run
    BY <1>2 DEF LoadCommit, LoadFail, Loading, Typed, TasksHaveRuns
  <2>2. PICK status \in {"completed", "failed", "canceled"}, why \in {"none", "reportLoad"} :
           UpdateGuarded(r, InProgress, Closed(r, status, why))
    BY <1>2, <2>1 DEF LoadCommit, LoadFail
  <2> QED BY <2>2, QuietClose DEF Typed, TypeOK
<1>3. CASE UNCHANGED rows
  BY <1>3, StillRows
<1> QED BY <1>1, <1>2, <1>3 DEF LoaderStep, LoadFind, LoadRead, NotifyCompleted, NotifyLoadFailed, recordVars

\* Nor a handler of a pod event, whose reasons are a fatal wait and a failed pod.
LEMMA WatcherRows ==
    ASSUME Typed, HandlersBlame, WatcherNext
    PROVE  (\A r \in Runs : QuietRow(r)) /\ HandlersBlame'
<1>1. watch \in [Watchers -> Handler] /\ RecordsTypeOK
  BY DEF Typed, TypeOK, WatcherTypeOK
<1>2. ASSUME NEW w \in Watchers, NEW pc, NEW why, why # "podGone", Then(w, pc, why)
      PROVE  HandlersBlame'
  BY <1>1, <1>2 DEF Then, HandlersBlame, Handler
<1>3. ASSUME NEW w \in Watchers, HandlerDone(w) PROVE HandlersBlame'
  BY <1>1, <1>3 DEF HandlerDone, HandlersBlame, NoHandler
<1>4. ASSUME NEW w \in Watchers, NEW r \in Runs, PodEvent(w, r)
      PROVE  (\A s \in Runs : QuietRow(s)) /\ HandlersBlame'
  BY <1>1, <1>4, StillRows DEF PodEvent, recordVars, HandlersBlame
<1>5. ASSUME NEW r \in Runs, PodDeleteEvent(r)
      PROVE  (\A s \in Runs : QuietRow(s)) /\ HandlersBlame'
  BY <1>5, StillRows DEF PodDeleteEvent, recordVars, HandlersBlame
<1>6. ASSUME NEW w \in Watchers, WatchFind(w)
      PROVE  (\A s \in Runs : QuietRow(s)) /\ HandlersBlame'
  <2>1. HandlerDone(w) \/ \E pc, why : why # "podGone" /\ Then(w, pc, why)
    BY <1>6 DEF WatchFind
  <2> QED BY <1>2, <1>3, <1>6, <2>1, StillRows DEF WatchFind, recordVars
<1>7. ASSUME NEW w \in Watchers, MarkRunning(w)
      PROVE  (\A s \in Runs : QuietRow(s)) /\ HandlersBlame'
  <2>1. PICK r \in Runs : r = watch[w].run
    BY <1>7 DEF MarkRunning, Typed, TasksHaveRuns
  <2>2. PICK fresh \in BOOLEAN :
           UpdateGuarded(r, {"submitted"}, [rows[r] EXCEPT !.status = "running", !.fresh = fresh])
    BY <1>7, <2>1 DEF MarkRunning
  <2> DEFINE row == [rows[r] EXCEPT !.status = "running", !.fresh = fresh]
  <2>3. row.status \notin Startable /\ row.why = rows[r].why
    BY <1>1 DEF RecordsTypeOK, Row, Startable
  <2>4. UpdateGuarded(r, {"submitted"}, row)
    BY <2>2
  <2> HIDE DEF row
  <2> QED BY <1>1, <1>3, <1>7, <2>3, <2>4, QuietWrite DEF MarkRunning
<1>8. ASSUME NEW w \in Watchers, DrainedLoad(w)
      PROVE  (\A s \in Runs : QuietRow(s)) /\ HandlersBlame'
  BY <1>3, <1>8, StillRows DEF DrainedLoad, recordVars
<1>9. ASSUME NEW w \in Watchers, DrainedFail(w)
      PROVE  (\A s \in Runs : QuietRow(s)) /\ HandlersBlame'
  <2>1. PICK r \in Runs : r = watch[w].run
    BY <1>9 DEF DrainedFail, Typed, TasksHaveRuns
  <2>2. UpdateGuarded(r, InProgress, Closed(r, "failed", watch[w].why)) /\ watch[w].why # "podGone"
    BY <1>9, <2>1 DEF DrainedFail, HandlersBlame
  <2> QED BY <1>1, <1>3, <1>9, <2>2, QuietClose DEF DrainedFail
<1> QED BY <1>4, <1>5, <1>6, <1>7, <1>8, <1>9 DEF WatcherNext, WatchStep

-----------------------------------------------------------------------------
\* A sweep that is not run by the step keeps what it knows.
LEMMA ListKept ==
    ASSUME SweepInv, \A r \in Runs : QuietRow(r), UNCHANGED <<sweep, api>>
    PROVE  ListedInv'
BY DEF SweepInv, ListedInv, QuietRow

\* What Continue makes of a sweep.
LEMMA Continued ==
    ASSUME sweep \in Sweep, NEW r \in Runs, sweep' = Continue(sweep, r)
    PROVE  /\ \A s \in Runs : sweep'.snap[s] \in {sweep.snap[s], "out"}
           /\ sweep'.snap[r] = "out"
           /\ sweep'.todo \subseteq sweep.todo \ {r}
           /\ \A s \in sweep'.todo : sweep'.snap[s] = sweep.snap[s]
           /\ sweep'.pc \in {"idle", "check"}
           /\ sweep'.boot => sweep.boot /\ sweep'.pc = "check"
<1>1. CASE sweep' = NoSweep
  BY <1>1 DEF NoSweep
<1>2. CASE sweep' = [sweep EXCEPT !.pc = "check", !.todo = sweep.todo \ {r}, !.cur = NoRun, !.snap[r] = "out"]
  BY <1>2 DEF Sweep
<1> QED BY <1>1, <1>2 DEF Continue

\* A sweep that ended has listed nothing.
LEMMA NothingListed ==
    /\ NoSweep.snap = [r \in Runs |-> "out"] /\ NoSweep.todo = {} /\ NoSweep.pc = "idle"
    /\ NoSweep.boot = FALSE
BY DEF NoSweep

\* A step of the sweep changes the row it is at, and then drops it from its list.
LEMMA SweepSteps ==
    ASSUME SweepInv, Typed, SweepStep, UNCHANGED api
    PROVE  /\ ListedInv'
           /\ \A r \in Runs : \/ QuietRow(r)
                              \/ /\ rows'[r].status \notin InProgress /\ sweep.snap[r] # "out"
                                 /\ rows'[r].why = "podGone" => sweep.boot \/ sweep.snap[r] # "young"
<1>1. /\ sweep \in Sweep /\ RecordsTypeOK /\ UNCHANGED api /\ ListedInv
      /\ sweep.todo \subseteq Runs
  BY DEF Typed, TypeOK, SweepTypeOK, SweepInv, Sweep
<1>2. ASSUME NEW r \in Runs, SweepCheck(r) PROVE ListedInv' /\ UNCHANGED rows
  <2>1. PICK pc \in {"loading", "list", "resolve"} : sweep' = [sweep EXCEPT !.cur = r, !.pc = pc]
    BY <1>1, <1>2 DEF SweepCheck, Sweep
  <2>2. sweep'.snap = sweep.snap /\ sweep'.todo = sweep.todo /\ sweep'.boot = sweep.boot /\ sweep'.pc = pc
        /\ sweep'.cur = r
    BY <1>1, <2>1 DEF Sweep
  <2>3. r \in sweep.todo /\ UNCHANGED rows
    BY <1>2 DEF SweepCheck, recordVars
  <2> QED BY <1>1, <2>2, <2>3 DEF ListedInv
<1>3. CASE SweepLoaded
  <2>1. sweep.cur \in Runs /\ sweep' = Continue(sweep, sweep.cur) /\ UNCHANGED rows
    BY <1>3 DEF SweepLoaded, SweepAt, Typed, TasksHaveRuns, recordVars
  <2>2. PICK r \in Runs : sweep' = Continue(sweep, r)
    BY <2>1
  <2>3. ListedInv'
    BY <1>1, <2>1, <2>2, Continued DEF ListedInv
  <2> QED BY <2>1, <2>3, StillRows
<1>4. CASE SweepList
  <2>1. sweep' = [sweep EXCEPT !.pc = "resolve", !.pods = [r \in Runs |-> kube[r].phase]]
        /\ UNCHANGED rows /\ sweep.pc = "list"
    BY <1>4 DEF SweepList, SweepAt, recordVars
  <2>2. /\ sweep'.snap = sweep.snap /\ sweep'.todo = sweep.todo /\ sweep'.boot = sweep.boot
        /\ sweep'.pc = "resolve" /\ sweep'.cur = sweep.cur
    BY <1>1, <2>1 DEF Sweep
  <2>3. ListedInv'
    BY <1>1, <2>1, <2>2 DEF ListedInv
  <2> QED BY <2>1, <2>3, StillRows
<1>5. CASE SweepListError
  <2>1. sweep' = NoSweep /\ UNCHANGED rows
    BY <1>5 DEF SweepListError, recordVars
  <2>2. ListedInv'
    BY <2>1, NothingListed DEF ListedInv
  <2> QED BY <2>1, <2>2, StillRows
<1>6. CASE SweepResolve
  <2> DEFINE r == sweep.cur
             status == IF r \in Resumable THEN "interrupted" ELSE "failed"
             row == Closed(r, status, Verdict(r))
  <2>1. r \in Runs /\ r \in sweep.todo /\ sweep.snap[r] # "out" /\ sweep' = Continue(sweep, r)
    BY <1>1, <1>6 DEF SweepResolve, SweepAt, ListedInv, Typed, TasksHaveRuns
  <2>2. UNCHANGED rows \/ (SetRow(r, row) /\ rows[r].status \in InProgress)
    BY <1>6 DEF SweepResolve, UpdateGuarded
  <2>3. row.status = status /\ row.why = Verdict(r) /\ status \in {"interrupted", "failed"}
    BY <1>1, <2>1, ClosedSays
  <2>4. Verdict(r) = "podGone" => sweep.boot \/ sweep.snap[r] # "young"
    BY DEF Verdict
  <2> HIDE DEF row, status, r
  <2>5. /\ \A s \in Runs : s # r => rows'[s] = rows[s]
        /\ rows'[r] \in {rows[r], row}
    BY <1>1, <2>1, <2>2 DEF SetRow, RecordsTypeOK
  <2>6. ListedInv'
    <3>1. \A s \in Runs : sweep'.snap[s] # "out" => s # r /\ sweep.snap[s] # "out"
      BY <2>1, <1>1, Continued
    <3> QED BY <1>1, <2>1, <2>5, <3>1, Continued DEF ListedInv
  <2> QED BY <2>1, <2>3, <2>4, <2>5, <2>6 DEF QuietRow, InProgress
<1> QED BY <1>2, <1>3, <1>4, <1>5, <1>6, StillRows DEF SweepStep

\* A sweep lists the rows in progress.
LEMMA SweepBegins ==
    ASSUME NEW boot \in BOOLEAN, SweepBegin(boot), boot => api'.phase = "bootSweep"
    PROVE  ListedInv' /\ UNCHANGED rows
<1>1. UNCHANGED rows
  BY DEF SweepBegin, recordVars
<1>2. /\ sweep'.pc = "check" /\ sweep'.boot = boot /\ sweep'.todo = {r \in Runs : Active(r)}
      /\ \A r \in Runs : sweep'.snap[r] = IF ~Active(r) THEN "out" ELSE IF rows[r].fresh THEN "young" ELSE "aged"
  BY DEF SweepBegin, NoSweep
<1> QED BY <1>1, <1>2 DEF ListedInv, Active, InProgress, Startable

\* A call is served while the process is up, and none is there when it is not.
LEMMA CallsStep ==
    ASSUME SweepInv, [Next]_vars
    PROVE  CallsWhenUp'
<1>1. CASE Service
  BY <1>1 DEF Service, CallsWhenUp, Up
<1>2. CASE Crash
  BY <1>2 DEF Crash, At, Idle, Done, CallsWhenUp
<1>3. CASE Loader \/ Watcher \/ Reconciler \/ World \/ PeriodicSweep \/ (\E r \in Runs : GraceExpires(r)) \/ UNCHANGED vars
  <2>1. UNCHANGED <<req, api>>
    BY <1>3 DEF Loader, Watcher, Reconciler, World, PeriodicSweep, GraceExpires, vars
  <2> QED BY <2>1 DEF SweepInv, CallsWhenUp, Up
<1>4. CASE BootSweep \/ Serve
  <2>1. UNCHANGED req /\ ~Up
    BY <1>4 DEF BootSweep, Serve, Up
  <2> QED BY <2>1 DEF SweepInv, CallsWhenUp
<1> QED BY <1>1, <1>2, <1>3, <1>4 DEF Next

\* Every step keeps what the sweep knows, and a row that it does not leave alone is
\* one the sweep is at.
LEMMA SweepInvStep ==
    ASSUME SweepInv, Typed, [Next]_vars
    PROVE  /\ SweepInv'
           /\ \A r \in Runs : \/ QuietRow(r)
                              \/ /\ rows'[r].status \notin InProgress /\ sweep.snap[r] # "out"
                                 /\ rows'[r].why = "podGone" => sweep.boot \/ sweep.snap[r] # "young"
<1> USE DEF SweepInv
<1>1. CallsWhenUp'
  BY CallsStep
<1>2. CASE Service
  <2>1. ServiceNext /\ UNCHANGED <<watch, sweep, api>>
    BY <1>2 DEF Service, watcherVars
  <2> QED BY <1>1, <2>1, ServiceRows, ListKept DEF HandlersBlame
<1>3. CASE Loader
  <2>1. LoaderNext /\ UNCHANGED <<watch, sweep, api>>
    BY <1>3 DEF Loader, watcherVars
  <2> QED BY <1>1, <2>1, LoaderRows, ListKept DEF HandlersBlame
<1>4. CASE Watcher
  <2>1. WatcherNext /\ UNCHANGED <<sweep, api>>
    BY <1>4 DEF Watcher
  <2> QED BY <1>1, <2>1, WatcherRows, ListKept
<1>5. CASE Reconciler
  <2>1. SweepStep /\ UNCHANGED <<watch, api>>
    BY <1>5 DEF Reconciler, watcherVars
  <2> QED BY <1>1, <2>1, SweepSteps DEF HandlersBlame
<1>6. CASE World
  <2>1. UNCHANGED <<rows, watch, sweep, api>>
    BY <1>6 DEF World, watcherVars, RunnerNext, PodSpawn, PodWait, PodRun, PodFail, PodRemoved, JobExpire,
                RunnerStep, WriteMeta, ToolExit, WriteOutput, WriteResult, PodExit
  <2> QED BY <1>1, <2>1, StillRows, ListKept DEF HandlersBlame
<1>7. CASE PeriodicSweep
  <2>1. SweepBegin(FALSE) /\ UNCHANGED watch
    BY <1>7 DEF PeriodicSweep, watcherVars
  <2> QED BY <1>1, <2>1, SweepBegins, StillRows DEF HandlersBlame
<1>8. CASE BootSweep
  <2>1. SweepBegin(TRUE) /\ api'.phase = "bootSweep" /\ UNCHANGED watch
    BY <1>8 DEF BootSweep, watcherVars, Typed, TypeOK, Process
  <2> QED BY <1>1, <2>1, SweepBegins, StillRows DEF HandlersBlame
<1>9. CASE Serve
  <2>1. UNCHANGED <<rows, watch, sweep>> /\ (api.phase = "bootSweep" => sweep.pc = "idle")
    BY <1>9 DEF Serve, recordVars, watcherVars, SweepAt
  <2>2. ListedInv'
    BY <2>1 DEF ListedInv
  <2> QED BY <1>1, <2>1, <2>2, StillRows DEF HandlersBlame
<1>10. CASE Crash
  <2>1. /\ UNCHANGED rows /\ sweep' = NoSweep
        /\ \A w \in Watchers : watch'[w].why = "none"
    BY <1>10 DEF Crash, recordVars, NoHandler
  <2>2. ListedInv'
    BY <2>1, NothingListed DEF ListedInv
  <2> QED BY <1>1, <2>1, <2>2, StillRows DEF HandlersBlame
<1>11. ASSUME NEW r \in Runs, GraceExpires(r)
       PROVE  ListedInv' /\ HandlersBlame' /\ \A s \in Runs : QuietRow(s)
  <2>1. /\ rows \in [Runs -> Row] /\ rows' = [rows EXCEPT ![r].fresh = FALSE] /\ UNCHANGED <<watch, sweep, api>>
    BY <1>11 DEF GraceExpires, Typed, TypeOK, RecordsTypeOK, watcherVars
  <2>2. \A s \in Runs : rows'[s].status = rows[s].status /\ rows'[s].why = rows[s].why
    BY <2>1 DEF Row
  <2>3. \A s \in Runs : QuietRow(s)
    BY <2>2 DEF QuietRow
  <2> QED BY <2>1, <2>3, ListKept DEF HandlersBlame
<1>12. CASE UNCHANGED vars
  BY <1>1, <1>12, StillRows, ListKept DEF vars, recordVars, watcherVars, HandlersBlame
<1> QED BY <1>1, <1>2, <1>3, <1>4, <1>5, <1>6, <1>7, <1>8, <1>9, <1>10, <1>11, <1>12 DEF Next

LEMMA SweepInvInitial == Init => SweepInv
BY NothingListed DEF Init, RecordsInit, ServiceInit, WatcherInit, SweepInit, Idle, NoHandler, SweepInv, ListedInv,
       CallsWhenUp, HandlersBlame

(* BenchmarkReconciler.run (benchmark-reconciler.ts:69-205) against create    *)
(* and resume, in every watcher mode and with launches of any length: no row  *)
(* that a sweep still holds is opened again, and a launch under way is        *)
(* orphaned by a periodic sweep only that listed the row as too old.          *)
THEOREM LaunchOrphanedOnlyOld == Spec => OrphanedOnlyOld
<1>1. ASSUME SweepInv, Typed, [Next]_vars, NEW r \in Runs,
             rows[r].status \in {"unborn", "interrupted"}, rows'[r].status \in InProgress
      PROVE  sweep.snap[r] = "out"
  BY <1>1 DEF SweepInv, ListedInv, Startable
<1>2. ASSUME SweepInv, Typed, [Next]_vars, NEW q \in Requests,
             req[q].pc \in LaunchPcs \ {"insert", "claim"},
             rows[req[q].run].why # "podGone", rows'[req[q].run].why = "podGone"
      PROVE  ~sweep.boot /\ sweep.snap[req[q].run] = "aged"
  <2>1. PICK r \in Runs : r = req[q].run
    BY <1>2 DEF Typed, TasksHaveRuns, LaunchPcs
  <2>2. ~QuietRow(r)
    BY <1>2, <2>1 DEF QuietRow
  <2>3. sweep.snap[r] # "out" /\ (sweep.boot \/ sweep.snap[r] # "young")
    BY <1>2, <2>1, <2>2, SweepInvStep
  <2>4. ~sweep.boot
    BY <1>2 DEF SweepInv, ListedInv, CallsWhenUp, Up, LaunchPcs
  <2>5. sweep.snap[r] \in Ages
    BY <1>2 DEF Typed, TypeOK, SweepTypeOK, Sweep
  <2> QED BY <2>1, <2>3, <2>4, <2>5 DEF Ages
<1>3. SweepInv /\ Typed /\ [Next]_vars =>
        [/\ \A r \in Runs :
               rows[r].status \in {"unborn", "interrupted"} /\ rows'[r].status \in InProgress
                  => sweep.snap[r] = "out"
         /\ \A q \in Requests :
               LET r == req[q].run
               IN req[q].pc \in LaunchPcs \ {"insert", "claim"}
                  /\ rows[r].why # "podGone" /\ rows'[r].why = "podGone"
                     => ~sweep.boot /\ sweep.snap[r] = "aged"]_vars
  BY <1>1, <1>2
<1>4. SweepInv /\ Typed /\ [Next]_vars => (SweepInv /\ Typed)'
  BY SweepInvStep, TypedStep
<1> QED BY <1>3, <1>4, SweepInvInitial, TypedInitial, PTL DEF Spec, OrphanedOnlyOld
=============================================================================
