------------------------- MODULE BenchmarkLifecycle -------------------------
(***************************************************************************)
(* The benchmark service: API calls, watcher, report loader and reconciler *)
(* of one API process (the chart refuses a second replica), over the       *)
(* cluster and the object store.  The process may crash and restart; its   *)
(* tasks are lost then, and rows, Jobs and artifacts stay.                 *)
(***************************************************************************)
EXTENDS RunnerJob, BenchmarkService, JobWatcher, BenchmarkReconciler

CONSTANTS
    MaxCrashes,         \* bound on restarts of the API process
    LaunchWithinGrace   \* no launch takes longer than the orphan grace window

ASSUME LifecycleAssumption ==
    /\ MaxCrashes \in Nat
    /\ LaunchWithinGrace \in BOOLEAN

VARIABLE api  \* the process: booting, in its boot sweep, or serving

Process == [phase: {"boot", "bootSweep", "up"}, crashes: 0..MaxCrashes]

vars == <<recordVars, req, loader, watcherVars, sweep, api>>

Init ==
    /\ RecordsInit /\ ServiceInit /\ LoaderInit /\ WatcherInit /\ SweepInit
    /\ api = [phase |-> "up", crashes |-> 0]

-----------------------------------------------------------------------------
Up == api.phase = "up"

\* Requests are served once the modules are initialised.
Service ==
    /\ Up
    /\ ServiceNext
    /\ UNCHANGED <<loader, watcherVars, sweep, api>>

Loader ==
    /\ LoaderNext
    /\ UNCHANGED <<req, watcherVars, sweep, api>>

\* The informer runs before and during the boot sweep.
Watcher ==
    /\ WatcherNext
    /\ UNCHANGED <<req, sweep, api>>

\* Mutant: only the mode without a watcher sweeps periodically.
PeriodicSweepPollOnly ==
    /\ Mode = "poll" /\ Up
    /\ SweepBegin(FALSE)
    /\ UNCHANGED <<req, watcherVars, api>>

\* setInterval, unless the previous sweep is still running.
PeriodicSweep ==
    /\ Mode # "off" /\ Up
    /\ SweepBegin(FALSE)
    /\ UNCHANGED <<req, watcherVars, api>>

Reconciler ==
    /\ SweepStep
    /\ UNCHANGED <<req, watcherVars, api>>

World ==
    /\ RunnerNext
    /\ UNCHANGED <<req, loader, watcherVars, sweep, api>>

\* A row in progress outlives the grace window.
GraceExpires(r) ==
    /\ Active(r) /\ rows[r].fresh
    /\ LaunchWithinGrace =>
          \A q \in Requests : RunOf(q) = r => req[q].pc \notin LaunchPcs
    /\ rows' = [rows EXCEPT ![r].fresh = FALSE]
    /\ UNCHANGED <<kube, store, notes, opens>>
    /\ UNCHANGED <<req, loader, watcherVars, sweep, api>>

\* Every task of the process is gone; a call that was in flight is not retried.
Crash ==
    /\ api.crashes < MaxCrashes
    /\ api' = [phase |-> "boot", crashes |-> api.crashes + 1]
    /\ req' = [q \in Requests |-> IF At(q, "idle") THEN Idle ELSE Done]
    /\ loader' = [l \in Loaders |-> NoLoad]
    /\ watch' = [w \in Watchers |-> NoHandler]
    /\ fatalSince' = {}
    /\ sweep' = NoSweep
    /\ UNCHANGED recordVars

\* onModuleInit reconciles once without a grace window, if it can.
BootSweep ==
    /\ api.phase = "boot" /\ Mode # "off"
    /\ SweepBegin(TRUE)
    /\ api' = [api EXCEPT !.phase = "bootSweep"]
    /\ UNCHANGED <<req, watcherVars>>

Serve ==
    /\ \/ api.phase = "bootSweep" /\ SweepAt("idle")
       \/ api.phase = "boot" /\ (Mode = "off" \/ \A r \in Runs : ~Active(r))
    /\ api' = [api EXCEPT !.phase = "up"]
    /\ UNCHANGED <<recordVars, req, loader, watcherVars, sweep>>

Next ==
    \/ Service \/ Loader \/ Watcher \/ Reconciler \/ World
    \/ PeriodicSweep \/ BootSweep \/ Serve \/ Crash
    \/ \E r \in Runs : GraceExpires(r)

Spec == Init /\ [][Next]_vars

-----------------------------------------------------------------------------
(* Fairness.  Every call the process makes returns, its timers fire and the *)
(* clock runs; the API server answers some list of a recurring sweep.  Of    *)
(* the world: the Job controller creates pods, a running tool ends, and a    *)
(* pod that cannot start does not stay so forever.                           *)

TaskFairness ==
    /\ \A q \in Requests : WF_vars(RequestStep(q) /\ Service)
    /\ \A l \in Loaders : WF_vars(LoaderStep(l) /\ Loader)
    /\ \A w \in Watchers : WF_vars(WatchStep(w) /\ Watcher)
    /\ WF_vars(Reconciler) /\ SF_vars(SweepList /\ Reconciler)
    /\ WF_vars(PeriodicSweep) /\ WF_vars(BootSweep) /\ WF_vars(Serve)
    /\ \A r \in Runs : WF_vars(GraceExpires(r))

RunnerFairness ==
    \A r \in Runs : WF_vars(PodSpawn(r) /\ World) /\ WF_vars(RunnerStep(r) /\ World)

StartFairness ==
    \A r \in Runs : WF_vars((PodRun(r) \/ PodFail(r)) /\ World)

FairSpec == Spec /\ TaskFairness /\ RunnerFairness /\ StartFairness

-----------------------------------------------------------------------------
(* Types of all variables. *)
TypeOK ==
    /\ RecordsTypeOK /\ ServiceTypeOK /\ LoaderTypeOK /\ WatcherTypeOK /\ SweepTypeOK
    /\ api \in Process

HasReport(r) == HasResult(r) /\ store[r].meta /\ store[r].output

(* A completed row has a full report in storage, whoever completed it and    *)
(* however often the run was resumed: tryLoad reads all four objects before  *)
(* its guarded write, and no other writer writes "completed".                *)
CompletedHasReport ==
    \A r \in Runs : rows[r].status = "completed" => HasReport(r)

(* The strengthening that makes CompletedHasReport inductive: a task in      *)
(* flight works on a run; main.py has written what comes before its current  *)
(* step; and a loader that is about to commit has seen a report that nobody  *)
(* can take away.                                                            *)
TasksHaveRuns ==
    /\ \A q \in Requests : req[q].pc \notin {"idle", "done"} => req[q].run \in Runs
    /\ \A l \in Loaders : loader[l].pc # "idle" => loader[l].run \in Runs
    /\ \A w \in Watchers : watch[w].pc # "idle" => watch[w].run \in Runs
    /\ sweep.pc \in {"list", "resolve", "loading"} => sweep.cur \in Runs

RunnerInOrder ==
    \A r \in Runs :
        /\ kube[r].step \in {"tool", "upload", "sentinel", "exit"} => store[r].meta
        /\ kube[r].step \in {"sentinel", "exit"} => store[r].output

LoaderSawReport ==
    \A l \in Loaders : loader[l].pc = "commit" => HasReport(loader[l].run)

LifecycleInv ==
    /\ TypeOK /\ TasksHaveRuns /\ RunnerInOrder /\ SentinelIsLast
    /\ LoaderSawReport /\ CompletedHasReport

(* Watcher, loader and reconciler decide from rows read before their last    *)
(* await; none of them ever changes a row that reached a terminal state in   *)
(* the meantime.  Only an API call does (updateGuarded, IN_PROGRESS_STATES). *)
BackgroundBacksOff ==
    [][\A r \in Runs :
          rows[r].status \in Terminal /\ rows'[r] # rows[r] => req' # req]_vars

(* Of all loaders racing for a run, fed by replayed pod events and by sweeps,*)
(* one wins: a run is announced at most once for each time it was (re)opened,*)
(* and not at all while it is still in progress.                             *)
OneVerdictPerOpening ==
    \A r \in Runs :
        notes[r].completed + notes[r].reportFailed + Cardinality(Announcing(r))
            + (IF Active(r) THEN 1 ELSE 0) <= opens[r]

(* Watcher and reconciler agree on what a dead or vanished pod means: a run  *)
(* with checkpoints is interrupted and can be resumed, any other has failed. *)
PodDeathVerdict ==
    \A r \in Runs :
        /\ rows[r].status = "interrupted" => r \in Resumable
        /\ rows[r].status = "failed" /\ rows[r].why \in {"podFailed", "noResult", "podGone"}
              => r \notin Resumable

(* What a sweep knows of a run is younger than the run's launch: no create   *)
(* or resume opens a row that a sweep still holds on its list, since only    *)
(* the sweep itself interrupts a row and drops it as it does; and a launch   *)
(* under way is orphaned by a periodic sweep only, one that listed the row   *)
(* as already too old (benchmark-reconciler.ts:71, :158-171).  No assumption *)
(* on the length of a launch is needed.                                      *)
OrphanedOnlyOld ==
    [][/\ \A r \in Runs :
             rows[r].status \in {"unborn", "interrupted"} /\ rows'[r].status \in InProgress
                => sweep.snap[r] = "out"
       /\ \A q \in Requests :
             LET r == req[q].run
             IN req[q].pc \in LaunchPcs \ {"insert", "claim"}
                /\ rows[r].why # "podGone" /\ rows'[r].why = "podGone"
                   => ~sweep.boot /\ sweep.snap[r] = "aged"]_vars

(* No run stays in progress forever: whatever the watcher misses, and        *)
(* whatever a crash interrupts, a later sweep finds.                         *)
Settles == \A r \in Runs : []<>~Active(r)
=============================================================================
