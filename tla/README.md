# Verification of modeldoctor

modeldoctor is a NestJS API (`apps/api`), a Python runner that executes inside
Kubernetes Jobs (`apps/benchmark-runner`), a React frontend (`apps/web`) and
shared packages (`packages/*`). A user asks for a benchmark of a model
endpoint; the API creates a Job; the runner runs a load tool, uploads its
artifacts to object storage and exits; the API notices, loads the report and
notifies the user. Around this core sit automations that start benchmarks when
a model registry changes, a quality gate that evaluates model answers, and the
usual accounts, notifications and alerts.

This directory holds TLA+ models of the parts in which several actors change
the same state, TLC configurations that check them on small instances, and
TLAPS proofs of what holds for instances of any size. `PROJECT.json` lists the
runs, the mutants, the source lines of each definition, findings, hazards and
theorems.

## 1. The system

### Components

| Part | State | Operations | What makes it correct |
|---|---|---|---|
| Benchmark API (`benchmark.service.ts`, `benchmark.repository.ts`, `k8s/k8s-benchmark-runner.ts`) | `benchmarks` rows; the Job and Secret of each run | create, start, cancel, resume, delete | one launch per run at a time; a terminal row stays so unless the user reopens it; no Job without a row |
| Pod watcher (`k8s/k8s-job-watcher.service.ts`, `k8s/pod-state-reducer.ts`) | fatal-wait clock per run; handlers in flight | pod add/update/delete events; mark running, load report, fail | acts on stale reads without harm |
| Report loader (`storage/report-loader.ts`) | calls in flight | `tryLoad` | a whole report behind every completed row; one announcement |
| Reconciler (`k8s/benchmark-reconciler.ts`) | the current sweep: row list, pod list | boot sweep, periodic sweep | every run ends; no live run is failed |
| Runner (`apps/benchmark-runner/runner/main.py`) | artifacts in object storage | meta, tool, outputs, `result.json`, exit | `result.json` comes last |
| Log streaming and SSE (`k8s/pod-log-streamer*.ts`, `sse/sse-hub.service.ts`) | the streamer of each run; streams, subscribers, closed runs | attach, reconnect, drain, stop; publish, subscribe, close | one streamer per run; a hanging stream holds back no verdict; no page waits on a closed stream |
| Metric snapshots (`prefix-cache/`, `engine-metrics/`) | `serverMetrics` JSON of a row | read, merge, write | no key lost |
| Automation (`platform-source/automation`) | automation runs with lease, step and status; the children they create | enqueue, promote, advance, cancel, scan schedules | one running pipeline per source; a verdict follows its steps and stands; no forgotten child |
| Source sync (`platform-source/sync`) | mirrored models, connections and revisions; the watch loop | reconcile, patch, watch, retry | rows come to mirror the platform; one trigger per ready revision; one loop, on the source as it is |
| Quality gate (`quality-gate`) | evaluation runs, their samples; abort controllers | create, execute, cancel, delete, boot sweep | a verdict is drawn from all samples; every run ends, once |
| Gate arithmetic (`quality-gate/gate`, `automation/regression.ts`) | none | deltas, bands, regressions | better is never judged worse |
| Authentication (`auth`, `lib/auth-coordinator.ts`) | refresh tokens; the cookie and tabs of a browser | login, refresh, logout | a session is a chain of tokens; a revoked one gets no new token; tabs are not thieves |
| Notifications (`notifications`) | outbox rows, passes of the dispatcher | emit, test, tick, send, retry, delete a channel | each delivery is sent or given up, and recorded as what it is |
| Alerts (`alerts`) | alert rows, explanations | webhook, ingest, explain | one paid explanation per alert |
| Agent playground (`playground-agent`, `features/playground/agent`) | the transcript and cards of the page; runs under way | send, approve, submit, stop; turns and tool calls | the model sees whole transcripts; a run resumes where it paused |
| MCP confirm tokens (`mcp/confirm-token.service.ts`) | none (a signed token) | issue, verify | a token confirms only what it was issued for |
| Connections, templates, baselines, skills, users, insights, comparisons, tool adapters, contracts, most of the web | single rows, or none | create/read/update/delete, arithmetic, formatting, user interface | no concurrent behaviour worth a model (see PROJECT.json) |

### How they interact

The API calls, the watcher, the loader and the reconciler live in one Node.js
process and share the `benchmarks` table through `BenchmarkRepository`. No lock
is held across an `await`, so they interleave at every one. Two writes exist:
`update` (whatever the row is now) and `updateGuarded` (only if the status is
one of those named, one SQL statement). They meet the cluster through the
Kubernetes API (a Job named after the run, a Secret owned by that Job) and the
runner through object storage (`meta.json`, output files, `result.json`).

                   create/resume/cancel/delete
                             |
      notify <-- loader <-- rows --> reconciler --> loader
                   ^         |           |  \
                   |         v           v   object storage
                watcher <-- Job/Pod <----'        ^
                             `------ runner ------'

One process is all there is of the benchmark part: the chart refuses a second
replica (`deploy/charts/modeldoctor/templates/_helpers.tpl:262`). Platform
sources are written for several replicas nevertheless (leases, conditional
writes), and are modelled with them.

The other parts meet through tables. Source sync hands ready revisions to the
automation runner, and cancels the runs of removed models. The automation
runner creates evaluation runs and benchmarks and polls their rows; it and the
loader emit notifications, which the dispatcher sends. To a pipeline, an
evaluation run is a `ChildLife`, which the executor is shown to implement.

### What is hard

- Pod events are not awaited: two handlers of one run overlap, each on the row
  it read before its last await; events are replayed when the informer
  restarts, and lost while it is down.
- `tryLoad` is called from the watcher (not awaited) and the reconciler.
- A sweep takes minutes and acts on rows listed at its start, an answer of
  storage, and one pod list for all rows.
- `start()` takes seconds to minutes of retried Kubernetes calls, whose lost
  acknowledgements make the outcome ambiguous, and ends in a write without guard.
- `resume()` reuses the run's id, Job name and artifacts.
- A crash loses every task; rows, Jobs and artifacts stay.
- Ticks of the crons overlap, each on the rows it listed; the lease of an
  automation run ends after a minute, also under a create that takes longer.
- A `Promise.all` that rejects leaves its other promises running.
- A serializable transaction that waits for a row is refused when it gets it,
  and tried again on what is there by then.
- A loop that was replaced is still suspended in an await and goes on when it
  returns; so does a run of the agent whose page has gone.

## 2. Modules

| Module | Models | Source |
|---|---|---|
| `BenchmarkRecords` | the table, the two kinds of write, the cluster objects, storage, notifications | `benchmark.repository.ts`, `constants.ts`, `k8s-job-manifest.ts`, `notify.service.ts` |
| `RunnerJob` | Job controller, kubelet (external), `main.py` step by step | `runner/main.py` |
| `BenchmarkService` | API calls, one action per await | `benchmark.service.ts`, `k8s-benchmark-runner.ts` |
| `ReportLoader` | `tryLoad`, with the catch block that also runs when `emit` throws | `report-loader.ts` |
| `JobWatcher` | `handlePodEvent`, `reduce`, `execute`, `handlePodDelete` | `k8s-job-watcher.service.ts`, `pod-state-reducer.ts` |
| `BenchmarkReconciler` | one sweep, with its row snapshot and pod list | `benchmark-reconciler.ts` |
| `BenchmarkLifecycle` | the five composed, plus timers, grace window, crash, boot sweep, fairness; the properties | `k8s-job-watcher.service.ts:55-137`, `benchmark.module.ts` |
| `VerdictLedger` | abstract: a run is opened, closed, and announced once | |
| `BenchmarkLedger` | refinement mapping from `BenchmarkLifecycle` to `VerdictLedger` | |
| `BenchmarkClaims` | statements of comments and design notes that do not hold | |
| `MCBenchmark` | constants for TLC | |
| `LogStreaming` | streamers, their pool and the calls of the watcher, over a small row and its pods | `pod-log-streamer*.ts`, `k8s-job-watcher.service.ts` |
| `LogPages` | the hub, its closing by overlapping loads, and the pages that listen | `sse-hub.service.ts`, `benchmark.controller.ts`, `useRunEventStream.ts`, `report-loader.ts` |
| `AutomationRecords` | automation runs, their children, baselines, events | `schema.prisma`, `automation-runner.service.ts` |
| `AutomationRunner` | ticks (promote, lease, advance, finish) and calls (enqueue, scan, cancel), restarts | `automation-runner.service.ts`, `platform-source.cron.ts` |
| `MCAutomation` | constants for TLC | |
| `SourceSync` | reconcile in several replicas, PATCH of a model, the platform | `source-sync.service.ts`, `discovered-models.service.ts` |
| `SourceWatcher` | the watch loop, calls that replace it, restarts | `source-watcher.service.ts`, `platform-sources.service.ts`, `gpustack-client.ts` |
| `QualityGateExecutor` | evaluation runs, sample by sample | `run-executor.service.ts`, `runs.service.ts`, `runs.repository.ts` |
| `ChildLife` | abstract: what a pipeline relies on of an evaluation run | |
| `GateArithmetic` | deltas, aggregation, bands, regressions | `sample-aggregation.ts`, `compute-gate-result.ts`, `regression.ts` |
| `AuthSessions` | tabs, cookie, and the transactions on refresh tokens | `auth.service.ts`, `auth.controller.ts`, `api-client.ts`, `auth-coordinator.ts` |
| `NotificationOutbox` | producers, overlapping passes, retries, channels that go | `notify.service.ts`, `dispatcher.service.ts`, `channels.service.ts` |
| `AlertIngest` | concurrent webhooks | `alerts.service.ts`, `alerts.controller.ts`, `explainer.service.ts` |
| `AgentLoop` | the page and the runs it starts | `agent-loop.service.ts`, `AgentPage.tsx`, `store.ts` |
| `MCServices` | the nine parts above that share no state, for TLC | |
| `BenchmarkLifecycleProofs`, `VerdictLedgerProofs` | theorems about the benchmark service and its ledger | |
| `AutomationQueueProofs`, `AutomationRunnerProofs` | theorems about the automation pipeline | |
| `PlatformProofs` | theorems about sync, watch loop, executor and arithmetic | |
| `ClientProofs` | theorems about sessions, log streams, log pages and the agent | |
| `DeliveryProofs` | theorems about outbox and alerts | |
| `ServicesProofs` | the composition of the nine parts implements each of them | |

### State and actions

`rows[r]` is the benchmark's status, whether `driverHandle` is set, `fresh`
(`max(createdAt, startedAt)` is inside the orphan grace window) and `why`, which
of the code's messages `statusMessage` holds. A row not created yet is
`unborn`, a deleted one `deleted`. `kube[r]` is the Job (named by the request
that created it, which stands for its uid), the Secret (unowned, or owned by
the Job and so collected with it), the pod's phase (`Waiting` is Pending with a
fatal waiting reason), and where `main.py` is. `store[r]` is what is in object
storage; `result` carries the exit code written to `result.json`. `notes[r]`
counts notification rows; `opens[r]` is a history variable, the number of times
the row entered an in-progress state.

A task is a record with a `pc`, the await it performs next: `req[q]` an API
call, `watch[w]` a pod-event handler, `loader[l]` a call of `tryLoad` made by a
handler or the sweeper, `sweep` the reconciler. Code between two awaits is one
action. An await whose result is known at once to all is joined with the code
after it; an await on the database or the cluster is an action of its own.

The mode (`K8S_WATCHER_MODE`) is a constant: `primary` has informer and sweeps,
`poll` only sweeps, `off` neither.

Log streaming: `pool` is the entry of the run in the map of streamers and
`streamer[s]` a `PodLogStreamer`; `handler[h]` and `load[l]` are the awaits of the
watcher and the loader again, as far as they touch the stream, and `informer` the
pod events on their way. The row and the pods are kept small: who moves them, and
why, is the matter of `BenchmarkLifecycle`. In `LogPages`, `hub` says whether the
stream of the run exists and is in `closedSet`, `listener[t]` what a browser tab
waits for, `closing[l]` where a call of `tryLoad` is, and of the row only
whether it is in progress.

Automation: `runs[r]` is an `automation_runs` row, named by its trigger key;
`child[c]` an evaluation run or a benchmark, with whom it was created for,
whether its cancellation was asked for, and whether the process died before its
id was recorded. `tick[t]` is one firing of the cron, with the copy of the row
that `advance` works on; `caller[c]` is a listener, a scan or a request.
`locked` holds the source rows under `SELECT ... FOR UPDATE`.

Source sync: `sync[p]` is the pass of a replica, with the list it fetched and
the row the upsert returned; `dm` is the table. A watch loop is `loop[l]`, and
`current` the one on record; `editor[c]` is a call that wrote the row and has not
told the watcher yet.

Quality gate: `exec[e]` is `runInternal`, `work[e][s]` the promise of a sample,
`saved[e]` the rows it left. `serving` is false between the end of a process
and the boot sweep.

Sessions: `request[r]` is a refresh or logout, at a statement of its
transaction, with the snapshot the first statement took (`seen`); `waiting` is
the wait for a row lock. `jar` is the cookie, `tab[i]` a tab.

Outbox: `tick[k]` is a pass with the rows it read; `accepted` is what receivers
took, which no row tells. Alerts: `webhook[w]` is a post, with what it found and
created. Agent: a transcript is the tool calls asked for and those answered,
`page` is the store of the page, `ran` counts what the server executed.

### Abstractions and assumptions

- Database calls succeed; a failing database is not modelled. `Prisma.update`
  of a deleted row throws, which is modelled.
- `ClusterErrors`: any Kubernetes call of the API may fail, before or after
  taking effect. `StorageErrors`: `storage.exists` may fail. Reading, parsing
  and gating a report may fail in every run.
- `backoffLimit` 0 and `restartPolicy` Never (`k8s-job-manifest.ts`): a Job has
  one pod, which runs `main.py` once.
- `deleteRun` awaits the request only: when it returns, the Job and its pod may be
  gone or still there, and a later create under that name is then a 409, which
  counts as success (`ResumeDeleteRun`).
- `LaunchWithinGrace` (a constant): the clock does not run out on a launch in
  flight. It bounds `resume` and the findings; `recovery` and `restart` do without.
- The reconcile interval is positive unless the mode is `off`. The 500-row cap
  of `listByStatus` is left out.
- Request validation, foreign keys and metric snapshots change nothing modelled
  here and are left out. The lifecycle leaves the log streamer out as well;
  `LogStreaming` has it. A mixture of artifacts of two attempts is not told from a
  report of one.
- In `LogStreaming` the continuations of a promise run before the next timer or I/O
  event, as they do in Node.js: an entry is removed in the step that ends its
  streamer. The lines, the throttle of the progress column and the pods that
  never start are left out; cancel and the sweep look and write in one step.
  `LogPages` leaves out the eviction of the oldest of 1000 closed runs.
- A request is served once, and the number of crashes is bounded by
  `MaxCrashes`. Nothing else in the benchmark part needs a bound: every task is
  finite. Elsewhere failures, restarts, edits and platform changes are counted
  against `MaxFaults`, `MaxGateFaults`, `MaxEvents`, `MaxBreaks`, `MaxEdits`,
  `MaxAuthFaults`, `MaxOutboxFaults`, `MaxLogFaults` and `MaxLlmFailures`; launches
  of a run against `MaxPods`.
- A model's automation steps are constant, and a diagnostics run is its outcome.
- A request lasts less than the grace window of the token it presents
  (`GraceEnds`). PostgreSQL refuses a transaction whose rows have changed since
  its snapshot, and may refuse others (`TxRefused`).
- A sync reads models and routes page by page, at the same time, while the platform
  changes (`ListPage`). That an entry is pushed over a page boundary, and so listed
  twice or not at all, is left out. What follows is on the database.
- The id of a Connection is kept in the pass until the last write of its model
  (`links`), so a failure before it leaves a Connection that no model has (`made`).
- A judge answers: `llm-judge.ts` turns its failures into a verdict. A write of
  the progress that fails, like one of a sample, rejects the `Promise.all`.
- A channel of `Undecryptable` has an address the key in use cannot decrypt. The
  set is empty in the runs (see Findings); the theorems hold for any. A channel has one
  subscription per event: two rows for one channel are as those of two channels.
- The agent's model comes up with a fresh id for each tool call (`streaming.ts:48`
  takes an empty one for a missing one), and every await of a run returns, although
  neither the model request nor an MCP call has a timeout.
- `RestoreSnap` resets the page under a run, which then goes on and cannot be stopped.

## 3. What TLC checks

Deadlock is not checked: with every request served and every run terminal the
system rightly stops.

| Run | Instance | Checks |
|---|---|---|
| `resume` | watcher and sweeps, 1 resumable run, 2 API calls (create, then resume, cancel or delete), 1 handler | `OneVerdictPerOpening`: announced at most once per opening; `PodDeathVerdict`: watcher and sweep agree on a dead pod; `BackgroundBacksOff`: no background task changes a row that is terminal when it writes; `OrphanedOnlyOld`: no row is opened while a sweep holds it, and a launch is orphaned by a periodic sweep only that listed it past the grace |
| `recovery` | poll mode, 2 API calls, launches of any length, cluster and storage errors, 1 crash | `LifecycleInv`, the inductive invariant of the proofs, with `TypeOK` and `SentinelIsLast`; `OrphanedOnlyOld`; `LedgerImplemented`: the service refines `VerdictLedger` |
| `restart` | 1 run, a create call, 1 handler, 1 crash, fairness | `Settles`: no run is in progress for ever, wherever the crash cuts the launch, a handler or a load nobody awaits |
| `queue` | 2 runs of one source (a revision and a manual one), the gate as only step, 2 ticks, 1 caller | `OneRunningPerSource`; `VerdictStands` |
| `automation` | 1 run with all steps, 2 children, 2 ticks, 1 caller, 1 fault (a restart, a lease outrun or a promotion that fails), fairness | `AutomationTypeOK`; `PassedMeansChecked`; `AnnouncedOnce`; `NoForgottenChild`; `EveryRunEnds` |
| `exchange`, `services` | see below | the properties of nine components |

`MCServices` has nine models that share no variable. Its initial
states name the component in `focus`, whose steps alone are taken, so the state
space is the sum of nine and not their product, and fairness is that of the
component in focus. `exchange` is the run of the four components that deal with what
is outside (source sync, watch loop, outbox, alerts), `services` that of the other
five. `services` also checks the types of its five; those of the other four are
proved (`ServicesTypeCorrect`). Their instances:

| Component | Instance | Properties |
|---|---|---|
| evaluation runs | 1 run of each mode, 2 samples at once, 2 failing writes or crashes | `CompletedIsWhole`; `EvaluationEnds`; `OutcomesStand`: the executor implements `ChildLife` |
| arithmetic | the saved rows of every completed run under 12 configurations; metrics to 4, four percentages | `BetterNeverWorse`, `RegressionGrows` |
| source sync | 1 model of 2 revisions, 2 replicas, 2 events (a change of the platform, a PATCH, a failure) | `TriggeredOnce`; `SyncConverges` |
| watch loop | 2 calls at once, 2 edits, 1 failure or restart, up to 4 loops | `WatchIsCurrent`; `StaleNeverWatches`; `WatcherCatchesUp` |
| sessions | 2 tabs without Web Locks, 3 requests, 4 tokens, 1 lost answer or refused transaction | `OneLivePerFamily`; `RevokedStaysRevoked`; `NoFalseAlarm`; `RefreshReturns` |
| outbox | 1 event to 2 channels, 2 passes of 1 row, 2 attempts, 1 failing write or crash | `SentWasAccepted`; `GivenUpAfterAll`; `DeliveryResolves` |
| alerts | 2 alerts, 2 webhooks, 1 failing explanation | `AskedOnce` |
| agent | a builtin, an MCP and an inline call, 2 runs of 2 steps | `TranscriptWhole`; `ResumesFromThePause`; `RunsReturn` |
| log streams | 2 launches of a run (the second a resume), 2 handlers, 2 streamers, 2 failures to give up, 1 restart or failing read | `OneFollower`: one streamer at most reads for a run; `VerdictNotHeld`: the report is loaded although the stream hangs |
| log pages | 2 pages, 2 loads, any number of resumes and restarts | `ListenersReleased`: no page waits on a closed stream |

Two of each actor is what a race takes: two ticks, passes, replicas, tabs or
webhooks are every pair, and the code has no step in which three of them meet.
Two API calls are what it takes for any call to meet another and for create and
resume to follow one another. Two handlers of one run overlap only in the
proofs, which hold for any number of them. One fault may fall between any two
steps; two of them let the write of an end fail after a sample did. Four tokens
are the root and a rotation for each of three requests. `queue` needs two runs,
and keeps to one step, because what they contend for is their promotion;
`automation` has all the steps and one run. It starts when the run is pending
(`QueuedInit`), which every `enqueue` reaches. A third launch of a log stream
would meet what the second meets, the pod before it. `MaxChildren` 2 lets an
evaluation run and a benchmark be created, or one of them twice.

`OrphanedOnlyOld` is checked in both modes. In `recovery` a launch may take longer than
the grace window, and is then orphaned, by a sweep that listed it as aged; in `resume`
`LaunchWithinGrace` keeps the clock from running out on a launch, which bounds the
number of states. The theorem needs neither.

What the runs do not catch, although the hazard is listed: `FollowsSource` says
nothing of a deleted source, whose loop may go on retrying; `OneFollower` allows
the resumed run whose entry a late handler took; `ListenersReleased` excludes the page
that is late; `ResumesFromThePause` is about builtins, and an MCP call that ran before
a Stop can be approved and run again; `StartFairness` rules out the pod whose
image cannot be pulled. `Mirrored` says nothing of the route of a row with the
override; `RevokedStaysRevoked` nothing of a logout whose token a rotation replaced
just before. What then happens is told under Findings.

### Fairness

`FairSpec` assumes weak fairness of every task of the process, because a
promise resolves or rejects and the Node.js event loop runs its callback; of
the periodic sweep (`setInterval`), the boot sweep, and the clock
(`GraceExpires`). The pod list of a recurring sweep is strongly fair
(`SF_vars(SweepList)`): an API server that refuses every list for ever stops
everything. The Job controller creates pods and a running tool ends
(`RunnerFairness`). `StartFairness` says that a pod that was scheduled starts or
fails in the end; without it a run whose image cannot be pulled stays in
progress for ever in poll mode. Nothing is assumed of the informer: events may
never be delivered.

`AutomationFairness`: the cron fires and every await of a tick returns, leases
run out, benchmarks and evaluation runs end. Nobody has to call. The crons are
`@Cron` timers, a lease is a time in the row, and that children end is what
`Settles` and `EvaluationEnds` say of them.

`ServicesFairness`: as long as an await of the component in focus can return, a
timer of its can fire or its process can start again, one of them does. No user
acts, nothing fails and the platform does not change unless it happens to. For
log streams (`LogGoes`) the awaits of the handlers and loads return and the
five seconds of a drain pass; the stream itself may hang, and no event need be
delivered.

### Findings

Each is a run that ends in a counterexample, of a sentence in the repository.

- `claimForward`: "status only moves forward, every writer guards". `cancel` and
  `start` write without a condition and overwrite what a sweep or the loader
  decided while they awaited Kubernetes.
- `claimResume`: "guards against two concurrent /resume calls both winning". A
  sweep that lists the row after the first claim, and its dead pod before the first
  `deleteRun`, interrupts the claimed row again, and a second resume passes; its
  `deleteRun` may remove the first one's Job.
- `claimOrphan`: a superseded run "and its child tasks are cancelled".
  `cancel` stops the children it read before its write; a benchmark recorded in
  between goes on, with nobody left to stop it.
- `claimBaseline`: the delta is "always A=baseline, B=candidate". The stored
  delta is, but the aggregate counts from the stored sides, which are the other
  way round with a baseline: an improvement counts as a regression, and the
  pass rate is that of the baseline.
- `claimGrace`: the grace window "eliminates ... network-retry false-positive
  theft detections". A retry is answered, but without the cookie that was lost,
  and the next refresh after the window ends the session.

Other outcomes are in the models without a run of their own, and listed as
hazards: a Job that is created for a row deleted meanwhile, two active rows of
one name, a row closed as "no result.json written" whose runner wrote it after
the sweep asked storage, a completed run whose tool exited non-zero, a
cancelled automation run that a promotion starts again, and a ready revision
whose pass dies before it is handed over. So are these:

- A rotation commits before the logout, which presents the token it replaced:
  `updateMany` (`auth.service.ts:233`) matches nothing. If the rotation is answered
  after the logout, the browser has the cookie of the live successor, and is logged
  in again. `Sidebar.tsx:209-211` clears the store first because "a parallel 401 ...
  could ... re-hydrate the session". `RevokedStaysRevoked` is what holds: a logout that
  presents the live token leaves its session without one, for good.
- A sync that read the row before a PATCH picked a route puts the resolved route over
  it, and the syncs that follow keep that one as the user's
  (`source-sync.service.ts:337`).
- A Connection that was disabled for the want of a route stays disabled when the route
  is back, if a PATCH that decided on the older row wrote `active` over `unroutable`:
  the next sync sees nothing to enable (`source-sync.service.ts:284-297`). One that was
  created by a sync that failed before its last write belongs to no model.
- The create of a resumed run meets the old Job: the deletion resolves when it is
  accepted, not when the Job is gone (`k8s-benchmark-runner.ts:203-211`). The 409 is
  taken for success, and the run has no Job of its own.
- A delivery whose channel does not decrypt throws before the `try`
  (`dispatcher.service.ts:67`): it is never counted, and ends every pass that takes it.
- An approval of one MCP call is a switch for the whole request, whose other calls are
  executed as well (`AgentPage.tsx:778`, `agent-loop.service.ts:437`).

Of the live log: a page that subscribes late opens a stream nobody completes if
nobody had subscribed when it was closed
(`sse-hub.service.ts:40`, although :12 speaks of preventing that); three breaks
end a stream however far apart (`pod-log-streamer.ts:126`); a sweep closes the
stream without draining it; a late handler of the pod before takes the
entry of the run that was resumed.

## 4. What is proved

Every safety property that a passing run checks, every action property and both
refinements have a theorem. The proofs hold for any sets of runs, requests, handlers,
ticks, callers, replicas, tabs, tokens and so on, in every mode, with and
without errors, and any number of crashes, where the runs take two or three.

Each theorem rests on an inductive invariant, which contains the property and
what is needed to carry it over a step; what that is, is told below. It is
proved by one lemma for the initial states and one for the steps, the latter by
cases on the actions; types come first, because a step of an untyped row proves
nothing.

### Benchmarks

- `TypeCorrect`: `Spec => []TypeOK`. `TypeOK` alone is not inductive: a task
  writes `rows[RunOf(q)]`, so one must know that a task in flight has a run.
  `Typed == TypeOK /\ TasksHaveRuns` is inductive; there is one lemma per
  component, so that a step of one component need not look at the others.
- `SentinelLast`: `Spec => []SentinelIsLast`. It needs `RunnerInOrder`, what
  `main.py` has written by its current step. Only `RunnerStep` writes storage
  (`OnlyRunnerWritesStore`) and artifacts never go away (`StoreGrows`).
- `CompletedReport`: `Spec => []CompletedHasReport`. It needs
  `LoaderSawReport`: a loader about to commit has seen the report, and by
  `StoreGrows` it is still there.
- `LifecycleSafe`: `Spec => []LifecycleInv`, all of the above together, the
  invariant the `recovery` run checks. `CompletedHasReport` is protected twice,
  by the loader reading every object and by the runner's order; TLC shows that
  dropping one leaves it true, so it has a theorem and no mutant of its own.
- `BackgroundSafe`: `Spec => BackgroundBacksOff`. By cases on the tasks: each
  write of a watcher, loader or sweep goes through `updateGuarded` with
  in-progress statuses (`GuardedWrite`).
- `PodDeathAgreed`: `Spec => []PodDeathVerdict`. The watcher decides in `WatchFind`
  and writes after the drain, so the invariant also says what a handler that waits
  to fail a run may carry (`DrainFits`); a run's kind never changes meanwhile.
- `ServiceKeepsLedger`: `Spec => LedgerImplemented`. The mapping makes a run open
  while its row is in progress and makes the loaders between their winning write
  and their notification the ones that owe a notice. Steps of the table are
  `OneRow`, which opens, closes silently or stutters; `LoadCommit` and `LoadFail`
  are `Close` when they win; a notification is `Announce`; a throwing `emit` and
  a crash are `Lose`; everything else stutters.
- `LedgerBounded` (in `VerdictLedgerProofs`): in the abstract ledger, notices
  given and owed, and the open run, never exceed the number of openings. It
  needs finitely many announcers, which `LoaderAssumption` gives.
- `OneVerdict`: `Spec => []OneVerdictPerOpening`, from the last two: the bound of
  the ledger, read back through the mapping.
- `LaunchOrphanedOnlyOld`: `Spec => OrphanedOnlyOld`, in every mode and with launches of
  any length. A sweep decides by the row it listed. That a launch cannot begin under
  a sweep that holds the row is `ListedInv`: a listed row is neither one that can be
  claimed nor one that does not exist, because the only sweep that closes it takes it
  off its list in the same step. The boot sweep, which knows no grace, runs before
  calls are served (`CallsWhenUp`), and a handler that waits to fail a run blames its
  pod (`HandlersBlame`), so `podGone` is the periodic sweep's verdict on a row it
  listed as aged.

### Automation

- `AutomationTypeCorrect`: `AutomationSpec => []AutomationTypeOK`, with one lemma
  per group of actions. What makes it inductive is that a tick at work has
  a run, a promotion a source and a cancelling call a row (`TickOK`, `CallerOK`).
- `QueueSafe`: `AutomationSpec => []OneRunningPerSource`. Its invariant says that a
  tick between the count and the commit holds the lock of its source alone
  (`LockHeld`), that none of its runs is running meanwhile (`StillQuiet`), and that
  the run it picked can only have been cancelled (`Picked`).
- `VerdictFinal`: `AutomationSpec => VerdictStands`, from the same invariant: a
  promotion that is about to write has a run which is not completed, and every
  other write is conditional.
- `PassedSafe`: `AutomationSpec => []PassedMeansChecked`. A tick decides from the
  row and children it read and writes after awaits, so `CheckedInv` relates its
  copy to the tables: what the copy says is done is done (`TickChecked`), and cannot
  be undone by anybody (`RowMoves`), so that it still holds when the verdict is
  written.
- `NoChildForgotten`: `AutomationSpec => []NoForgottenChild`. A child is created
  before it is recorded; `ForgetInv` follows it through the hands of the tick
  (`HeldChild`), which records it or, finding the run closed, stops it itself.
- `AnnouncedSafe`: `AutomationSpec => []AnnouncedOnce`. Only the winner of the
  guarded write that closes a run goes on to emit, so `AnnouncedInv` has at most one
  tick before its emit for each run that is closed and not announced.

### Sync, watch loop, evaluation runs, arithmetic

- `TriggeredSafe`: `SyncSpec => []TriggeredOnce`. `readyAt` is written with a guard
  that one replica passes; `SyncInv` says of every revision that it is ready as soon
  as someone holds it to hand it over, and that one replica at most does
  (`HandedOver`), which works on the model it is at (`AtModel`).
- `WatcherSafe` and `StaleLoopsStop`: `[]WatchIsCurrent`, `StaleNeverWatches`. A
  loop goes on after an await unless it was aborted; `WatcherInv` says that the
  loop that nobody aborted is the one on record (`OnRecord`), and that what it read
  is what the row says, or a call is about to tell of the change (`ReadsRow`).
- `CompletedWhole`: `GateSpec => []CompletedIsWhole`. `GateInv` says that
  nothing is under way for a run that does not exist (`NotBegun`), that an executor
  at work has a row that is active or was deleted meanwhile (`ExecHasRow`), that
  a sample which is done is saved with the sides of its mode (`SamplesSound`), and that from
  the aggregation on all of them are, with none at work (`Whole`).
- `OutcomeIsFinal`: `GateSpec => OutcomesStand`, the refinement of `ChildLife`, which
  `AutomationRunner` relies on: by `GateInv` an end is written to a run that has
  none, and every other write leaves the outcome as it is.
- `BetterIsNeverWorse`: `GateSpec => []BetterNeverWorse`. A sample that passes where
  it failed raises the count of passes and does not raise that of regressions
  (by the cardinality of finite sets); each band is monotone in its count for
  any thresholds.
- `RegressionIsMonotone`: the regression check is monotone in the measured value
  for all natural numbers and percentages.

### Sessions, logs and the agent

- `SessionIsChain`: `AuthSpec => []OneLivePerFamily`, with and without Web Locks.
  The invariant `ChainInv` adds
  that nothing names a token that is not there and none that was replaced is live
  (`NoDangling`), that the row a transaction has locked is locked by it alone and
  still as its snapshot saw it (`LockedAsSeen`), and that a request which answers
  with a rotation has one to hand out (`RotatedHasNext`). A rotation
  then replaces the one live token of its family by another.
- `RevokedForGood`: `AuthSpec => RevokedStaysRevoked`. Only a rotation makes a token
  live in a family that exists, and by `LockedAsSeen` it starts from a live one; a
  logout that presents the live token revokes it, and by `ChainInv` there is no other.
- `NobodySuspected`: `AuthSpec => []NoFalseAlarm`. While no answer was lost
  (`Untroubled`), a request that presents a replaced token presents it in its grace
  window, which outlasts the request; the cookie names a replaced token only
  until the answer of its rotation; and until then nobody has the token that
  the rotation hands out, so it cannot be replaced before its time.
- `LogTypeCorrect` and `OneFollowerSafe`: `LogSpec => []LogTypeOK` and
  `[]OneFollower`. The invariant `LogInv` has three parts that are kept one by one: the
  streamer that follows is the entry of the pool, and one that reads has failed
  less than the allowed number of times (`FollowInv`); the row, its pods and
  events (`WorldOK`); and the calls under way (`CallsOK`).
- `PagesReleased`: `PagesSpec => []ListenersReleased`, inductive with the types
  (`PagesOK`): a page enters by opening a stream, which a closed run refuses, and
  a close empties it.
- `TranscriptSafe` and `PauseSafe`: `AgentSpec => []TranscriptWhole` and
  `[]ResumesFromThePause`. In `AgentInv` only the calls of the latest message may be
  open (`WellFormed`), and during a turn each of those is still to do, under way, or
  left to the user, in which case the run pauses and does not reach the model
  (`Calling`). No builtin is to do in two runs or in one after it was executed,
  which is why sending the same transcript twice executes none again
  (`Resumable`).

### Deliveries

- `SentSafe` and `GivenUpSafe`: `OutboxSpec => []SentWasAccepted` and
  `[]GivenUpAfterAll`. Passes overlap and write what they made of the row they
  read; `OutboxInv` says that the attempts of a row, and those of any pass's copy, never
  run ahead of the dispatches that were made (`RowSound`, `TickSound`), and dispatches
  and acceptances only grow (`Growing`), so a late write of an old pass is
  still true.
- `AskedOnceSafe`: `AlertSpec => []AskedOnce`. By the unique insert one webhook
  at most created an alert or has it explained (`HeldOnce`), and what was handed on
  and announced is counted by its stage (`StagesCounted`).

### The composition

- `ServicesImplementEach`: a behaviour of `ServicesSpec`, which the `exchange` and
  `services` runs explore, is one of all nine components, so that the theorems about them
  hold there.
- `ServicesTypeCorrect` and `RegressionAlwaysGrows`: `[]ServicesTypeOK` from the types in
  the invariants above, and `[]RegressionGrows` from `RegressionIsMonotone`.

### Assumptions, and what is only model-checked

The theorems assume the named ASSUMEs of the modules they are about, which TLC
evaluates on every run: `RecordsAssumption`, `LoaderAssumption`, `ModeAssumption`,
`LifecycleAssumption`; `RecordsAssumption` and `RunnerAssumption` of the automation;
`SyncAssumption`, `WatcherAssumption` (a process has a first watch loop,
`MaxLoops > 0`), `GateAssumption`; `AuthAssumption`, `LogAssumption`, `AgentAssumption`;
`OutboxAssumption`, `AlertAssumption`. They say that bounds are natural numbers, that the
sets that are counted are finite, and that "none" is no member. Two theorems
have hypotheses of their own: `LedgerBounded` (above), and
`ServicesTypeCorrect`, that `FocusSet` names components.

Only model-checked are the liveness properties (`Settles`, `EveryRunEnds`,
`EvaluationEnds`, `SyncConverges`, `WatcherCatchesUp`, `RefreshReturns`,
`DeliveryResolves`, `RunsReturn`, `VerdictNotHeld`), which need fairness and ENABLED and
are beyond TLAPS, and the counterexamples of the findings.

## 5. Plan and what is not modelled

Done: the benchmark lifecycle with its ledger, log streaming, the automation
pipeline, source sync and watcher, quality gate, arithmetic, sessions, outbox,
alerts and agent. All of it has its safety proved. What comes next, in this order:

1. The composition of `AutomationRunner` with `QualityGateExecutor` in place of
   `ChildLife`, whose steps `OutcomeIsFinal` already justifies, and its proof.
2. `ReportLoader` with the metric snapshots, and the progress throttle.
3. Step lemmas for the liveness properties: what a fair step cannot undo.

Not modelled: metric snapshots, the progress throttle, confirm tokens, the
judge scores of the gate, the enrichment of alerts, and the parts listed as
`not_modelled` in PROJECT.json: rendering and forms, tool adapters and contracts
(formatting and schemas), floating-point scoring, and services that create, read,
update and delete single rows. The seed data and recipes are data.
