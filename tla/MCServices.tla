----------------------------- MODULE MCServices -----------------------------
(***************************************************************************)
(* Instances, for TLC, of the components that do not share state: focus    *)
(* says which of them a behaviour is about, and the others stand still in  *)
(* their initial states.  A component that focus does not name takes no    *)
(* step, so fairness is that of the actions of the component in focus.     *)
(***************************************************************************)
EXTENDS QualityGateExecutor, SourceSync, SourceWatcher, AuthSessions, NotificationOutbox,
    AlertIngest, AgentLoop, LogStreaming, LogPages, TLC

CONSTANTS call1, call2, call3, FocusSet

VARIABLE focus

KindOfCall == (call1 :> "builtin") @@ (call2 :> "mcp") @@ (call3 :> "inline")
Thresholds == [passRateMin |-> 90, regressionMax |-> 0]
Components ==
    {"gate", "sync", "watcher", "auth", "outbox", "alerts", "agent", "logs", "pages"}

ServicesInit ==
    /\ focus \in FocusSet
    /\ GateInit /\ SyncInit /\ WatcherInit /\ AuthInit /\ OutboxInit /\ AlertInit /\ AgentInit
    /\ LogInit /\ PagesInit
    /\ focus # "sync" => others
    /\ focus # "logs" => row.resumable

ServicesVars ==
    <<focus, gateVars, syncVars, watcherVars, authVars, outboxVars, alertVars, agentVars,
      logVars, pageVars>>

\* The step of component c is the only one.
Only(c) ==
    /\ focus = c /\ UNCHANGED focus
    /\ IF c = "gate" THEN TRUE ELSE UNCHANGED gateVars
    /\ IF c = "sync" THEN TRUE ELSE UNCHANGED syncVars
    /\ IF c = "watcher" THEN TRUE ELSE UNCHANGED watcherVars
    /\ IF c = "auth" THEN TRUE ELSE UNCHANGED authVars
    /\ IF c = "outbox" THEN TRUE ELSE UNCHANGED outboxVars
    /\ IF c = "alerts" THEN TRUE ELSE UNCHANGED alertVars
    /\ IF c = "agent" THEN TRUE ELSE UNCHANGED agentVars
    /\ IF c = "logs" THEN TRUE ELSE UNCHANGED logVars
    /\ IF c = "pages" THEN TRUE ELSE UNCHANGED pageVars

ServicesNext ==
    \/ Only("gate") /\ GateNext
    \/ Only("sync") /\ SyncNext
    \/ Only("watcher") /\ WatcherNext
    \/ Only("auth") /\ AuthNext
    \/ Only("outbox") /\ OutboxNext
    \/ Only("alerts") /\ AlertNext
    \/ Only("agent") /\ AgentNext
    \/ Only("logs") /\ LogNext
    \/ Only("pages") /\ PagesNext

ServicesSpec == ServicesInit /\ [][ServicesNext]_ServicesVars

\* As long as an await can return, a timer fire or a process start again, one
\* of them does, whichever it is; no user is obliged to do anything.
GateGoes == focus = "gate" /\ (GateBoot \/ \E e \in Evals : ExecStep(e) \/ \E s \in Samples : SampleStep(e, s))
SyncGoes == focus = "sync" /\ (PatchWrite \/ \E p \in Replicas : Reconcile(p) \/ SyncStep(p))
WatcherGoes == focus = "watcher" /\ ((\E c \in Editors : Emit(c)) \/ \E l \in Loops : LoopStep(l))
AuthGoes == focus = "auth" /\ \E r \in Requests : Serve(r) \/ Answer(r)
OutboxGoes == focus = "outbox" /\ ((\E k \in Ticks : TickRead(k) \/ TickStep(k)) \/ \E d \in Deliveries : RetryDue(d))
AgentGoes == focus = "agent" /\ \E r \in Runs : RunStep(r)
LogGoes == focus = "logs" /\ ((\E h \in LogHandlers : HandlerStep(h)) \/ \E l \in Loaders : LoadStep(l))

ServicesFairness ==
    /\ WF_gateVars(GateGoes) /\ WF_syncVars(SyncGoes) /\ WF_watcherVars(WatcherGoes)
    /\ WF_authVars(AuthGoes) /\ WF_outboxVars(OutboxGoes) /\ WF_agentVars(AgentGoes)
    /\ WF_logVars(LogGoes)

ServicesFairSpec == ServicesSpec /\ ServicesFairness

(* Types of all variables of all components. *)
ServicesTypeOK ==
    /\ focus \in Components
    /\ GateTypeOK /\ SyncTypeOK /\ WatcherTypeOK /\ AuthTypeOK /\ OutboxTypeOK
    /\ AlertTypeOK /\ AgentTypeOK /\ LogTypeOK /\ PagesTypeOK

(* The regression check of an automated benchmark grows with the change, in *)
(* the direction of each metric (VerdictGrows); it has no state of its own  *)
(* and is evaluated where the gate is.                                      *)
RegressionGrows == focus = "gate" => VerdictGrows

(* FollowsSource: once nobody edits the source any more, it is watched as   *)
(* it is if it is enabled, and not at all if it is disabled.                *)
WatcherCatchesUp == <>[](focus = "watcher" => FollowsSource)

(* Mirrored: once the platform stays as it is, the rows come to mirror it   *)
(* and stay so, whatever a pass with an old list, another replica, a PATCH  *)
(* or a pass that died half way wrote in between.                           *)
SyncConverges == <>[](focus = "sync" => Mirrored)
=============================================================================
