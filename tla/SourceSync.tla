---------------------------- MODULE SourceSync ----------------------------
(***************************************************************************)
(* SourceSyncService for one platform source: reconcile lists GPUStack     *)
(* page by page and then mirrors the list, model by model, into            *)
(* discovered_models, connections and deployment_revisions, while the list *)
(* grows old and the user patches the same rows.  Ready revisions are      *)
(* handed to the automation runner only after everything else.  Replicas   *)
(* each reconcile; calls within one replica coalesce.  Names, categories,  *)
(* snapshots and the text of lastSyncError are left out.                   *)
(***************************************************************************)
EXTENDS Naturals, FiniteSets

CONSTANTS
    Models, Revs,    \* GPUStack models, and fingerprints a model may have
    Replicas,        \* API replicas
    NoModel,
    MaxEvents        \* bound on platform changes, patches and failures together

ASSUME SyncAssumption ==
    /\ MaxEvents \in Nat
    /\ NoModel \notin Models /\ Models # {} /\ Revs # {}

VARIABLES
    plat,       \* what GPUStack lists of these models
    others,     \* whether it lists other models too
    dm,         \* discovered_models
    made,       \* the Connections created for them are 1..made
    enabled,    \* those that are enabled
    readied,    \* revisions with a readyAt
    sync,       \* the reconcile under way in each replica
    patch,      \* the PATCH under way
    triggered,  \* revision:<id> keys handed to the runner
    used        \* platform changes, patches and failures so far

syncVars == <<plat, others, dm, made, enabled, readied, sync, patch, triggered, used>>

Listed == [there: BOOLEAN, rev: Revs, ready: BOOLEAN, routed: BOOLEAN]
Routes == {"none", "auto", "picked"}
Model ==
    [status: {"none", "new", "active", "unroutable", "removed"}, route: Routes,
     override: BOOLEAN, conn: Nat, auto: BOOLEAN, rev: Revs]    \* connectionId, or 0

SyncPcs == {"idle", "list", "upsert", "conn", "rev", "ready", "final", "gone", "rmConn", "listen"}
Lists == {"models", "routes"}
Sync == [pc: SyncPcs, unread: SUBSET (Models \X Lists), seen: [Models -> Listed], todo: SUBSET Models,
         cur: Models \cup {NoModel}, prev: Model,    \* the row as upsert returned it
         links: [Models -> Nat],                     \* the connectionIds it holds
         fired: SUBSET (Models \X Revs)]
PatchKinds == {"pick", "release", "enable", "disable"}
Patch == [pc: {"idle", "write"}, of: Models, kind: PatchKinds, to: {"keep", "new", "active"}]

AnyRev == CHOOSE v \in Revs : TRUE
AnyModel == CHOOSE m \in Models : TRUE
NoModelRow == [status |-> "none", route |-> "none", override |-> FALSE, conn |-> 0,
          auto |-> FALSE, rev |-> AnyRev]
Empty == [m \in Models |-> [there |-> FALSE, rev |-> AnyRev, ready |-> FALSE, routed |-> FALSE]]
NoLinks == [m \in Models |-> 0]
NoSync == [pc |-> "idle", unread |-> {}, seen |-> Empty, todo |-> {}, cur |-> NoModel, prev |-> NoModelRow,
           links |-> NoLinks, fired |-> {}]
NoPatch == [pc |-> "idle", of |-> AnyModel, kind |-> "enable", to |-> "keep"]

SyncInit ==
    /\ plat = [m \in Models |-> [there |-> TRUE, rev |-> AnyRev, ready |-> FALSE, routed |-> TRUE]]
    /\ others \in BOOLEAN
    /\ dm = [m \in Models |-> NoModelRow]
    /\ made = 0 /\ enabled = {}
    /\ readied = {} /\ triggered = [k \in Models \X Revs |-> 0]
    /\ sync = [p \in Replicas |-> NoSync]
    /\ patch = NoPatch
    /\ used = 0

SyncAt(p, pc) == sync[p].pc = pc
SetSync(p, v) == sync' = [sync EXCEPT ![p] = v]
SyncGoto(p, pc) == SetSync(p, [sync[p] EXCEPT !.pc = pc])
Cur(p) == sync[p].cur
Seen(p) == sync[p].seen[Cur(p)]
Prev(p) == sync[p].prev
SetModel(m, v) == dm' = [dm EXCEPT ![m] = v]

-----------------------------------------------------------------------------
(* reconcile: one at a time in a replica, started by the watcher and cron. *)

There(seen) == {m \in Models : seen[m].there}
Known == {m \in Models : dm[m].status \notin {"none", "removed"}}

\* It begins with the lists of models and routes, asked for at the same time and
\* each page by page.  An entry that another pushes over a page boundary while they
\* are read is not modelled.
Read(s, m, list) ==
    LET old == s.seen[m]
        entry == CASE list = "routes" -> [old EXCEPT !.routed = plat[m].routed]
                   [] list = "models" -> IF plat[m].there THEN [plat[m] EXCEPT !.routed = old.routed]
                                         ELSE old
    IN [s EXCEPT !.unread = @ \ {<<m, list>>}, !.seen = [@ EXCEPT ![m] = entry]]

Reconcile(p) ==
    /\ SyncAt(p, "idle")
    /\ \E m \in Models, list \in Lists :
          SetSync(p, Read([NoSync EXCEPT !.pc = "list", !.unread = Models \X Lists], m, list))
    /\ UNCHANGED <<plat, others, dm, made, enabled, readied, patch, triggered, used>>

ListPage(p) ==
    /\ SyncAt(p, "list")
    /\ \E x \in sync[p].unread : SetSync(p, Read(sync[p], x[1], x[2]))
    /\ UNCHANGED <<plat, others, dm, made, enabled, readied, patch, triggered, used>>

\* No models at all, while some are known, is not taken for a removal.
ListOver(p) ==
    /\ SyncAt(p, "list") /\ sync[p].unread = {}
    /\ SetSync(p, IF There(sync[p].seen) = {} /\ ~others /\ Known # {} THEN NoSync
                  ELSE [sync[p] EXCEPT !.pc = "upsert", !.todo = There(sync[p].seen)])
    /\ UNCHANGED <<plat, others, dm, made, enabled, readied, patch, triggered, used>>

\* syncModel, step by step; `prev` is the row that the upsert returned.
Upsert(p) ==
    /\ SyncAt(p, "upsert")
    /\ \E m \in sync[p].todo :
          LET row == IF dm[m].status = "none" THEN [NoModelRow EXCEPT !.status = "new"] ELSE dm[m]
          IN /\ SetModel(m, row)
             /\ SetSync(p, [sync[p] EXCEPT !.pc = "conn", !.todo = @ \ {m},
                               !.cur = m, !.prev = [row EXCEPT !.rev = AnyRev]])
    /\ UNCHANGED <<plat, others, made, enabled, readied, patch, triggered, used>>

\* The route decided on: the user's, if the row read said so.
RouteFor(p) ==
    IF Prev(p).override THEN Prev(p).route ELSE IF Seen(p).routed THEN "auto" ELSE "none"

\* Mutant: a model that reappears stays removed.
StatusForStaysRemoved(p) ==
    IF RouteFor(p) = "none" THEN "unroutable"
    ELSE IF Prev(p).status = "unroutable" THEN IF Prev(p).auto THEN "active" ELSE "new"
    ELSE Prev(p).status

StatusFor(p) ==
    IF RouteFor(p) = "none" THEN "unroutable"
    ELSE IF Prev(p).status \in {"unroutable", "removed"}
         THEN IF Prev(p).auto THEN "active" ELSE "new"
         ELSE Prev(p).status

\* A Connection is created and its id held, or the one the row had is switched.
SyncConnection(p) ==
    /\ SyncAt(p, "conn")
    /\ LET old == Prev(p).conn
           create == RouteFor(p) # "none" /\ old = 0
           enable == RouteFor(p) # "none" /\ Prev(p).status \in {"removed", "unroutable"}
           disable == RouteFor(p) = "none" /\ Prev(p).status # "unroutable"
       IN /\ made' = IF create THEN made + 1 ELSE made
          /\ enabled' = CASE create -> enabled \cup {made + 1}
                          [] ~create /\ enable -> enabled \cup {old}
                          [] ~create /\ disable -> enabled \ {old}
                          [] OTHER -> enabled
          /\ SetSync(p, [sync[p] EXCEPT !.pc = "rev",
                            !.links = [NoLinks EXCEPT ![Cur(p)] = IF create THEN made + 1 ELSE old]])
    /\ UNCHANGED <<plat, others, dm, readied, patch, triggered, used>>

\* The revision is found or created, with the readyAt it has by then.
FindRevision(p) ==
    /\ SyncAt(p, "rev")
    /\ SetSync(p, [sync[p] EXCEPT !.pc =
          IF Seen(p).ready /\ <<Cur(p), Seen(p).rev>> \notin readied THEN "ready" ELSE "final"])
    /\ UNCHANGED <<plat, others, dm, made, enabled, readied, patch, triggered, used>>

\* Mutant: the write that sets readyAt trusts the row that was read.
FlipReadyTrustsRead(p) ==
    /\ SyncAt(p, "ready")
    /\ LET k == <<Cur(p), Seen(p).rev>>
       IN /\ readied' = readied \cup {k}
          /\ SetSync(p, [sync[p] EXCEPT !.pc = "final", !.fired = @ \cup {k}])
    /\ UNCHANGED <<plat, others, dm, made, enabled, patch, triggered, used>>

\* The one conditional write that sets readyAt is the one that reports it.
FlipReady(p) ==
    /\ SyncAt(p, "ready")
    /\ LET k == <<Cur(p), Seen(p).rev>>
       IN /\ readied' = readied \cup {k}
          /\ SetSync(p, [sync[p] EXCEPT !.pc = "final",
                            !.fired = IF k \in readied THEN @ ELSE @ \cup {k}])
    /\ UNCHANGED <<plat, others, dm, made, enabled, patch, triggered, used>>

\* All that is kept of a model that was worked on is that it is listed.
NextModel(p) ==
    [sync[p] EXCEPT !.pc = "upsert", !.cur = NoModel, !.prev = NoModelRow, !.links = NoLinks,
        !.seen = [@ EXCEPT ![Cur(p)] = [Empty[Cur(p)] EXCEPT !.there = TRUE]]]

\* Writes route, status, connectionId and revision as decided from what was read.
SyncFinal(p) ==
    /\ SyncAt(p, "final")
    /\ SetModel(Cur(p), [dm[Cur(p)] EXCEPT !.route = RouteFor(p), !.status = StatusFor(p),
                                           !.conn = sync[p].links[Cur(p)], !.rev = Seen(p).rev])
    /\ SetSync(p, NextModel(p))
    /\ UNCHANGED <<plat, others, made, enabled, readied, patch, triggered, used>>

\* One model failed: its reconcile is given up, with the id of a Connection that was
\* created for it, and the others go on.
SyncModelFails(p) ==
    /\ sync[p].pc \in {"conn", "rev", "ready", "final"}
    /\ used < MaxEvents
    /\ SetSync(p, NextModel(p))
    /\ used' = used + 1
    /\ UNCHANGED <<plat, others, dm, made, enabled, readied, patch, triggered>>

-----------------------------------------------------------------------------
(* markRemoved, and the listeners at the end. *)

FindGone(p) ==
    /\ SyncAt(p, "upsert") /\ sync[p].todo = {}
    /\ LET gone == Known \ There(sync[p].seen)
       IN SetSync(p, [sync[p] EXCEPT !.pc = "gone", !.seen = Empty, !.todo = gone,
                         !.links = [m \in Models |-> IF m \in gone THEN dm[m].conn ELSE 0]])
    /\ UNCHANGED <<plat, others, dm, made, enabled, readied, patch, triggered, used>>

MarkRemoved(p) ==
    /\ SyncAt(p, "gone")
    /\ \E m \in sync[p].todo :
          /\ SetModel(m, [dm[m] EXCEPT !.status = "removed"])
          /\ SetSync(p, [sync[p] EXCEPT !.pc = "rmConn", !.todo = @ \ {m}, !.cur = m])
    /\ UNCHANGED <<plat, others, made, enabled, readied, patch, triggered, used>>

\* Then cancelRunsListener, which is the runner's AutomationRunner!CancelCall.
DisableRemoved(p) ==
    /\ SyncAt(p, "rmConn")
    /\ enabled' = enabled \ {sync[p].links[Cur(p)]}
    /\ SetSync(p, [sync[p] EXCEPT !.pc = "gone", !.cur = NoModel, !.links[Cur(p)] = 0])
    /\ UNCHANGED <<plat, others, dm, made, readied, patch, triggered, used>>

\* Once the last ready revision is handed over, the call is at its end.
Listening(fired) == IF fired = {} THEN NoSync ELSE [NoSync EXCEPT !.pc = "listen", !.fired = fired]

RemovalOver(p) ==
    /\ SyncAt(p, "gone") /\ sync[p].todo = {}
    /\ SetSync(p, Listening(sync[p].fired))
    /\ UNCHANGED <<plat, others, dm, made, enabled, readied, patch, triggered, used>>

\* readyListener: enqueues, if automation is enabled by now.
ReadyListener(p) ==
    /\ SyncAt(p, "listen")
    /\ \E k \in sync[p].fired :
          /\ triggered' = IF dm[k[1]].auto THEN [triggered EXCEPT ![k] = @ + 1] ELSE triggered
          /\ SetSync(p, Listening(sync[p].fired \ {k}))
    /\ UNCHANGED <<plat, others, dm, made, enabled, readied, patch, used>>

\* A failure of markRemoved, or the end of the process, gives up the whole pass.
PassDies(p) ==
    /\ sync[p].pc # "idle"
    /\ used < MaxEvents
    /\ SetSync(p, NoSync)
    /\ used' = used + 1
    /\ UNCHANGED <<plat, others, dm, made, enabled, readied, patch, triggered>>

SyncStep(p) ==
    \/ ListPage(p) \/ ListOver(p) \/ Upsert(p) \/ SyncConnection(p) \/ FindRevision(p) \/ FlipReady(p) \/ SyncFinal(p)
    \/ FindGone(p) \/ MarkRemoved(p) \/ DisableRemoved(p)
    \/ RemovalOver(p) \/ ReadyListener(p)

-----------------------------------------------------------------------------
(* PATCH /discovered-models/:id decides on the row it read and then writes. *)

\* Automation needs a model that is routable, or becomes so by the route picked.
PatchAllowed(m, kind) ==
    LET row == dm[m]
    IN /\ row.status # "none"
       /\ kind = "enable" => ~row.auto
       /\ kind = "disable" => row.auto
       /\ (kind = "enable" \/ (row.auto /\ kind # "disable")) =>
             /\ row.status # "removed" /\ row.conn # 0
             /\ kind = "pick" \/ (row.status # "unroutable" /\ row.route # "none")

PatchRead(m, kind) ==
    /\ patch.pc = "idle" /\ used < MaxEvents
    /\ PatchAllowed(m, kind)
    /\ patch' = [pc |-> "write", of |-> m, kind |-> kind,
                 to |-> CASE kind = "pick" /\ dm[m].status = "unroutable" ->
                                IF dm[m].auto THEN "active" ELSE "new"
                          [] kind = "enable" -> "active"
                          [] kind = "disable" -> "new"
                          [] OTHER -> "keep"]
    /\ used' = used + 1
    /\ UNCHANGED <<plat, others, dm, made, enabled, readied, sync, triggered>>

\* What follows is the runner's: disabling cancels runs (AutomationRunner!CancelCall),
\* enabling enqueues one with a key of its own.
PatchWrite ==
    /\ patch.pc = "write"
    /\ SetModel(patch.of,
          LET row == [dm[patch.of] EXCEPT !.status = IF patch.to = "keep" THEN @ ELSE patch.to]
          IN CASE patch.kind = "pick" -> [row EXCEPT !.override = TRUE, !.route = "picked"]
               [] patch.kind = "release" -> [row EXCEPT !.override = FALSE]
               [] patch.kind = "enable" -> [row EXCEPT !.auto = TRUE]
               [] patch.kind = "disable" -> [row EXCEPT !.auto = FALSE])
    /\ patch' = NoPatch
    /\ UNCHANGED <<plat, others, made, enabled, readied, sync, triggered, used>>

\* GPUStack: deployments come, change, become ready, lose their route and go.
PlatformChanges(m) ==
    /\ used < MaxEvents
    /\ \/ plat' = [plat EXCEPT ![m].there = ~@]
       \/ plat' = [plat EXCEPT ![m].ready = ~@]
       \/ plat' = [plat EXCEPT ![m].routed = ~@]
       \/ \E v \in Revs \ {plat[m].rev} : plat' = [plat EXCEPT ![m].rev = v, ![m].ready = FALSE]
    /\ used' = used + 1
    /\ UNCHANGED <<others, dm, made, enabled, readied, sync, patch, triggered>>

SyncNext ==
    \/ \E p \in Replicas : Reconcile(p) \/ SyncStep(p) \/ SyncModelFails(p) \/ PassDies(p)
    \/ \E m \in Models, kind \in PatchKinds : PatchRead(m, kind)
    \/ PatchWrite
    \/ \E m \in Models : PlatformChanges(m)

SyncSpec == SyncInit /\ [][SyncNext]_syncVars

-----------------------------------------------------------------------------
(* Types of all variables. *)
SyncTypeOK ==
    /\ plat \in [Models -> Listed] /\ others \in BOOLEAN
    /\ dm \in [Models -> Model]
    /\ made \in Nat /\ enabled \subseteq Nat
    /\ readied \subseteq Models \X Revs
    /\ sync \in [Replicas -> Sync]
    /\ patch \in Patch
    /\ triggered \in [Models \X Revs -> Nat]
    /\ used \in 0..MaxEvents

(* A revision is handed to the runner at most once, however many replicas   *)
(* see it become ready (source-sync.service.ts:324).                        *)
TriggeredOnce ==
    \A k \in Models \X Revs :
        triggered[k] + Cardinality({p \in Replicas : k \in sync[p].fired}) <= 1

(* Once the platform stays as it is, the rows come to mirror it and stay so: *)
(* models that are gone are removed, those that came back are not, the      *)
(* revision is the deployed one, and a model without a route of its own is  *)
(* unroutable, whatever a pass with an old list, another replica, a PATCH   *)
(* or a pass that died half way wrote in between.                           *)
Mirrors(m) ==
    IF ~plat[m].there
    THEN There(plat) # {} \/ others => dm[m].status \in {"none", "removed"}
    ELSE /\ dm[m].rev = plat[m].rev
         /\ ~dm[m].override =>
               (dm[m].status = "unroutable" <=> ~plat[m].routed) /\ dm[m].status # "removed"

Mirrored == \A m \in Models : Mirrors(m)
=============================================================================
