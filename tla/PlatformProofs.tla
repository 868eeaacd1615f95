--------------------------- MODULE PlatformProofs ---------------------------
(***************************************************************************)
(* The source sync, the source watcher and the executor of evaluations,    *)
(* for any number of replicas, models, revisions, loops, edits, runs and   *)
(* samples, and any number of failures.                                    *)
(***************************************************************************)
EXTENDS SourceSync, SourceWatcher, QualityGateExecutor, FiniteSetTheorems, TLAPS

-----------------------------------------------------------------------------
(* The sync: a ready revision is handed over once. *)

\* A pass that works on a model has one in hand.
AtModel(p) ==
    sync[p].pc \in {"conn", "rev", "ready", "final", "rmConn"} => sync[p].cur \in Models

\* A ready revision is in one place: nowhere yet, in the hands of one pass, or
\* with the runner.
HandedOver(k) ==
    /\ k \notin readied => triggered[k] = 0 /\ \A p \in Replicas : k \notin sync[p].fired
    /\ \A p, q \in Replicas : k \in sync[p].fired \cap sync[q].fired => p = q
    /\ \A p \in Replicas : k \in sync[p].fired => triggered[k] = 0
    /\ triggered[k] <= 1

SyncInv ==
    /\ SyncTypeOK
    /\ \A p \in Replicas : AtModel(p)
    /\ \A k \in Models \X Revs : HandedOver(k)

-----------------------------------------------------------------------------

\* What rows, passes and lists start from.
LEMMA SyncDefaults ==
    /\ AnyRev \in Revs /\ AnyModel \in Models /\ NoModelRow \in Model
    /\ Empty \in [Models -> Listed] /\ NoSync \in Sync /\ NoPatch \in Patch
<1>1. AnyRev \in Revs /\ AnyModel \in Models
  BY SyncAssumption DEF AnyRev, AnyModel
<1>2. NoModelRow \in Model
  BY <1>1 DEF NoModelRow, Model, Routes
<1>3. Empty \in [Models -> Listed]
  BY <1>1 DEF Empty, Listed
<1>4. NoSync \in Sync
  BY <1>2, <1>3 DEF NoSync, NoLinks, Sync, SyncPcs
<1>5. NoPatch \in Patch
  BY <1>1 DEF NoPatch, Patch, PatchKinds
<1> QED BY <1>1, <1>2, <1>3, <1>4, <1>5

\* At first no revision is ready.
LEMMA SyncInitial == SyncInit => SyncInv
<1> SUFFICES ASSUME SyncInit PROVE SyncInv
  OBVIOUS
<1>1. plat \in [Models -> Listed]
  BY SyncDefaults DEF SyncInit, Listed
<1>2. SyncTypeOK
  <2>1. triggered \in [Models \X Revs -> Nat] /\ readied \subseteq Models \X Revs /\ used \in 0..MaxEvents
    BY SyncAssumption DEF SyncInit
  <2>2. dm \in [Models -> Model] /\ sync \in [Replicas -> Sync] /\ patch \in Patch /\ others \in BOOLEAN
        /\ made \in Nat /\ enabled \subseteq Nat
    BY SyncDefaults DEF SyncInit
  <2> QED BY <1>1, <2>1, <2>2 DEF SyncTypeOK
<1>3. \A p \in Replicas : sync[p].pc = "idle" /\ sync[p].fired = {}
  BY DEF SyncInit, NoSync
<1>4. \A k \in Models \X Revs : HandedOver(k)
  BY <1>3 DEF SyncInit, HandedOver
<1> QED BY <1>2, <1>3, <1>4 DEF SyncInv, AtModel

\* A pass of replica p goes on as v, and nothing is handed over.
LEMMA PassGoesOn ==
    ASSUME SyncInv, NEW p \in Replicas, NEW v \in Sync, sync' = [sync EXCEPT ![p] = v],
           v.pc \in {"conn", "rev", "ready", "final", "rmConn"} => v.cur \in Models,
           v.fired \subseteq sync[p].fired,
           UNCHANGED <<readied, triggered>>
    PROVE  /\ sync' \in [Replicas -> Sync]
           /\ \A q \in Replicas : AtModel(q)'
           /\ \A k \in Models \X Revs : HandedOver(k)'
<1>1. sync \in [Replicas -> Sync]
  BY DEF SyncInv, SyncTypeOK
<1>2. \A q \in Replicas : sync'[q] = IF q = p THEN v ELSE sync[q]
  BY <1>1
<1>3. \A q \in Replicas : AtModel(q)'
  BY <1>2 DEF SyncInv, AtModel
<1>4. \A q \in Replicas : sync'[q].fired \subseteq sync[q].fired
  BY <1>2
<1>5. \A k \in Models \X Revs : HandedOver(k)'
  BY <1>4 DEF SyncInv, HandedOver
<1> QED BY <1>1, <1>3, <1>5

\* What a pass decides for a model is a route, a status and a connection.
LEMMA DecidedTypes ==
    ASSUME SyncInv, NEW p \in Replicas, sync[p].cur \in Models
    PROVE  /\ RouteFor(p) \in Routes
           /\ StatusFor(p) \in {"none", "new", "active", "unroutable", "removed"}
           /\ Prev(p).conn \in Nat /\ Seen(p) \in Listed /\ dm[Cur(p)] \in Model /\ sync[p] \in Sync
<1>1. sync[p] \in Sync /\ Prev(p) \in Model /\ dm[Cur(p)] \in Model /\ Seen(p) \in Listed
  BY DEF SyncInv, SyncTypeOK, Sync, Prev, Cur, Seen
<1>2. RouteFor(p) \in Routes
  BY <1>1 DEF RouteFor, Model, Routes
<1>3. StatusFor(p) \in {"none", "new", "active", "unroutable", "removed"}
  BY <1>1 DEF StatusFor, Model
<1>4. Prev(p).conn \in Nat
  BY <1>1 DEF Model
<1> QED BY <1>1, <1>2, <1>3, <1>4

\* A page that is read adds to what has been seen, and changes nothing else of a pass.
LEMMA ReadType ==
    ASSUME plat \in [Models -> Listed], NEW s \in Sync, NEW m \in Models, NEW list \in Lists
    PROVE  Read(s, m, list) \in Sync /\ Read(s, m, list).pc = s.pc /\ Read(s, m, list).fired = s.fired
<1> DEFINE old == s.seen[m]
           entry == CASE list = "routes" -> [old EXCEPT !.routed = plat[m].routed]
                      [] list = "models" -> IF plat[m].there THEN [plat[m] EXCEPT !.routed = old.routed]
                                            ELSE old
<1>1. old \in Listed /\ plat[m] \in Listed
  BY DEF Sync
<1>2. [old EXCEPT !.routed = plat[m].routed] \in Listed /\ [plat[m] EXCEPT !.routed = old.routed] \in Listed
  BY <1>1 DEF Listed
<1>3. Read(s, m, list) \in Sync /\ Read(s, m, list).pc = s.pc /\ Read(s, m, list).fired = s.fired
  <2>1. entry \in Listed
    BY <1>1, <1>2 DEF Lists
  <2> HIDE DEF entry
  <2>2. [s.seen EXCEPT ![m] = entry] \in [Models -> Listed]
    BY <2>1 DEF Sync
  <2>3. Read(s, m, list) = [s EXCEPT !.unread = @ \ {<<m, list>>}, !.seen = [s.seen EXCEPT ![m] = entry]]
    BY DEF Read, entry
  <2> QED BY <2>2, <2>3 DEF Sync
<1> QED BY <1>3

\* What is kept of a pass between two models.
LEMMA NextModelType ==
    ASSUME SyncInv, NEW p \in Replicas, sync[p].cur \in Models
    PROVE  NextModel(p) \in Sync /\ NextModel(p).pc = "upsert" /\ NextModel(p).fired = sync[p].fired
<1> DEFINE kept == [sync[p].seen EXCEPT ![Cur(p)] = [Empty[Cur(p)] EXCEPT !.there = TRUE]]
<1>1. sync[p] \in Sync
  BY DEF SyncInv, SyncTypeOK
<1>2. [Empty[Cur(p)] EXCEPT !.there = TRUE] \in Listed
  BY SyncDefaults DEF Cur, Listed
<1>3. kept \in [Models -> Listed]
  BY <1>1, <1>2 DEF Sync
<1>4. NextModel(p) = [sync[p] EXCEPT !.pc = "upsert", !.cur = NoModel, !.prev = NoModelRow,
                                     !.links = NoLinks, !.seen = kept]
  BY DEF NextModel
<1>5. NoLinks \in [Models -> Nat] /\ NoModelRow \in Model
  BY SyncDefaults DEF NoLinks
<1> HIDE DEF kept
<1> QED BY <1>1, <1>3, <1>4, <1>5 DEF Sync, SyncPcs

\* A pass with ready revisions in hand listens, and one without is over.
LEMMA ListeningType ==
    ASSUME NEW fired \in SUBSET (Models \X Revs)
    PROVE  Listening(fired) \in Sync /\ Listening(fired).pc \in {"idle", "listen"}
           /\ Listening(fired).fired = fired
<1>1. [NoSync EXCEPT !.pc = "listen", !.fired = fired] \in Sync
  BY SyncDefaults DEF Sync, SyncPcs
<1> QED BY <1>1, SyncDefaults DEF Listening, NoSync

\* Every step keeps the invariant.
LEMMA SyncStepInv == SyncInv /\ [SyncNext]_syncVars => SyncInv'
<1> SUFFICES ASSUME SyncInv, [SyncNext]_syncVars PROVE SyncInv'
  OBVIOUS
<1>0. SyncTypeOK /\ NoSync \in Sync
  BY SyncDefaults DEF SyncInv
<1>a. \A p \in Replicas : sync[p] \in Sync
  BY <1>0 DEF SyncTypeOK
<1>1. ASSUME NEW p \in Replicas, Reconcile(p) \/ ListPage(p) PROVE SyncInv'
  <2>1. PICK s \in Sync, m \in Models, list \in Lists :
          sync' = [sync EXCEPT ![p] = Read(s, m, list)] /\ s.pc = "list" /\ s.fired \subseteq sync[p].fired
    <3>1. CASE Reconcile(p)
      <4>1. [NoSync EXCEPT !.pc = "list", !.unread = Models \X Lists] \in Sync
        BY <1>0 DEF NoSync, Sync, SyncPcs
      <4>2. [NoSync EXCEPT !.pc = "list", !.unread = Models \X Lists].pc = "list"
            /\ [NoSync EXCEPT !.pc = "list", !.unread = Models \X Lists].fired = {}
        BY DEF NoSync
      <4> QED BY <3>1, <4>1, <4>2 DEF Reconcile, SetSync
    <3>2. CASE ListPage(p)
      BY <1>a, <3>2 DEF ListPage, SyncAt, SetSync, Sync
    <3> QED BY <1>1, <3>1, <3>2
  <2>2. Read(s, m, list) \in Sync /\ Read(s, m, list).pc = "list"
        /\ Read(s, m, list).fired \subseteq sync[p].fired
    BY <1>0, <2>1, ReadType DEF SyncTypeOK
  <2>3. UNCHANGED <<plat, others, dm, made, enabled, readied, patch, triggered, used>>
    BY <1>1 DEF Reconcile, ListPage
  <2> QED BY <1>0, <2>1, <2>2, <2>3, PassGoesOn DEF SyncInv, SyncTypeOK
<1>b. ASSUME NEW p \in Replicas, ListOver(p) PROVE SyncInv'
  <2> DEFINE v == [sync[p] EXCEPT !.pc = "upsert", !.todo = There(sync[p].seen)]
  <2>1. There(sync[p].seen) \subseteq Models
    BY DEF There
  <2>2. v \in Sync /\ v.pc = "upsert" /\ v.fired = sync[p].fired
    BY <1>a, <2>1 DEF Sync, SyncPcs
  <2>3. NoSync.pc = "idle" /\ NoSync.fired = {}
    BY DEF NoSync
  <2>4. \E w \in {v, NoSync} : sync' = [sync EXCEPT ![p] = w]
    BY <1>b DEF ListOver, SetSync
  <2>5. UNCHANGED <<plat, others, dm, made, enabled, readied, patch, triggered, used>>
    BY <1>b DEF ListOver
  <2> HIDE DEF v
  <2> QED BY <1>0, <2>2, <2>3, <2>4, <2>5, PassGoesOn DEF SyncInv, SyncTypeOK
<1>2. ASSUME NEW p \in Replicas, Upsert(p) PROVE SyncInv'
  <2>1. PICK m \in sync[p].todo : 
          LET row == IF dm[m].status = "none" THEN [NoModelRow EXCEPT !.status = "new"] ELSE dm[m]
          IN /\ SetModel(m, row)
             /\ SetSync(p, [sync[p] EXCEPT !.pc = "conn", !.todo = @ \ {m},
                               !.cur = m, !.prev = [row EXCEPT !.rev = AnyRev]])
    BY <1>2 DEF Upsert
  <2> DEFINE row == IF dm[m].status = "none" THEN [NoModelRow EXCEPT !.status = "new"] ELSE dm[m]
             v == [sync[p] EXCEPT !.pc = "conn", !.todo = @ \ {m}, !.cur = m, !.prev = [row EXCEPT !.rev = AnyRev]]
  <2>2. m \in Models
    BY <1>a DEF Sync
  <2>3. row \in Model
    BY <1>0, <2>2, SyncDefaults DEF SyncTypeOK, Model
  <2>4. [row EXCEPT !.rev = AnyRev] \in Model
    <3> HIDE DEF row
    <3> QED BY <2>3, SyncDefaults DEF Model
  <2>5. dm' = [dm EXCEPT ![m] = row] /\ sync' = [sync EXCEPT ![p] = v]
    BY <2>1 DEF SetModel, SetSync
  <2>6. v \in Sync /\ v.cur \in Models /\ v.fired = sync[p].fired
    <3> HIDE DEF row
    <3> QED BY <1>a, <2>2, <2>4 DEF Sync, SyncPcs
  <2>7. UNCHANGED <<plat, others, made, enabled, readied, patch, triggered, used>>
    BY <1>2 DEF Upsert
  <2> HIDE DEF v, row
  <2> QED BY <1>0, <2>2, <2>3, <2>5, <2>6, <2>7, PassGoesOn DEF SyncInv, SyncTypeOK
<1>3. ASSUME NEW p \in Replicas, SyncConnection(p) PROVE SyncInv'
  <2>1. Cur(p) \in Models /\ sync[p].cur \in Models
    BY <1>3 DEF SyncConnection, SyncAt, SyncInv, AtModel, Cur
  <2>2. Prev(p).conn \in Nat /\ made + 1 \in Nat /\ made \in Nat /\ enabled \subseteq Nat
    BY <1>0, <2>1, DecidedTypes DEF SyncTypeOK
  <2>3. PICK link \in Nat :
          sync' = [sync EXCEPT ![p] = [sync[p] EXCEPT !.pc = "rev", !.links = [NoLinks EXCEPT ![Cur(p)] = link]]]
    BY <1>3, <2>2 DEF SyncConnection, SetSync
  <2>4. made' \in Nat /\ enabled' \subseteq Nat
    BY <1>3, <2>2 DEF SyncConnection
  <2> DEFINE v == [sync[p] EXCEPT !.pc = "rev", !.links = [NoLinks EXCEPT ![Cur(p)] = link]]
  <2>5. v \in Sync /\ v.cur \in Models /\ v.fired = sync[p].fired
    BY <1>a, <2>1 DEF Sync, SyncPcs, NoLinks
  <2>6. UNCHANGED <<plat, others, dm, readied, patch, triggered, used>>
    BY <1>3 DEF SyncConnection
  <2>7. sync' = [sync EXCEPT ![p] = v]
    BY <2>3
  <2> HIDE DEF v
  <2> QED BY <1>0, <2>4, <2>5, <2>6, <2>7, PassGoesOn DEF SyncInv, SyncTypeOK
<1>4. ASSUME NEW p \in Replicas, FindRevision(p) PROVE SyncInv'
  <2>1. PICK pc \in {"ready", "final"} : sync' = [sync EXCEPT ![p] = [sync[p] EXCEPT !.pc = pc]]
    BY <1>4 DEF FindRevision, SetSync
  <2>2. sync[p].cur \in Models /\ UNCHANGED <<plat, others, dm, made, enabled, readied, patch, triggered, used>>
    BY <1>4 DEF FindRevision, SyncAt, SyncInv, AtModel
  <2> DEFINE v == [sync[p] EXCEPT !.pc = pc]
  <2>3. v \in Sync /\ v.cur \in Models /\ v.fired = sync[p].fired
    BY <1>a, <2>2 DEF Sync, SyncPcs
  <2>4. sync' = [sync EXCEPT ![p] = v]
    BY <2>1
  <2> HIDE DEF v
  <2> QED BY <1>0, <2>2, <2>3, <2>4, PassGoesOn DEF SyncInv, SyncTypeOK
<1>5. ASSUME NEW p \in Replicas, FlipReady(p) PROVE SyncInv'
  <2> DEFINE k == <<Cur(p), Seen(p).rev>>
             v == [sync[p] EXCEPT !.pc = "final", !.fired = IF k \in readied THEN @ ELSE @ \cup {k}]
  <2>1. sync[p].cur \in Models /\ Cur(p) \in Models
    BY <1>5 DEF FlipReady, SyncAt, SyncInv, AtModel, Cur
  <2>2. k \in Models \X Revs
    BY <2>1, DecidedTypes DEF Listed
  <2>3. readied' = readied \cup {k} /\ sync' = [sync EXCEPT ![p] = v]
        /\ UNCHANGED <<plat, others, dm, made, enabled, patch, triggered, used>>
    BY <1>5 DEF FlipReady, SetSync
  <2>4. v \in Sync /\ v.cur \in Models
        /\ v.fired = IF k \in readied THEN sync[p].fired ELSE sync[p].fired \cup {k}
    <3> HIDE DEF k
    <3> QED BY <1>a, <2>1, <2>2 DEF Sync, SyncPcs
  <2> HIDE DEF v, k
  <2>5. SyncTypeOK'
    BY <1>0, <2>2, <2>3, <2>4 DEF SyncTypeOK
  <2>6. \A q \in Replicas : sync'[q] = IF q = p THEN v ELSE sync[q]
    BY <1>0, <2>3 DEF SyncTypeOK
  <2>7. \A q \in Replicas : AtModel(q)'
    BY <2>4, <2>6 DEF SyncInv, AtModel
  <2>8. ASSUME NEW j \in Models \X Revs PROVE HandedOver(j)'
    <3>1. HandedOver(j)
      BY DEF SyncInv
    <3>2. CASE j = k /\ k \notin readied
      <4>1. \A q \in Replicas : j \in sync'[q].fired => q = p
        BY <2>4, <2>6, <3>1, <3>2 DEF HandedOver
      <4> QED BY <2>3, <3>1, <3>2, <4>1 DEF HandedOver
    <3>3. CASE ~(j = k /\ k \notin readied)
      <4>1. \A q \in Replicas : j \in sync'[q].fired <=> j \in sync[q].fired
        BY <2>4, <2>6, <3>3
      <4> QED BY <2>3, <3>1, <3>3, <4>1 DEF HandedOver
    <3> QED BY <3>2, <3>3
  <2> QED BY <2>5, <2>7, <2>8 DEF SyncInv
<1>6. ASSUME NEW p \in Replicas, SyncFinal(p) PROVE SyncInv'
  <2>1. Cur(p) \in Models /\ sync[p].cur \in Models
    BY <1>6 DEF SyncFinal, SyncAt, SyncInv, AtModel, Cur
  <2> DEFINE row == [dm[Cur(p)] EXCEPT !.route = RouteFor(p), !.status = StatusFor(p),
                                       !.conn = sync[p].links[Cur(p)], !.rev = Seen(p).rev]
  <2>2. NextModel(p) \in Sync /\ NextModel(p).pc = "upsert" /\ NextModel(p).fired = sync[p].fired
    BY <2>1, NextModelType
  <2>3. row \in Model
    <3>1. sync[p].links[Cur(p)] \in Nat
      BY <1>a, <2>1 DEF Sync
    <3> QED BY <2>1, <3>1, DecidedTypes DEF Model, Listed
  <2>4. dm' = [dm EXCEPT ![Cur(p)] = row] /\ sync' = [sync EXCEPT ![p] = NextModel(p)]
        /\ UNCHANGED <<plat, others, made, enabled, readied, patch, triggered, used>>
    BY <1>6 DEF SyncFinal, SetModel, SetSync
  <2> HIDE DEF row
  <2> QED BY <1>0, <2>1, <2>2, <2>3, <2>4, PassGoesOn DEF SyncInv, SyncTypeOK
<1>7. ASSUME NEW p \in Replicas, SyncModelFails(p) PROVE SyncInv'
  <2>1. sync[p].cur \in Models
    BY <1>7 DEF SyncModelFails, SyncInv, AtModel
  <2>2. NextModel(p) \in Sync /\ NextModel(p).pc = "upsert" /\ NextModel(p).fired = sync[p].fired
    BY <2>1, NextModelType
  <2>3. sync' = [sync EXCEPT ![p] = NextModel(p)] /\ used' \in 0..MaxEvents
        /\ UNCHANGED <<plat, others, dm, made, enabled, readied, patch, triggered>>
    BY <1>0, <1>7, SyncAssumption DEF SyncModelFails, SetSync, SyncTypeOK
  <2> QED BY <1>0, <2>2, <2>3, PassGoesOn DEF SyncInv, SyncTypeOK
<1>8. ASSUME NEW p \in Replicas, FindGone(p) PROVE SyncInv'
  <2> DEFINE gone == Known \ There(sync[p].seen)
             links == [m \in Models |-> IF m \in gone THEN dm[m].conn ELSE 0]
             v == [sync[p] EXCEPT !.pc = "gone", !.seen = Empty, !.todo = gone, !.links = links]
  <2>1. gone \subseteq Models /\ links \in [Models -> Nat]
    BY <1>0 DEF Known, SyncTypeOK, Model
  <2>2. sync' = [sync EXCEPT ![p] = v]
        /\ UNCHANGED <<plat, others, dm, made, enabled, readied, patch, triggered, used>>
    BY <1>8 DEF FindGone, SetSync
  <2>3. v \in Sync /\ v.pc = "gone" /\ v.fired = sync[p].fired
    <3> HIDE DEF gone, links
    <3> QED BY <1>a, <2>1, SyncDefaults DEF Sync, SyncPcs
  <2> HIDE DEF v
  <2> QED BY <1>0, <2>2, <2>3, PassGoesOn DEF SyncInv, SyncTypeOK
<1>9. ASSUME NEW p \in Replicas, MarkRemoved(p) PROVE SyncInv'
  <2>1. PICK m \in sync[p].todo :
          /\ dm' = [dm EXCEPT ![m] = [dm[m] EXCEPT !.status = "removed"]]
          /\ sync' = [sync EXCEPT ![p] = [sync[p] EXCEPT !.pc = "rmConn", !.todo = @ \ {m}, !.cur = m]]
    BY <1>9 DEF MarkRemoved, SetModel, SetSync
  <2> DEFINE v == [sync[p] EXCEPT !.pc = "rmConn", !.todo = @ \ {m}, !.cur = m]
  <2>2. m \in Models
    BY <1>a DEF Sync
  <2>3. v \in Sync /\ v.cur \in Models /\ v.fired = sync[p].fired
    BY <1>a, <2>2 DEF Sync, SyncPcs
  <2>4. dm' \in [Models -> Model]
    BY <1>0, <2>1, <2>2 DEF SyncTypeOK, Model
  <2>5. sync' = [sync EXCEPT ![p] = v] /\ UNCHANGED <<plat, others, made, enabled, readied, patch, triggered, used>>
    BY <1>9, <2>1 DEF MarkRemoved
  <2> HIDE DEF v
  <2> QED BY <1>0, <2>3, <2>4, <2>5, PassGoesOn DEF SyncInv, SyncTypeOK
<1>10. ASSUME NEW p \in Replicas, DisableRemoved(p) PROVE SyncInv'
  <2> DEFINE links == [sync[p].links EXCEPT ![Cur(p)] = 0]
             v == [sync[p] EXCEPT !.pc = "gone", !.cur = NoModel, !.links = links]
  <2>1. links \in [Models -> Nat]
    BY <1>a DEF Sync
  <2>2. sync' = [sync EXCEPT ![p] = v] /\ enabled' \subseteq enabled
        /\ UNCHANGED <<plat, others, dm, made, readied, patch, triggered, used>>
    BY <1>10 DEF DisableRemoved, SetSync
  <2>3. v \in Sync /\ v.pc = "gone" /\ v.fired = sync[p].fired
    <3> HIDE DEF links
    <3> QED BY <1>a, <2>1 DEF Sync, SyncPcs
  <2> HIDE DEF v
  <2> QED BY <1>0, <2>2, <2>3, PassGoesOn DEF SyncInv, SyncTypeOK
<1>11. ASSUME NEW p \in Replicas, RemovalOver(p) PROVE SyncInv'
  <2>1. PICK v \in Sync : /\ v = Listening(sync[p].fired) /\ v.pc \in {"idle", "listen"}
                          /\ v.fired = sync[p].fired
    BY <1>a, ListeningType DEF Sync
  <2>2. sync' = [sync EXCEPT ![p] = v] /\ UNCHANGED <<plat, others, dm, made, enabled, readied, patch, triggered, used>>
    BY <1>11, <2>1 DEF RemovalOver, SetSync
  <2> QED BY <1>0, <2>1, <2>2, PassGoesOn DEF SyncInv, SyncTypeOK
<1>12. ASSUME NEW p \in Replicas, ReadyListener(p) PROVE SyncInv'
  <2>1. PICK k \in sync[p].fired :
          /\ triggered' = IF dm[k[1]].auto THEN [triggered EXCEPT ![k] = @ + 1] ELSE triggered
          /\ sync' = [sync EXCEPT ![p] = Listening(sync[p].fired \ {k})]
    BY <1>12 DEF ReadyListener, SetSync
  <2>2. k \in Models \X Revs /\ sync[p].fired \subseteq Models \X Revs
    BY <1>a DEF Sync
  <2>3. PICK v \in Sync : /\ v = Listening(sync[p].fired \ {k}) /\ v.pc \in {"idle", "listen"}
                          /\ v.fired = sync[p].fired \ {k}
    BY <2>2, ListeningType
  <2>4. \A q \in Replicas : sync'[q] = IF q = p THEN v ELSE sync[q]
    BY <1>0, <2>1, <2>3 DEF SyncTypeOK
  <2>5. UNCHANGED <<plat, others, dm, made, enabled, readied, patch, used>>
    BY <1>12 DEF ReadyListener
  <2>6. triggered[k] = 0 /\ k \in readied /\ \A q \in Replicas : k \in sync[q].fired => q = p
    BY <2>2 DEF SyncInv, HandedOver
  <2>7. \A j \in Models \X Revs : triggered'[j] = triggered[j] \/ (j = k /\ triggered'[j] = 1)
    BY <1>0, <2>1, <2>6 DEF SyncTypeOK
  <2>8. SyncTypeOK'
    <3>1. triggered' \in [Models \X Revs -> Nat]
      <4>1. triggered \in [Models \X Revs -> Nat] /\ triggered[k] + 1 \in Nat
        BY <1>0, <2>2 DEF SyncTypeOK
      <4> QED BY <2>1, <4>1
    <3> QED BY <1>0, <2>1, <2>3, <2>5, <3>1 DEF SyncTypeOK
  <2>9. \A q \in Replicas : AtModel(q)'
    BY <2>3, <2>4 DEF SyncInv, AtModel
  <2>10. ASSUME NEW j \in Models \X Revs PROVE HandedOver(j)'
    <3>1. HandedOver(j)
      BY DEF SyncInv
    <3>2. CASE j = k
      <4>1. \A q \in Replicas : k \notin sync'[q].fired
        BY <2>3, <2>4, <2>6
      <4>2. triggered'[k] <= 1
        BY <2>2, <2>6, <2>7
      <4> QED BY <2>5, <2>6, <3>2, <4>1, <4>2 DEF HandedOver
    <3>3. CASE j # k
      <4>1. \A q \in Replicas : j \in sync'[q].fired <=> j \in sync[q].fired
        BY <2>3, <2>4, <3>3
      <4> QED BY <2>5, <2>7, <3>1, <3>3, <4>1 DEF HandedOver
    <3> QED BY <3>2, <3>3
  <2> QED BY <2>8, <2>9, <2>10 DEF SyncInv
<1>13. ASSUME NEW p \in Replicas, PassDies(p) PROVE SyncInv'
  <2>1. NoSync.fired = {} /\ NoSync.pc = "idle"
    BY DEF NoSync
  <2>2. sync' = [sync EXCEPT ![p] = NoSync] /\ UNCHANGED <<plat, others, dm, made, enabled, readied, patch, triggered>>
        /\ used' \in 0..MaxEvents
    BY <1>0, <1>13, SyncAssumption DEF PassDies, SetSync, SyncTypeOK
  <2> QED BY <1>0, <2>1, <2>2, SyncDefaults, PassGoesOn DEF SyncInv, SyncTypeOK
<1>14. ASSUME NEW m \in Models, NEW kind \in PatchKinds, PatchRead(m, kind) PROVE SyncInv'
  <2>1. PICK to \in {"keep", "new", "active"} : patch' = [pc |-> "write", of |-> m, kind |-> kind, to |-> to]
    BY <1>14 DEF PatchRead
  <2>2. patch' \in Patch /\ used' \in 0..MaxEvents
    BY <1>0, <1>14, <2>1, SyncAssumption DEF PatchRead, Patch, SyncTypeOK
  <2>3. UNCHANGED <<plat, others, dm, made, enabled, readied, sync, triggered>>
    BY <1>14 DEF PatchRead
  <2> QED BY <1>0, <2>2, <2>3 DEF SyncInv, SyncTypeOK, AtModel, HandedOver
<1>15. CASE PatchWrite
  <2>1. patch.of \in Models /\ patch.kind \in PatchKinds /\ patch.to \in {"keep", "new", "active"}
    BY <1>0 DEF SyncTypeOK, Patch
  <2> DEFINE row == [dm[patch.of] EXCEPT !.status = IF patch.to = "keep" THEN @ ELSE patch.to]
             new == CASE patch.kind = "pick" -> [row EXCEPT !.override = TRUE, !.route = "picked"]
                      [] patch.kind = "release" -> [row EXCEPT !.override = FALSE]
                      [] patch.kind = "enable" -> [row EXCEPT !.auto = TRUE]
                      [] patch.kind = "disable" -> [row EXCEPT !.auto = FALSE]
  <2>2. row \in Model
    <3>1. dm[patch.of] \in Model
      BY <1>0, <2>1 DEF SyncTypeOK
    <3>2. CASE patch.to = "keep"
      <4>1. row = [dm[patch.of] EXCEPT !.status = dm[patch.of].status]
        BY <3>2
      <4> QED BY <3>1, <4>1 DEF Model
    <3>3. CASE patch.to # "keep"
      <4>1. row = [dm[patch.of] EXCEPT !.status = patch.to]
        BY <3>3
      <4> QED BY <2>1, <3>1, <3>3, <4>1 DEF Model
    <3> QED BY <3>2, <3>3
  <2>3. new \in Model
    <3> HIDE DEF row
    <3>1. /\ [row EXCEPT !.override = TRUE, !.route = "picked"] \in Model
          /\ [row EXCEPT !.override = FALSE] \in Model
          /\ [row EXCEPT !.auto = TRUE] \in Model /\ [row EXCEPT !.auto = FALSE] \in Model
      BY <2>2 DEF Model, Routes
    <3> QED BY <2>1, <3>1 DEF PatchKinds
  <2>4. dm' = [dm EXCEPT ![patch.of] = new]
    BY <1>15 DEF PatchWrite, SetModel
  <2>5. patch' \in Patch /\ UNCHANGED <<plat, others, made, enabled, readied, sync, triggered, used>>
    BY <1>15, SyncDefaults DEF PatchWrite
  <2> HIDE DEF new
  <2> QED BY <1>0, <2>1, <2>3, <2>4, <2>5 DEF SyncInv, SyncTypeOK, AtModel, HandedOver
<1>16. ASSUME NEW m \in Models, PlatformChanges(m) PROVE SyncInv'
  <2>1. plat' \in [Models -> Listed]
    <3>1. plat[m] \in Listed /\ plat \in [Models -> Listed]
      BY <1>0 DEF SyncTypeOK
    <3>2. PICK v \in Revs :
             \/ plat' = [plat EXCEPT ![m].there = ~@]
             \/ plat' = [plat EXCEPT ![m].ready = ~@]
             \/ plat' = [plat EXCEPT ![m].routed = ~@]
             \/ plat' = [plat EXCEPT ![m].rev = v, ![m].ready = FALSE]
      BY <1>16, SyncAssumption DEF PlatformChanges
    <3>3. CASE plat' = [plat EXCEPT ![m].there = ~@]
      BY <3>1, <3>3 DEF Listed
    <3>4. CASE plat' = [plat EXCEPT ![m].ready = ~@]
      BY <3>1, <3>4 DEF Listed
    <3>5. CASE plat' = [plat EXCEPT ![m].routed = ~@]
      BY <3>1, <3>5 DEF Listed
    <3>6. CASE plat' = [plat EXCEPT ![m].rev = v, ![m].ready = FALSE]
      BY <3>1, <3>6 DEF Listed
    <3> QED BY <3>2, <3>3, <3>4, <3>5, <3>6
  <2>2. used' \in 0..MaxEvents /\ UNCHANGED <<others, dm, made, enabled, readied, sync, patch, triggered>>
    BY <1>0, <1>16, SyncAssumption DEF PlatformChanges, SyncTypeOK
  <2> QED BY <1>0, <2>1, <2>2 DEF SyncInv, SyncTypeOK, AtModel, HandedOver
<1>17. CASE UNCHANGED syncVars
  BY <1>0, <1>17 DEF syncVars, SyncInv, SyncTypeOK, AtModel, HandedOver
<1> QED BY <1>1, <1>b, <1>2, <1>3, <1>4, <1>5, <1>6, <1>7, <1>8, <1>9, <1>10, <1>11, <1>12, <1>13, <1>14,
           <1>15, <1>16, <1>17 DEF SyncNext, SyncStep

(* A revision is handed to the runner once at most: the guarded write of     *)
(* readyAt decides which pass of which replica has made it ready, and only   *)
(* that pass calls the listeners, if it lives to.                            *)
THEOREM TriggeredSafe == SyncSpec => []TriggeredOnce
<1>1. SyncInv => TriggeredOnce
  <2> SUFFICES ASSUME SyncInv, NEW k \in Models \X Revs
               PROVE  triggered[k] + Cardinality({p \in Replicas : k \in sync[p].fired}) <= 1
    BY DEF TriggeredOnce
  <2> DEFINE held == {p \in Replicas : k \in sync[p].fired}
  <2>1. HandedOver(k) /\ triggered[k] \in Nat
    BY DEF SyncInv, SyncTypeOK
  <2>2. CASE held = {}
    <3>1. Cardinality(held) = 0
      BY <2>2, FS_EmptySet
    <3> QED BY <2>1, <3>1 DEF HandedOver
  <2>3. ASSUME NEW p \in held PROVE triggered[k] + Cardinality(held) <= 1
    <3>1. held = {p} /\ triggered[k] = 0
      BY <2>1, <2>3 DEF HandedOver
    <3>2. Cardinality(held) = 1
      BY <3>1, FS_Singleton
    <3> QED BY <3>1, <3>2
  <2> QED BY <2>2, <2>3
<1> QED BY <1>1, SyncInitial, SyncStepInv, PTL DEF SyncSpec

-----------------------------------------------------------------------------
(* The watcher: a loop that was replaced is told so. *)

\* A loop that was not replaced is the one on record.
OnRecord(l) == loop[l].pc \notin {"none", "over"} /\ ~loop[l].aborted => l = current

\* What it read is what the row says, unless a call is about to tell of a change.
ReadsRow(l) ==
    loop[l].pc \in {"client", "watch"} /\ ~loop[l].aborted =>
        \/ source.there /\ loop[l].enabled = source.enabled /\ loop[l].version = source.version
        \/ \E c \in Editors : editor[c] # "idle"

WatcherInv ==
    /\ WatcherTypeOK
    /\ \A l \in Loops : /\ OnRecord(l) /\ ReadsRow(l)
                        /\ loop[l].pc = "watch" => loop[l].enabled

\* A new loop.
LEMMA LoopTypes ==
    /\ NewLoop \in Loop
    /\ 1 \in Loops /\ NoLoop \notin Loops
BY WatcherAssumption DEF NewLoop, Loop, LoopPcs, Loops, NoLoop

\* At first the loop of the boot reads its row.
LEMMA WatcherInitial == WatcherInit => WatcherInv
<1> SUFFICES ASSUME WatcherInit PROVE WatcherInv
  OBVIOUS
<1>1. [NewLoop EXCEPT !.pc = "none"] \in Loop
  BY LoopTypes DEF Loop, LoopPcs
<1>2. WatcherTypeOK
  BY <1>1, LoopTypes, WatcherAssumption DEF WatcherInit, WatcherTypeOK
<1>3. \A l \in Loops : loop[l].pc \in {"none", "read"} /\ (loop[l].pc = "read" => l = current)
  BY DEF WatcherInit, NewLoop
<1> QED BY <1>2, <1>3 DEF WatcherInv, OnRecord, ReadsRow

\* What giving up makes of a loop.
LEMMA GiveUpResult ==
    ASSUME WatcherTypeOK, NEW l \in Loops, GiveUp(l)
    PROVE  \E next \in Loop : /\ loop' = [loop EXCEPT ![l] = next]
                              /\ next.pc = (IF IsCurrent(l) THEN "wait" ELSE "over")
                              /\ next.aborted = loop[l].aborted
<1> DEFINE next == [NewLoop EXCEPT !.pc = IF IsCurrent(l) THEN "wait" ELSE "over", !.aborted = loop[l].aborted]
<1>1. loop[l].aborted \in BOOLEAN
  BY DEF WatcherTypeOK, Loop
<1>2. next \in Loop /\ next.pc = (IF IsCurrent(l) THEN "wait" ELSE "over") /\ next.aborted = loop[l].aborted
  BY <1>1, LoopTypes DEF NewLoop, Loop, LoopPcs
<1>3. loop' = [loop EXCEPT ![l] = next]
  BY DEF GiveUp, SetLoop
<1> QED BY <1>2, <1>3

\* The loop on record is aborted, and is on record no longer.
LEMMA StoppedLoops ==
    ASSUME WatcherTypeOK, \A l \in Loops : OnRecord(l)
    PROVE  /\ Stopped(loop) \in [Loops -> Loop]
           /\ \A l \in Loops : /\ Stopped(loop)[l].pc = loop[l].pc
                               /\ Stopped(loop)[l].enabled = loop[l].enabled
                               /\ Stopped(loop)[l].aborted \/ Stopped(loop)[l].pc \in {"none", "over"}
<1>1. CASE current = NoLoop
  BY <1>1, LoopTypes DEF Stopped, WatcherTypeOK, Loop, OnRecord
<1>2. CASE current # NoLoop
  BY <1>2 DEF Stopped, WatcherTypeOK, Loop, OnRecord
<1> QED BY <1>1, <1>2

\* Nobody else is touched by a loop that gives up.
LEMMA LoopGivesUp ==
    ASSUME WatcherInv, NEW l \in Loops, loop[l].pc # "none", GiveUp(l), UNCHANGED <<source, editor, current>>,
           breaks' = breaks \/ (breaks < MaxBreaks /\ breaks' = breaks + 1)
    PROVE  WatcherInv'
<1>1. WatcherTypeOK
  BY DEF WatcherInv
<1>2. PICK next \in Loop : /\ loop' = [loop EXCEPT ![l] = next]
                           /\ next.pc = (IF IsCurrent(l) THEN "wait" ELSE "over")
                           /\ next.aborted = loop[l].aborted
  BY <1>1, GiveUpResult
<1>3. WatcherTypeOK'
  BY <1>1, <1>2, WatcherAssumption DEF WatcherTypeOK
<1> QED BY <1>1, <1>2, <1>3 DEF WatcherTypeOK, WatcherInv, OnRecord, ReadsRow, IsCurrent

\* Every step keeps the invariant.
LEMMA WatcherStep == WatcherInv /\ [WatcherNext]_watcherVars => WatcherInv'
<1> SUFFICES ASSUME WatcherInv, [WatcherNext]_watcherVars PROVE WatcherInv'
  OBVIOUS
<1>0. WatcherTypeOK /\ \A l \in Loops : OnRecord(l)
  BY DEF WatcherInv
<1>1. ASSUME NEW c \in Editors, PatchSource(c) PROVE WatcherInv'
  <2>1. editor'[c] # "idle"
    BY <1>0, <1>1 DEF PatchSource, WatcherTypeOK
  <2>2. WatcherTypeOK'
    <3>1. PICK on \in BOOLEAN : source' = [source EXCEPT !.version = @ + 1, !.enabled = on]
      BY <1>1 DEF PatchSource
    <3>2. source.version \in 0..MaxEdits /\ source.version < MaxEdits
      BY <1>0, <1>1 DEF PatchSource, WatcherTypeOK
    <3>3. source.version + 1 \in 0..MaxEdits
      BY <3>2, WatcherAssumption
    <3> QED BY <1>0, <1>1, <3>1, <3>3 DEF PatchSource, WatcherTypeOK
  <2> QED BY <1>1, <2>1, <2>2 DEF PatchSource, WatcherInv, OnRecord, ReadsRow
<1>2. ASSUME NEW c \in Editors, DeleteSource(c) PROVE WatcherInv'
  <2>1. editor'[c] # "idle"
    BY <1>0, <1>2 DEF DeleteSource, WatcherTypeOK
  <2>2. WatcherTypeOK'
    BY <1>0, <1>2 DEF DeleteSource, WatcherTypeOK
  <2> QED BY <1>2, <2>1, <2>2 DEF DeleteSource, WatcherInv, OnRecord, ReadsRow
<1>3. ASSUME NEW c \in Editors, Emit(c) PROVE WatcherInv'
  <2>1. editor' \in [Editors -> {"idle", "upsert", "delete"}] /\ UNCHANGED <<source, breaks>>
    BY <1>0, <1>3 DEF Emit, WatcherTypeOK
  <2>2. CASE loop' = Stopped(loop) /\ current' = NoLoop
    BY <1>0, <2>1, <2>2, StoppedLoops DEF WatcherTypeOK, WatcherInv, OnRecord, ReadsRow
  <2>3. ASSUME NEW l \in Loops, loop' = [Stopped(loop) EXCEPT ![l] = NewLoop], current' = l
        PROVE  WatcherInv'
    <3>1. WatcherTypeOK'
      BY <1>0, <2>1, <2>3, StoppedLoops, LoopTypes DEF WatcherTypeOK
    <3>2. NewLoop.pc = "read"
      BY DEF NewLoop
    <3>3. \A k \in Loops : \/ k = current' /\ loop'[k].pc = "read"
                           \/ /\ loop'[k].aborted \/ loop'[k].pc \in {"none", "over"}
                              /\ loop'[k].pc = loop[k].pc /\ loop'[k].enabled = loop[k].enabled
      BY <1>0, <2>3, <3>2, StoppedLoops
    <3> QED BY <3>1, <3>3 DEF WatcherInv, OnRecord, ReadsRow
  <2> QED BY <1>3, <2>2, <2>3 DEF Emit
<1>4. ASSUME NEW l \in Loops, LoopRead(l) PROVE WatcherInv'
  <2>1. WatcherTypeOK'
    BY <1>0, <1>4 DEF LoopRead, SetLoop, WatcherTypeOK, Loop, LoopPcs
  <2>2. /\ loop'[l].pc = "client" /\ loop'[l].aborted = loop[l].aborted /\ loop[l].pc = "read"
        /\ source.there /\ loop'[l].version = source.version /\ loop'[l].enabled = source.enabled
        /\ \A k \in Loops \ {l} : loop'[k] = loop[k]
    BY <1>0, <1>4 DEF LoopRead, SetLoop, WatcherTypeOK, Loop
  <2> QED BY <1>4, <2>1, <2>2 DEF LoopRead, WatcherInv, OnRecord, ReadsRow
<1>5. ASSUME NEW l \in Loops, LoopClient(l) PROVE WatcherInv'
  <2>0. UNCHANGED <<source, editor, breaks>> /\ loop[l].pc = "client"
    BY <1>5 DEF LoopClient
  <2>1. CASE GiveUp(l) /\ UNCHANGED current
    BY <1>0, <2>0, <2>1, LoopGivesUp
  <2>2. CASE /\ loop' = [Stopped(loop) EXCEPT ![l] = [NewLoop EXCEPT !.pc = "over", !.aborted = TRUE]]
             /\ current' = NoLoop
    <3>1. [NewLoop EXCEPT !.pc = "over", !.aborted = TRUE] \in Loop
      BY LoopTypes DEF NewLoop, Loop, LoopPcs
    <3>2. WatcherTypeOK'
      BY <1>0, <2>0, <2>2, <3>1, StoppedLoops DEF WatcherTypeOK
    <3>3. \A k \in Loops : /\ loop'[k].aborted \/ loop'[k].pc \in {"none", "over"}
                           /\ loop'[k].pc = "watch" => loop'[k].enabled
      BY <1>0, <2>2, StoppedLoops DEF NewLoop, WatcherInv
    <3> QED BY <3>2, <3>3 DEF WatcherInv, OnRecord, ReadsRow
  <2>3. CASE IsCurrent(l) /\ loop[l].enabled /\ LoopGoto(l, "watch") /\ UNCHANGED current
    <3>1. WatcherTypeOK'
      BY <1>0, <2>0, <2>3 DEF LoopGoto, SetLoop, WatcherTypeOK, Loop, LoopPcs
    <3>2. /\ loop'[l].pc = "watch" /\ loop'[l].aborted = loop[l].aborted /\ loop'[l].version = loop[l].version
          /\ loop'[l].enabled = loop[l].enabled /\ \A k \in Loops \ {l} : loop'[k] = loop[k]
      BY <1>0, <2>3 DEF LoopGoto, SetLoop, WatcherTypeOK, Loop
    <3> QED BY <2>0, <2>3, <3>1, <3>2 DEF WatcherInv, OnRecord, ReadsRow
  <2> QED BY <1>5, <2>1, <2>2, <2>3 DEF LoopClient
<1>6. ASSUME NEW l \in Loops, LoopEnds(l) PROVE WatcherInv'
  BY <1>0, <1>6, LoopGivesUp DEF LoopEnds
<1>7. ASSUME NEW l \in Loops, LoopFails(l) PROVE WatcherInv'
  BY <1>0, <1>7, LoopGivesUp DEF LoopFails
<1>8. ASSUME NEW l \in Loops, LoopRetry(l) PROVE WatcherInv'
  <2>1. WatcherTypeOK'
    BY <1>0, <1>8 DEF LoopRetry, LoopGoto, SetLoop, WatcherTypeOK, Loop, LoopPcs
  <2>2. /\ loop'[l].pc \in {"over", "read"} /\ loop'[l].aborted = loop[l].aborted /\ loop[l].pc = "wait"
        /\ \A k \in Loops \ {l} : loop'[k] = loop[k]
    BY <1>0, <1>8 DEF LoopRetry, LoopGoto, SetLoop, WatcherTypeOK, Loop
  <2> QED BY <1>8, <2>1, <2>2 DEF LoopRetry, WatcherInv, OnRecord, ReadsRow
<1>9. CASE WatcherRestart
  <2> DEFINE gone == [l \in Loops |-> IF l \in Started THEN [NewLoop EXCEPT !.pc = "over", !.aborted = TRUE] ELSE loop[l]]
  <2>1. [NewLoop EXCEPT !.pc = "over", !.aborted = TRUE] \in Loop
    BY LoopTypes DEF NewLoop, Loop, LoopPcs
  <2>2. gone \in [Loops -> Loop] /\ \A l \in Loops : gone[l].pc \in {"none", "over"}
    BY <1>0, <2>1 DEF WatcherTypeOK, Started, NewLoop
  <2>3. /\ editor' \in [Editors -> {"idle", "upsert", "delete"}] /\ breaks' \in 0..MaxBreaks
        /\ UNCHANGED source
    BY <1>0, <1>9, WatcherAssumption DEF WatcherRestart, WatcherTypeOK
  <2>4. \/ \E l \in Loops : loop' = [gone EXCEPT ![l] = NewLoop] /\ current' = l
        \/ loop' = gone /\ current' = NoLoop
    BY <1>9 DEF WatcherRestart
  <2>5. CASE loop' = gone /\ current' = NoLoop
    BY <1>0, <2>2, <2>3, <2>5 DEF WatcherTypeOK, WatcherInv, OnRecord, ReadsRow
  <2>6. ASSUME NEW l \in Loops, loop' = [gone EXCEPT ![l] = NewLoop], current' = l PROVE WatcherInv'
    <3>1. NewLoop.pc = "read"
      BY DEF NewLoop
    <3>2. WatcherTypeOK'
      BY <1>0, <2>2, <2>3, <2>6, LoopTypes DEF WatcherTypeOK
    <3>3. \A k \in Loops : loop'[k].pc \in {"none", "over"} \/ (k = current' /\ loop'[k].pc = "read")
      BY <2>2, <2>6, <3>1
    <3> QED BY <3>2, <3>3 DEF WatcherInv, OnRecord, ReadsRow
  <2> QED BY <2>4, <2>5, <2>6
<1>10. CASE UNCHANGED watcherVars
  BY <1>10 DEF watcherVars, WatcherInv, WatcherTypeOK, OnRecord, ReadsRow
<1> QED BY <1>1, <1>2, <1>3, <1>4, <1>5, <1>6, <1>7, <1>8, <1>9, <1>10 DEF WatcherNext, LoopStep

(* There is one watch at most, of the loop on record, with the URL and key   *)
(* of the row, unless a call is about to tell of a change.                   *)
THEOREM WatcherSafe == WatcherSpec => []WatchIsCurrent
<1>1. WatcherInv => WatchIsCurrent
  BY DEF WatcherInv, OnRecord, ReadsRow, WatchIsCurrent
<1> QED BY <1>1, WatcherInitial, WatcherStep, PTL DEF WatcherSpec

\* Only a loop that is on record begins to watch.
LEMMA WatchBegins ==
    ASSUME WatcherInv, [WatcherNext]_watcherVars, NEW l \in Loops, loop[l].pc # "watch", loop'[l].pc = "watch"
    PROVE  IsCurrent(l)
<1>0. WatcherTypeOK /\ \A k \in Loops : OnRecord(k)
  BY DEF WatcherInv
<1>1. NewLoop.pc = "read"
  BY DEF NewLoop
<1>2. ~\E c \in Editors : PatchSource(c) \/ DeleteSource(c)
  BY DEF PatchSource, DeleteSource
<1>3. ASSUME NEW c \in Editors, Emit(c) PROVE FALSE
  <2>1. loop'[l].pc \in {loop[l].pc, "read"}
    BY <1>0, <1>1, <1>3, StoppedLoops DEF Emit
  <2> QED BY <2>1
<1>4. ASSUME NEW k \in Loops, GiveUp(k) PROVE FALSE
  <2>1. PICK next \in Loop : loop' = [loop EXCEPT ![k] = next] /\ next.pc = (IF IsCurrent(k) THEN "wait" ELSE "over")
    BY <1>0, <1>4, GiveUpResult
  <2> QED BY <1>0, <2>1 DEF WatcherTypeOK
<1>5. ASSUME NEW k \in Loops, LoopRead(k) \/ LoopRetry(k) PROVE FALSE
  <2>1. loop[k] \in Loop
    BY <1>0 DEF WatcherTypeOK
  <2>2. \A j \in Loops : j # k => loop'[j] = loop[j]
    BY <1>0, <1>5 DEF LoopRead, LoopRetry, LoopGoto, SetLoop, WatcherTypeOK
  <2>3. CASE LoopRead(k)
    <3>1. loop'[k].pc = "client"
      BY <1>0, <2>1, <2>3 DEF LoopRead, SetLoop, WatcherTypeOK, Loop
    <3> QED BY <2>2, <3>1
  <2>4. CASE LoopRetry(k)
    <3>1. loop'[k].pc \in {"over", "read"}
      BY <1>0, <2>1, <2>4 DEF LoopRetry, LoopGoto, SetLoop, WatcherTypeOK, Loop
    <3> QED BY <2>2, <3>1
  <2> QED BY <1>5, <2>3, <2>4
<1>6. ASSUME NEW k \in Loops, LoopClient(k) PROVE IsCurrent(l)
  <2>1. CASE loop' = [Stopped(loop) EXCEPT ![k] = [NewLoop EXCEPT !.pc = "over", !.aborted = TRUE]]
    BY <1>0, <2>1, StoppedLoops DEF NewLoop
  <2>2. CASE IsCurrent(k) /\ LoopGoto(k, "watch")
    BY <1>0, <2>2 DEF LoopGoto, SetLoop, WatcherTypeOK, Loop
  <2> QED BY <1>4, <1>6, <2>1, <2>2 DEF LoopClient
<1>7. CASE WatcherRestart
  <2> DEFINE gone == [k \in Loops |-> IF k \in Started THEN [NewLoop EXCEPT !.pc = "over", !.aborted = TRUE] ELSE loop[k]]
  <2>1. DOMAIN gone = Loops /\ \A k \in Loops : gone[k].pc \in {"none", "over"}
    BY <1>0 DEF WatcherTypeOK, Started, NewLoop
  <2>2. loop' = gone \/ \E k \in Loops : loop' = [gone EXCEPT ![k] = NewLoop]
    BY <1>7 DEF WatcherRestart
  <2> HIDE DEF gone
  <2>3. loop'[l].pc \in {"none", "over", "read"}
    BY <1>1, <2>1, <2>2
  <2> QED BY <2>3
<1>8. CASE UNCHANGED watcherVars
  BY <1>8 DEF watcherVars
<1> QED BY <1>2, <1>3, <1>4, <1>5, <1>6, <1>7, <1>8 DEF WatcherNext, LoopStep, LoopEnds, LoopFails

(* A loop that was replaced while it was suspended never begins to watch.    *)
THEOREM StaleLoopsStop == WatcherSpec => StaleNeverWatches
<1>1. WatcherInv /\ [WatcherNext]_watcherVars
        => [\A l \in Loops : loop[l].pc # "watch" /\ loop'[l].pc = "watch" => IsCurrent(l)]_watcherVars
  BY WatchBegins
<1> QED BY <1>1, WatcherInitial, WatcherStep, PTL DEF WatcherSpec, StaleNeverWatches

-----------------------------------------------------------------------------
(* The executor: a completed run judged all of its samples. *)

\* An executor that nobody has told to stop.
Live(e) == exec[e].pc # "idle" /\ ~exec[e].aborted

\* Whether a side B belongs to the mode of the run.
SideFits(e, b) ==
    /\ eval[e].mode = "single" => b = "none"
    /\ eval[e].mode = "dual" /\ Live(e) => b # "none"

\* Nothing is under way for a run that does not exist yet.
NotBegun(e) ==
    eval[e].status = "none" =>
        exec[e].pc = "idle" /\ DOMAIN saved[e] = {} /\ \A s \in Samples : work[e][s].pc = "none"

\* An executor at work has a run that is active, or was deleted meanwhile.
ExecHasRow(e) == exec[e].pc # "idle" => eval[e].status \in {"PENDING", "RUNNING", "deleted"}

\* What is done of a live run is saved, with the sides of its mode.
SamplesSound(e) ==
    /\ \A s \in Samples : work[e][s].pc \in {"askB", "judgeB"} => eval[e].mode = "dual"
    /\ \A s \in Samples : work[e][s].pc = "save" => SideFits(e, work[e][s].b)
    /\ \A s \in DOMAIN saved[e] : SideFits(e, saved[e][s].b)
    /\ Live(e) /\ EvalPresent(e) =>
          \A s \in Samples : work[e][s].pc = "done" => s \in DOMAIN saved[e]

\* From the moment it is aggregated on, a run is whole and no sample is at work.
Whole(e) ==
    EvalPresent(e) /\ (exec[e].pc = "aggregate" \/ eval[e].status = "COMPLETED") =>
        /\ DOMAIN saved[e] = Samples
        /\ \A s \in Samples : work[e][s].pc \in {"done", "none"}
        /\ eval[e].mode = "dual" => \A s \in Samples : saved[e][s].b # "none"

Sound(e) == NotBegun(e) /\ ExecHasRow(e) /\ SamplesSound(e) /\ Whole(e)

GateInv ==
    /\ GateTypeOK /\ DOMAIN saved = Evals
    /\ \A e \in Evals : Sound(e)
    /\ ~serving => \A e \in Evals : exec[e].pc = "idle"

-----------------------------------------------------------------------------
(* Types. *)

\* Regressions are counted.
LEMMA AggregateTypes ==
    ASSUME NEW rows, DOMAIN rows \subseteq Samples
    PROVE  AggregateMetrics(rows).regressions \in Nat
<1>1. IsFiniteSet({x \in DOMAIN rows : rows[x].a = "pass" /\ rows[x].b = "fail"})
  <2>1. {x \in DOMAIN rows : rows[x].a = "pass" /\ rows[x].b = "fail"} \subseteq Samples
    OBVIOUS
  <2> QED BY <2>1, GateAssumption, FS_Subset
<1>2. Cardinality({x \in DOMAIN rows : rows[x].a = "pass" /\ rows[x].b = "fail"}) \in Nat
  BY <1>1, FS_CardinalityType
<1> QED BY <1>2 DEF AggregateMetrics, CountRows

\* The gate has a result.
LEMMA GateResultType == ASSUME NEW m, NEW cfg PROVE ComputeGateResult(m, cfg) \in GateResults
BY DEF ComputeGateResult, GateResults

\* At first there are no evaluations.
LEMMA GateInitial == GateInit => GateInv
<1> SUFFICES ASSUME GateInit PROVE GateInv
  OBVIOUS
<1>1. NoEval \in Eval /\ NoExec \in [pc: ExecPcs, aborted: BOOLEAN] /\ NoWork \in [Samples -> Work]
  BY DEF NoEval, Eval, EvalStatus, Modes, GateResults, NoExec, ExecPcs, NoWork, Work, WorkPcs, Judged
<1>2. \A e \in Evals : DOMAIN saved[e] = {}
  BY DEF GateInit, NoSaved
<1>3. GateTypeOK /\ DOMAIN saved = Evals
  BY <1>1, <1>2, GateAssumption DEF GateInit, GateTypeOK
<1>4. ASSUME NEW e \in Evals PROVE Sound(e)
  <2>1. eval[e] = NoEval /\ exec[e] = NoExec /\ work[e] = NoWork /\ DOMAIN saved[e] = {}
    BY <1>2 DEF GateInit
  <2> QED BY <2>1 DEF Sound, NotBegun, ExecHasRow, SamplesSound, Whole, EvalPresent, Live, NoEval, NoExec, NoWork
<1> QED BY <1>3, <1>4 DEF GateInv, GateInit

\* One more of the faults there may be.
LEMMA FaultCounted ==
    ASSUME GateTypeOK, NEW e \in Evals, GateThrows(e)
    PROVE  gateFaults' \in 0..MaxGateFaults
BY GateAssumption DEF GateTypeOK, GateThrows

\* The work on a sample goes on, and no other.
LEMMA SampleTyped ==
    ASSUME GateTypeOK, NEW e \in Evals, NEW s \in Samples, NEW v \in Work, SetWork(e, s, v)
    PROVE  work' \in [Evals -> [Samples -> Work]] /\ work'[e][s] = v
           /\ \A d \in Evals, t \in Samples : d # e \/ t # s => work'[d][t] = work[d][t]
<1>1. work \in [Evals -> [Samples -> Work]] /\ work' = [work EXCEPT ![e][s] = v]
  BY DEF GateTypeOK, SetWork
<1> QED BY <1>1

\* Every step keeps the types.
LEMMA GateTypeStep == GateInv /\ [GateNext]_gateVars => GateTypeOK' /\ DOMAIN saved' = Evals
<1> SUFFICES ASSUME GateInv, [GateNext]_gateVars PROVE GateTypeOK' /\ DOMAIN saved' = Evals
  OBVIOUS
<1>0. GateTypeOK /\ DOMAIN saved = Evals
  BY DEF GateInv
<1> DEFINE SavedTyped == DOMAIN saved = Evals /\ \A e \in Evals : DOMAIN saved[e] \subseteq Samples
                                                  /\ \A s \in DOMAIN saved[e] : saved[e][s] \in Row
<1>a. SavedTyped
  BY <1>0 DEF GateTypeOK
<1>b. UNCHANGED saved => SavedTyped'
  BY <1>a
<1>c. \A e \in Evals, s \in Samples : work[e][s] \in Work
  BY <1>0 DEF GateTypeOK
<1>d. /\ \A e \in Evals, status \in EvalStatus : [eval[e] EXCEPT !.status = status] \in Eval
      /\ \A e \in Evals : [eval[e] EXCEPT !.unmarked = TRUE] \in Eval
  <2> SUFFICES ASSUME NEW e \in Evals
               PROVE  /\ \A status \in EvalStatus : [eval[e] EXCEPT !.status = status] \in Eval
                      /\ [eval[e] EXCEPT !.unmarked = TRUE] \in Eval
    OBVIOUS
  <2>1. eval[e] \in Eval
    BY <1>0 DEF GateTypeOK
  <2> QED BY <2>1 DEF Eval
<1> HIDE DEF SavedTyped
<1>1. ASSUME NEW e \in Evals, CreateEval(e) PROVE GateTypeOK' /\ SavedTyped'
  <2>1. PICK m \in Modes : eval' = [eval EXCEPT ![e] = [NoEval EXCEPT !.status = "PENDING", !.mode = m]]
    BY <1>1 DEF CreateEval, SetEval
  <2>2. [NoEval EXCEPT !.status = "PENDING", !.mode = m] \in Eval
    BY DEF NoEval, Eval, EvalStatus, GateResults
  <2>3. [pc |-> "find", aborted |-> FALSE] \in [pc: ExecPcs, aborted: BOOLEAN]
    BY DEF ExecPcs
  <2>4. eval' \in [Evals -> Eval] /\ exec' \in [Evals -> [pc: ExecPcs, aborted: BOOLEAN]]
    BY <1>0, <1>1, <2>1, <2>2, <2>3 DEF CreateEval, GateTypeOK
  <2>5. UNCHANGED <<saved, work, serving, gateFaults>>
    BY <1>1 DEF CreateEval
  <2> QED BY <1>0, <1>b, <2>4, <2>5 DEF GateTypeOK, SavedTyped
<1>2. ASSUME NEW e \in Evals, CancelEval(e) PROVE GateTypeOK' /\ SavedTyped'
  <2>1. exec' \in [Evals -> [pc: ExecPcs, aborted: BOOLEAN]]
    BY <1>0, <1>2 DEF CancelEval, GateTypeOK
  <2> QED BY <1>0, <1>2, <1>b, <2>1 DEF CancelEval, GateTypeOK, SavedTyped
<1>3. ASSUME NEW e \in Evals, DeleteEval(e) PROVE GateTypeOK' /\ SavedTyped'
  <2>1. eval' \in [Evals -> Eval]
    BY <1>0, <1>3, <1>d DEF DeleteEval, SetEval, GateTypeOK, EvalStatus
  <2>2. SavedTyped'
    BY <1>0, <1>3, <1>a DEF DeleteEval, SavedTyped, NoSaved
  <2> QED BY <1>0, <1>3, <2>1, <2>2 DEF DeleteEval, GateTypeOK, SavedTyped
<1>4. ASSUME NEW e \in Evals, ExecStep(e) PROVE GateTypeOK' /\ SavedTyped'
  <2>1. UNCHANGED <<saved, serving>>
    BY <1>4 DEF ExecStep, ExecFind, ExecMark, SamplesSettled, ExecComplete, ExecEnd
  <2>2. PICK pc \in ExecPcs : exec' = [exec EXCEPT ![e].pc = pc]
    BY <1>4 DEF ExecStep, ExecFind, ExecMark, SamplesSettled, ExecComplete, ExecEnd, ExecGoto, ExecPcs
  <2>3. exec' \in [Evals -> [pc: ExecPcs, aborted: BOOLEAN]]
    BY <1>0, <2>2 DEF GateTypeOK
  <2>4. gateFaults' \in 0..MaxGateFaults
    BY <1>0, <1>4, FaultCounted DEF ExecStep, ExecFind, ExecMark, SamplesSettled, ExecComplete, ExecEnd, GateTypeOK
  <2>5. work' \in [Evals -> [Samples -> Work]]
    <3>1. [s \in Samples |-> [work[e][s] EXCEPT !.pc = "queued"]] \in [Samples -> Work]
      BY <1>c DEF Work, WorkPcs
    <3>2. UNCHANGED work \/ work' = [work EXCEPT ![e] = [s \in Samples |-> [work[e][s] EXCEPT !.pc = "queued"]]]
      BY <1>4 DEF ExecStep, ExecFind, ExecMark, SamplesSettled, ExecComplete, ExecEnd
    <3> QED BY <1>0, <3>1, <3>2 DEF GateTypeOK
  <2>6. eval' \in [Evals -> Eval]
    <3>0. eval[e] \in Eval
      BY <1>0 DEF GateTypeOK
    <3>1. CASE ExecFind(e) \/ SamplesSettled(e)
      BY <1>0, <3>1 DEF ExecFind, SamplesSettled, GateTypeOK
    <3>2. CASE ExecMark(e)
      BY <1>0, <1>d, <3>2 DEF ExecMark, SetEval, GateTypeOK, EvalStatus
    <3>3. CASE ExecEnd(e)
      BY <1>0, <1>d, <3>3 DEF ExecEnd, SetEval, GateTypeOK, EvalStatus
    <3>4. CASE ExecComplete(e)
      <4> DEFINE m == AggregateMetrics(saved[e])
                 done == [eval[e] EXCEPT !.status = "COMPLETED", !.gate = ComputeGateResult(m, GateConfig),
                                         !.regressions = IF m.dual THEN m.regressions ELSE 0]
      <4>1. m.regressions \in Nat
        BY <1>a, AggregateTypes DEF SavedTyped
      <4>2. ComputeGateResult(m, GateConfig) \in GateResults
        BY GateResultType
      <4>3. done \in Eval
        <5> HIDE DEF m
        <5> QED BY <3>0, <4>1, <4>2 DEF Eval, EvalStatus
      <4>4. UNCHANGED eval \/ eval' = [eval EXCEPT ![e] = done]
        BY <3>4 DEF ExecComplete, SetEval
      <4> HIDE DEF done
      <4> QED BY <1>0, <4>3, <4>4 DEF GateTypeOK
    <3> QED BY <1>4, <3>1, <3>2, <3>3, <3>4 DEF ExecStep
  <2> QED BY <1>0, <1>b, <2>1, <2>3, <2>4, <2>5, <2>6 DEF GateTypeOK, SavedTyped
<1>5. ASSUME NEW e \in Evals, NEW s \in Samples, SampleStep(e, s) PROVE GateTypeOK' /\ SavedTyped'
  <2>1. PICK v \in Work : SetWork(e, s, v)
    <3>0. work[e][s] \in Work
      BY <1>c
    <3>1. \A pc \in WorkPcs : [work[e][s] EXCEPT !.pc = pc] \in Work
      BY <3>0 DEF Work
    <3>2. CASE SampleStart(e, s) \/ SampleAskedA(e, s) \/ SampleAskedB(e, s)
      BY <3>1, <3>2 DEF SampleStart, SampleAskedA, SampleAskedB, WorkGoto, WorkPcs
    <3>3. CASE SampleJudgedA(e, s)
      <4>1. \A a \in {"pass", "fail"}, b \in Judged, pc \in {"askB", "save"} : [pc |-> pc, a |-> a, b |-> b] \in Work
        BY DEF Work, WorkPcs
      <4> QED BY <3>3, <4>1 DEF SampleJudgedA, Judged
    <3>4. CASE SampleJudgedB(e, s)
      <4>1. \A b \in {"pass", "fail"} : [work[e][s] EXCEPT !.pc = "save", !.b = b] \in Work
        BY <3>0 DEF Work, WorkPcs, Judged
      <4> QED BY <3>4, <4>1 DEF SampleJudgedB
    <3>5. CASE SampleSave(e, s)
      BY <3>1, <3>5 DEF SampleSave, WorkGoto, WorkPcs
    <3> QED BY <1>5, <3>2, <3>3, <3>4, <3>5 DEF SampleStep
  <2>2. work' \in [Evals -> [Samples -> Work]]
    BY <1>0, <2>1, SampleTyped
  <2>3. UNCHANGED <<eval, exec, serving>>
    BY <1>5 DEF SampleStep, SampleStart, SampleAskedA, SampleJudgedA, SampleAskedB, SampleJudgedB, SampleSave
  <2>4. gateFaults' \in 0..MaxGateFaults
    BY <1>0, <1>5, FaultCounted
    DEF SampleStep, SampleStart, SampleAskedA, SampleJudgedA, SampleAskedB, SampleJudgedB, SampleSave, GateTypeOK
  <2>5. SavedTyped'
    <3>1. CASE UNCHANGED saved
      BY <1>b, <3>1
    <3>2. CASE saved' # saved
      <4> DEFINE w == work[e][s]
                 row == [a |-> w.a, b |-> w.b, delta |-> DeltaOf(e, w)]
      <4>1. saved' = [saved EXCEPT ![e] = [x \in DOMAIN @ \cup {s} |-> IF x = s THEN row ELSE @[x]]]
            /\ w.pc = "save"
        BY <1>5, <3>2
        DEF SampleStep, SampleStart, SampleAskedA, SampleJudgedA, SampleAskedB, SampleJudgedB, SampleSave, WorkAt
      <4>2. w \in Work
        BY <1>c
      <4>3. row \in Row
        <5>1. DeltaOf(e, w) \in {"NA", "BOTH_PASS", "BOTH_FAIL", "REGRESSION", "IMPROVEMENT"}
          <6>1. w.a \in {"pass", "fail"} /\ w.b \in Judged
            BY <4>2 DEF Work
          <6> HIDE DEF w
          <6> QED BY <6>1 DEF DeltaOf, ComputeDelta, Judged
        <5> QED BY <4>2, <5>1 DEF Work, Row
      <4> HIDE DEF w, row
      <4>4. /\ DOMAIN saved' = Evals
            /\ saved'[e] = [x \in DOMAIN saved[e] \cup {s} |-> IF x = s THEN row ELSE saved[e][x]]
            /\ \A d \in Evals \ {e} : saved'[d] = saved[d]
        BY <1>0, <4>1
      <4>5. DOMAIN saved'[e] \subseteq Samples /\ \A x \in DOMAIN saved'[e] : saved'[e][x] \in Row
        BY <1>a, <4>3, <4>4 DEF SavedTyped
      <4> QED BY <1>a, <4>4, <4>5 DEF SavedTyped
    <3> QED BY <3>1, <3>2
  <2> QED BY <1>0, <2>2, <2>3, <2>4, <2>5 DEF GateTypeOK, SavedTyped
<1>6. CASE GateCrash
  <2>1. NoExec \in [pc: ExecPcs, aborted: BOOLEAN] /\ NoWork \in [Samples -> Work]
    BY DEF NoExec, ExecPcs, NoWork, Work, WorkPcs, Judged
  <2>2. exec' \in [Evals -> [pc: ExecPcs, aborted: BOOLEAN]] /\ work' \in [Evals -> [Samples -> Work]]
    BY <1>6, <2>1 DEF GateCrash
  <2>3. gateFaults' \in 0..MaxGateFaults /\ serving' \in BOOLEAN /\ UNCHANGED <<eval, saved>>
    <3>1. gateFaults \in 0..MaxGateFaults /\ gateFaults < MaxGateFaults /\ gateFaults' = gateFaults + 1
      BY <1>0, <1>6 DEF GateCrash, GateTypeOK
    <3>2. gateFaults' \in 0..MaxGateFaults
      BY <3>1, GateAssumption
    <3>3. serving' \in BOOLEAN /\ UNCHANGED <<eval, saved>>
      BY <1>6 DEF GateCrash
    <3> QED BY <3>2, <3>3
  <2> QED BY <1>0, <1>b, <2>2, <2>3 DEF GateTypeOK, SavedTyped
<1>7. CASE GateBoot
  <2>1. eval' \in [Evals -> Eval]
    BY <1>0, <1>7, <1>d DEF GateBoot, GateTypeOK, EvalStatus
  <2> QED BY <1>0, <1>7, <1>b, <2>1 DEF GateBoot, GateTypeOK, SavedTyped
<1>8. CASE UNCHANGED gateVars
  BY <1>0, <1>8, <1>b DEF gateVars, GateTypeOK, SavedTyped
<1> QED BY <1>1, <1>2, <1>3, <1>4, <1>5, <1>6, <1>7, <1>8 DEF GateNext, SavedTyped

-----------------------------------------------------------------------------
(* Steps. *)

\* A run that a step does not touch is as sound as before.
LEMMA OthersSound ==
    ASSUME NEW f, Sound(f), eval'[f] = eval[f], saved'[f] = saved[f], exec'[f] = exec[f], work'[f] = work[f]
    PROVE  Sound(f)'
BY DEF Sound, NotBegun, ExecHasRow, SamplesSound, Whole, EvalPresent, Live, SideFits

\* The calls of RunsService.
LEMMA CallSound ==
    ASSUME GateInv, NEW e \in Evals, CreateEval(e) \/ CancelEval(e) \/ DeleteEval(e)
    PROVE  Sound(e)'
<1>0. GateTypeOK /\ DOMAIN saved = Evals /\ Sound(e)
  BY DEF GateInv
<1>1. CASE CreateEval(e)
  <2>1. /\ eval'[e].status = "PENDING" /\ exec'[e].pc = "find"
        /\ DOMAIN saved'[e] = {} /\ \A s \in Samples : work'[e][s].pc = "none"
    BY <1>0, <1>1 DEF CreateEval, SetEval, GateTypeOK, NoEval, Sound, NotBegun
  <2> QED BY <2>1 DEF Sound, NotBegun, ExecHasRow, SamplesSound, Whole
<1>2. CASE CancelEval(e)
  <2>1. /\ UNCHANGED <<eval, saved, work>> /\ exec'[e].pc = exec[e].pc /\ exec'[e].aborted = TRUE
    BY <1>0, <1>2 DEF CancelEval, GateTypeOK
  <2> QED BY <1>0, <2>1 DEF Sound, NotBegun, ExecHasRow, SamplesSound, Whole, EvalPresent, Live, SideFits
<1>3. CASE DeleteEval(e)
  <2>1. /\ eval'[e].status = "deleted" /\ eval'[e].mode = eval[e].mode /\ UNCHANGED <<exec, work>>
        /\ DOMAIN saved'[e] = {}
    BY <1>0, <1>3 DEF DeleteEval, SetEval, GateTypeOK, Eval, NoSaved
  <2> QED BY <1>0, <2>1 DEF Sound, NotBegun, ExecHasRow, SamplesSound, Whole, EvalPresent, Live, SideFits
<1> QED BY <1>1, <1>2, <1>3

\* The executor.
LEMMA ExecSound ==
    ASSUME GateInv, NEW e \in Evals, ExecStep(e)
    PROVE  Sound(e)'
<1>0. GateTypeOK /\ DOMAIN saved = Evals /\ Sound(e) /\ UNCHANGED saved
  BY DEF GateInv, ExecStep, ExecFind, ExecMark, SamplesSettled, ExecComplete, ExecEnd
<1> USE DEF Sound, NotBegun, ExecHasRow, SamplesSound, Whole, EvalPresent, Live, SideFits
<1>1. CASE UNCHANGED <<eval, work>> /\ \E pc \in {"mark", "fail", "cancel"} : ExecGoto(e, pc)
  <2>1. exec[e].pc # "idle"
    BY <1>1 DEF ExecStep, ExecFind, ExecMark, SamplesSettled, ExecComplete, ExecEnd, ExecAt
  <2>2. exec'[e].pc \in {"mark", "fail", "cancel"} /\ exec'[e].aborted = exec[e].aborted
    BY <1>0, <1>1 DEF ExecGoto, GateTypeOK
  <2> QED BY <1>0, <1>1, <2>1, <2>2
<1>2. CASE ExecMark(e) /\ ExecGoto(e, "samples")
  <2>1. /\ eval'[e].status = "RUNNING" /\ eval'[e].mode = eval[e].mode
        /\ \A s \in Samples : work'[e][s].pc = "queued"
    BY <1>0, <1>2 DEF ExecMark, ExecGoto, SetEval, GateTypeOK, Eval, Work
  <2>2. exec[e].pc # "idle" /\ exec'[e].pc = "samples" /\ exec'[e].aborted = exec[e].aborted
    BY <1>0, <1>2 DEF ExecMark, ExecAt, ExecGoto, GateTypeOK
  <2> QED BY <1>0, <2>1, <2>2
<1>3. CASE SamplesSettled(e) /\ ExecGoto(e, "aggregate")
  <2>1. /\ UNCHANGED <<eval, work>> /\ ~exec[e].aborted /\ exec[e].pc = "samples"
        /\ \A s \in Samples : work[e][s].pc = "done"
    BY <1>0, <1>3 DEF SamplesSettled, ExecGoto, ExecAt, WorkAt, GateTypeOK
  <2>2. exec'[e].pc = "aggregate" /\ exec'[e].aborted = exec[e].aborted
    BY <1>0, <1>3 DEF ExecGoto, GateTypeOK
  <2>3. EvalPresent(e) => DOMAIN saved[e] = Samples
    BY <1>0, <2>1 DEF GateTypeOK
  <2> QED BY <1>0, <2>1, <2>2, <2>3
<1>4. CASE ExecComplete(e) /\ ExecGoto(e, "idle")
  <2>1. /\ EvalPresent(e) /\ UNCHANGED work /\ exec[e].pc = "aggregate"
        /\ eval'[e].status = "COMPLETED" /\ eval'[e].mode = eval[e].mode
    <3>1. exec[e].pc = "aggregate" /\ exec'[e].pc = "idle" /\ UNCHANGED work
      BY <1>0, <1>4 DEF ExecComplete, ExecGoto, ExecAt, GateTypeOK
    <3>2. ~GateThrows(e) \/ ~ExecGoto(e, "fail")
      BY <1>0, <3>1 DEF ExecGoto, GateTypeOK
    <3> DEFINE m == AggregateMetrics(saved[e])
    <3>3. /\ eval[e].status \notin {"none", "deleted"}
          /\ eval' = [eval EXCEPT ![e] = [eval[e] EXCEPT !.status = "COMPLETED",
                        !.gate = ComputeGateResult(m, GateConfig),
                        !.regressions = IF m.dual THEN m.regressions ELSE 0]]
      BY <1>4, <3>2 DEF ExecComplete, SetEval
    <3> HIDE DEF m
    <3>4. eval[e] \in Eval
      BY <1>0 DEF GateTypeOK
    <3> QED BY <1>0, <3>1, <3>3, <3>4 DEF GateTypeOK, Eval
  <2>2. exec'[e].pc = "idle"
    BY <1>0, <1>4 DEF ExecGoto, GateTypeOK
  <2> QED BY <1>0, <2>1, <2>2
<1>5. CASE ExecEnd(e)
  <2>1. /\ UNCHANGED work /\ exec[e].pc # "idle" /\ exec'[e].pc = "idle"
        /\ eval'[e].mode = eval[e].mode
        /\ \/ eval'[e].status \in {"FAILED", "CANCELLED"} /\ EvalPresent(e)
           \/ eval'[e].status = eval[e].status
    BY <1>0, <1>5 DEF ExecEnd, ExecGoto, SetEval, GateTypeOK, Eval
  <2> QED BY <1>0, <2>1
<1>6. CASE EvalPresent(e) /\ ExecAt(e, "mark") /\ ExecGoto(e, "fail") /\ UNCHANGED work
            /\ SetEval(e, [eval[e] EXCEPT !.status = "RUNNING"])
  <2>1. exec[e].pc = "mark" /\ exec'[e].pc = "fail" /\ exec'[e].aborted = exec[e].aborted
    BY <1>0, <1>6 DEF ExecAt, ExecGoto, GateTypeOK
  <2>2. eval'[e].status = "RUNNING" /\ eval'[e].mode = eval[e].mode
    BY <1>0, <1>6 DEF SetEval, GateTypeOK, Eval
  <2> QED BY <1>0, <1>6, <2>1, <2>2
<1>7. ExecMark(e) => \/ UNCHANGED <<eval, work>> /\ ExecGoto(e, "fail")
                     \/ ExecMark(e) /\ ExecGoto(e, "samples")
                     \/ /\ EvalPresent(e) /\ ExecAt(e, "mark") /\ ExecGoto(e, "fail") /\ UNCHANGED work
                        /\ SetEval(e, [eval[e] EXCEPT !.status = "RUNNING"])
  BY DEF ExecMark
<1> QED BY <1>1, <1>2, <1>3, <1>4, <1>5, <1>6, <1>7 DEF ExecStep, ExecFind, SamplesSettled, ExecComplete, ExecEnd

\* A sample.
LEMMA SampleSound ==
    ASSUME GateInv, NEW e \in Evals, NEW s \in Samples, SampleStep(e, s)
    PROVE  Sound(e)' /\ \A d \in Evals \ {e} : work'[d] = work[d] /\ saved'[d] = saved[d]
<1>0. GateTypeOK /\ DOMAIN saved = Evals /\ Sound(e) /\ UNCHANGED <<eval, exec>>
  BY DEF GateInv, SampleStep, SampleStart, SampleAskedA, SampleJudgedA, SampleAskedB, SampleJudgedB, SampleSave
<1>1. work[e][s].pc \in {"queued", "askA", "judgeA", "askB", "judgeB", "save"}
  BY DEF SampleStep, SampleStart, SampleAskedA, SampleJudgedA, SampleAskedB, SampleJudgedB, SampleSave, WorkAt
<1>2. /\ eval[e].status # "none"
      /\ ~(EvalPresent(e) /\ (exec[e].pc = "aggregate" \/ eval[e].status = "COMPLETED"))
  BY <1>0, <1>1 DEF Sound, NotBegun, Whole
<1>3. work[e][s] \in Work /\ work \in [Evals -> [Samples -> Work]]
  BY <1>0 DEF GateTypeOK
<1>4. ASSUME NEW v, SetWork(e, s, v)
      PROVE  /\ work'[e][s] = v /\ \A t \in Samples \ {s} : work'[e][t] = work[e][t]
             /\ \A d \in Evals \ {e} : work'[d] = work[d]
  BY <1>3, <1>4 DEF SetWork
<1>5. ASSUME UNCHANGED saved, NEW v, SetWork(e, s, v),
             v.pc \in {"askB", "judgeB"} => eval[e].mode = "dual",
             v.pc = "save" => SideFits(e, v.b),
             v.pc = "done" => ~Live(e) \/ ~EvalPresent(e)
      PROVE  Sound(e)' /\ \A d \in Evals \ {e} : work'[d] = work[d] /\ saved'[d] = saved[d]
  BY <1>0, <1>2, <1>4, <1>5 DEF Sound, NotBegun, ExecHasRow, SamplesSound, Whole, EvalPresent, Live, SideFits
<1>6. ASSUME NEW pc, WorkGoto(e, s, pc)
      PROVE  \E v \in [pc: {pc}, a: {"pass", "fail"}, b: Judged] : SetWork(e, s, v) /\ v.b = work[e][s].b
  <2>1. [work[e][s] EXCEPT !.pc = pc] \in [pc: {pc}, a: {"pass", "fail"}, b: Judged]
        /\ [work[e][s] EXCEPT !.pc = pc].b = work[e][s].b
    BY <1>3 DEF Work
  <2> QED BY <1>6, <2>1 DEF WorkGoto
<1>7. CASE SampleStart(e, s) \/ SampleAskedA(e, s)
  <2>1. UNCHANGED saved /\ \E pc \in {"done", "askA", "judgeA"} :
           WorkGoto(e, s, pc) /\ (pc = "done" => exec[e].aborted)
    BY <1>7 DEF SampleStart, SampleAskedA
  <2> QED BY <1>5, <1>6, <2>1 DEF Live
<1>8. CASE SampleJudgedA(e, s)
  <2>1. PICK a \in {"pass", "fail"} :
           \/ eval[e].mode = "dual" /\ SetWork(e, s, [pc |-> "askB", a |-> a, b |-> "none"])
           \/ eval[e].mode = "single" /\ SetWork(e, s, [pc |-> "save", a |-> a, b |-> "none"])
           \/ /\ eval[e].mode = "baseline"
              /\ \E b \in Judged : SetWork(e, s, [pc |-> "save", a |-> a, b |-> b])
    BY <1>8 DEF SampleJudgedA
  <2>2. UNCHANGED saved
    BY <1>8 DEF SampleJudgedA
  <2>3. CASE eval[e].mode = "dual" /\ SetWork(e, s, [pc |-> "askB", a |-> a, b |-> "none"])
    BY <1>5, <2>2, <2>3
  <2>4. CASE eval[e].mode = "single" /\ SetWork(e, s, [pc |-> "save", a |-> a, b |-> "none"])
    BY <1>5, <2>2, <2>4 DEF SideFits
  <2>5. ASSUME eval[e].mode = "baseline", NEW b \in Judged, SetWork(e, s, [pc |-> "save", a |-> a, b |-> b])
        PROVE  Sound(e)' /\ \A d \in Evals \ {e} : work'[d] = work[d] /\ saved'[d] = saved[d]
    BY <1>5, <2>2, <2>5 DEF SideFits
  <2> QED BY <2>1, <2>3, <2>4, <2>5
<1>9. CASE SampleAskedB(e, s)
  <2>1. eval[e].mode = "dual"
    BY <1>0, <1>9 DEF SampleAskedB, WorkAt, Sound, SamplesSound
  <2>2. UNCHANGED saved /\ \E pc \in {"save", "judgeB"} :
           WorkGoto(e, s, pc) /\ (pc = "save" => exec[e].aborted)
    BY <1>9 DEF SampleAskedB
  <2> QED BY <1>5, <1>6, <2>1, <2>2 DEF Live, SideFits
<1>10. CASE SampleJudgedB(e, s)
  <2>1. eval[e].mode = "dual"
    BY <1>0, <1>10 DEF SampleJudgedB, WorkAt, Sound, SamplesSound
  <2>2. PICK b \in {"pass", "fail"} : SetWork(e, s, [work[e][s] EXCEPT !.pc = "save", !.b = b])
    BY <1>10 DEF SampleJudgedB
  <2>3. [work[e][s] EXCEPT !.pc = "save", !.b = b].pc = "save" /\ [work[e][s] EXCEPT !.pc = "save", !.b = b].b = b
    BY <1>3 DEF Work
  <2> QED BY <1>5, <1>10, <2>1, <2>2, <2>3 DEF SampleJudgedB, SideFits
<1>11. CASE SampleSave(e, s)
  <2>1. CASE UNCHANGED saved /\ WorkGoto(e, s, "failed")
    BY <1>5, <1>6, <2>1
  <2>2. ASSUME NEW pc \in {"done", "failed"}, EvalPresent(e), WorkGoto(e, s, pc),
               saved' = [saved EXCEPT ![e] = [x \in DOMAIN @ \cup {s} |->
                           IF x = s THEN [a |-> work[e][s].a, b |-> work[e][s].b, delta |-> DeltaOf(e, work[e][s])]
                           ELSE @[x]]]
        PROVE  Sound(e)' /\ \A d \in Evals \ {e} : work'[d] = work[d] /\ saved'[d] = saved[d]
    <3> DEFINE row == [a |-> work[e][s].a, b |-> work[e][s].b, delta |-> DeltaOf(e, work[e][s])]
    <3>0. work[e][s].pc = "save"
      BY <1>11 DEF SampleSave, WorkAt
    <3>1. /\ work'[e][s].pc = pc /\ \A t \in Samples \ {s} : work'[e][t] = work[e][t]
          /\ \A d \in Evals \ {e} : work'[d] = work[d]
      BY <1>4, <1>6, <2>2
    <3>2. saved' = [saved EXCEPT ![e] = [x \in DOMAIN @ \cup {s} |-> IF x = s THEN row ELSE @[x]]]
      BY <2>2
    <3>3. row.b = work[e][s].b
      OBVIOUS
    <3> HIDE DEF row
    <3>4. /\ saved'[e] = [x \in DOMAIN saved[e] \cup {s} |-> IF x = s THEN row ELSE saved[e][x]]
          /\ \A d \in Evals \ {e} : saved'[d] = saved[d]
      BY <1>0, <3>2
    <3>5. \A x \in DOMAIN saved'[e] : SideFits(e, saved'[e][x].b)
      BY <1>0, <3>0, <3>3, <3>4 DEF Sound, SamplesSound
    <3>6. SamplesSound(e)'
      BY <1>0, <3>1, <3>4, <3>5 DEF Sound, SamplesSound, EvalPresent, Live, SideFits
    <3>7. NotBegun(e)' /\ ExecHasRow(e)'
      BY <1>0, <1>2 DEF Sound, NotBegun, ExecHasRow
    <3>8. Whole(e)'
      BY <1>0, <1>2 DEF Whole, EvalPresent
    <3>9. Sound(e)'
      BY <3>6, <3>7, <3>8 DEF Sound
    <3> QED BY <3>1, <3>4, <3>9
  <2> QED BY <1>11, <2>1, <2>2 DEF SampleSave
<1> QED BY <1>7, <1>8, <1>9, <1>10, <1>11 DEF SampleStep

\* Every step keeps the invariant.
LEMMA GateStep == GateInv /\ [GateNext]_gateVars => GateInv'
<1> SUFFICES ASSUME GateInv, [GateNext]_gateVars PROVE GateInv'
  OBVIOUS
<1>0. GateTypeOK /\ DOMAIN saved = Evals /\ GateTypeOK' /\ DOMAIN saved' = Evals /\ \A e \in Evals : Sound(e)
  BY GateTypeStep DEF GateInv
<1>a. \A e \in Evals : ExecStep(e) \/ (\E s \in Samples : SampleStep(e, s)) => exec[e].pc # "idle" \/ UNCHANGED exec
  BY DEF ExecStep, ExecFind, ExecMark, SamplesSettled, ExecComplete, ExecEnd, ExecAt,
         SampleStep, SampleStart, SampleAskedA, SampleJudgedA, SampleAskedB, SampleJudgedB, SampleSave
<1>1. ASSUME NEW e \in Evals, CreateEval(e) \/ CancelEval(e) \/ DeleteEval(e) PROVE GateInv'
  <2>1. \A d \in Evals \ {e} : eval'[d] = eval[d] /\ saved'[d] = saved[d] /\ exec'[d] = exec[d] /\ work'[d] = work[d]
    <3>1. CASE CreateEval(e)
      <4>1. PICK m : eval' = [eval EXCEPT ![e] = m]
        BY <3>1 DEF CreateEval, SetEval
      <4>2. UNCHANGED <<saved, work>> /\ exec' = [exec EXCEPT ![e] = [pc |-> "find", aborted |-> FALSE]]
        BY <3>1 DEF CreateEval
      <4> QED BY <1>0, <4>1, <4>2 DEF GateTypeOK
    <3>2. CASE CancelEval(e)
      BY <1>0, <3>2 DEF CancelEval, GateTypeOK
    <3>3. CASE DeleteEval(e)
      BY <1>0, <3>3 DEF DeleteEval, SetEval, GateTypeOK
    <3> QED BY <1>1, <3>1, <3>2, <3>3
  <2>2. \A d \in Evals : Sound(d)'
    BY <1>0, <1>1, <2>1, CallSound, OthersSound
  <2>3. serving /\ serving'
    <3>1. CreateEval(e) => serving /\ serving'
      BY DEF CreateEval
    <3> QED BY <1>1, <3>1 DEF CancelEval, DeleteEval
  <2> QED BY <1>0, <2>2, <2>3 DEF GateInv
<1>2. ASSUME NEW e \in Evals, ExecStep(e) PROVE GateInv'
  <2>1. \A d \in Evals \ {e} : eval'[d] = eval[d] /\ saved'[d] = saved[d] /\ exec'[d] = exec[d] /\ work'[d] = work[d]
    BY <1>0, <1>2 DEF ExecStep, ExecFind, ExecMark, SamplesSettled, ExecComplete, ExecEnd, ExecGoto, SetEval, GateTypeOK
  <2>2. \A d \in Evals : Sound(d)'
    BY <1>0, <1>2, <2>1, ExecSound, OthersSound
  <2>3. exec[e].pc # "idle" /\ UNCHANGED serving
    BY <1>2 DEF ExecStep, ExecFind, ExecMark, SamplesSettled, ExecComplete, ExecEnd, ExecAt
  <2> QED BY <1>0, <2>2, <2>3 DEF GateInv
<1>3. ASSUME NEW e \in Evals, NEW s \in Samples, SampleStep(e, s) PROVE GateInv'
  <2>1. UNCHANGED <<eval, exec, serving>>
    BY <1>3 DEF SampleStep, SampleStart, SampleAskedA, SampleJudgedA, SampleAskedB, SampleJudgedB, SampleSave
  <2>2. \A d \in Evals : Sound(d)'
    BY <1>0, <1>3, <2>1, SampleSound, OthersSound
  <2> QED BY <1>0, <2>1, <2>2 DEF GateInv
<1>4. CASE GateCrash
  <2>1. \A e \in Evals : exec'[e].pc = "idle"
    BY <1>4 DEF GateCrash, NoExec
  <2>2. \A e \in Evals, s \in Samples : work'[e][s].pc = "none"
    BY <1>4 DEF GateCrash, NoWork
  <2>3. UNCHANGED <<eval, saved>>
    BY <1>4 DEF GateCrash
  <2>4. ASSUME NEW e \in Evals PROVE Sound(e)'
    BY <1>0, <2>1, <2>2, <2>3, <2>4 DEF Sound, NotBegun, ExecHasRow, SamplesSound, Whole, EvalPresent, Live, SideFits
  <2> QED BY <1>0, <2>1, <2>4 DEF GateInv
<1>5. CASE GateBoot
  <2>1. \A e \in Evals : exec[e].pc = "idle" /\ UNCHANGED <<saved, exec, work>> /\ serving'
    BY <1>5 DEF GateBoot, GateInv
  <2>2. \A e \in Evals : /\ eval'[e].mode = eval[e].mode
                         /\ eval'[e].status = IF EvalActive(e) THEN "FAILED" ELSE eval[e].status
    BY <1>0, <1>5 DEF GateBoot, GateTypeOK, Eval, EvalActive
  <2>3. ASSUME NEW e \in Evals PROVE Sound(e)'
    BY <1>0, <2>1, <2>2, <2>3
    DEF Sound, NotBegun, ExecHasRow, SamplesSound, Whole, EvalPresent, Live, SideFits, EvalActive
  <2> QED BY <1>0, <1>5, <2>3 DEF GateInv, GateBoot
<1>6. CASE UNCHANGED gateVars
  <2>1. UNCHANGED <<eval, saved, exec, work, serving>>
    BY <1>6 DEF gateVars
  <2> QED BY <1>0, <2>1, OthersSound DEF GateInv
<1> QED BY <1>1, <1>2, <1>3, <1>4, <1>5, <1>6 DEF GateNext

(* A completed evaluation judged all of its samples, through cancellations,  *)
(* deletions, failed samples and restarts.                                   *)
THEOREM CompletedWhole == GateSpec => []CompletedIsWhole
<1>1. GateInv => CompletedIsWhole
  BY DEF GateInv, Sound, Whole, EvalPresent, CompletedIsWhole
<1> QED BY <1>1, GateInitial, GateStep, PTL DEF GateSpec

-----------------------------------------------------------------------------
(* A run has one outcome for good. *)

\* The state functions of the refinement mapping.
lives == [e \in Evals |-> LifeOf(e)]

\* A step that changes one run moves one life.
LEMMA LivesAreFunctions ==
    ASSUME NEW e \in Evals
    PROVE  /\ \A d \in Evals \ {e} : eval'[d] = eval[d] => LifeOf(d)' = LifeOf(d)
           /\ (\A d \in Evals \ {e} : eval'[d] = eval[d]) /\ LifeOf(e)' = LifeOf(e) => UNCHANGED lives
           /\ (\A d \in Evals \ {e} : eval'[d] = eval[d]) => lives' = [lives EXCEPT ![e] = LifeOf(e)']
<1>1. \A d \in Evals \ {e} : eval'[d] = eval[d] => LifeOf(d)' = LifeOf(d)
  BY DEF LifeOf, EvalActive
<1> DEFINE Of(d) == LifeOf(d)
           to == LifeOf(e)'
<1>2. lives = [d \in Evals |-> Of(d)] /\ lives' = [d \in Evals |-> Of(d)']
  BY DEF lives
<1>3. to = Of(e)' /\ \A d \in Evals \ {e} : eval'[d] = eval[d] => Of(d)' = Of(d)
  BY <1>1
<1> HIDE DEF Of
<1>4. (\A d \in Evals \ {e} : eval'[d] = eval[d]) /\ Of(e)' = Of(e) => lives' = lives
  BY <1>2, <1>3
<1>5. (\A d \in Evals \ {e} : eval'[d] = eval[d]) => lives' = [lives EXCEPT ![e] = Of(e)']
  BY <1>2, <1>3
<1> QED BY <1>1, <1>4, <1>5 DEF Of

\* What the pipeline sees of a run.
LEMMA LifeKinds ==
    ASSUME GateTypeOK, NEW e \in Evals
    PROVE  /\ lives[e] = LifeOf(e)
           /\ eval[e].status = "none" => LifeOf(e) = "none"
           /\ EvalActive(e) => LifeOf(e) = "active"
           /\ EvalPresent(e) => LifeOf(e) \in {"active", "ok", "gateFailed", "bad"}
BY DEF GateTypeOK, LifeOf, EvalActive, EvalPresent, lives

\* Every step is a step of the life of one run, or of several that a boot ends.
LEMMA LifeStep == GateInv /\ [GateNext]_gateVars => [Life!LifeNext]_lives
<1> SUFFICES ASSUME GateInv, [GateNext]_gateVars PROVE [Life!LifeNext]_lives
  OBVIOUS
<1>0. GateTypeOK /\ \A e \in Evals : Sound(e)
  BY DEF GateInv
<1>1. ASSUME UNCHANGED eval PROVE UNCHANGED lives
  BY <1>1 DEF lives, LifeOf, EvalActive
<1>2. ASSUME NEW e \in Evals, NEW from, NEW to, lives[e] \in from, LifeOf(e)' \in to,
             \A d \in Evals \ {e} : eval'[d] = eval[d]
      PROVE  Life!Become(e, from, to)
  <2>1. lives' = [lives EXCEPT ![e] = LifeOf(e)']
    BY <1>2, LivesAreFunctions
  <2> QED BY <1>2, <2>1 DEF Life!Become, lives
<1>3. ASSUME NEW e \in Evals, CreateEval(e) PROVE Life!LifeNext
  <2>1. PICK m \in Modes : eval' = [eval EXCEPT ![e] = [NoEval EXCEPT !.status = "PENDING", !.mode = m]]
    BY <1>3 DEF CreateEval, SetEval
  <2>2. LifeOf(e)' = "active" /\ \A d \in Evals \ {e} : eval'[d] = eval[d]
    BY <1>0, <2>1 DEF GateTypeOK, LifeOf, EvalActive, NoEval
  <2>3. lives[e] = "none"
    BY <1>0, <1>3, LifeKinds DEF CreateEval
  <2> QED BY <1>2, <2>2, <2>3 DEF Life!LifeNext
<1>4. ASSUME NEW e \in Evals, DeleteEval(e) PROVE Life!LifeNext
  <2>1. eval' = [eval EXCEPT ![e] = [eval[e] EXCEPT !.status = "deleted"]] /\ EvalPresent(e)
    BY <1>4 DEF DeleteEval, SetEval
  <2>2. LifeOf(e)' = "gone" /\ \A d \in Evals \ {e} : eval'[d] = eval[d]
    <3>1. eval'[e].status = "deleted" /\ \A d \in Evals \ {e} : eval'[d] = eval[d]
      BY <1>0, <2>1 DEF GateTypeOK, Eval
    <3> QED BY <3>1 DEF LifeOf, EvalActive
  <2>3. lives[e] \in {"active"} \cup Life!Outcomes
    BY <1>0, <2>1, LifeKinds DEF Life!Outcomes
  <2> QED BY <1>2, <2>2, <2>3 DEF Life!LifeNext
<1>5. ASSUME NEW e \in Evals, ExecStep(e) PROVE [Life!LifeNext]_lives
  <2>1. exec[e].pc # "idle"
    BY <1>5 DEF ExecStep, ExecFind, ExecMark, SamplesSettled, ExecComplete, ExecEnd, ExecAt
  <2>2. EvalPresent(e) => EvalActive(e)
    BY <1>0, <2>1 DEF Sound, ExecHasRow, EvalPresent, EvalActive
  <2>3. eval[e] \in Eval /\ eval \in [Evals -> Eval]
    BY <1>0 DEF GateTypeOK
  <2>4. CASE ExecMark(e) /\ eval' # eval
    <3>1. eval' = [eval EXCEPT ![e] = [eval[e] EXCEPT !.status = "RUNNING"]] /\ EvalPresent(e)
      BY <2>4 DEF ExecMark, SetEval
    <3>2. LifeOf(e)' = "active" /\ \A d \in Evals \ {e} : eval'[d] = eval[d]
      BY <2>3, <3>1 DEF Eval, LifeOf, EvalActive
    <3>3. LifeOf(e) = "active"
      BY <1>0, <2>2, <3>1, LifeKinds
    <3> QED BY <3>2, <3>3, LivesAreFunctions
  <2>5. CASE ExecComplete(e) /\ eval' # eval
    <3> DEFINE m == AggregateMetrics(saved[e])
    <3>1. EvalPresent(e) /\ eval' = [eval EXCEPT ![e] = [eval[e] EXCEPT !.status = "COMPLETED",
                        !.gate = ComputeGateResult(m, GateConfig),
                        !.regressions = IF m.dual THEN m.regressions ELSE 0]]
      BY <2>5 DEF ExecComplete, SetEval
    <3> HIDE DEF m
    <3>2. eval'[e].status = "COMPLETED" /\ \A d \in Evals \ {e} : eval'[d] = eval[d]
      BY <2>3, <3>1 DEF Eval
    <3>3. LifeOf(e)' \in Life!Outcomes
      BY <3>2 DEF LifeOf, EvalActive, Life!Outcomes
    <3>4. lives[e] \in {"active"}
      BY <1>0, <2>2, <3>1, LifeKinds
    <3> QED BY <1>2, <3>2, <3>3, <3>4 DEF Life!LifeNext
  <2>6. CASE ExecEnd(e)
    <3>1. CASE EvalPresent(e) /\ SetEval(e, [eval[e] EXCEPT !.status = IF ExecAt(e, "fail") THEN "FAILED" ELSE "CANCELLED"])
      <4>1. eval'[e].status \in {"FAILED", "CANCELLED"} /\ \A d \in Evals \ {e} : eval'[d] = eval[d]
        BY <2>3, <3>1 DEF Eval, SetEval
      <4>2. LifeOf(e)' \in Life!Outcomes
        BY <4>1 DEF LifeOf, EvalActive, Life!Outcomes
      <4>3. lives[e] \in {"active"}
        BY <1>0, <2>2, <3>1, LifeKinds
      <4> QED BY <1>2, <4>1, <4>2, <4>3 DEF Life!LifeNext
    <3>2. CASE SetEval(e, [eval[e] EXCEPT !.unmarked = TRUE])
      <4>1. eval'[e].status = eval[e].status /\ eval'[e].gate = eval[e].gate
            /\ \A d \in Evals \ {e} : eval'[d] = eval[d]
        BY <2>3, <3>2 DEF Eval, SetEval
      <4>2. LifeOf(e)' = LifeOf(e)
        BY <4>1 DEF LifeOf, EvalActive
      <4> QED BY <4>1, <4>2, LivesAreFunctions
    <3> QED BY <2>6, <3>1, <3>2 DEF ExecEnd
  <2> QED BY <1>1, <1>5, <2>4, <2>5, <2>6 DEF ExecStep, ExecFind, SamplesSettled
<1>6. CASE GateBoot
  <2> DEFINE gone == {e \in Evals : lives[e] = "active"}
  <2>1. ASSUME NEW e \in Evals PROVE LifeOf(e)' = IF e \in gone THEN "bad" ELSE lives[e]
    <3>1. eval'[e] = IF EvalActive(e) THEN [eval[e] EXCEPT !.status = "FAILED"] ELSE eval[e]
      BY <1>6 DEF GateBoot, EvalActive
    <3>2. eval[e] \in Eval /\ lives[e] = LifeOf(e)
      BY <1>0, LifeKinds DEF GateTypeOK
    <3>3. CASE EvalActive(e)
      <4>1. eval'[e].status = "FAILED"
        BY <3>1, <3>2, <3>3 DEF Eval
      <4>2. LifeOf(e)' = "bad"
        BY <4>1 DEF LifeOf, EvalActive
      <4> QED BY <1>0, <3>2, <3>3, <4>2, LifeKinds
    <3>4. CASE ~EvalActive(e)
      <4>1. LifeOf(e)' = LifeOf(e)
        BY <3>1, <3>4 DEF LifeOf, EvalActive
      <4>2. LifeOf(e) # "active"
        BY <3>4 DEF LifeOf
      <4> QED BY <3>2, <4>1, <4>2
    <3> QED BY <3>3, <3>4
  <2>2. lives' = [e \in Evals |-> IF e \in gone THEN "bad" ELSE lives[e]]
    BY <2>1 DEF lives
  <2>3. gone \in SUBSET {e \in Evals : lives[e] = "active"}
    OBVIOUS
  <2> HIDE DEF gone
  <2>4. Life!EndSeveral
    BY <2>2, <2>3 DEF Life!EndSeveral, lives
  <2> QED BY <2>4 DEF Life!LifeNext
<1>7. CASE UNCHANGED eval
  BY <1>1, <1>7
<1> QED
  <2>1. ASSUME NEW e \in Evals, NEW s \in Samples, SampleStep(e, s) PROVE UNCHANGED eval
    BY <2>1 DEF SampleStep, SampleStart, SampleAskedA, SampleJudgedA, SampleAskedB, SampleJudgedB, SampleSave
  <2> QED BY <1>3, <1>4, <1>5, <1>6, <1>7, <2>1 DEF GateNext, gateVars, CancelEval, GateCrash

(* The executor implements ChildLife: an evaluation run that the pipeline    *)
(* polls is under way, and then has one outcome for good, until it is deleted.*)
THEOREM OutcomeIsFinal == GateSpec => OutcomesStand
<1>1. GateInit => Life!LifeInit
  <2> SUFFICES ASSUME GateInit PROVE Life!LifeInit
    OBVIOUS
  <2>1. \A e \in Evals : LifeOf(e) = "none"
    BY DEF GateInit, NoEval, LifeOf, EvalActive
  <2> QED BY <2>1 DEF Life!LifeInit
<1>2. GateInv /\ [GateNext]_gateVars => [Life!LifeNext]_lives
  BY LifeStep
<1> QED BY <1>1, <1>2, GateInitial, GateStep, PTL DEF GateSpec, OutcomesStand, Life!LifeSpec, lives

-----------------------------------------------------------------------------
(* The arithmetic of the gate. *)

\* A severity for each result, and the worse of two bands decides.
LEMMA BandsOrdered ==
    ASSUME NEW m, NEW n, NEW cfg,
           Severity[PassRateBand(n, cfg)] <= Severity[PassRateBand(m, cfg)],
           Severity[RegressionBand(n, cfg)] <= Severity[RegressionBand(m, cfg)]
    PROVE  Severity[ComputeGateResult(n, cfg)] <= Severity[ComputeGateResult(m, cfg)]
<1>1. Severity["PASSED"] = 0 /\ Severity["WARNING"] = 1 /\ Severity["FAILED"] = 2
  BY DEF Severity, GateResults
<1>2. \A k : PassRateBand(k, cfg) \in GateResults /\ RegressionBand(k, cfg) \in GateResults
  BY DEF PassRateBand, RegressionBand, GateResults
<1>3. \A k : Severity[ComputeGateResult(k, cfg)] =
               IF Severity[PassRateBand(k, cfg)] >= Severity[RegressionBand(k, cfg)]
               THEN Severity[PassRateBand(k, cfg)] ELSE Severity[RegressionBand(k, cfg)]
  <2> TAKE k
  <2> DEFINE p == PassRateBand(k, cfg)
             r == RegressionBand(k, cfg)
  <2>1. p \in GateResults /\ r \in GateResults
    BY <1>2
  <2>2. ComputeGateResult(k, cfg) = CASE "FAILED" \in {p, r} -> "FAILED"
                                      [] {p, r} = {"PASSED"} -> "PASSED"
                                      [] OTHER -> "WARNING"
    BY DEF ComputeGateResult
  <2> HIDE DEF p, r
  <2>3. ComputeGateResult(k, cfg) = IF p = "FAILED" \/ r = "FAILED" THEN "FAILED"
                                    ELSE IF p = "PASSED" /\ r = "PASSED" THEN "PASSED" ELSE "WARNING"
    BY <2>2
  <2>4. Severity[ComputeGateResult(k, cfg)] = IF Severity[p] >= Severity[r] THEN Severity[p] ELSE Severity[r]
    BY <1>1, <2>1, <2>3 DEF GateResults
  <2> QED BY <2>4 DEF p, r
<1> DEFINE pn == Severity[PassRateBand(n, cfg)]
           pm == Severity[PassRateBand(m, cfg)]
           rn == Severity[RegressionBand(n, cfg)]
           rm == Severity[RegressionBand(m, cfg)]
<1>4. pn \in 0..2 /\ pm \in 0..2 /\ rn \in 0..2 /\ rm \in 0..2
  BY <1>1, <1>2 DEF GateResults
<1>5. pn <= pm /\ rn <= rm
  OBVIOUS
<1>6. /\ Severity[ComputeGateResult(n, cfg)] = IF pn >= rn THEN pn ELSE rn
      /\ Severity[ComputeGateResult(m, cfg)] = IF pm >= rm THEN pm ELSE rm
  BY <1>3
<1> HIDE DEF pn, pm, rn, rm
<1> QED BY <1>4, <1>5, <1>6

\* More passes and fewer regressions of as many samples are never judged worse.
LEMMA GateMonotone ==
    ASSUME NEW m, NEW n, NEW cfg, cfg.passRateMin \in Int, cfg.regressionMax \in Int,
           m.total \in Nat, n.total = m.total, m.dual \in BOOLEAN, n.dual = m.dual,
           m.passA \in Nat, n.passA \in Nat, m.passB \in Nat, n.passB \in Nat,
           m.regressions \in Nat, n.regressions \in Nat,
           m.dual => m.passB <= n.passB /\ n.regressions <= m.regressions,
           ~m.dual => m.passA <= n.passA
    PROVE  Severity[ComputeGateResult(n, cfg)] <= Severity[ComputeGateResult(m, cfg)]
<1>1. Severity["PASSED"] = 0 /\ Severity["WARNING"] = 1 /\ Severity["FAILED"] = 2
  BY DEF Severity, GateResults
<1>2. Severity[PassRateBand(n, cfg)] <= Severity[PassRateBand(m, cfg)]
  <2>0. PICK total \in Nat : total = IF m.total = 0 THEN 1 ELSE m.total
    OBVIOUS
  <2>1. PICK low, full \in Int : low = (cfg.passRateMin - 5) * total /\ full = cfg.passRateMin * total
    BY <2>0
  <2> DEFINE before == IF m.dual THEN m.passB ELSE m.passA
             after == IF m.dual THEN n.passB ELSE n.passA
             Band(p) == IF cfg.passRateMin = Unset THEN "PASSED"
                        ELSE IF 100 * p < low THEN "FAILED"
                        ELSE IF 100 * p < full THEN "WARNING" ELSE "PASSED"
  <2>2. PassRateBand(m, cfg) = Band(before) /\ PassRateBand(n, cfg) = Band(after)
    BY <2>0, <2>1 DEF PassRateBand
  <2>3. before \in Nat /\ after \in Nat /\ before <= after
    OBVIOUS
  <2> HIDE DEF before, after
  <2>4. Severity[Band(after)] <= Severity[Band(before)]
    BY <1>1, <2>1, <2>3
  <2> QED BY <2>2, <2>4
<1>3. Severity[RegressionBand(n, cfg)] <= Severity[RegressionBand(m, cfg)]
  BY <1>1 DEF RegressionBand
<1> QED BY <1>2, <1>3, BandsOrdered

\* The aggregate counts.
LEMMA AggregateCounts ==
    ASSUME NEW rows, IsFiniteSet(DOMAIN rows)
    PROVE  LET m == AggregateMetrics(rows)
           IN /\ m.total \in Nat /\ m.passA \in Nat /\ m.passB \in Nat /\ m.regressions \in Nat
              /\ m.total = Cardinality(DOMAIN rows)
              /\ m.dual = (\E s \in DOMAIN rows : rows[s].b # "none")
              /\ m.passA = Cardinality({s \in DOMAIN rows : rows[s].a = "pass"})
              /\ m.passB = Cardinality({s \in DOMAIN rows : rows[s].b = "pass"})
              /\ m.regressions = Cardinality({s \in DOMAIN rows : rows[s].a = "pass" /\ rows[s].b = "fail"})
<1>1. \A S \in SUBSET DOMAIN rows : IsFiniteSet(S) /\ Cardinality(S) \in Nat
  BY FS_Subset, FS_CardinalityType
<1>2. /\ {s \in DOMAIN rows : rows[s].a = "pass"} \in SUBSET DOMAIN rows
      /\ {s \in DOMAIN rows : rows[s].b = "pass"} \in SUBSET DOMAIN rows
      /\ {s \in DOMAIN rows : rows[s].a = "pass" /\ rows[s].b = "fail"} \in SUBSET DOMAIN rows
  OBVIOUS
<1> DEFINE m == AggregateMetrics(rows)
<1>3. /\ m.total = Cardinality(DOMAIN rows)
      /\ m.dual = (\E s \in DOMAIN rows : rows[s].b # "none")
      /\ m.passA = Cardinality({s \in DOMAIN rows : rows[s].a = "pass"})
      /\ m.passB = Cardinality({s \in DOMAIN rows : rows[s].b = "pass"})
      /\ m.regressions = Cardinality({s \in DOMAIN rows : rows[s].a = "pass" /\ rows[s].b = "fail"})
  BY DEF AggregateMetrics, CountRows
<1> HIDE DEF m
<1>4. m.total \in Nat /\ m.passA \in Nat /\ m.passB \in Nat /\ m.regressions \in Nat
  BY <1>1, <1>2, <1>3
<1> QED BY <1>3, <1>4 DEF m

\* One more right answer of the side that is judged.
LEMMA BetterJudged ==
    ASSUME NEW rows, IsFiniteSet(DOMAIN rows), \A x \in DOMAIN rows : rows[x] \in Row,
           NEW s \in DOMAIN rows, NEW cfg, cfg.passRateMin \in Int, cfg.regressionMax \in Int
    PROVE  /\ (\A x \in DOMAIN rows : rows[x].b # "none")
                 => Gate([rows EXCEPT ![s].b = "pass"], cfg) <= Gate(rows, cfg)
           /\ (\A x \in DOMAIN rows : rows[x].b = "none")
                 => Gate([rows EXCEPT ![s].a = "pass"], cfg) <= Gate(rows, cfg)
<1> DEFINE m == AggregateMetrics(rows)
<1>1. /\ m.total \in Nat /\ m.passA \in Nat /\ m.passB \in Nat /\ m.regressions \in Nat /\ m.dual \in BOOLEAN
      /\ m.total = Cardinality(DOMAIN rows) /\ m.dual = (\E x \in DOMAIN rows : rows[x].b # "none")
      /\ m.passA = Cardinality({x \in DOMAIN rows : rows[x].a = "pass"})
      /\ m.passB = Cardinality({x \in DOMAIN rows : rows[x].b = "pass"})
      /\ m.regressions = Cardinality({x \in DOMAIN rows : rows[x].a = "pass" /\ rows[x].b = "fail"})
  BY AggregateCounts
<1>2. \A S, T : S \subseteq T /\ T \subseteq DOMAIN rows => Cardinality(S) <= Cardinality(T)
  BY FS_Subset
<1>3. \A x \in DOMAIN rows : rows[x] \in [a: {"pass", "fail"}, b: Judged,
                                          delta: {"NA", "BOTH_PASS", "BOTH_FAIL", "REGRESSION", "IMPROVEMENT"}]
  BY DEF Row
<1> HIDE DEF m
<1>4. ASSUME \A x \in DOMAIN rows : rows[x].b # "none"
      PROVE  Gate([rows EXCEPT ![s].b = "pass"], cfg) <= Gate(rows, cfg)
  <2> DEFINE better == [rows EXCEPT ![s].b = "pass"]
             n == AggregateMetrics(better)
  <2>1. /\ DOMAIN better = DOMAIN rows
        /\ \A x \in DOMAIN rows : better[x].b = (IF x = s THEN "pass" ELSE rows[x].b)
        /\ \A x \in DOMAIN rows : better[x].a = rows[x].a
    BY <1>3
  <2> HIDE DEF better
  <2>2. /\ n.total \in Nat /\ n.passA \in Nat /\ n.passB \in Nat /\ n.regressions \in Nat
        /\ n.total = Cardinality(DOMAIN rows) /\ n.dual = (\E x \in DOMAIN rows : better[x].b # "none")
        /\ n.passB = Cardinality({x \in DOMAIN rows : better[x].b = "pass"})
        /\ n.regressions = Cardinality({x \in DOMAIN rows : better[x].a = "pass" /\ better[x].b = "fail"})
    <3>1. IsFiniteSet(DOMAIN better)
      BY <2>1
    <3>2. /\ n.total \in Nat /\ n.passA \in Nat /\ n.passB \in Nat /\ n.regressions \in Nat
          /\ n.total = Cardinality(DOMAIN better) /\ n.dual = (\E x \in DOMAIN better : better[x].b # "none")
          /\ n.passB = Cardinality({x \in DOMAIN better : better[x].b = "pass"})
          /\ n.regressions = Cardinality({x \in DOMAIN better : better[x].a = "pass" /\ better[x].b = "fail"})
      BY <3>1, AggregateCounts
    <3> HIDE DEF n
    <3> QED BY <2>1, <3>2
  <2> HIDE DEF n
  <2>3. m.dual = TRUE /\ n.dual = TRUE
    BY <1>1, <1>4, <2>1, <2>2
  <2>4. m.passB <= n.passB
    <3>1. {x \in DOMAIN rows : rows[x].b = "pass"} \subseteq {x \in DOMAIN rows : better[x].b = "pass"}
      BY <2>1
    <3> QED BY <1>1, <1>2, <2>2, <3>1
  <2>5. n.regressions <= m.regressions
    <3>1. {x \in DOMAIN rows : better[x].a = "pass" /\ better[x].b = "fail"}
             \subseteq {x \in DOMAIN rows : rows[x].a = "pass" /\ rows[x].b = "fail"}
      BY <2>1
    <3> QED BY <1>1, <1>2, <2>2, <3>1
  <2>6. Severity[ComputeGateResult(n, cfg)] <= Severity[ComputeGateResult(m, cfg)]
    BY <1>1, <2>2, <2>3, <2>4, <2>5, GateMonotone
  <2> QED BY <2>6 DEF Gate, m, n, better
<1>5. ASSUME \A x \in DOMAIN rows : rows[x].b = "none"
      PROVE  Gate([rows EXCEPT ![s].a = "pass"], cfg) <= Gate(rows, cfg)
  <2> DEFINE better == [rows EXCEPT ![s].a = "pass"]
             n == AggregateMetrics(better)
  <2>1. /\ DOMAIN better = DOMAIN rows
        /\ \A x \in DOMAIN rows : better[x].a = (IF x = s THEN "pass" ELSE rows[x].a)
        /\ \A x \in DOMAIN rows : better[x].b = rows[x].b
    BY <1>3
  <2> HIDE DEF better
  <2>2. /\ n.total \in Nat /\ n.passA \in Nat /\ n.passB \in Nat /\ n.regressions \in Nat
        /\ n.total = Cardinality(DOMAIN rows) /\ n.dual = (\E x \in DOMAIN rows : better[x].b # "none")
        /\ n.passA = Cardinality({x \in DOMAIN rows : better[x].a = "pass"})
    <3>1. IsFiniteSet(DOMAIN better)
      BY <2>1
    <3>2. /\ n.total \in Nat /\ n.passA \in Nat /\ n.passB \in Nat /\ n.regressions \in Nat
          /\ n.total = Cardinality(DOMAIN better) /\ n.dual = (\E x \in DOMAIN better : better[x].b # "none")
          /\ n.passA = Cardinality({x \in DOMAIN better : better[x].a = "pass"})
      BY <3>1, AggregateCounts
    <3> HIDE DEF n
    <3> QED BY <2>1, <3>2
  <2> HIDE DEF n
  <2>3. m.dual = FALSE /\ n.dual = FALSE
    BY <1>1, <1>5, <2>1, <2>2
  <2>4. m.passA <= n.passA
    <3>1. {x \in DOMAIN rows : rows[x].a = "pass"} \subseteq {x \in DOMAIN rows : better[x].a = "pass"}
      BY <2>1
    <3> QED BY <1>1, <1>2, <2>2, <3>1
  <2>5. Severity[ComputeGateResult(n, cfg)] <= Severity[ComputeGateResult(m, cfg)]
    BY <1>1, <2>2, <2>3, <2>4, GateMonotone
  <2> QED BY <2>5 DEF Gate, m, n, better
<1> QED BY <1>4, <1>5

(* Had the candidate answered one more sample right, no thresholds would     *)
(* judge the run worse: the arithmetic of the gate is monotone for any       *)
(* number of samples and any bounds.                                         *)
THEOREM BetterIsNeverWorse == GateSpec => []BetterNeverWorse
<1>1. GateInv => BetterNeverWorse
  <2> SUFFICES ASSUME GateInv, NEW e \in Evals, eval[e].status = "COMPLETED",
                      NEW cfg \in GateConfigs, NEW s \in DOMAIN saved[e]
               PROVE  /\ eval[e].mode = "dual" =>
                            Gate([saved[e] EXCEPT ![s].b = "pass"], cfg) <= Gate(saved[e], cfg)
                      /\ eval[e].mode = "single" =>
                            Gate([saved[e] EXCEPT ![s].a = "pass"], cfg) <= Gate(saved[e], cfg)
    BY DEF BetterNeverWorse
  <2>1. GateTypeOK /\ Whole(e) /\ SamplesSound(e)
    BY DEF GateInv, Sound
  <2>2. /\ IsFiniteSet(DOMAIN saved[e]) /\ DOMAIN saved[e] = Samples
        /\ \A x \in DOMAIN saved[e] : saved[e][x] \in Row
    BY <2>1, GateAssumption DEF GateTypeOK, Whole, EvalPresent
  <2>3. cfg.passRateMin \in Int /\ cfg.regressionMax \in Int
    BY DEF GateConfigs, Unset
  <2>4. eval[e].mode = "dual" => \A x \in DOMAIN saved[e] : saved[e][x].b # "none"
    BY <2>1, <2>2 DEF Whole, EvalPresent
  <2>5. eval[e].mode = "single" => \A x \in DOMAIN saved[e] : saved[e][x].b = "none"
    BY <2>1 DEF SamplesSound, SideFits
  <2> QED BY <2>2, <2>3, <2>4, <2>5, BetterJudged
<1> QED BY <1>1, GateInitial, GateStep, PTL DEF GateSpec

-----------------------------------------------------------------------------
(* The regression check, for all values and not those TLC enumerates.  What a *)
(* change is compared with, pct percent of the baseline, is never negative.   *)

LEMMA ShareNatural == ASSUME NEW pct \in Nat, NEW base \in Nat PROVE pct * base \in Nat
OBVIOUS

\* Less than the whole of a baseline is less than the baseline.
LEMMA ShareBounded ==
    ASSUME NEW pct \in Nat, NEW base \in Nat \ {0}, pct < 100
    PROVE  100 * base > pct * base
OBVIOUS

(* What is worse than a regressed run is regressed, what is as good as the   *)
(* baseline is not, and a throughput that is gone is, for all values and     *)
(* every percentage below 100 (regression.ts): the direction in which a      *)
(* metric gets worse is that of its rule.                                    *)
THEOREM RegressionIsMonotone ==
    ASSUME NEW base \in Nat, NEW now \in Nat, NEW worse \in Nat, NEW pct \in Nat
    PROVE  /\ ~Exceeded("drop", base, base, pct) /\ ~Exceeded("rise", base, base, pct)
           /\ worse <= now /\ Exceeded("drop", base, now, pct) => Exceeded("drop", base, worse, pct)
           /\ worse >= now /\ Exceeded("rise", base, now, pct) => Exceeded("rise", base, worse, pct)
           /\ pct < 100 /\ base # 0 => Exceeded("drop", base, 0, pct)
<1> DEFINE share == pct * base
<1>1. share \in Nat
  BY ShareNatural
<1>2. pct < 100 /\ base # 0 => 100 * base > share
  BY ShareBounded
<1>3. /\ \A n \in Int : Exceeded("drop", base, n, pct) <=> n # Unset /\ base # 0 /\ 100 * (base - n) > share
      /\ \A n \in Int : Exceeded("rise", base, n, pct) <=> n # Unset /\ base # 0 /\ 100 * (n - base) > share
  BY DEF Exceeded, Unset
<1> HIDE DEF share
<1> QED BY <1>1, <1>2, <1>3 DEF Unset

\* A run is not a regression of itself, whatever metrics it lacks.
LEMMA NotOfItself ==
    ASSUME NEW run \in [DOMAIN RegressionRules -> Int], NEW pct \in [DOMAIN RegressionRules -> Nat],
           \A metric \in DOMAIN RegressionRules : run[metric] >= Unset
    PROVE  ~DetectRegression(run, run, pct)
<1> SUFFICES ASSUME NEW metric \in DOMAIN RegressionRules
             PROVE  ~Exceeded(RegressionRules[metric], run[metric], run[metric], pct[metric])
  BY DEF DetectRegression
<1>1. RegressionRules[metric] \in {"drop", "rise"} /\ run[metric] \in Nat \cup {Unset} /\ pct[metric] \in Nat
  BY DEF RegressionRules, Unset
<1>2. CASE run[metric] = Unset
  BY <1>2 DEF Exceeded
<1>3. CASE run[metric] \in Nat
  BY <1>1, <1>3, RegressionIsMonotone
<1> QED BY <1>1, <1>2, <1>3

(* VerdictGrows, which the services run evaluates on small values, holds by  *)
(* the arithmetic alone (regression.ts).                                     *)
LEMMA VerdictAlwaysGrows == VerdictGrows
<1>1. ASSUME NEW run \in [DOMAIN RegressionRules -> Unset..2], NEW pct \in [DOMAIN RegressionRules -> {0, 50}]
      PROVE  ~DetectRegression(run, run, pct)
  <2>1. /\ run \in [DOMAIN RegressionRules -> Int] /\ pct \in [DOMAIN RegressionRules -> Nat]
        /\ \A metric \in DOMAIN RegressionRules : run[metric] >= Unset
    BY DEF Unset
  <2> QED BY <2>1, NotOfItself
<1>2. ASSUME NEW base \in 1..4, NEW now \in 1..4, NEW worse \in 1..4, NEW pct \in {0, 10, 50, 99}
      PROVE  /\ ~Exceeded("drop", base, base, pct) /\ ~Exceeded("rise", base, base, pct)
             /\ worse <= now /\ Exceeded("drop", base, now, pct) => Exceeded("drop", base, worse, pct)
             /\ worse >= now /\ Exceeded("rise", base, now, pct) => Exceeded("rise", base, worse, pct)
             /\ Exceeded("drop", base, 0, pct)
  <2>1. base \in Nat /\ now \in Nat /\ worse \in Nat /\ pct \in Nat /\ pct < 100 /\ base # 0
    OBVIOUS
  <2> QED BY <2>1, RegressionIsMonotone
<1> QED BY <1>1, <1>2 DEF VerdictGrows
=============================================================================
