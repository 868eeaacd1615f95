--------------------------- MODULE DeliveryProofs ---------------------------
(***************************************************************************)
(* Notifications and alerts, for any number of events, channels, webhooks, *)
(* overlapping passes and failures.                                        *)
(***************************************************************************)
EXTENDS NotificationOutbox, AlertIngest, TLAPS

-----------------------------------------------------------------------------
(* The outbox: what a row says of a delivery is what happened to it. *)

\* n dispatches of d at least were made, or as many as are counted.
Tried(d, n) == n <= tries[d] \/ tries[d] = MaxAttempts

\* The attempt after the last is that of the pass of a test, which is made once.
Tested(d) == emitter[d[1]].pc = "over"

\* What a row says happened: no count runs ahead of the dispatches.
RowSound(d) ==
    /\ Tried(d, delivery[d].attempts)
    /\ delivery[d].status = "pending" => delivery[d].attempts = 0
    /\ delivery[d].attempts > MaxAttempts => Tested(d)
    /\ delivery[d].status = "sent" => d \in accepted
    /\ delivery[d].status = "failed" /\ delivery[d].wait = "no" => tries[d] >= MaxAttempts

\* What pass v read, and the one row it has in hand while it dispatches.
TickSound(v) ==
    /\ v.pc \in {"idle", "next"} => v.row = {}
    /\ v.pc \in {"sending", "accepted", "refused"} => \E row \in Snapshot : v.row = {row}
    /\ v.pc = "accepted" => \A row \in v.row : row.id \in accepted
    /\ \A row \in v.todo : Tried(row.id, row.attempts)
    /\ \A row \in v.row : Tried(row.id, IF v.pc = "sending" THEN row.attempts ELSE row.attempts + 1)
    /\ \A row \in v.todo \cup v.row :
          row.attempts <= MaxAttempts /\ (row.attempts = MaxAttempts => Tested(row.id))

OutboxInv ==
    /\ OutboxTypeOK
    /\ \A d \in Deliveries : RowSound(d)
    /\ \A k \in Ticks : TickSound(tick[k])

\* What was sent, dispatched or tested stays so.
Growing ==
    /\ accepted \subseteq accepted'
    /\ \A d \in Deliveries : tries[d] <= tries'[d] /\ (Tested(d) => Tested(d)')

-----------------------------------------------------------------------------

\* At first there is nothing to deliver.
LEMMA OutboxInitial == OutboxInit => OutboxInv
<1> SUFFICES ASSUME OutboxInit PROVE OutboxInv
  OBVIOUS
<1>1. NoDelivery \in Delivery /\ IdleTick \in Tick /\ [pc |-> "idle", matched |-> {}] \in Emitter
  BY OutboxAssumption DEF NoDelivery, Delivery, IdleTick, Tick, Emitter
<1>2. OutboxTypeOK
  BY <1>1, OutboxAssumption DEF OutboxInit, OutboxTypeOK
<1>3. ASSUME NEW d \in Deliveries PROVE RowSound(d)
  BY <1>3, OutboxAssumption DEF OutboxInit, RowSound, Tried, NoDelivery
<1>4. ASSUME NEW k \in Ticks PROVE TickSound(tick[k])
  BY <1>4 DEF OutboxInit, TickSound, IdleTick
<1> QED BY <1>2, <1>3, <1>4 DEF OutboxInv

\* The row a pass has in hand.
LEMMA HandedRow ==
    ASSUME OutboxInv, NEW k \in Ticks, tick[k].pc \in {"sending", "accepted", "refused"}
    PROVE  InHand(k) \in Snapshot /\ tick[k].row = {InHand(k)}
           /\ InHand(k).id \in Deliveries /\ InHand(k).attempts \in 0..MaxAttempts + 1
<1>1. PICK row \in Snapshot : tick[k].row = {row}
  BY DEF OutboxInv, TickSound
<1>2. InHand(k) \in {row}
  BY <1>1 DEF InHand
<1> QED BY <1>1, <1>2 DEF Snapshot

\* A pass that moves on gives up the row in hand, or keeps it.
LEMMA TickMoves ==
    ASSUME OutboxTypeOK, NEW k \in Ticks,
           NEW pc \in {"idle", "next", "sending", "accepted", "refused"}, NEW row \in SUBSET Snapshot
    PROVE  [tick[k] EXCEPT !.pc = pc, !.row = row] \in Tick /\ [tick[k] EXCEPT !.pc = pc] \in Tick
BY DEF OutboxTypeOK, Tick

\* What the pass of a test has in hand.
LEMMA TestPassRead ==
    ASSUME OutboxTypeOK, NEW S \in SUBSET Deliveries
    PROVE  [pc |-> "next", row |-> {}, todo |-> {[id |-> d, attempts |-> delivery[d].attempts] : d \in S}] \in Tick
<1>1. \A d \in S : [id |-> d, attempts |-> delivery[d].attempts] \in Snapshot
  BY DEF OutboxTypeOK, Delivery, Snapshot
<1>2. {[id |-> d, attempts |-> delivery[d].attempts] : d \in S} \in SUBSET Snapshot
  BY <1>1
<1> QED BY <1>2 DEF Tick

\* Every step keeps the types.
LEMMA OutboxTypeStep == OutboxInv /\ [OutboxNext]_outboxVars => OutboxTypeOK'
<1> SUFFICES ASSUME OutboxInv, [OutboxNext]_outboxVars PROVE OutboxTypeOK'
  OBVIOUS
<1>0. OutboxTypeOK
  BY DEF OutboxInv
<1>a. IdleTick \in Tick /\ NoDelivery \in Delivery
  BY OutboxAssumption DEF IdleTick, Tick, NoDelivery, Delivery
<1>1. ASSUME NEW e \in Events, EmitMatch(e) PROVE OutboxTypeOK'
  BY <1>0, <1>1 DEF EmitMatch, OutboxTypeOK, Emitter
<1>2. ASSUME NEW e \in Events, EmitInsert(e) PROVE OutboxTypeOK'
  <2>1. [NoDelivery EXCEPT !.status = "pending"] \in Delivery
    BY <1>a DEF Delivery
  <2>2. delivery' \in [Deliveries -> Delivery]
    BY <1>0, <1>2, <2>1 DEF EmitInsert, OutboxTypeOK
  <2>3. emitter' \in [Events -> Emitter]
    BY <1>0, <1>2 DEF EmitInsert, OutboxTypeOK, Emitter
  <2> QED BY <1>0, <1>2, <2>2, <2>3 DEF EmitInsert, OutboxTypeOK
<1>3. ASSUME NEW e \in Events, NEW k \in Ticks, TestFind(e, k) PROVE OutboxTypeOK'
  <2> DEFINE found == {d \in Deliveries : d[1] = e /\ HasRow(d)}
  <2>1. emitter' \in [Events -> Emitter]
    BY <1>0, <1>3 DEF TestFind, OutboxTypeOK, Emitter
  <2>2. tick' \in [Ticks -> Tick]
    BY <1>0, <1>3, <1>a, TestPassRead DEF TestFind, OutboxTypeOK
  <2> QED BY <1>0, <1>3, <2>1, <2>2 DEF TestFind, OutboxTypeOK
<1>4. ASSUME NEW c \in Channels, DeleteChannel(c) PROVE OutboxTypeOK'
  <2>1. [NoDelivery EXCEPT !.status = "deleted"] \in Delivery
    BY <1>a DEF Delivery
  <2> QED BY <1>0, <1>4, <2>1 DEF DeleteChannel, OutboxTypeOK
<1>5. ASSUME NEW k \in Ticks, TickRead(k) PROVE OutboxTypeOK'
  <2>1. PICK batch \in SUBSET Due :
          tick' = [tick EXCEPT ![k] = [pc |-> "next", row |-> {},
                                       todo |-> {[id |-> d, attempts |-> delivery[d].attempts] : d \in batch}]]
    BY <1>5 DEF TickRead
  <2>2. batch \in SUBSET Deliveries
    BY DEF Due
  <2>3. tick' \in [Ticks -> Tick]
    BY <1>0, <2>1, <2>2, TestPassRead DEF OutboxTypeOK
  <2> QED BY <1>0, <1>5, <2>3 DEF TickRead, OutboxTypeOK
<1>6. ASSUME NEW k \in Ticks, TickResolve(k) PROVE OutboxTypeOK'
  <2>1. ASSUME NEW row \in tick[k].todo PROVE [pc |-> "sending", todo |-> tick[k].todo \ {row}, row |-> {row}] \in Tick
    BY <1>0, <2>1 DEF OutboxTypeOK, Tick
  <2>2. tick' \in [Ticks -> Tick]
    BY <1>0, <1>6, <1>a, <2>1 DEF TickResolve, OutboxTypeOK
  <2>3. outboxFaults' \in 0..MaxOutboxFaults
    BY <1>0, <1>6, OutboxAssumption DEF TickResolve, Fault, OutboxTypeOK
  <2> QED BY <1>0, <1>6, <2>2, <2>3 DEF TickResolve, OutboxTypeOK
<1>7. ASSUME NEW k \in Ticks, TickSend(k) PROVE OutboxTypeOK'
  <2>1. InHand(k).id \in Deliveries
    BY <1>7, HandedRow DEF TickSend
  <2>2. accepted' \subseteq Deliveries
    BY <1>0, <1>7, <2>1 DEF TickSend, OutboxTypeOK
  <2>3. tick' \in [Ticks -> Tick]
    BY <1>0, <1>7 DEF TickSend, OutboxTypeOK, Tick
  <2>4. tries' \in [Deliveries -> 0..MaxAttempts]
    <3>1. tries' = [tries EXCEPT ![InHand(k).id] = IF @ < MaxAttempts THEN @ + 1 ELSE @]
      BY <1>7 DEF TickSend
    <3>2. \A n \in 0..MaxAttempts : (IF n < MaxAttempts THEN n + 1 ELSE n) \in 0..MaxAttempts
      BY OutboxAssumption
    <3>3. tries \in [Deliveries -> 0..MaxAttempts]
      BY <1>0 DEF OutboxTypeOK
    <3> QED BY <2>1, <3>1, <3>2, <3>3
  <2> QED BY <1>0, <1>7, <2>2, <2>3, <2>4 DEF TickSend, OutboxTypeOK
<1>8. ASSUME NEW k \in Ticks, TickMarkSent(k) PROVE OutboxTypeOK'
  <2>1. delivery' \in [Deliveries -> Delivery]
    BY <1>0, <1>8 DEF TickMarkSent, OutboxTypeOK, Delivery
  <2>2. tick' \in [Ticks -> Tick]
    BY <1>0, <1>8 DEF TickMarkSent, OutboxTypeOK, Tick
  <2> QED BY <1>0, <1>8, <2>1, <2>2, OutboxAssumption DEF TickMarkSent, OutboxTypeOK, Fault
<1>9. ASSUME NEW k \in Ticks, TickMarkFailed(k) PROVE OutboxTypeOK'
  <2>1. InHand(k).attempts \in 0..MaxAttempts
    BY <1>9, HandedRow, OutboxAssumption DEF TickMarkFailed, OutboxInv, TickSound
  <2>2. Failed(InHand(k)) \in Delivery
    BY <2>1, OutboxAssumption DEF Failed, Delivery
  <2>3. delivery' \in [Deliveries -> Delivery]
    BY <1>0, <1>9, <2>2 DEF TickMarkFailed, OutboxTypeOK
  <2>4. tick' \in [Ticks -> Tick]
    BY <1>0, <1>9, <1>a DEF TickMarkFailed, OutboxTypeOK, Tick
  <2> QED BY <1>0, <1>9, <2>3, <2>4, OutboxAssumption DEF TickMarkFailed, OutboxTypeOK, Fault
<1>10. ASSUME NEW d \in Deliveries, RetryDue(d) PROVE OutboxTypeOK'
  BY <1>0, <1>10 DEF RetryDue, OutboxTypeOK, Delivery
<1>11. CASE OutboxCrash
  <2>1. emitter' \in [Events -> Emitter]
    BY <1>0, <1>11 DEF OutboxCrash, OutboxTypeOK, Emitter
  <2> QED BY <1>0, <1>11, <1>a, <2>1, OutboxAssumption DEF OutboxCrash, OutboxTypeOK, Fault
<1>12. CASE UNCHANGED outboxVars
  BY <1>0, <1>12 DEF outboxVars, OutboxTypeOK
<1> QED BY <1>1, <1>2, <1>3, <1>4, <1>5, <1>6, <1>7, <1>8, <1>9, <1>10, <1>11, <1>12 DEF OutboxNext, TickStep

-----------------------------------------------------------------------------

\* What was sent, tried or tested stays so.
LEMMA OutboxGrows == OutboxInv /\ [OutboxNext]_outboxVars => Growing
<1> SUFFICES ASSUME OutboxInv, [OutboxNext]_outboxVars PROVE Growing
  OBVIOUS
<1>0. OutboxTypeOK /\ \A d \in Deliveries : d[1] \in Events /\ tries[d] \in Nat
  BY OutboxAssumption DEF OutboxInv, OutboxTypeOK, Deliveries
<1>1. ASSUME NEW e \in Events, EmitMatch(e) PROVE Growing
  BY <1>0, <1>1 DEF EmitMatch, OutboxTypeOK, Emitter, Growing, Tested
<1>2. ASSUME NEW e \in Events, EmitInsert(e) PROVE Growing
  BY <1>0, <1>2 DEF EmitInsert, OutboxTypeOK, Emitter, Growing, Tested
<1>3. ASSUME NEW e \in Events, NEW k \in Ticks, TestFind(e, k) PROVE Growing
  BY <1>0, <1>3 DEF TestFind, OutboxTypeOK, Emitter, Growing, Tested
<1>4. ASSUME NEW k \in Ticks, TickSend(k) PROVE Growing
  <2>1. \A d \in Deliveries : tries'[d] = tries[d] \/ tries'[d] = tries[d] + 1
    BY <1>0, <1>4 DEF TickSend, OutboxTypeOK
  <2>2. \A d \in Deliveries : tries[d] <= tries'[d]
    BY <1>0, <2>1
  <2> QED BY <1>4, <2>2 DEF TickSend, Growing, Tested
<1>5. CASE OutboxCrash
  BY <1>0, <1>5 DEF OutboxCrash, OutboxTypeOK, Emitter, Growing, Tested
<1>6. CASE UNCHANGED <<emitter, accepted, tries>>
  BY <1>0, <1>6 DEF Growing, Tested
<1>7. ASSUME NEW k \in Ticks, TickRead(k) \/ TickResolve(k) \/ TickMarkSent(k) \/ TickMarkFailed(k)
      PROVE  UNCHANGED <<emitter, accepted, tries>>
  BY <1>7 DEF TickRead, TickResolve, TickMarkSent, TickMarkFailed
<1> QED BY <1>1, <1>2, <1>3, <1>4, <1>5, <1>6, <1>7
     DEF OutboxNext, TickStep, DeleteChannel, RetryDue, outboxVars

\* What held of a count, a row or a pass still does.
LEMMA TriedStays ==
    ASSUME OutboxTypeOK, OutboxTypeOK', Growing, NEW d \in Deliveries, NEW n \in Nat, Tried(d, n)
    PROVE  Tried(d, n)'
<1>1. tries[d] \in 0..MaxAttempts /\ tries'[d] \in 0..MaxAttempts /\ tries[d] <= tries'[d]
  BY DEF OutboxTypeOK, Growing
<1> QED BY <1>1, OutboxAssumption DEF Tried

\* A row that a step leaves alone still says what happened.
LEMMA RowStays ==
    ASSUME OutboxTypeOK, OutboxTypeOK', Growing, NEW d \in Deliveries, RowSound(d), delivery'[d] = delivery[d]
    PROVE  RowSound(d)'
<1>1. tries[d] \in 0..MaxAttempts /\ tries'[d] \in 0..MaxAttempts /\ tries[d] <= tries'[d]
  BY DEF OutboxTypeOK, Growing
<1>2. PICK n \in Nat : n = delivery[d].attempts
  BY OutboxAssumption DEF OutboxTypeOK, Delivery
<1>3. Tried(d, n)'
  BY <1>2, TriedStays DEF RowSound
<1> QED BY <1>1, <1>2, <1>3, OutboxAssumption DEF RowSound, Tried, Growing

\* So does a pass.
LEMMA TickStays ==
    ASSUME OutboxTypeOK, OutboxTypeOK', Growing, NEW v \in Tick, TickSound(v)
    PROVE  TickSound(v)'
<1>1. \A row \in v.todo \cup v.row : row.id \in Deliveries /\ row.attempts \in Nat /\ row.attempts + 1 \in Nat
  BY OutboxAssumption DEF Tick, Snapshot
<1>2. \A row \in v.todo : Tried(row.id, row.attempts)'
  BY <1>1, TriedStays DEF TickSound
<1>3. \A row \in v.row : Tried(row.id, IF v.pc = "sending" THEN row.attempts ELSE row.attempts + 1)'
  BY <1>1, TriedStays DEF TickSound
<1>4. v.pc = "accepted" => \A row \in v.row : row.id \in accepted'
  BY DEF TickSound, Growing
<1>5. \A row \in v.todo \cup v.row : row.attempts = MaxAttempts => Tested(row.id)'
  BY <1>1 DEF TickSound, Growing
<1> QED BY <1>2, <1>3, <1>4, <1>5 DEF TickSound

\* A pass that only moves, and what it wrote to one row.
LEMMA OneTickMoved ==
    ASSUME OutboxInv, OutboxTypeOK', Growing, NEW k \in Ticks, NEW v,
           tick' = [tick EXCEPT ![k] = v], TickSound(v)'
    PROVE  \A j \in Ticks : TickSound(tick[j])'
<1> SUFFICES ASSUME NEW j \in Ticks PROVE TickSound(tick[j])'
  OBVIOUS
<1>1. CASE j = k
  BY <1>1 DEF OutboxInv, OutboxTypeOK
<1>2. CASE j # k
  BY <1>2, TickStays DEF OutboxInv, OutboxTypeOK
<1> QED BY <1>1, <1>2

\* A pass that is idle claims nothing.
LEMMA IdleTickSound == TickSound(IdleTick)
BY DEF TickSound, IdleTick

\* What a pass starts from, once the rows it reads are counted soundly.
LEMMA FreshPassSound ==
    ASSUME OutboxInv, NEW S \in SUBSET Deliveries, \A d \in S : delivery[d].attempts < MaxAttempts
    PROVE  TickSound([pc |-> "next", row |-> {}, todo |-> {[id |-> d, attempts |-> delivery[d].attempts] : d \in S}])
<1>1. \A d \in S : /\ delivery[d].attempts \in 0..MaxAttempts + 1
                   /\ Tried(d, delivery[d].attempts)
  BY DEF OutboxInv, OutboxTypeOK, Delivery, RowSound
<1> QED BY <1>1, OutboxAssumption DEF TickSound

-----------------------------------------------------------------------------

\* A pass that is through with a row has none in hand.
LEMMA PassDone ==
    ASSUME OutboxInv, OutboxTypeOK', Growing, NEW k \in Ticks,
           tick' = [tick EXCEPT ![k].pc = "next", ![k].row = {}]
    PROVE  \A j \in Ticks : TickSound(tick[j])'
<1>0. OutboxTypeOK /\ TickSound(tick[k]) /\ tick[k] \in Tick
  BY DEF OutboxInv, OutboxTypeOK
<1>1. PICK w \in Tick : w = [tick[k] EXCEPT !.pc = "next", !.row = {}]
  BY <1>0, TickMoves
<1>2. TickSound(w)
  BY <1>0, <1>1 DEF TickSound, Tick
<1>3. TickSound(w)'
  BY <1>0, <1>2, TickStays
<1> QED BY <1>1, <1>3, OneTickMoved

\* The steps of a pass, one by one: the rows are as sound as the passes.
LEMMA OutboxTickStep ==
    ASSUME OutboxInv, OutboxTypeOK', Growing, NEW k \in Ticks, TickRead(k) \/ TickStep(k)
    PROVE  OutboxInv'
<1>0. OutboxTypeOK /\ TickSound(tick[k]) /\ tick[k] \in Tick
  BY DEF OutboxInv, OutboxTypeOK
<1>1. CASE UNCHANGED delivery
  <2>1. \A d \in Deliveries : RowSound(d)'
    BY <1>0, <1>1, RowStays DEF OutboxInv
  <2>2. CASE TickRead(k)
    <3>1. PICK batch \in SUBSET Due :
            tick' = [tick EXCEPT ![k] = [pc |-> "next", row |-> {},
                                         todo |-> {[id |-> d, attempts |-> delivery[d].attempts] : d \in batch}]]
      BY <2>2 DEF TickRead
    <3> DEFINE v == [pc |-> "next", row |-> {},
                     todo |-> {[id |-> d, attempts |-> delivery[d].attempts] : d \in batch}]
    <3>2. batch \in SUBSET Deliveries /\ \A d \in batch : delivery[d].attempts < MaxAttempts
      BY OutboxAssumption DEF Due, OutboxInv, RowSound
    <3>3. v \in Tick /\ TickSound(v)
      <4>1. v \in Tick
        BY <1>0, <3>2, TestPassRead
      <4>2. TickSound(v)
        BY <3>2, FreshPassSound, Zenon
      <4> QED BY <4>1, <4>2
    <3>4. PICK w \in Tick : w = v /\ TickSound(w)
      BY <3>3
    <3>5. TickSound(w)'
      BY <1>0, <3>4, TickStays
    <3>6. \A j \in Ticks : TickSound(tick[j])'
      BY <3>1, <3>4, <3>5, OneTickMoved
    <3> QED BY <2>1, <3>6 DEF OutboxInv
  <2>3. CASE TickResolve(k)
    <3>1. CASE tick' = [tick EXCEPT ![k] = IdleTick]
      <4>1. TickSound(IdleTick)'
        BY DEF TickSound, IdleTick
      <4>2. \A j \in Ticks : TickSound(tick[j])'
        BY <3>1, <4>1, OneTickMoved
      <4> QED BY <2>1, <4>2 DEF OutboxInv
    <3>2. ASSUME NEW row \in tick[k].todo,
                 tick' = [tick EXCEPT ![k] = [pc |-> "sending", todo |-> tick[k].todo \ {row}, row |-> {row}]]
          PROVE  OutboxInv'
      <4>1. PICK w \in Tick : w = [pc |-> "sending", todo |-> tick[k].todo \ {row}, row |-> {row}]
        BY <1>0 DEF Tick
      <4>2. TickSound(w)
        BY <1>0, <4>1 DEF TickSound, Tick
      <4>3. TickSound(w)'
        BY <1>0, <4>2, TickStays
      <4>4. \A j \in Ticks : TickSound(tick[j])'
        BY <3>2, <4>1, <4>3, OneTickMoved
      <4> QED BY <2>1, <4>4 DEF OutboxInv
    <3> QED BY <2>3, <3>1, <3>2 DEF TickResolve
  <2>4. CASE TickSend(k)
    <3>1. /\ InHand(k) \in Snapshot /\ tick[k].row = {InHand(k)}
          /\ InHand(k).id \in Deliveries /\ InHand(k).attempts \in 0..MaxAttempts + 1
      BY <2>4, HandedRow DEF TickSend
    <3>2. PICK row \in Snapshot : row = InHand(k)
      BY <3>1
    <3>3. Tried(row.id, row.attempts + 1)'
      <4>1. Tried(row.id, row.attempts)
        BY <1>0, <2>4, <3>1, <3>2 DEF TickSend, TickSound
      <4>2. tries' = [tries EXCEPT ![row.id] = IF @ < MaxAttempts THEN @ + 1 ELSE @]
        BY <2>4, <3>2 DEF TickSend
      <4>3. tries[row.id] \in 0..MaxAttempts /\ row.attempts \in Nat
        BY <1>0, <3>1, <3>2, OutboxAssumption DEF OutboxTypeOK
      <4>4. tries'[row.id] = IF tries[row.id] < MaxAttempts THEN tries[row.id] + 1 ELSE tries[row.id]
        BY <1>0, <3>1, <3>2, <4>2 DEF OutboxTypeOK
      <4> QED BY <4>1, <4>3, <4>4, OutboxAssumption DEF Tried
    <3>4. PICK pc \in {"accepted", "refused"} :
             /\ tick' = [tick EXCEPT ![k] = [tick[k] EXCEPT !.pc = pc]]
             /\ pc = "accepted" => row.id \in accepted'
      BY <2>4, <3>2 DEF TickSend
    <3>5. PICK w \in Tick : w = [tick[k] EXCEPT !.pc = pc]
      BY <1>0, <3>4, TickMoves
    <3>6. w.pc = pc /\ w.row = {row} /\ w.todo = tick[k].todo
      BY <1>0, <3>1, <3>2, <3>5 DEF Tick
    <3>7. PICK u \in Tick : u = tick[k] /\ TickSound(u)
      BY <1>0
    <3>8. TickSound(u)'
      BY <1>0, <3>7, TickStays
    <3>9. TickSound(w)'
      BY <3>1, <3>2, <3>3, <3>4, <3>6, <3>7, <3>8 DEF TickSound
    <3>10. \A j \in Ticks : TickSound(tick[j])'
      BY <3>4, <3>5, <3>9, OneTickMoved
    <3> QED BY <2>1, <3>10 DEF OutboxInv
  <2>5. CASE TickMarkSent(k)
    <3>1. CASE tick' = [tick EXCEPT ![k].pc = "refused"]
      <4>1. PICK w \in Tick : w = [tick[k] EXCEPT !.pc = "refused"]
        BY <1>0, TickMoves
      <4>2. TickSound(w)
        BY <1>0, <2>5, <4>1 DEF TickMarkSent, TickSound, Tick
      <4>3. TickSound(w)'
        BY <1>0, <4>2, TickStays
      <4>4. \A j \in Ticks : TickSound(tick[j])'
        BY <3>1, <4>1, <4>3, OneTickMoved
      <4> QED BY <2>1, <4>4 DEF OutboxInv
    <3>2. CASE tick' = [tick EXCEPT ![k].pc = "next", ![k].row = {}]
      BY <1>0, <2>1, <2>5, <3>2, PassDone DEF OutboxInv, TickMarkSent
    <3> QED BY <2>5, <3>1, <3>2 DEF TickMarkSent
  <2>6. CASE TickMarkFailed(k)
    <3>1. CASE tick' = [tick EXCEPT ![k] = IdleTick]
      <4>1. TickSound(IdleTick)'
        BY DEF TickSound, IdleTick
      <4>2. \A j \in Ticks : TickSound(tick[j])'
        BY <3>1, <4>1, OneTickMoved
      <4> QED BY <2>1, <4>2 DEF OutboxInv
    <3>2. CASE tick' = [tick EXCEPT ![k].pc = "next", ![k].row = {}]
      BY <1>0, <2>1, <2>6, <3>2, PassDone DEF OutboxInv, TickMarkFailed
    <3> QED BY <2>6, <3>1, <3>2 DEF TickMarkFailed
  <2> QED BY <2>2, <2>3, <2>4, <2>5, <2>6 DEF TickStep
<1>2. CASE ~UNCHANGED delivery
  <2>1. CASE TickMarkSent(k)
    <3>1. /\ delivery' = [delivery EXCEPT ![InHand(k).id].status = "sent", ![InHand(k).id].wait = "no"]
          /\ tick' = [tick EXCEPT ![k].pc = "next", ![k].row = {}]
          /\ UNCHANGED <<accepted, tries, emitter>> /\ tick[k].pc = "accepted"
      BY <1>2, <2>1 DEF TickMarkSent
    <3>2. \A j \in Ticks : TickSound(tick[j])'
      BY <3>1, PassDone
    <3>3. PICK row \in Snapshot : row = InHand(k) /\ row.id \in Deliveries /\ row.id \in accepted
      BY <1>0, <3>1, HandedRow DEF TickSound
    <3>4. ASSUME NEW d \in Deliveries PROVE RowSound(d)'
      <4>1. CASE d # row.id
        BY <1>0, <3>1, <3>3, <4>1, RowStays DEF OutboxInv, OutboxTypeOK
      <4>2. CASE d = row.id
        <5>1. /\ delivery'[d].status = "sent" /\ delivery'[d].attempts = delivery[d].attempts
          BY <1>0, <3>1, <3>3, <4>2 DEF OutboxTypeOK, Delivery
        <5>2. RowSound(d)
          BY DEF OutboxInv
        <5> QED BY <3>1, <3>3, <4>2, <5>1, <5>2 DEF RowSound, Tried, Tested
      <4> QED BY <4>1, <4>2
    <3> QED BY <3>2, <3>4 DEF OutboxInv
  <2>2. CASE TickMarkFailed(k)
    <3>1. /\ delivery' = [delivery EXCEPT ![InHand(k).id] = Failed(InHand(k))]
          /\ tick' = [tick EXCEPT ![k].pc = "next", ![k].row = {}]
          /\ UNCHANGED <<accepted, tries, emitter>> /\ tick[k].pc = "refused"
      BY <1>2, <2>2 DEF TickMarkFailed
    <3>2. \A j \in Ticks : TickSound(tick[j])'
      BY <3>1, PassDone
    <3>3. PICK row \in Snapshot :
             /\ row = InHand(k) /\ row.id \in Deliveries /\ Tried(row.id, row.attempts + 1)
             /\ row.attempts \in Nat /\ row.attempts <= MaxAttempts
             /\ row.attempts = MaxAttempts => Tested(row.id)
      BY <1>0, <3>1, HandedRow, OutboxAssumption DEF TickSound
    <3>4. ASSUME NEW d \in Deliveries PROVE RowSound(d)'
      <4>1. CASE d # row.id
        BY <1>0, <3>1, <3>3, <4>1, RowStays DEF OutboxInv, OutboxTypeOK
      <4>2. CASE d = row.id
        <5>1. /\ delivery'[d].status = "failed" /\ delivery'[d].attempts = row.attempts + 1
              /\ delivery'[d].wait = "no" => row.attempts + 1 >= MaxAttempts
          BY <1>0, <3>1, <3>3, <4>2, OutboxAssumption DEF OutboxTypeOK, Failed, Backoff
        <5>2. tries[d] \in Nat
          BY <1>0, OutboxAssumption DEF OutboxTypeOK
        <5> QED BY <3>1, <3>3, <4>2, <5>1, <5>2, OutboxAssumption DEF RowSound, Tried, Tested
      <4> QED BY <4>1, <4>2
    <3> QED BY <3>2, <3>4 DEF OutboxInv
  <2> QED BY <1>2, <2>1, <2>2 DEF TickRead, TickStep, TickResolve, TickSend
<1> QED BY <1>1, <1>2

\* Every step keeps the invariant.
LEMMA OutboxStep == OutboxInv /\ [OutboxNext]_outboxVars => OutboxInv'
<1> SUFFICES ASSUME OutboxInv, [OutboxNext]_outboxVars PROVE OutboxInv'
  OBVIOUS
<1>0. OutboxTypeOK /\ OutboxTypeOK' /\ Growing
  BY OutboxTypeStep, OutboxGrows DEF OutboxInv
<1>a. UNCHANGED tick => \A j \in Ticks : TickSound(tick[j])'
  BY <1>0, TickStays DEF OutboxInv, OutboxTypeOK
<1>b. UNCHANGED delivery => \A d \in Deliveries : RowSound(d)'
  BY <1>0, RowStays DEF OutboxInv
<1>1. ASSUME NEW k \in Ticks, TickRead(k) \/ TickStep(k) PROVE OutboxInv'
  BY <1>0, <1>1, OutboxTickStep
<1>2. ASSUME NEW e \in Events, EmitMatch(e) \/ EmitInsert(e) PROVE OutboxInv'
  <2>1. ASSUME NEW d \in Deliveries, delivery'[d] = [NoDelivery EXCEPT !.status = "pending"] PROVE RowSound(d)'
    BY <1>0, <2>1, OutboxAssumption DEF RowSound, NoDelivery, Tried, OutboxTypeOK
  <2>2. ASSUME NEW d \in Deliveries
        PROVE  delivery'[d] = [NoDelivery EXCEPT !.status = "pending"] \/ delivery'[d] = delivery[d]
    BY <1>0, <1>2 DEF EmitMatch, EmitInsert, OutboxTypeOK
  <2>3. \A d \in Deliveries : RowSound(d)'
    BY <1>0, <2>1, <2>2, RowStays DEF OutboxInv
  <2> QED BY <1>0, <1>a, <1>2, <2>3 DEF OutboxInv, EmitMatch, EmitInsert
<1>3. ASSUME NEW e \in Events, NEW k \in Ticks, TestFind(e, k) PROVE OutboxInv'
  <2>1. UNCHANGED <<delivery, tries, accepted>> /\ emitter[e].pc = "inserted"
    BY <1>3 DEF TestFind
  <2> DEFINE found == {d \in Deliveries : d[1] = e /\ HasRow(d)}
             v == [pc |-> "next", row |-> {}, todo |-> {[id |-> d, attempts |-> delivery[d].attempts] : d \in found}]
  <2>2. tick' = [tick EXCEPT ![k] = IdleTick] \/ tick' = [tick EXCEPT ![k] = v]
    BY <1>3 DEF TestFind
  <2>3. TickSound(IdleTick)'
    BY DEF TickSound, IdleTick
  <2>4. \A d \in found :
           /\ delivery[d].attempts \in Nat /\ Tried(d, delivery[d].attempts)
           /\ delivery[d].attempts <= MaxAttempts /\ Tested(d)'
    BY <1>0, <1>3, <2>1, OutboxAssumption
    DEF TestFind, OutboxInv, OutboxTypeOK, Emitter, Delivery, RowSound, Tested
  <2>5. PICK w \in Tick : w = v
    BY <1>0, TestPassRead
  <2>6. TickSound(w)'
    <3>1. w.row = {} /\ w.pc = "next"
      BY <2>5
    <3>2. \A row \in w.todo : \E d \in found : row.id = d /\ row.attempts = delivery[d].attempts
      BY <2>5
    <3>3. \A row \in w.todo : Tried(row.id, row.attempts)'
      BY <2>1, <2>4, <3>2 DEF Tried
    <3>4. \A row \in w.todo : row.attempts <= MaxAttempts /\ Tested(row.id)'
      BY <2>4, <3>2
    <3> QED BY <3>1, <3>3, <3>4 DEF TickSound
  <2>7. \A j \in Ticks : TickSound(tick[j])'
    BY <1>0, <2>2, <2>3, <2>5, <2>6, OneTickMoved
  <2> QED BY <1>0, <1>b, <2>1, <2>7 DEF OutboxInv
<1>4. ASSUME NEW c \in Channels, DeleteChannel(c) PROVE OutboxInv'
  <2>1. ASSUME NEW d \in Deliveries, delivery'[d] = [NoDelivery EXCEPT !.status = "deleted"] PROVE RowSound(d)'
    BY <1>0, <2>1, OutboxAssumption DEF RowSound, NoDelivery, Tried, OutboxTypeOK
  <2>2. ASSUME NEW d \in Deliveries
        PROVE  delivery'[d] = [NoDelivery EXCEPT !.status = "deleted"] \/ delivery'[d] = delivery[d]
    BY <1>0, <1>4 DEF DeleteChannel, OutboxTypeOK
  <2>3. \A d \in Deliveries : RowSound(d)'
    BY <1>0, <2>1, <2>2, RowStays DEF OutboxInv
  <2> QED BY <1>0, <1>a, <1>4, <2>3 DEF OutboxInv, DeleteChannel
<1>5. ASSUME NEW r \in Deliveries, RetryDue(r) PROVE OutboxInv'
  <2>1. ASSUME NEW d \in Deliveries, d # r PROVE RowSound(d)'
    BY <1>0, <1>5, <2>1, RowStays DEF RetryDue, OutboxInv, OutboxTypeOK
  <2>2. /\ delivery'[r].status = delivery[r].status /\ delivery'[r].attempts = delivery[r].attempts
        /\ delivery'[r].wait = "due" /\ UNCHANGED <<accepted, tries, emitter, tick>>
    BY <1>0, <1>5 DEF RetryDue, OutboxTypeOK, Delivery
  <2>3. RowSound(r)'
    BY <1>5, <2>2 DEF OutboxInv, RowSound, Tried, Tested
  <2> QED BY <1>0, <1>a, <2>1, <2>2, <2>3 DEF OutboxInv
<1>6. CASE OutboxCrash
  <2>1. \A j \in Ticks : TickSound(tick[j])'
    BY <1>6 DEF OutboxCrash, TickSound, IdleTick
  <2> QED BY <1>0, <1>b, <1>6, <2>1 DEF OutboxInv, OutboxCrash
<1>7. CASE UNCHANGED outboxVars
  BY <1>0, <1>a, <1>b, <1>7 DEF outboxVars, OutboxInv
<1> QED BY <1>1, <1>2, <1>3, <1>4, <1>5, <1>6, <1>7 DEF OutboxNext

(* What is recorded as sent was taken by the receiver: of the passes that    *)
(* overlap, one that writes "sent" has seen a dispatch accepted, and nobody  *)
(* takes that back.                                                          *)
THEOREM SentSafe == OutboxSpec => []SentWasAccepted
<1>1. OutboxInv => SentWasAccepted
  BY DEF OutboxInv, RowSound, SentWasAccepted
<1> QED BY <1>1, OutboxInitial, OutboxStep, PTL DEF OutboxSpec

(* A delivery that was given up was dispatched MAX_ATTEMPTS times at least:  *)
(* a pass counts from what it read, which never runs ahead of the dispatches.*)
THEOREM GivenUpSafe == OutboxSpec => []GivenUpAfterAll
<1>1. OutboxInv => GivenUpAfterAll
  BY DEF OutboxInv, RowSound, GivenUpAfterAll
<1> QED BY <1>1, OutboxInitial, OutboxStep, PTL DEF OutboxSpec

-----------------------------------------------------------------------------
(* Alerts: who inserts the row is the one who asks. *)

\* The alerts webhook w has given to the explainer and is not done with.
Asked(w) == IF webhook[w].pc \in {"asked", "made"} THEN webhook[w].current ELSE {}

\* Who created an alert, or has it explained, is the only one.
HeldOnce ==
    \A v, w \in Webhooks : v # w =>
        /\ webhook[v].created \cap webhook[w].created = {}
        /\ Asked(v) \cap Asked(w) = {}

\* What each of the two stages says of the counts.
StagesCounted ==
    /\ \A w \in Webhooks : \A a \in webhook[w].created :
          alertStatus[a] # "none" /\ handed[a] = 0
    /\ \A w \in Webhooks : \A a \in Asked(w) : handed[a] = 1 /\ notified[a] = 0
    /\ \A w \in Webhooks : webhook[w].pc = "made" => webhook[w].current \subseteq explained
    /\ \A a \in Alerts : alertStatus[a] = "none" => handed[a] = 0

AlertInv == AlertTypeOK /\ HeldOnce /\ StagesCounted /\ AskedOnce

\* A webhook that is idle.
LEMMA IdleWebhookType == IdleWebhook \in Webhook
BY DEF IdleWebhook, Webhook, AlertStatuses

\* At first no alert is known to anybody.
LEMMA AlertInitial == AlertInit => AlertInv
<1> SUFFICES ASSUME AlertInit PROVE AlertInv
  OBVIOUS
<1>1. AlertTypeOK
  BY AlertAssumption, IdleWebhookType DEF AlertInit, AlertTypeOK
<1>2. \A w \in Webhooks : webhook[w].created = {} /\ webhook[w].pc = "idle" /\ Asked(w) = {}
  BY DEF AlertInit, IdleWebhook, Asked
<1>3. HeldOnce /\ StagesCounted /\ AskedOnce
  BY <1>2 DEF AlertInit, HeldOnce, StagesCounted, AskedOnce
<1> QED BY <1>1, <1>3 DEF AlertInv

\* What looking up the next alert leaves of the webhook.
LEMMA FindNext ==
    ASSUME AlertTypeOK, NEW w \in Webhooks, IngestFind(w)
    PROVE  \E next \in Webhook : /\ webhook' = [webhook EXCEPT ![w] = next]
                                /\ next.pc \in {"explain", "found"} /\ next.created = webhook[w].created
<1>1. webhook[w] \in Webhook
  BY DEF AlertTypeOK
<1>2. CASE webhook' = [webhook EXCEPT ![w].pc = "explain"]
  <2>1. [webhook[w] EXCEPT !.pc = "explain"] \in Webhook
    BY <1>1 DEF Webhook
  <2> QED BY <1>1, <1>2, <2>1 DEF Webhook
<1>3. ASSUME NEW a \in webhook[w].todo,
             webhook' = [webhook EXCEPT ![w].pc = "found", ![w].todo = @ \ {a}, ![w].current = {a},
                                        ![w].found = alertStatus[a]]
      PROVE  webhook'[w] \in Webhook /\ webhook' = [webhook EXCEPT ![w] = webhook'[w]]
             /\ webhook'[w].pc = "found" /\ webhook'[w].created = webhook[w].created
  <2>1. a \in Alerts /\ alertStatus[a] \in AlertStatuses \cup {"none"}
    BY <1>1 DEF AlertTypeOK, Webhook
  <2> DEFINE next == [webhook[w] EXCEPT !.pc = "found", !.todo = webhook[w].todo \ {a}, !.current = {a},
                                        !.found = alertStatus[a]]
  <2>2. next \in Webhook /\ next.pc = "found" /\ next.created = webhook[w].created
    BY <1>1, <2>1 DEF Webhook
  <2>3. webhook' = [webhook EXCEPT ![w] = next]
    BY <1>3
  <2> HIDE DEF next
  <2> QED BY <2>2, <2>3 DEF AlertTypeOK
<1> QED BY <1>2, <1>3 DEF IngestFind

\* A post says of each alert whether it is firing or resolved.
LEMMA PostedStatus == \A w \in Webhooks, a \in Alerts : Posted(w, a) \in AlertStatuses
BY DEF Posted, AlertStatuses

\* Every step keeps the types.
LEMMA AlertTypeStep == AlertTypeOK /\ [AlertNext]_alertVars => AlertTypeOK'
<1> SUFFICES ASSUME AlertTypeOK, [AlertNext]_alertVars PROVE AlertTypeOK'
  OBVIOUS
<1> USE AlertAssumption DEF AlertTypeOK, Webhook, IdleWebhook, AlertStatuses
<1>1. ASSUME NEW w \in Webhooks, Post(w) PROVE AlertTypeOK'
  <2>1. PICK group \in SUBSET Alerts, firing \in SUBSET Alerts :
          webhook' = [webhook EXCEPT ![w] = [@ EXCEPT !.pc = "ingest", !.todo = group, !.firing = firing]]
    <3>1. PICK group \in SUBSET Alerts : \E firing \in SUBSET group :
             webhook' = [webhook EXCEPT ![w] = [@ EXCEPT !.pc = "ingest", !.todo = group, !.firing = firing]]
      BY <1>1, Zenon DEF Post
    <3>2. PICK firing \in SUBSET group :
             webhook' = [webhook EXCEPT ![w] = [@ EXCEPT !.pc = "ingest", !.todo = group, !.firing = firing]]
      BY <3>1
    <3> QED BY <3>2
  <2>2. webhook[w] \in Webhook
    OBVIOUS
  <2>3. [webhook[w] EXCEPT !.pc = "ingest", !.todo = group, !.firing = firing] \in Webhook
    BY <2>2
  <2> QED BY <1>1, <2>1, <2>3 DEF Post
<1>2. ASSUME NEW w \in Webhooks, IngestFind(w) PROVE AlertTypeOK'
  <2>1. UNCHANGED <<alertStatus, explained, handed, notified, llmFailures>>
    BY <1>2 DEF IngestFind
  <2> QED BY <1>2, <2>1, FindNext
<1>3. ASSUME NEW w \in Webhooks, IngestMatch(w) PROVE AlertTypeOK'
  <2>1. alertStatus' \in [Alerts -> AlertStatuses \cup {"none"}]
    <3>1. \A a \in Alerts : Posted(w, a) \in AlertStatuses
      BY PostedStatus
    <3> QED BY <1>3, <3>1 DEF IngestMatch
  <2>2. webhook' \in [Webhooks -> Webhook]
    <3>1. webhook' = [webhook EXCEPT ![w].pc = "ingest", ![w].current = {}]
      BY <1>3 DEF IngestMatch
    <3>2. webhook[w] \in Webhook /\ {} \in SUBSET Alerts
      OBVIOUS
    <3>3. webhook'[w] \in Webhook
      BY <3>1, <3>2
    <3> QED BY <3>1, <3>3
  <2> QED BY <1>3, <2>1, <2>2 DEF IngestMatch
<1>4. ASSUME NEW w \in Webhooks, IngestCreate(w) PROVE AlertTypeOK'
  <2>1. \A a \in Alerts : Posted(w, a) \in AlertStatuses
    BY PostedStatus
  <2> QED BY <1>4, <2>1 DEF IngestCreate
<1>5. ASSUME NEW w \in Webhooks, ExplainNext(w) PROVE AlertTypeOK'
  <2>1. webhook[w] \in Webhook
    OBVIOUS
  <2>2. CASE webhook' = [webhook EXCEPT ![w] = [IdleWebhook EXCEPT !.pc = "over"]] /\ UNCHANGED handed
    BY <1>5, <2>2 DEF ExplainNext
  <2>3. ASSUME NEW a \in webhook[w].created,
               webhook' = [webhook EXCEPT ![w].pc = "asked", ![w].current = {a}, ![w].created = @ \ {a}],
               handed' = [handed EXCEPT ![a] = IF @ < 2 THEN @ + 1 ELSE @]
        PROVE  AlertTypeOK'
    <3>1. a \in Alerts
      BY <2>1
    <3>2. handed' \in [Alerts -> 0..2]
      BY <2>3, <3>1
    <3>3. webhook' \in [Webhooks -> Webhook]
      BY <2>1, <2>3, <3>1
    <3> QED BY <1>5, <3>2, <3>3 DEF ExplainNext
  <2> QED BY <1>5, <2>2, <2>3 DEF ExplainNext
<1>6. ASSUME NEW w \in Webhooks, ExplainAlert(w) PROVE AlertTypeOK'
  BY <1>6 DEF ExplainAlert
<1>7. ASSUME NEW w \in Webhooks, NotifyExplained(w) PROVE AlertTypeOK'
  <2>1. notified' \in [Alerts -> 0..2]
    <3>1. \A a \in Alerts : notified[a] < 2 => notified[a] + 1 \in 0..2
      OBVIOUS
    <3> QED BY <1>7, <3>1 DEF NotifyExplained
  <2>2. webhook' \in [Webhooks -> Webhook]
    <3>1. webhook' = [webhook EXCEPT ![w].pc = "explain", ![w].current = {}]
      BY <1>7 DEF NotifyExplained
    <3>2. webhook[w] \in Webhook /\ {} \in SUBSET Alerts
      OBVIOUS
    <3>3. webhook'[w] \in Webhook
      BY <3>1, <3>2
    <3> QED BY <3>1, <3>3
  <2> QED BY <1>7, <2>1, <2>2 DEF NotifyExplained
<1>8. CASE UNCHANGED alertVars
  BY <1>8 DEF alertVars
<1> QED BY <1>1, <1>2, <1>3, <1>4, <1>5, <1>6, <1>7, <1>8 DEF AlertNext

\* Every step keeps the invariant.
LEMMA AlertStep == AlertInv /\ [AlertNext]_alertVars => AlertInv'
<1> SUFFICES ASSUME AlertInv, [AlertNext]_alertVars PROVE AlertInv'
  OBVIOUS
<1>0. AlertTypeOK /\ AlertTypeOK'
  BY AlertTypeStep DEF AlertInv
<1> USE DEF AlertInv
<1>1. ASSUME NEW w \in Webhooks, Post(w) PROVE AlertInv'
  BY <1>0, <1>1 DEF Post, AlertTypeOK, Webhook, HeldOnce, StagesCounted, AskedOnce, Asked
<1>2. ASSUME NEW w \in Webhooks, IngestFind(w) PROVE AlertInv'
  <2>0. UNCHANGED <<alertStatus, explained, handed, notified>>
    BY <1>2 DEF IngestFind
  <2>1. PICK next \in Webhook : /\ webhook' = [webhook EXCEPT ![w] = next]
                                /\ next.pc \in {"explain", "found"} /\ next.created = webhook[w].created
    BY <1>0, <1>2, FindNext
  <2>2. webhook[w].pc = "ingest"
    BY <1>2 DEF IngestFind
  <2>3. \A v \in Webhooks : /\ Asked(v)' = Asked(v) /\ webhook'[v].created = webhook[v].created
                            /\ webhook'[v].pc = "made" => webhook'[v] = webhook[v]
    BY <1>0, <2>1, <2>2 DEF AlertTypeOK, Asked
  <2>4. HeldOnce'
    BY <2>3 DEF HeldOnce
  <2>5. StagesCounted'
    BY <2>0, <2>3 DEF StagesCounted
  <2> QED BY <1>0, <2>0, <2>4, <2>5 DEF AskedOnce
<1>3. ASSUME NEW w \in Webhooks, IngestMatch(w) PROVE AlertInv'
  BY <1>0, <1>3 DEF IngestMatch, AlertTypeOK, Webhook, AlertStatuses, HeldOnce, StagesCounted, AskedOnce, Asked
<1>4. ASSUME NEW w \in Webhooks, IngestCreate(w) PROVE AlertInv'
  <2>0. UNCHANGED <<explained, handed, notified>>
    BY <1>4 DEF IngestCreate
  <2>1. CASE \E a \in webhook[w].current : alertStatus[a] # "none"
    <3>1. UNCHANGED alertStatus /\ webhook' = [webhook EXCEPT ![w] = [IdleWebhook EXCEPT !.pc = "over"]]
      BY <1>4, <2>1 DEF IngestCreate
    <3> QED BY <1>0, <2>0, <3>1
         DEF AlertTypeOK, Webhook, IdleWebhook, HeldOnce, StagesCounted, AskedOnce, Asked
  <2>2. CASE \A a \in webhook[w].current : alertStatus[a] = "none"
    <3>1. /\ alertStatus' = [a \in Alerts |-> IF a \in webhook[w].current THEN Posted(w, a) ELSE alertStatus[a]]
          /\ webhook' = [webhook EXCEPT ![w].pc = "ingest", ![w].current = {},
                                        ![w].created = @ \cup webhook[w].current]
      BY <1>4, <2>2 DEF IngestCreate
    <3>2. \A v \in Webhooks : webhook[v].created \cap webhook[w].current = {}
      BY <2>2 DEF StagesCounted
    <3>3. \A v \in Webhooks : Asked(v)' = Asked(v)
      BY <1>0, <1>4, <3>1 DEF IngestCreate, AlertTypeOK, Webhook, Asked
    <3>4. \A v \in Webhooks :
             webhook'[v].created = IF v = w THEN webhook[w].created \cup webhook[w].current ELSE webhook[v].created
      BY <1>0, <3>1 DEF AlertTypeOK, Webhook
    <3>5. HeldOnce'
      BY <3>2, <3>3, <3>4 DEF HeldOnce
    <3>6. StagesCounted'
      <4>1. \A a \in webhook[w].current : a \in Alerts /\ handed[a] = 0 /\ alertStatus'[a] # "none"
        <5>1. \A a \in Alerts : Posted(w, a) # "none"
          BY PostedStatus DEF AlertStatuses
        <5> QED BY <1>0, <2>2, <3>1, <5>1 DEF AlertTypeOK, Webhook, StagesCounted
      <4>2. \A a \in Alerts : alertStatus[a] # "none" => alertStatus'[a] # "none"
        BY <2>2, <3>1, <4>1
      <4>3. \A v \in Webhooks : \A a \in webhook'[v].created : alertStatus'[a] # "none" /\ handed'[a] = 0
        BY <1>0, <2>0, <3>4, <4>1, <4>2 DEF StagesCounted, AlertTypeOK, Webhook
      <4>4. \A v \in Webhooks : webhook'[v].pc = "made" => webhook'[v].current \subseteq explained'
        BY <1>0, <2>0, <3>1 DEF StagesCounted, AlertTypeOK, Webhook
      <4> QED BY <2>0, <3>3, <4>2, <4>3, <4>4 DEF StagesCounted
    <3> QED BY <1>0, <2>0, <3>5, <3>6 DEF AskedOnce
  <2> QED BY <2>1, <2>2
<1>5. ASSUME NEW w \in Webhooks, ExplainNext(w) PROVE AlertInv'
  <2>0. UNCHANGED <<alertStatus, explained, notified>>
    BY <1>5 DEF ExplainNext
  <2>1. CASE webhook' = [webhook EXCEPT ![w] = [IdleWebhook EXCEPT !.pc = "over"]] /\ UNCHANGED handed
    BY <1>0, <2>0, <2>1 DEF AlertTypeOK, Webhook, IdleWebhook, HeldOnce, StagesCounted, AskedOnce, Asked
  <2>2. ASSUME NEW a \in webhook[w].created,
               webhook' = [webhook EXCEPT ![w].pc = "asked", ![w].current = {a}, ![w].created = @ \ {a}],
               handed' = [handed EXCEPT ![a] = IF @ < 2 THEN @ + 1 ELSE @]
        PROVE  AlertInv'
    <3>1. a \in Alerts /\ alertStatus[a] # "none" /\ handed[a] = 0 /\ notified[a] = 0
      BY <1>0 DEF AlertTypeOK, Webhook, StagesCounted, AskedOnce
    <3>2. handed' = [handed EXCEPT ![a] = 1]
      BY <2>2, <3>1
    <3>3. /\ \A v \in Webhooks \ {w} : Asked(v)' = Asked(v) /\ webhook'[v] = webhook[v]
          /\ Asked(w)' = {a} /\ webhook'[w].created = webhook[w].created \ {a}
          /\ webhook'[w].pc # "made"
      BY <1>0, <2>2 DEF AlertTypeOK, Webhook, Asked
    <3>4. \A v \in Webhooks : a \notin Asked(v) /\ (v # w => a \notin webhook[v].created)
      BY <3>1 DEF StagesCounted, HeldOnce
    <3>5. HeldOnce'
      BY <3>3, <3>4 DEF HeldOnce
    <3>6. StagesCounted'
      <4>1. \A v \in Webhooks : \A b \in webhook'[v].created : b # a /\ b \in webhook[v].created
        BY <3>3, <3>4
      <4>2. \A v \in Webhooks : \A b \in webhook'[v].created : alertStatus'[b] # "none" /\ handed'[b] = 0
        BY <1>0, <2>0, <3>2, <4>1 DEF StagesCounted, AlertTypeOK, Webhook
      <4>3. \A v \in Webhooks : \A b \in Asked(v)' : handed'[b] = 1 /\ notified'[b] = 0
        <5>1. \A v \in Webhooks : \A b \in Asked(v)' : b = a \/ b \in Asked(v)
          BY <3>3
        <5>2. \A v \in Webhooks : Asked(v) \subseteq Alerts
          BY <1>0 DEF AlertTypeOK, Webhook, Asked
        <5> QED BY <1>0, <2>0, <3>1, <3>2, <5>1, <5>2 DEF StagesCounted, AlertTypeOK
      <4> QED BY <1>0, <2>0, <3>1, <3>2, <3>3, <4>2, <4>3 DEF StagesCounted, AlertTypeOK
    <3>7. AskedOnce'
      BY <1>0, <2>0, <3>1, <3>2 DEF AskedOnce, AlertTypeOK
    <3> QED BY <1>0, <3>5, <3>6, <3>7
  <2> QED BY <1>5, <2>1, <2>2 DEF ExplainNext
<1>6. ASSUME NEW w \in Webhooks, ExplainAlert(w) PROVE AlertInv'
  <2>0. UNCHANGED <<alertStatus, handed, notified>> /\ explained \subseteq explained'
    BY <1>6 DEF ExplainAlert
  <2>1. /\ \A v \in Webhooks : Asked(v)' \subseteq Asked(v) /\ webhook'[v].created = webhook[v].created
        /\ \A v \in Webhooks \ {w} : webhook'[v] = webhook[v]
    BY <1>0, <1>6 DEF ExplainAlert, AlertTypeOK, Webhook, Asked
  <2>2. webhook'[w].pc = "made" => webhook'[w].current \subseteq explained'
    <3>1. CASE webhook' = [webhook EXCEPT ![w].pc = "made"] /\ explained' = explained \cup webhook[w].current
      BY <1>0, <3>1 DEF AlertTypeOK, Webhook
    <3>2. CASE webhook' = [webhook EXCEPT ![w].pc = "explain", ![w].current = {}]
      BY <1>0, <3>2 DEF AlertTypeOK, Webhook
    <3> QED BY <1>6, <3>1, <3>2 DEF ExplainAlert
  <2>3. HeldOnce'
    BY <2>1 DEF HeldOnce
  <2>4. StagesCounted'
    BY <2>0, <2>1, <2>2 DEF StagesCounted
  <2>5. AskedOnce'
    BY <2>0 DEF AskedOnce
  <2> QED BY <1>0, <2>3, <2>4, <2>5
<1>7. ASSUME NEW w \in Webhooks, NotifyExplained(w) PROVE AlertInv'
  BY <1>0, <1>7 DEF NotifyExplained, AlertTypeOK, Webhook, HeldOnce, StagesCounted, AskedOnce, Asked
<1>8. CASE UNCHANGED alertVars
  BY <1>0, <1>8 DEF alertVars, HeldOnce, StagesCounted, AskedOnce, Asked
<1> QED BY <1>1, <1>2, <1>3, <1>4, <1>5, <1>6, <1>7, <1>8 DEF AlertNext

(* However many webhooks post an alert at once, and whichever of them fails  *)
(* to have it explained, it is given to the paid model once at most: the     *)
(* unique insert decides who has created it, and only that webhook asks.     *)
THEOREM AskedOnceSafe == AlertSpec => []AskedOnce
<1>1. AlertInv => AskedOnce
  BY DEF AlertInv
<1> QED BY <1>1, AlertInitial, AlertStep, PTL DEF AlertSpec
=============================================================================
