------------------------- MODULE NotificationOutbox -------------------------
(***************************************************************************)
(* The outbox of notifications.  NotifyService inserts one delivery per    *)
(* matching subscription; the dispatcher's cron fires every ten seconds    *)
(* without waiting for the tick before it, so ticks overlap, and each works *)
(* through the rows it read.  Deleting a channel deletes its deliveries.   *)
(***************************************************************************)
EXTENDS Naturals, FiniteSets

CONSTANTS
    Channels,
    Events,           \* each announced, or used as the test of a channel
    Ticks,            \* dispatcher passes that run at a time
    MaxAttempts,      \* MAX_ATTEMPTS
    BatchSize,        \* BATCH_SIZE
    Undecryptable,    \* channels whose address the key in use does not decrypt
    MaxOutboxFaults   \* bound on crashes and failed writes

ASSUME OutboxAssumption ==
    /\ MaxAttempts \in Nat \ {0} /\ BatchSize \in Nat \ {0} /\ MaxOutboxFaults \in Nat

Deliveries == Events \X Channels

VARIABLES
    channels,      \* the channels there are
    delivery,      \* notification_deliveries
    emitter,       \* emit or testChannel, for each event
    tick,
    accepted,      \* deliveries the receiver took
    tries,         \* dispatches of each delivery, counted up to MaxAttempts
    outboxFaults

outboxVars == <<channels, delivery, emitter, tick, accepted, tries, outboxFaults>>

\* wait: whether nextRetryAt is null, ahead or passed.
Delivery == [status: {"none", "pending", "sent", "failed", "deleted"}, attempts: 0..MaxAttempts + 1,
             wait: {"no", "waiting", "due"}]
NoDelivery == [status |-> "none", attempts |-> 0, wait |-> "no"]
HasRow(d) == delivery[d].status \in {"pending", "sent", "failed"}

\* What a tick read of a row.
Snapshot == [id: Deliveries, attempts: 0..MaxAttempts + 1]
Emitter == [pc: {"idle", "matched", "testing", "inserted", "over"}, matched: SUBSET Channels]
Tick == [pc: {"idle", "next", "sending", "accepted", "refused"}, todo: SUBSET Snapshot, row: SUBSET Snapshot]
IdleTick == [pc |-> "idle", todo |-> {}, row |-> {}]

OutboxInit ==
    /\ channels = Channels
    /\ delivery = [d \in Deliveries |-> NoDelivery]
    /\ emitter = [e \in Events |-> [pc |-> "idle", matched |-> {}]]
    /\ tick = [k \in Ticks |-> IdleTick]
    /\ accepted = {}
    /\ tries = [d \in Deliveries |-> 0]
    /\ outboxFaults = 0

Fault == outboxFaults < MaxOutboxFaults /\ outboxFaults' = outboxFaults + 1

-----------------------------------------------------------------------------
(* Producers. *)

\* emit reads the subscriptions; testChannel reads its channel.
EmitMatch(e) ==
    /\ emitter[e].pc = "idle"
    /\ \/ \E m \in SUBSET channels : emitter' = [emitter EXCEPT ![e] = [pc |-> "matched", matched |-> m]]
       \/ \E c \in channels : emitter' = [emitter EXCEPT ![e] = [pc |-> "testing", matched |-> {c}]]
    /\ UNCHANGED <<channels, delivery, tick, accepted, tries, outboxFaults>>

\* createMany, which fails as a whole when one of the channels is gone.
EmitInsert(e) ==
    /\ emitter[e].pc \in {"matched", "testing"}
    /\ IF emitter[e].matched \subseteq channels
       THEN /\ delivery' = [d \in Deliveries |-> IF d[1] = e /\ d[2] \in emitter[e].matched
                                                  THEN [NoDelivery EXCEPT !.status = "pending"] ELSE delivery[d]]
            /\ emitter' = [emitter EXCEPT ![e] = [pc |-> IF @.pc = "testing" THEN "inserted" ELSE "over", matched |-> {}]]
       ELSE /\ emitter' = [emitter EXCEPT ![e] = [pc |-> "over", matched |-> {}]]
            /\ UNCHANGED delivery
    /\ UNCHANGED <<channels, tick, accepted, tries, outboxFaults>>

\* dispatchById: a pass of one row, which the cron may have taken, and even given
\* up, before: one more attempt is then counted.
TestFind(e, k) ==
    /\ emitter[e].pc = "inserted" /\ tick[k].pc = "idle"
    /\ emitter' = [emitter EXCEPT ![e].pc = "over"]
    /\ LET found == {d \in Deliveries : d[1] = e /\ HasRow(d)}
       IN tick' = [tick EXCEPT ![k] = IF found = {} THEN IdleTick
                                      ELSE [pc |-> "next", row |-> {},
                                            todo |-> {[id |-> d, attempts |-> delivery[d].attempts] : d \in found}]]
    /\ UNCHANGED <<channels, delivery, accepted, tries, outboxFaults>>

DeleteChannel(c) ==
    /\ c \in channels /\ channels' = channels \ {c}
    /\ delivery' = [d \in Deliveries |-> IF d[2] = c /\ HasRow(d)
                                          THEN [NoDelivery EXCEPT !.status = "deleted"] ELSE delivery[d]]
    /\ UNCHANGED <<emitter, tick, accepted, tries, outboxFaults>>

-----------------------------------------------------------------------------
(* A pass of the dispatcher. *)

\* Mutant: only what is pending is looked for.
DueFirstTime == {d \in Deliveries : delivery[d].status = "pending"}

Due == {d \in Deliveries :
          \/ delivery[d].status = "pending"
          \/ delivery[d].status = "failed" /\ delivery[d].attempts < MaxAttempts /\ delivery[d].wait = "due"}

\* At most BATCH_SIZE rows, in no order.
TickRead(k) ==
    /\ tick[k].pc = "idle" /\ Due # {}
    /\ \E batch \in SUBSET Due :
          /\ Cardinality(batch) = IF Cardinality(Due) > BatchSize THEN BatchSize ELSE Cardinality(Due)
          /\ tick' = [tick EXCEPT ![k] = [pc |-> "next", row |-> {},
                                          todo |-> {[id |-> d, attempts |-> delivery[d].attempts] : d \in batch}]]
    /\ UNCHANGED <<channels, delivery, emitter, accepted, tries, outboxFaults>>

\* resolveForDispatch is outside the try: the pass ends when it throws.  It also
\* ends without the channel: the row is gone then too, and the update throws.
TickResolve(k) ==
    /\ tick[k].pc = "next"
    /\ \/ tick[k].todo = {} /\ tick' = [tick EXCEPT ![k] = IdleTick] /\ UNCHANGED outboxFaults
       \/ \E row \in tick[k].todo :
             \/ /\ row.id[2] \in channels \ Undecryptable
                /\ tick' = [tick EXCEPT ![k] = [pc |-> "sending", todo |-> tick[k].todo \ {row}, row |-> {row}]]
                /\ UNCHANGED outboxFaults
             \/ /\ row.id[2] \in channels \ Undecryptable => Fault
                /\ row.id[2] \notin channels \ Undecryptable => UNCHANGED outboxFaults
                /\ tick' = [tick EXCEPT ![k] = IdleTick]
    /\ UNCHANGED <<channels, delivery, emitter, accepted, tries>>

\* The one row in hand.
InHand(k) == CHOOSE row \in tick[k].row : TRUE

\* Mutant: the adapter does not look at the answer.
TickSendUnchecked(k) ==
    /\ tick[k].pc = "sending"
    /\ accepted' \in {accepted, accepted \cup {InHand(k).id}}
    /\ tick' = [tick EXCEPT ![k].pc = "accepted"]
    /\ tries' = [tries EXCEPT ![InHand(k).id] = IF @ < MaxAttempts THEN @ + 1 ELSE @]
    /\ UNCHANGED <<channels, delivery, emitter, outboxFaults>>

TickSend(k) ==
    /\ tick[k].pc = "sending"
    /\ \/ /\ accepted' = accepted \cup {InHand(k).id}
          /\ tick' = [tick EXCEPT ![k].pc = "accepted"]
       \/ /\ UNCHANGED accepted
          /\ tick' = [tick EXCEPT ![k].pc = "refused"]
    /\ tries' = [tries EXCEPT ![InHand(k).id] = IF @ < MaxAttempts THEN @ + 1 ELSE @]
    /\ UNCHANGED <<channels, delivery, emitter, outboxFaults>>

\* The write is inside the try: when it fails the delivery counts as failed.
TickMarkSent(k) ==
    /\ tick[k].pc = "accepted"
    /\ \/ /\ HasRow(InHand(k).id)
          /\ delivery' = [delivery EXCEPT ![InHand(k).id].status = "sent", ![InHand(k).id].wait = "no"]
          /\ tick' = [tick EXCEPT ![k].pc = "next", ![k].row = {}]
          /\ UNCHANGED outboxFaults
       \/ /\ HasRow(InHand(k).id) => Fault
          /\ ~HasRow(InHand(k).id) => UNCHANGED outboxFaults
          /\ tick' = [tick EXCEPT ![k].pc = "refused"]
          /\ UNCHANGED delivery
    /\ UNCHANGED <<channels, emitter, accepted, tries>>

\* Mutant: the waiting times are listed from the attempt that follows.
BackoffShifted(attempts) == attempts + 1 < MaxAttempts

\* BACKOFF_SECONDS has an entry for each attempt but the last.
Backoff(attempts) == attempts < MaxAttempts

Failed(row) == [status |-> "failed", attempts |-> row.attempts + 1,
                wait |-> IF Backoff(row.attempts + 1) THEN "waiting" ELSE "no"]

\* Counted from what the pass read.  A row that is gone, or a failed write,
\* ends the pass.
TickMarkFailed(k) ==
    /\ tick[k].pc = "refused"
    /\ \/ /\ HasRow(InHand(k).id)
          /\ delivery' = [delivery EXCEPT ![InHand(k).id] = Failed(InHand(k))]
          /\ tick' = [tick EXCEPT ![k].pc = "next", ![k].row = {}]
          /\ UNCHANGED outboxFaults
       \/ /\ HasRow(InHand(k).id) => Fault
          /\ ~HasRow(InHand(k).id) => UNCHANGED outboxFaults
          /\ tick' = [tick EXCEPT ![k] = IdleTick]
          /\ UNCHANGED delivery
    /\ UNCHANGED <<channels, emitter, accepted, tries>>

\* Time passes nextRetryAt.
RetryDue(d) ==
    /\ delivery[d].wait = "waiting"
    /\ delivery' = [delivery EXCEPT ![d].wait = "due"]
    /\ UNCHANGED <<channels, emitter, tick, accepted, tries, outboxFaults>>

OutboxCrash ==
    /\ Fault
    /\ tick' = [k \in Ticks |-> IdleTick]
    /\ emitter' = [e \in Events |-> IF emitter[e].pc = "idle" THEN emitter[e] ELSE [pc |-> "over", matched |-> {}]]
    /\ UNCHANGED <<channels, delivery, accepted, tries>>

TickStep(k) == TickResolve(k) \/ TickSend(k) \/ TickMarkSent(k) \/ TickMarkFailed(k)
OutboxNext ==
    \/ \E e \in Events : EmitMatch(e) \/ EmitInsert(e) \/ \E k \in Ticks : TestFind(e, k)
    \/ \E c \in Channels : DeleteChannel(c)
    \/ \E k \in Ticks : TickRead(k) \/ TickStep(k)
    \/ \E d \in Deliveries : RetryDue(d)
    \/ OutboxCrash

OutboxSpec == OutboxInit /\ [][OutboxNext]_outboxVars

-----------------------------------------------------------------------------
(* Types of all variables. *)
OutboxTypeOK ==
    /\ channels \subseteq Channels
    /\ delivery \in [Deliveries -> Delivery]
    /\ emitter \in [Events -> Emitter]
    /\ tick \in [Ticks -> Tick]
    /\ accepted \subseteq Deliveries
    /\ tries \in [Deliveries -> 0..MaxAttempts]
    /\ outboxFaults \in 0..MaxOutboxFaults

(* A delivery that is recorded as sent was taken by the receiver, whichever *)
(* of the overlapping passes wrote last.                                    *)
SentWasAccepted == \A d \in Deliveries : delivery[d].status = "sent" => d \in accepted

(* No delivery is given up before it was dispatched MAX_ATTEMPTS times,     *)
(* although passes that overlap count from what each of them read.          *)
GivenUpAfterAll ==
    \A d \in Deliveries : delivery[d].status = "failed" /\ delivery[d].wait = "no" => tries[d] >= MaxAttempts

(* Once no more is announced, every delivery is in the end sent, given up   *)
(* or deleted with its channel, and stays so: passes that overwrite each    *)
(* other do not retry for ever.                                             *)
DeliveryResolves == <>[](\A d \in Deliveries : delivery[d].status # "pending" /\ delivery[d].wait = "no")
=============================================================================
