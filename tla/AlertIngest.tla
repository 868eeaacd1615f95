---------------------------- MODULE AlertIngest ----------------------------
(***************************************************************************)
(* Alertmanager posts groups of alerts, again and again while they fire.   *)
(* Each webhook finds or creates the row of every alert in turn, answers,  *)
(* and then explains, one after another, the rows it created.  An alert is *)
(* a (fingerprint, startsAt) pair, which is unique in the table.           *)
(***************************************************************************)
EXTENDS Naturals

CONSTANTS
    Alerts,
    Webhooks,        \* the posts Alertmanager makes
    MaxLlmFailures   \* bound on explanations that fail

ASSUME AlertAssumption == MaxLlmFailures \in Nat

VARIABLES
    alertStatus,    \* alert_events: the status of each row, or that there is none
    webhook,
    explained,      \* alert_explanations
    handed,         \* how often each alert was given to the explainer
    notified,       \* how often its explanation was announced
    llmFailures

alertVars == <<alertStatus, webhook, explained, handed, notified, llmFailures>>

AlertStatuses == {"firing", "resolved"}
\* firing: those the post says are; found what findUnique said of the current alert.
Webhook == [pc: {"idle", "ingest", "found", "explain", "asked", "made", "over"},
            todo: SUBSET Alerts, firing: SUBSET Alerts, current: SUBSET Alerts,
            found: AlertStatuses \cup {"none"}, created: SUBSET Alerts]
IdleWebhook == [pc |-> "idle", todo |-> {}, firing |-> {}, current |-> {}, found |-> "none", created |-> {}]

AlertInit ==
    /\ alertStatus = [a \in Alerts |-> "none"]
    /\ webhook = [w \in Webhooks |-> IdleWebhook]
    /\ explained = {}
    /\ handed = [a \in Alerts |-> 0] /\ notified = [a \in Alerts |-> 0]
    /\ llmFailures = 0

\* The payload is one group; its resolved alerts are posted with the rest.
Post(w) ==
    /\ webhook[w].pc = "idle"
    /\ \E group \in SUBSET Alerts \ {{}} : \E firing \in SUBSET group :
          webhook' = [webhook EXCEPT ![w] = [@ EXCEPT !.pc = "ingest", !.todo = group, !.firing = firing]]
    /\ UNCHANGED <<alertStatus, explained, handed, notified, llmFailures>>

Posted(w, a) == IF a \in webhook[w].firing THEN "firing" ELSE "resolved"

IngestFind(w) ==
    /\ webhook[w].pc = "ingest"
    /\ \/ /\ webhook[w].todo = {}
          /\ webhook' = [webhook EXCEPT ![w].pc = "explain"]
       \/ \E a \in webhook[w].todo :
             webhook' = [webhook EXCEPT ![w].pc = "found", ![w].todo = @ \ {a}, ![w].current = {a},
                                        ![w].found = alertStatus[a]]
    /\ UNCHANGED <<alertStatus, explained, handed, notified, llmFailures>>

\* The row was there: its status follows the post.
IngestMatch(w) ==
    /\ webhook[w].pc = "found" /\ webhook[w].found # "none"
    /\ alertStatus' = [a \in Alerts |-> IF a \in webhook[w].current /\ webhook[w].found # Posted(w, a)
                                        THEN Posted(w, a) ELSE alertStatus[a]]
    /\ webhook' = [webhook EXCEPT ![w].pc = "ingest", ![w].current = {}]
    /\ UNCHANGED <<explained, handed, notified, llmFailures>>

\* Mutant: created whether or not another webhook has created it since.
IngestCreateUpserts(w) ==
    /\ webhook[w].pc = "found" /\ webhook[w].found = "none"
    /\ alertStatus' = [a \in Alerts |-> IF a \in webhook[w].current THEN Posted(w, a) ELSE alertStatus[a]]
    /\ webhook' = [webhook EXCEPT ![w].pc = "ingest", ![w].current = {}, ![w].created = @ \cup webhook[w].current]
    /\ UNCHANGED <<explained, handed, notified, llmFailures>>

\* The unique key refuses a second row: ingest throws, the webhook fails and
\* what it had created is not explained.
IngestCreate(w) ==
    /\ webhook[w].pc = "found" /\ webhook[w].found = "none"
    /\ IF \E a \in webhook[w].current : alertStatus[a] # "none"
       THEN /\ webhook' = [webhook EXCEPT ![w] = [IdleWebhook EXCEPT !.pc = "over"]]
            /\ UNCHANGED alertStatus
       ELSE /\ alertStatus' = [a \in Alerts |-> IF a \in webhook[w].current THEN Posted(w, a) ELSE alertStatus[a]]
            /\ webhook' = [webhook EXCEPT ![w].pc = "ingest", ![w].current = {},
                                          ![w].created = @ \cup webhook[w].current]
    /\ UNCHANGED <<explained, handed, notified, llmFailures>>

\* processExplanationsSequentially.
ExplainNext(w) ==
    /\ webhook[w].pc = "explain"
    /\ \/ /\ webhook[w].created = {}
          /\ webhook' = [webhook EXCEPT ![w] = [IdleWebhook EXCEPT !.pc = "over"]]
          /\ UNCHANGED handed
       \/ \E a \in webhook[w].created :
             /\ webhook' = [webhook EXCEPT ![w].pc = "asked", ![w].current = {a}, ![w].created = @ \ {a}]
             /\ handed' = [handed EXCEPT ![a] = IF @ < 2 THEN @ + 1 ELSE @]
    /\ UNCHANGED <<alertStatus, explained, notified, llmFailures>>

\* chatCompletion and the insert of its answer; a failure, or a second
\* explanation of the alert, leaves it at that.
ExplainAlert(w) ==
    /\ webhook[w].pc = "asked"
    /\ \/ /\ webhook[w].current \cap explained = {}
          /\ explained' = explained \cup webhook[w].current
          /\ webhook' = [webhook EXCEPT ![w].pc = "made"]
          /\ UNCHANGED llmFailures
       \/ /\ \/ webhook[w].current \subseteq explained /\ UNCHANGED llmFailures
             \/ llmFailures < MaxLlmFailures /\ llmFailures' = llmFailures + 1
          /\ webhook' = [webhook EXCEPT ![w].pc = "explain", ![w].current = {}]
          /\ UNCHANGED explained
    /\ UNCHANGED <<alertStatus, handed, notified>>

\* emitNotification: one delivery for each subscriber of the connection.
NotifyExplained(w) ==
    /\ webhook[w].pc = "made"
    /\ notified' = [a \in Alerts |-> IF a \in webhook[w].current /\ notified[a] < 2 THEN notified[a] + 1 ELSE notified[a]]
    /\ webhook' = [webhook EXCEPT ![w].pc = "explain", ![w].current = {}]
    /\ UNCHANGED <<alertStatus, explained, handed, llmFailures>>

AlertNext ==
    \E w \in Webhooks :
        \/ Post(w) \/ IngestFind(w) \/ IngestMatch(w) \/ IngestCreate(w)
        \/ ExplainNext(w) \/ ExplainAlert(w) \/ NotifyExplained(w)

AlertSpec == AlertInit /\ [][AlertNext]_alertVars

-----------------------------------------------------------------------------
(* Types of all variables. *)
AlertTypeOK ==
    /\ alertStatus \in [Alerts -> AlertStatuses \cup {"none"}]
    /\ webhook \in [Webhooks -> Webhook]
    /\ explained \subseteq Alerts
    /\ handed \in [Alerts -> 0..2] /\ notified \in [Alerts -> 0..2]
    /\ llmFailures \in 0..MaxLlmFailures

(* However many webhooks post an alert at once, it is given to the paid     *)
(* model once at most, and is announced only if an explanation was stored.  *)
AskedOnce ==
    \A a \in Alerts : handed[a] <= 1 /\ notified[a] <= handed[a] /\ (notified[a] = 1 => a \in explained)
=============================================================================
