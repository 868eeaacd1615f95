---------------------------- MODULE VerdictLedger ----------------------------
(***************************************************************************)
(* What the benchmark service promises the user who waits for a run, with  *)
(* no tasks, rows or pods in sight: a run is opened, and closed; closing   *)
(* it may make one announcer owe the user a notice; a notice that is owed  *)
(* is given, or lost when the process dies.                                *)
(***************************************************************************)
EXTENDS Naturals, FiniteSets

CONSTANTS Runs, Announcers

VARIABLES
    open,      \* is the run in progress?
    opened,    \* how often it was opened
    due,       \* who owes a notice about it
    announced  \* how many notices were given

ledger == <<open, opened, due, announced>>

LedgerTypeOK ==
    /\ open \in [Runs -> BOOLEAN]
    /\ opened \in [Runs -> Nat]
    /\ due \in [Runs -> SUBSET Announcers]
    /\ announced \in [Runs -> Nat]

Init ==
    /\ open = [r \in Runs |-> FALSE]
    /\ opened = [r \in Runs |-> 0]
    /\ due = [r \in Runs |-> {}]
    /\ announced = [r \in Runs |-> 0]

Open(r) ==
    /\ ~open[r]
    /\ open' = [open EXCEPT ![r] = TRUE]
    /\ opened' = [opened EXCEPT ![r] = @ + 1]
    /\ UNCHANGED <<due, announced>>

\* Closed by a user or by someone who owes no notice.
CloseSilently(r) ==
    /\ open[r]
    /\ open' = [open EXCEPT ![r] = FALSE]
    /\ UNCHANGED <<opened, due, announced>>

Close(r, a) ==
    /\ open[r] /\ a \notin due[r]
    /\ open' = [open EXCEPT ![r] = FALSE]
    /\ due' = [due EXCEPT ![r] = @ \cup {a}]
    /\ UNCHANGED <<opened, announced>>

Announce(r, a) ==
    /\ a \in due[r]
    /\ due' = [due EXCEPT ![r] = @ \ {a}]
    /\ announced' = [announced EXCEPT ![r] = @ + 1]
    /\ UNCHANGED <<open, opened>>

\* Some of what is owed is forgotten.
Lose ==
    /\ \E left \in [Runs -> SUBSET Announcers] :
          /\ \A r \in Runs : left[r] \subseteq due[r]
          /\ due' = left
    /\ UNCHANGED <<open, opened, announced>>

Next ==
    \/ \E r \in Runs : Open(r) \/ CloseSilently(r)
    \/ \E r \in Runs, a \in Announcers : Close(r, a) \/ Announce(r, a)
    \/ Lose

Spec == Init /\ [][Next]_ledger

(* A user is told of a run at most as often as it was opened, and never of a *)
(* run that is still open for the first time.                                *)
NoticesBounded ==
    \A r \in Runs :
        announced[r] + Cardinality(due[r]) + (IF open[r] THEN 1 ELSE 0) <= opened[r]
=============================================================================
