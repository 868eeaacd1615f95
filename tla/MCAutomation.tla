---------------------------- MODULE MCAutomation ----------------------------
(* Instances of AutomationRunner for TLC. *)
EXTENDS AutomationRunner, TLC

CONSTANTS r1, r2, m1, s1

OneModel == [r \in Keys |-> m1]
OneSource == [m \in Models |-> s1]
Revisions == [r \in Keys |-> "revision"]
ManualAndRevision == [r \in Keys |-> IF r = r2 THEN "manual" ELSE "revision"]
GateOnly == [m \in Models |-> {"quality_gate"}]
TickSymmetry == Permutations(Ticks)
AllSteps == [m \in Models |-> AutomationSteps]

\* The state after the first trigger: r1 is pending.
QueuedInit ==
    /\ RunnerInit
    /\ runs = [r \in Keys |-> IF r = r1 THEN [NoRun EXCEPT !.status = "pending"] ELSE NoRun]
    /\ ChildrenInit

QueuedSpec == QueuedInit /\ [][AutomationNext]_automationVars
QueuedFairSpec == QueuedSpec /\ AutomationFairness
=============================================================================
