----------------------------- MODULE ChildLife -----------------------------
(***************************************************************************)
(* What the automation pipeline relies on of an evaluation run it created: *)
(* it is under way, then it has one outcome, and the outcome stays until   *)
(* the row is deleted.  The pipeline polls, so an outcome that changed     *)
(* after it was read would make a verdict that no row supports.            *)
(***************************************************************************)
CONSTANT Ids
VARIABLE life

Outcomes == {"ok", "gateFailed", "bad"}

LifeInit == life = [i \in Ids |-> "none"]

Become(i, from, to) == life[i] \in from /\ \E s \in to : life' = [life EXCEPT ![i] = s]

\* A sweep ends several runs at once.
EndSeveral ==
    \E gone \in SUBSET {i \in Ids : life[i] = "active"} :
        life' = [i \in Ids |-> IF i \in gone THEN "bad" ELSE life[i]]

LifeNext ==
    \/ \E i \in Ids : \/ Become(i, {"none"}, {"active"})
                      \/ Become(i, {"active"}, Outcomes)
                      \/ Become(i, {"active"} \cup Outcomes, {"gone"})
    \/ EndSeveral

LifeSpec == LifeInit /\ [][LifeNext]_life
=============================================================================
