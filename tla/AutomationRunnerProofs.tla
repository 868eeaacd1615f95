----------------------- MODULE AutomationRunnerProofs -----------------------
(***************************************************************************)
(* The pipeline of an automation run, for any number of runs, children and *)
(* overlapping ticks.  Every step is first reduced to what it may do to a  *)
(* row (RowMoves), to a child (ChildMoves) and to what a tick has in hand; *)
(* the invariants follow from these, not from the actions.                 *)
(***************************************************************************)
EXTENDS AutomationQueueProofs

\* A tick that holds a child no row knows of yet.
HoldingPcs == {"record", "cancelOwn"}

\* The steps of run r that come before s are done.
Before(r, s) == \A x \in EffectiveSteps(r) : Rank[x] < Rank[s] => StepDone(r, x)
AllDone(r) == \A x \in EffectiveSteps(r) : StepDone(r, x)
Over(r) == runs[r].status = "completed"

\* A row at work is at the first step that is not done, a verdict is that of a
\* completed row, and a key without a row has nothing.
RowChecked(r) ==
    /\ runs[r].status = "none" => runs[r] = NoRun
    /\ runs[r].status = "running" => Before(r, runs[r].step)
    /\ runs[r].verdict \in Verdicts => Over(r)
    /\ runs[r].verdict \in {"passed", "regressed"} => AllDone(r)

LeasedPcs == {"load", "cancelOwn", "unlock"} \cup AdvancePcs

\* What a tick has seen done is done, unless its run is over without it.
TickChecked(t) ==
    LET r == Work(t)
        s == tick[t].step
    IN /\ tick[t].pc \in LeasedPcs => runs[r].status # "none"
       /\ tick[t].pc = "load" => Over(r) \/ Before(r, runs[r].step)
       /\ tick[t].pc = "act" =>
             /\ Over(r) \/ Before(r, s)
             /\ tick[t].eval # NoChild => runs[r].eval = tick[t].eval
             /\ tick[t].bench # NoChild => runs[r].bench = tick[t].bench
       /\ tick[t].pc = "diagnosed" => s = "diagnostics" /\ (Over(r) \/ Before(r, s))
       /\ tick[t].pc = "next" => Over(r) \/ (Before(r, s) /\ StepDone(r, s))
       /\ tick[t].pc = "finish" /\ tick[t].verdict \in {"passed", "regressed"} => Over(r) \/ AllDone(r)

CheckedInv == (\A r \in Keys : RowChecked(r)) /\ (\A t \in Ticks : TickChecked(t))

\* A child in the hands of a tick is of its run.
HeldChild(t) ==
    tick[t].pc \in HoldingPcs =>
        child[tick[t].made].status # "none" /\ child[tick[t].made].of = Work(t)

ForgetInv ==
    /\ NoForgottenChild
    /\ \A t \in Ticks : HeldChild(t)
    /\ \A c \in Children : child[c].status # "none" => child[c].of \in Keys

\* Who is about to announce verdict v of run r.
Emitting(t, r, v) == tick[t].pc = "emit" /\ Work(t) = r /\ tick[t].verdict = v

Announced(r, v) ==
    /\ \A t, u \in Ticks : Emitting(t, r, v) /\ Emitting(u, r, v) => t = u
    /\ \A t \in Ticks : Emitting(t, r, v) => notes[r][v] = 0 /\ Over(r) /\ runs[r].verdict = v
    /\ notes[r][v] # 0 => notes[r][v] = 1 /\ Over(r) /\ runs[r].verdict = v

AnnouncedInv == \A r \in Keys, v \in Verdicts : Announced(r, v)

-----------------------------------------------------------------------------
(* What a step may do to a row. *)

\* What was recorded on a row stays.
RowGrows(r) ==
    /\ runs[r].status # "none" => runs'[r].status # "none"
    /\ runs[r].diagnosed \subseteq runs'[r].diagnosed
    /\ runs[r].eval # NoChild => runs'[r].eval = runs[r].eval
    /\ runs[r].bench # NoChild => runs'[r].bench = runs[r].bench

\* Its place in the queue stays, but something may be recorded.
Noted(r) ==
    /\ runs'[r].status = runs[r].status /\ runs'[r].step = runs[r].step /\ runs'[r].verdict = runs[r].verdict
    /\ runs[r].status = "none" => runs'[r] = runs[r]

Started(r) ==
    /\ runs[r].status \in {"pending", "cancelled"} /\ runs'[r].status = "running"
    /\ runs'[r].verdict = runs[r].verdict /\ IsNextStep(r, 0, runs'[r].step)

Advanced(r) ==
    /\ runs[r].status = "running" /\ runs'[r].status = "running" /\ runs'[r].verdict = runs[r].verdict
    /\ \E t \in Ticks : /\ tick[t].pc = "next" /\ Work(t) = r
                        /\ IsNextStep(r, Rank[tick[t].step], runs'[r].step)

Finished(r) ==
    /\ runs[r].status = "running" /\ runs'[r].status = "completed"
    /\ \E t \in Ticks : tick[t].pc = "finish" /\ Work(t) = r /\ runs'[r].verdict = tick[t].verdict

CancelledRow(r) ==
    /\ RunActive(r) /\ runs'[r].status = "cancelled"
    /\ runs'[r].verdict \in {"none", "superseded"} /\ runs'[r].step = runs[r].step

Created(r) ==
    /\ runs[r].status = "none" /\ runs'[r].status = "pending" /\ runs'[r].verdict = "none"

RowMoves(r) ==
    /\ RowGrows(r)
    /\ Noted(r) \/ Started(r) \/ Advanced(r) \/ Finished(r) \/ CancelledRow(r) \/ Created(r)

\* A step that writes nothing, or one row.
LEMMA NoneMoves == ASSUME UNCHANGED runs PROVE \A q \in Keys : RowMoves(q)
BY DEF RowMoves, RowGrows, Noted

\* So it is for all rows when the one that is written moves like this.
LEMMA OneMoves ==
    ASSUME Typed, NEW r \in Keys, NEW f, SetRun(r, f), RowMoves(r)
    PROVE  \A q \in Keys : RowMoves(q)
BY DEF Typed, AutomationRecordsTypeOK, SetRun, RowMoves, RowGrows, Noted

\* Fields of a row that is written.
LEMMA RowWritten ==
    ASSUME Typed, NEW r \in Keys, NEW f, SetRun(r, f)
    PROVE  runs'[r] = f /\ runs[r] \in AutomationRun
BY DEF Typed, AutomationRecordsTypeOK, SetRun

\* A lease is taken, runs out or is cleared.
LEMMA LeaseMoves ==
    ASSUME Typed, NEW r \in Keys, NEW l, SetRun(r, [runs[r] EXCEPT !.lease = l]), runs[r].status # "none"
    PROVE  \A q \in Keys : RowMoves(q)
<1>1. runs'[r] = [runs[r] EXCEPT !.lease = l] /\ runs[r] \in AutomationRun
  BY RowWritten
<1>2. RowMoves(r)
  BY <1>1 DEF RowMoves, RowGrows, Noted, AutomationRun
<1> QED BY <1>2, OneMoves

\* The ticks.
LEMMA TickRows ==
    ASSUME Typed, QueueInv, CheckedInv, NEW t \in Ticks, TickStep(t)
    PROVE  \A q \in Keys : RowMoves(q)
<1>0. TickOK(tick[t]) /\ TickChecked(t) /\ tick[t] \in Tick
  BY DEF Typed, TicksOK, CheckedInv, TickOK
<1>1. CASE UNCHANGED runs
  BY <1>1, NoneMoves
<1>2. CASE PromoteCommit(t)
  <2>1. PICK s \in Steps : /\ IsNextStep(Work(t), 0, s)
                           /\ SetRun(Work(t), [runs[Work(t)] EXCEPT !.status = "running", !.step = s])
    BY <1>2 DEF PromoteCommit
  <2>2. Work(t) \in Keys /\ runs[Work(t)].status \in {"pending", "cancelled"}
    BY <1>0, <1>2 DEF PromoteCommit, TickAt, TickOK, WorkPcs, Work, QueueInv, Picked
  <2>3. runs'[Work(t)] = [runs[Work(t)] EXCEPT !.status = "running", !.step = s] /\ runs[Work(t)] \in AutomationRun
    BY <2>1, <2>2, RowWritten
  <2>4. RowMoves(Work(t))
    BY <2>1, <2>2, <2>3 DEF RowMoves, RowGrows, Started, AutomationRun
  <2> QED BY <2>1, <2>2, <2>4, OneMoves
<1>3. CASE AcquireLease(t) /\ runs' # runs
  <2>1. PICK r \in tick[t].todo : runs[r].status = "running" /\ SetRun(r, [runs[r] EXCEPT !.lease = "held"])
    BY <1>3 DEF AcquireLease
  <2>2. r \in Keys
    BY <1>0 DEF Tick
  <2> QED BY <2>1, <2>2, LeaseMoves
<1>4. CASE ClearLease(t) /\ runs' # runs
  <2>1. runs[Work(t)].status = "running" /\ SetRun(Work(t), [runs[Work(t)] EXCEPT !.lease = "free"])
    BY <1>4 DEF ClearLease, SetRun
  <2>2. Work(t) \in Keys
    BY <1>0, <1>4 DEF ClearLease, TickAt, TickOK, WorkPcs, Work
  <2> QED BY <2>1, <2>2, LeaseMoves
<1>a. ASSUME Advance(t) PROVE Work(t) \in Keys /\ runs[Work(t)].status # "none"
  <2>1. tick[t].pc \in AdvancePcs \cup {"cancelOwn"}
    BY <1>a DEF Advance, NoStep, RunDiagnostics, RecordDiagnostics, CreateChild, RecordChild, CancelOwn,
       PollWait, PollOk, PollBad, Polling, Compare, NextStep, Finish, Emit, AdvanceError, StepIs, TickAt, AdvancePcs
  <2> QED BY <1>0, <2>1 DEF TickOK, TickChecked, WorkPcs, LeasedPcs, Work
<1>5. CASE RecordDiagnostics(t)
  <2>1. PICK d : SetRun(Work(t), [runs[Work(t)] EXCEPT !.diagnosed = @ \cup {d}])
    BY <1>5 DEF RecordDiagnostics
  <2>2. Work(t) \in Keys /\ runs[Work(t)].status # "none"
    BY <1>a, <1>5 DEF Advance
  <2>3. runs'[Work(t)] = [runs[Work(t)] EXCEPT !.diagnosed = @ \cup {d}] /\ runs[Work(t)] \in AutomationRun
    BY <2>1, <2>2, RowWritten
  <2>4. RowMoves(Work(t))
    BY <2>2, <2>3 DEF RowMoves, RowGrows, Noted, AutomationRun
  <2> QED BY <2>1, <2>2, <2>4, OneMoves
<1>6. CASE RecordChild(t) /\ runs' # runs
  <2>1. /\ runs[Work(t)].status = "running" /\ ~HasChild(Work(t), tick[t].step)
        /\ SetRun(Work(t), IF tick[t].step = "quality_gate"
                           THEN [runs[Work(t)] EXCEPT !.eval = tick[t].made]
                           ELSE [runs[Work(t)] EXCEPT !.bench = tick[t].made])
    BY <1>6 DEF RecordChild
  <2>2. Work(t) \in Keys
    BY <1>a, <1>6 DEF Advance
  <2>3. CASE tick[t].step = "quality_gate"
    <3>1. SetRun(Work(t), [runs[Work(t)] EXCEPT !.eval = tick[t].made])
      BY <2>1, <2>3
    <3>2. runs'[Work(t)] = [runs[Work(t)] EXCEPT !.eval = tick[t].made] /\ runs[Work(t)] \in AutomationRun
      BY <2>2, <3>1, RowWritten
    <3>3. RowMoves(Work(t))
      BY <2>1, <2>3, <3>2 DEF RowMoves, RowGrows, Noted, HasChild, AutomationRun
    <3> QED BY <2>2, <3>1, <3>3, OneMoves
  <2>4. CASE tick[t].step # "quality_gate"
    <3>1. SetRun(Work(t), [runs[Work(t)] EXCEPT !.bench = tick[t].made])
      BY <2>1, <2>4
    <3>2. runs'[Work(t)] = [runs[Work(t)] EXCEPT !.bench = tick[t].made] /\ runs[Work(t)] \in AutomationRun
      BY <2>2, <3>1, RowWritten
    <3>3. RowMoves(Work(t))
      BY <2>1, <2>4, <3>2 DEF RowMoves, RowGrows, Noted, HasChild, AutomationRun
    <3> QED BY <2>2, <3>1, <3>3, OneMoves
  <2> QED BY <2>3, <2>4
<1>7. CASE NextStep(t) /\ runs' # runs
  <2>1. PICK s \in Steps : /\ runs[Work(t)].status = "running" /\ IsNextStep(Work(t), Rank[tick[t].step], s)
                           /\ SetRun(Work(t), [runs[Work(t)] EXCEPT !.step = s])
    BY <1>7 DEF NextStep
  <2>2. Work(t) \in Keys /\ tick[t].pc = "next"
    BY <1>a, <1>7 DEF Advance, NextStep, TickAt
  <2>3. runs'[Work(t)] = [runs[Work(t)] EXCEPT !.step = s] /\ runs[Work(t)] \in AutomationRun
    BY <2>1, <2>2, RowWritten
  <2>4. RowMoves(Work(t))
    BY <2>1, <2>2, <2>3 DEF RowMoves, RowGrows, Advanced, AutomationRun
  <2> QED BY <2>1, <2>2, <2>4, OneMoves
<1>8. CASE Finish(t) /\ runs' # runs
  <2>1. /\ runs[Work(t)].status = "running"
        /\ SetRun(Work(t), [runs[Work(t)] EXCEPT !.status = "completed",
                    !.verdict = tick[t].verdict, !.step = "end", !.lease = "free"])
    BY <1>8 DEF Finish
  <2>2. Work(t) \in Keys /\ tick[t].pc = "finish"
    BY <1>a, <1>8 DEF Advance, Finish, TickAt
  <2>3. /\ runs'[Work(t)] = [runs[Work(t)] EXCEPT !.status = "completed",
                    !.verdict = tick[t].verdict, !.step = "end", !.lease = "free"]
        /\ runs[Work(t)] \in AutomationRun
    BY <2>1, <2>2, RowWritten
  <2>4. RowMoves(Work(t))
    BY <2>1, <2>2, <2>3 DEF RowMoves, RowGrows, Finished, AutomationRun
  <2> QED BY <2>1, <2>2, <2>4, OneMoves
<1>9. UNCHANGED runs \/ PromoteCommit(t) \/ AcquireLease(t) \/ ClearLease(t) \/ RecordDiagnostics(t)
         \/ RecordChild(t) \/ NextStep(t) \/ Finish(t)
  BY DEF TickStep, Promotion, TickBegin, PromoteLock, PromotePick, Iteration, TickScan, TickEnd, AdvanceLoad,
     Advance, NoStep, RunDiagnostics, CreateChild, CancelOwn, PollWait, PollOk, PollBad, Compare, Emit,
     AdvanceError, automationRecords
<1> QED BY <1>1, <1>2, <1>3, <1>4, <1>5, <1>6, <1>7, <1>8, <1>9

\* Every step.
LEMMA RowsMove ==
    ASSUME Typed, QueueInv, CheckedInv, [AutomationNext]_automationVars
    PROVE  \A q \in Keys : RowMoves(q)
<1>0. \A c \in Callers : CallerOK(caller[c])
  BY DEF Typed, CallersOK
<1>1. CASE UNCHANGED runs
  BY <1>1, NoneMoves
<1>2. ASSUME NEW t \in Ticks, TickStep(t) PROVE \A q \in Keys : RowMoves(q)
  BY <1>2, TickRows
<1>3. ASSUME NEW r \in Keys, LeaseExpires(r) PROVE \A q \in Keys : RowMoves(q)
  <2>1. runs[r].status # "none"
    BY <1>3 DEF LeaseExpires, CheckedInv, RowChecked, NoRun
  <2> QED BY <1>3, <2>1, LeaseMoves DEF LeaseExpires
<1>4. ASSUME NEW c \in Callers, CancelWrite(c), runs' # runs PROVE \A q \in Keys : RowMoves(q)
  <2>1. RunActive(caller[c].run) /\ Cancelled(c)
    BY <1>4 DEF CancelWrite
  <2>2. caller[c].run \in Keys /\ caller[c].why \in {"none", "superseded"}
    BY <1>0, <1>4 DEF CancelWrite, CallerAt, CallerOK, Caller
  <2>3. /\ runs'[caller[c].run] = [runs[caller[c].run] EXCEPT !.status = "cancelled",
                                     !.verdict = caller[c].why, !.lease = "free"]
        /\ runs[caller[c].run] \in AutomationRun
    BY <2>1, <2>2, RowWritten DEF Cancelled
  <2>4. RowMoves(caller[c].run)
    BY <2>1, <2>2, <2>3 DEF RowMoves, RowGrows, CancelledRow, AutomationRun
  <2> QED BY <2>1, <2>2, <2>4, OneMoves DEF Cancelled
<1>5. ASSUME NEW c \in Callers, EnqueueCreate(c), runs' # runs PROVE \A q \in Keys : RowMoves(q)
  <2> DEFINE r == caller[c].key
             f == [NoRun EXCEPT !.status = "pending", !.at = Born]
  <2>1. runs[r].status = "none" /\ SetRun(r, f)
    BY <1>5 DEF EnqueueCreate
  <2>2. r \in Keys
    BY <1>0, <1>5 DEF EnqueueCreate, CallerAt, CallerOK
  <2>3. runs'[r] = f /\ runs[r] = NoRun
    BY <2>1, <2>2, RowWritten DEF CheckedInv, RowChecked
  <2>4. RowMoves(r)
    BY <2>3 DEF RowMoves, RowGrows, Created, NoRun
  <2> QED BY <2>1, <2>2, <2>4, OneMoves
<1>6. ASSUME NEW c \in Callers, CallerBegins(c) \/ CallerStep(c)
      PROVE  UNCHANGED runs \/ CancelWrite(c) \/ EnqueueCreate(c)
  BY <1>6 DEF CallerBegins, CancelCall, EnqueueRevision, EnqueueOther, CallerStep, EnqueueFind, CancelRead,
     CancelChildren, CancelDone, automationRecords
<1>7. (\E t \in Ticks : TickThrows(t)) \/ (\E c \in Children : ChildEnds(c)) \/ Restart
         \/ UNCHANGED automationVars => UNCHANGED runs
  BY DEF TickThrows, ChildEnds, Restart, automationVars, automationRecords
<1> QED BY <1>1, <1>2, <1>3, <1>4, <1>5, <1>6, <1>7 DEF AutomationNext

-----------------------------------------------------------------------------
(* What a step may do to a child. *)

ChildGrows(c) ==
    /\ child[c].status # "none" => child'[c].status # "none" /\ child'[c].of = child[c].of
    /\ child[c].status = "ok" => child'[c].status = "ok"
    /\ child[c].asked => child'[c].asked
    /\ child[c].lost => child'[c].lost

\* It is created by a tick, and becomes active in no other way.
BornHeld(c) ==
    child[c].status = "none" /\ child'[c] # child[c] /\ child'[c].status # "none" =>
        \E t \in Ticks : /\ tick[t].pc = "act" /\ tick'[t].pc = "record" /\ tick'[t].made = c
                         /\ tick'[t].run = child'[c].of /\ child'[c].of \in Keys

ChildMoves(c) ==
    /\ ChildGrows(c) /\ BornHeld(c)
    /\ child'[c].status = "active" => child[c].status \in {"none", "active"}

\* Children that are asked to stop are known to have been asked.
LEMMA AskGrows ==
    ASSUME Typed, NEW cs, Ask(cs)
    PROVE  \A c \in Children : ChildMoves(c) /\ (c \in cs => child'[c].asked)
<1>1. PICK stopped \in SUBSET {c \in cs : child[c].status = "active"} :
        child' = [c \in Children |->
                    IF c \in cs
                    THEN [child[c] EXCEPT !.asked = TRUE,
                             !.status = IF c \in stopped THEN "bad" ELSE @]
                    ELSE child[c]]
  BY DEF Ask
<1>2. ASSUME NEW c \in Children PROVE ChildMoves(c) /\ (c \in cs => child'[c].asked)
  <2>1. child[c] \in Child
    BY DEF Typed, AutomationRecordsTypeOK
  <2>2. CASE c \in cs
    <3>1. child'[c] = [child[c] EXCEPT !.asked = TRUE, !.status = IF c \in stopped THEN "bad" ELSE @]
      BY <1>1, <2>2
    <3>2. /\ child'[c].asked = TRUE /\ child'[c].lost = child[c].lost /\ child'[c].of = child[c].of
          /\ child'[c].status = IF c \in stopped THEN "bad" ELSE child[c].status
      BY <2>1, <3>1 DEF Child
    <3>3. c \in stopped => child[c].status = "active"
      BY <1>1
    <3> QED BY <2>1, <3>2, <3>3 DEF ChildMoves, ChildGrows, BornHeld, Child, ChildStatus
  <2>3. CASE c \notin cs
    <3>1. child'[c] = child[c]
      BY <1>1, <2>3
    <3> QED BY <2>1, <2>3, <3>1 DEF ChildMoves, ChildGrows, BornHeld, Child, ChildStatus
  <2> QED BY <2>2, <2>3
<1> QED BY <1>2

\* Every step.
LEMMA ChildrenMove ==
    ASSUME Typed, [AutomationNext]_automationVars
    PROVE  \A c \in Children : ChildMoves(c)
<1>0. child \in [Children -> Child] /\ tick \in [Ticks -> Tick] /\ \A t \in Ticks : TickOK(tick[t])
  BY DEF Typed, AutomationRecordsTypeOK, TicksOK
<1>1. CASE UNCHANGED child
  BY <1>1 DEF ChildMoves, ChildGrows, BornHeld
<1>2. ASSUME NEW t \in Ticks, CreateChild(t) PROVE \A c \in Children : ChildMoves(c)
  <2>1. PICK m \in FreeChildren :
          /\ child' = [child EXCEPT ![m] = [child[m] EXCEPT !.status = "active",
                          !.of = Work(t), !.kind = KindOf(tick[t].step)]]
          /\ tick' = [tick EXCEPT ![t] = [Forget(t, "record") EXCEPT
                                              !.step = tick[t].step, !.made = m]]
    BY <1>2 DEF CreateChild
  <2>2. m \in Children /\ child[m].status = "none" /\ tick[t].pc = "act" /\ Work(t) \in Keys
    BY <1>0, <1>2, <2>1 DEF FreeChildren, CreateChild, TickAt, TickOK, WorkPcs, AdvancePcs, Work
  <2>3. /\ child'[m].status = "active" /\ child'[m].of = Work(t)
        /\ child'[m].asked = child[m].asked /\ child'[m].lost = child[m].lost
        /\ \A c \in Children \ {m} : child'[c] = child[c]
    BY <1>0, <2>1, <2>2 DEF Child
  <2>4. tick'[t].pc = "record" /\ tick'[t].made = m /\ tick'[t].run = Work(t)
    BY <1>0, <2>1 DEF Forget, IdleTick
  <2>5. ChildMoves(m)
    BY <2>2, <2>3, <2>4 DEF ChildMoves, ChildGrows, BornHeld
  <2> QED BY <2>3, <2>5 DEF ChildMoves, ChildGrows, BornHeld
<1>3. ASSUME NEW t \in Ticks, AdvanceError(t) PROVE \A c \in Children : ChildMoves(c)
  <2>1. ASSUME NEW c \in Children
        PROVE  /\ child'[c].status = child[c].status /\ child'[c].of = child[c].of
               /\ child'[c].asked = child[c].asked /\ (child[c].lost => child'[c].lost)
    <3>1. child'[c] = [child[c] EXCEPT !.lost = @ \/ (TickAt(t, "record") /\ tick[t].made = c)]
      BY <1>3 DEF AdvanceError
    <3>2. child[c] \in Child
      BY <1>0
    <3> QED BY <3>1, <3>2 DEF Child
  <2> QED BY <2>1 DEF ChildMoves, ChildGrows, BornHeld
<1>4. ASSUME NEW t \in Ticks, CancelOwn(t) PROVE \A c \in Children : ChildMoves(c)
  BY <1>4, AskGrows DEF CancelOwn
<1>5. ASSUME NEW d \in Callers, CancelChildren(d) PROVE \A c \in Children : ChildMoves(c)
  BY <1>5, AskGrows DEF CancelChildren
<1>6. ASSUME NEW d \in Children, ChildEnds(d) PROVE \A c \in Children : ChildMoves(c)
  <2>1. PICK s \in {"ok", "bad", "gateFailed"} : child' = [child EXCEPT ![d].status = s]
    BY <1>6 DEF ChildEnds
  <2>2. child[d].status = "active"
    BY <1>6 DEF ChildEnds
  <2>3. /\ child'[d].status = s /\ child'[d].of = child[d].of
        /\ child'[d].asked = child[d].asked /\ child'[d].lost = child[d].lost
        /\ \A c \in Children \ {d} : child'[c] = child[c]
    BY <1>0, <2>1 DEF Child
  <2> QED BY <2>2, <2>3 DEF ChildMoves, ChildGrows, BornHeld
<1>7. CASE Restart
  <2>1. ASSUME NEW c \in Children
        PROVE  /\ child'[c].status = (IF child[c].status = "active" /\ child[c].kind = "eval"
                                      THEN "bad" ELSE child[c].status)
               /\ child'[c].of = child[c].of
               /\ child'[c].asked = child[c].asked /\ (child[c].lost => child'[c].lost)
    <3> DEFINE died == \E t \in Ticks : tick[t].pc \in {"record", "cancelOwn"} /\ tick[t].made = c
    <3>1. child'[c] = [child[c] EXCEPT !.status = IF @ = "active" /\ child[c].kind = "eval" THEN "bad" ELSE @,
                                       !.lost = @ \/ died]
      BY <1>7 DEF Restart
    <3>2. child[c] \in Child
      BY <1>0
    <3> HIDE DEF died
    <3> QED BY <3>1, <3>2 DEF Child
  <2> QED BY <2>1 DEF ChildMoves, ChildGrows, BornHeld
<1>8. ASSUME NEW t \in Ticks, TickStep(t) \/ TickThrows(t)
      PROVE  UNCHANGED child \/ CreateChild(t) \/ AdvanceError(t) \/ CancelOwn(t)
  BY <1>8 DEF TickStep, TickThrows, Promotion, TickBegin, PromoteLock, PromotePick, PromoteCommit,
     Iteration, TickScan, AcquireLease, TickEnd, AdvanceLoad, ClearLease,
     Advance, NoStep, RunDiagnostics, RecordDiagnostics, RecordChild, PollWait, PollOk, PollBad,
     Compare, NextStep, Finish, Emit, automationRecords
<1>9. ASSUME NEW d \in Callers, CallerBegins(d) \/ CallerStep(d)
      PROVE  UNCHANGED child \/ CancelChildren(d)
  BY <1>9 DEF CallerBegins, CancelCall, EnqueueRevision, EnqueueOther, CallerStep, EnqueueFind, CancelRead,
     CancelWrite, CancelDone, EnqueueCreate, automationRecords
<1>10. (\E r \in Keys : LeaseExpires(r)) \/ UNCHANGED automationVars => UNCHANGED child
  BY DEF LeaseExpires, automationVars, automationRecords
<1> QED BY <1>1, <1>2, <1>3, <1>4, <1>5, <1>6, <1>7, <1>8, <1>9, <1>10 DEF AutomationNext

-----------------------------------------------------------------------------
(* A run passes only after all of its steps. *)

\* What is done stays done.
LEMMA DoneStays ==
    ASSUME Typed, NEW r \in Keys, RowGrows(r), \A c \in Children : ChildMoves(c)
    PROVE  /\ \A x : StepDone(r, x) => StepDone(r, x)'
           /\ \A s : Before(r, s) => Before(r, s)'
           /\ AllDone(r) => AllDone(r)'
<1>0. runs[r].eval \in Children \cup {NoChild} /\ runs[r].bench \in Children \cup {NoChild}
  BY DEF Typed, AutomationRecordsTypeOK, AutomationRun
<1>1. ASSUME NEW x, StepDone(r, x) PROVE StepDone(r, x)'
  <2>1. CASE x = "diagnostics"
    BY <1>1, <2>1 DEF StepDone, RowGrows
  <2>2. CASE x = "quality_gate"
    <3>1. runs[r].eval # NoChild /\ child[runs[r].eval].status = "ok"
      BY <1>1, <2>2 DEF StepDone
    <3>2. runs'[r].eval = runs[r].eval /\ child'[runs[r].eval].status = "ok"
      BY <1>0, <3>1 DEF RowGrows, ChildMoves, ChildGrows
    <3> QED BY <2>2, <3>1, <3>2 DEF StepDone
  <2>3. CASE x = "benchmark"
    <3>1. runs[r].bench # NoChild /\ child[runs[r].bench].status = "ok"
      BY <1>1, <2>3 DEF StepDone
    <3>2. runs'[r].bench = runs[r].bench /\ child'[runs[r].bench].status = "ok"
      BY <1>0, <3>1 DEF RowGrows, ChildMoves, ChildGrows
    <3> QED BY <2>3, <3>1, <3>2 DEF StepDone
  <2>4. CASE x \notin {"diagnostics", "quality_gate", "benchmark"}
    BY <2>4 DEF StepDone
  <2> QED BY <2>1, <2>2, <2>3, <2>4
<1>2. \A s : Before(r, s) => Before(r, s)'
  BY <1>1 DEF Before
<1>3. AllDone(r) => AllDone(r)'
  BY <1>1 DEF AllDone
<1> QED BY <1>1, <1>2, <1>3

\* The ranks of the steps.
LEMMA Ranks ==
    /\ Rank["diagnostics"] = 1 /\ Rank["quality_gate"] = 2 /\ Rank["benchmark"] = 3
    /\ Rank["compare"] = 4 /\ Rank["end"] = 5
    /\ \A r \in Keys : EffectiveSteps(r) \subseteq Steps \ {"end"}
<1>1. /\ Rank["diagnostics"] = 1 /\ Rank["quality_gate"] = 2 /\ Rank["benchmark"] = 3
      /\ Rank["compare"] = 4 /\ Rank["end"] = 5
  BY DEF Rank, Steps, AutomationSteps
<1>2. ASSUME NEW r \in Keys PROVE EffectiveSteps(r) \subseteq Steps \ {"end"}
  <2>1. StepsOf[ModelOf[r]] \subseteq AutomationSteps
    BY RecordsAssumption
  <2> QED BY <2>1 DEF EffectiveSteps, Steps, AutomationSteps
<1> QED BY <1>1, <1>2

\* The step chosen next is the first that is left.
LEMMA NextIsFirst ==
    ASSUME NEW r \in Keys, NEW s
    PROVE  /\ IsNextStep(r, 0, s) => Before(r, s)
           /\ \A k \in Steps : IsNextStep(r, Rank[k], s) /\ Before(r, k) /\ StepDone(r, k) => Before(r, s)
           /\ Before(r, "end") => AllDone(r)
           /\ Before(r, "compare") => AllDone(r)
<1>1. /\ Rank["diagnostics"] = 1 /\ Rank["quality_gate"] = 2 /\ Rank["benchmark"] = 3
      /\ Rank["compare"] = 4 /\ Rank["end"] = 5 /\ EffectiveSteps(r) \subseteq Steps \ {"end"}
  BY Ranks
<1>2. \A x \in Steps : x \in {"diagnostics", "quality_gate", "benchmark", "compare", "end"}
  BY DEF Steps, AutomationSteps
<1>3. StepDone(r, "compare")
  BY DEF StepDone
<1>4. \A x \in Steps : Rank[x] \in 1..5
  BY <1>1, <1>2
<1>5. \A x, k \in Steps : Rank[x] = Rank[k] => x = k
  BY <1>1, <1>2
<1>6. IsNextStep(r, 0, s) => Before(r, s)
  <2> SUFFICES ASSUME IsNextStep(r, 0, s), NEW x \in EffectiveSteps(r), Rank[x] < Rank[s] PROVE FALSE
    BY DEF Before
  <2>1. s \in Steps /\ x \in Steps
    BY <1>1 DEF IsNextStep, Steps
  <2>2. Rank[x] > 0 => Rank[s] <= Rank[x]
    BY DEF IsNextStep
  <2> QED BY <1>4, <2>1, <2>2
<1>7. ASSUME NEW k \in Steps, IsNextStep(r, Rank[k], s), Before(r, k), StepDone(r, k) PROVE Before(r, s)
  <2> SUFFICES ASSUME NEW x \in EffectiveSteps(r), Rank[x] < Rank[s] PROVE StepDone(r, x)
    BY DEF Before
  <2>1. s \in Steps /\ x \in Steps
    BY <1>1, <1>7 DEF IsNextStep, Steps
  <2>2. Rank[x] > Rank[k] => Rank[s] <= Rank[x]
    BY <1>7 DEF IsNextStep
  <2>3. Rank[x] < Rank[k] \/ Rank[x] = Rank[k]
    BY <1>4, <2>1, <2>2
  <2>4. CASE Rank[x] < Rank[k]
    BY <1>7, <2>4 DEF Before
  <2>5. CASE Rank[x] = Rank[k]
    BY <1>5, <1>7, <2>1, <2>5
  <2> QED BY <2>3, <2>4, <2>5
<1>8. Before(r, "end") => AllDone(r)
  BY <1>1, <1>2 DEF Before, AllDone
<1>9. Before(r, "compare") => AllDone(r)
  BY <1>1, <1>2, <1>3 DEF Before, AllDone
<1> QED BY <1>6, <1>7, <1>8, <1>9

\* The rows.
LEMMA RowsStayChecked ==
    ASSUME Typed, CheckedInv, \A q \in Keys : RowMoves(q), \A c \in Children : ChildMoves(c)
    PROVE  \A q \in Keys : RowChecked(q)'
<1> SUFFICES ASSUME NEW r \in Keys PROVE RowChecked(r)'
  OBVIOUS
<1>1. /\ \A s : Before(r, s) => Before(r, s)'
      /\ AllDone(r) => AllDone(r)'
  BY DoneStays DEF RowMoves
<1>2. RowChecked(r) /\ RowGrows(r)
  BY DEF CheckedInv, RowMoves
<1>3. CASE Noted(r)
  BY <1>1, <1>2, <1>3 DEF RowChecked, Noted, Over
<1>4. CASE Started(r)
  <2>1. Before(r, runs'[r].step)
    BY <1>4, NextIsFirst DEF Started
  <2>2. PICK k : k = runs'[r].step
    OBVIOUS
  <2>3. Before(r, k)'
    BY <1>1, <2>1, <2>2
  <2>4. Before(r, runs[r].step)'
    BY <2>2, <2>3 DEF Before
  <2>5. runs'[r].verdict \notin Verdicts
    BY <1>2, <1>4 DEF RowChecked, Started, Over
  <2> QED BY <1>4, <2>4, <2>5 DEF RowChecked, Started, Verdicts
<1>5. CASE Advanced(r)
  <2>1. PICK t \in Ticks : /\ tick[t].pc = "next" /\ Work(t) = r
                           /\ IsNextStep(r, Rank[tick[t].step], runs'[r].step)
    BY <1>5 DEF Advanced
  <2>2. tick[t].step \in Steps /\ Before(r, tick[t].step) /\ StepDone(r, tick[t].step)
    <3>1. TickChecked(t) /\ tick[t] \in Tick
      BY DEF CheckedInv, Typed, TicksOK
    <3> QED BY <1>5, <2>1, <3>1 DEF TickChecked, Tick, Advanced, Over
  <2>3. PICK k : k = runs'[r].step
    OBVIOUS
  <2>4. Before(r, k)
    BY <2>1, <2>2, <2>3, NextIsFirst
  <2>5. Before(r, k)'
    BY <1>1, <2>4
  <2>6. Before(r, runs[r].step)'
    BY <2>3, <2>5 DEF Before
  <2>7. runs'[r].verdict \notin Verdicts
    BY <1>2, <1>5 DEF RowChecked, Advanced, Over
  <2> QED BY <1>5, <2>6, <2>7 DEF RowChecked, Advanced, Verdicts
<1>6. CASE Finished(r)
  <2>1. PICK t \in Ticks : tick[t].pc = "finish" /\ Work(t) = r /\ runs'[r].verdict = tick[t].verdict
    BY <1>6 DEF Finished
  <2>2. tick[t].verdict \in {"passed", "regressed"} => AllDone(r)
    BY <1>6, <2>1 DEF CheckedInv, TickChecked, Finished, Over
  <2> QED BY <1>1, <1>2, <1>6, <2>1, <2>2 DEF RowChecked, Finished, Over
<1>7. CASE CancelledRow(r) \/ Created(r)
  BY <1>7 DEF RowChecked, CancelledRow, Created, Verdicts
<1> QED BY <1>2, <1>3, <1>4, <1>5, <1>6, <1>7 DEF CheckedInv, RowMoves

\* A tick that a step leaves alone.
LEMMA TickStaysChecked ==
    ASSUME Typed, CheckedInv, \A q \in Keys : RowMoves(q), \A c \in Children : ChildMoves(c),
           \A q \in Keys : Over(q) => Over(q)', NEW t \in Ticks, tick'[t] = tick[t]
    PROVE  TickChecked(t)'
<1>0. TickChecked(t) /\ TickOK(tick[t]) /\ Work(t)' = Work(t)
  BY DEF CheckedInv, Typed, TicksOK, Work
<1>1. CASE tick[t].pc \notin LeasedPcs
  BY <1>0, <1>1 DEF TickChecked, LeasedPcs, AdvancePcs
<1>2. CASE tick[t].pc \in LeasedPcs
  <2> DEFINE r == Work(t)
             s == tick[t].step
  <2>1. r \in Keys
    BY <1>0, <1>2 DEF TickOK, WorkPcs, LeasedPcs, Work
  <2>2. /\ RowMoves(r) /\ RowGrows(r) /\ RowChecked(r)' /\ (Over(r) => Over(r)') /\ runs[r].status # "none"
        /\ runs'[r].status # "none"
    BY <1>0, <1>2, <2>1, RowsStayChecked DEF RowMoves, RowGrows, TickChecked
  <2>3. PICK k, l, w : k = r /\ l = s /\ w = runs[k].step
    OBVIOUS
  <2>4. /\ \A x : StepDone(k, x) => StepDone(k, x)'
        /\ \A x : Before(k, x) => Before(k, x)'
        /\ AllDone(k) => AllDone(k)'
    BY <2>1, <2>2, <2>3, DoneStays
  <2>5. tick[t].pc = "load" => Over(k)' \/ Before(k, runs[k].step)'
    <3> SUFFICES ASSUME tick[t].pc = "load", ~Over(k)' PROVE Before(k, runs[k].step)'
      OBVIOUS
    <3>1. CASE runs'[k].status = "running"
      <4>1. RowChecked(k)'
        BY <2>1, <2>3, RowsStayChecked
      <4> QED BY <3>1, <4>1 DEF RowChecked
    <3>2. CASE runs'[k].status # "running"
      <4>1. runs'[k].step = w
        BY <2>2, <2>3, <3>2 DEF RowMoves, Noted, Started, Advanced, Finished, CancelledRow, Created, Over
      <4>2. Before(k, w)
        BY <1>0, <2>2, <2>3 DEF TickChecked
      <4>3. Before(k, w)'
        BY <2>4, <4>2
      <4> QED BY <4>1, <4>3 DEF Before
    <3> QED BY <3>1, <3>2
  <2>6. /\ Over(k) \/ Before(k, l) => Over(k)' \/ Before(k, l)'
        /\ Over(k) \/ (Before(k, l) /\ StepDone(k, l)) => Over(k)' \/ (Before(k, l)' /\ StepDone(k, l)')
        /\ Over(k) \/ AllDone(k) => Over(k)' \/ AllDone(k)'
    <3>1. Over(k) => Over(k)'
      BY <2>1, <2>3
    <3> QED BY <2>4, <3>1
  <2>7. tick[t].pc = "act" =>
            /\ tick[t].eval # NoChild => runs'[k].eval = tick[t].eval
            /\ tick[t].bench # NoChild => runs'[k].bench = tick[t].bench
    BY <1>0, <2>2, <2>3 DEF TickChecked, RowGrows
  <2>8. Work(t)' = k /\ tick'[t].step = l /\ runs'[k].status # "none"
    BY <1>0, <2>2, <2>3
  <2> HIDE DEF r, s
  <2>9. k = Work(t) /\ l = tick[t].step
    BY <2>3 DEF r, s
  <2>10. /\ tick[t].pc = "act" => Over(k) \/ Before(k, l)
         /\ tick[t].pc = "diagnosed" => l = "diagnostics" /\ (Over(k) \/ Before(k, l))
         /\ tick[t].pc = "next" => Over(k) \/ (Before(k, l) /\ StepDone(k, l))
         /\ tick[t].pc = "finish" /\ tick[t].verdict \in {"passed", "regressed"} => Over(k) \/ AllDone(k)
    BY <1>0, <2>9 DEF TickChecked
  <2> QED BY <2>5, <2>6, <2>7, <2>8, <2>10 DEF TickChecked
<1> QED BY <1>1, <1>2

\* The other ticks stand when one moves.
LEMMA OneTickMoves ==
    ASSUME Typed, NEW t \in Ticks, TickStep(t) \/ TickThrows(t)
    PROVE  \A u \in Ticks : u # t => tick'[u] = tick[u]
<1>1. \E v : tick' = [tick EXCEPT ![t] = v]
  BY DEF TickStep, TickThrows, Promotion, TickBegin, PromoteLock, PromotePick, PromoteCommit, PromoteOver,
     Iteration, TickScan, AcquireLease, TickEnd, AdvanceLoad, ClearLease, Advance, NoStep, RunDiagnostics,
     RecordDiagnostics, CreateChild, RecordChild, CancelOwn, PollWait, PollOk, PollBad, Compare, NextStep,
     Finish, Emit, AdvanceError, Leave, Conclude, StepEnds, TickGoto
<1> QED BY <1>1 DEF Typed, TicksOK

\* What a tick that moves takes along.
LEMMA TickFields ==
    ASSUME Typed, NEW t \in Ticks
    PROVE  /\ Leave(t) => tick'[t].pc = "unlock" /\ tick'[t].run = Work(t)
           /\ \A v : Conclude(t, v) => tick'[t].pc = "finish" /\ tick'[t].run = Work(t) /\ tick'[t].verdict = v
           /\ StepEnds(t) => tick'[t].pc = "next" /\ tick'[t].run = Work(t) /\ tick'[t].step = tick[t].step
           /\ \A pc : TickGoto(t, pc) =>
                 /\ tick'[t].pc = pc /\ tick'[t].run = Work(t) /\ tick'[t].made = tick[t].made
                 /\ tick'[t].verdict = tick[t].verdict
<1>1. tick \in [Ticks -> Tick] /\ tick[t] \in Tick
  BY DEF Typed, TicksOK
<1>2. Leave(t) => tick'[t].pc = "unlock" /\ tick'[t].run = Work(t)
  BY <1>1 DEF Leave, Forget, IdleTick
<1>3. ASSUME NEW v, Conclude(t, v)
      PROVE  tick'[t].pc = "finish" /\ tick'[t].run = Work(t) /\ tick'[t].verdict = v
  BY <1>1, <1>3 DEF Conclude, Forget, IdleTick
<1>4. StepEnds(t) => tick'[t].pc = "next" /\ tick'[t].run = Work(t) /\ tick'[t].step = tick[t].step
  BY <1>1 DEF StepEnds, Forget, IdleTick
<1>5. ASSUME NEW pc, TickGoto(t, pc)
      PROVE  /\ tick'[t].pc = pc /\ tick'[t].run = Work(t) /\ tick'[t].made = tick[t].made
             /\ tick'[t].verdict = tick[t].verdict
  BY <1>1, <1>5 DEF TickGoto, Work, Tick
<1> QED BY <1>2, <1>3, <1>4, <1>5

\* What is to be shown of a tick that moves, by where it arrives.
LEMMA Rechecked ==
    ASSUME NEW t \in Ticks, NEW k, NEW l,
           tick'[t].run = k, tick'[t].step = l,
           tick'[t].pc \in LeasedPcs => runs'[k].status # "none",
           tick'[t].pc = "load" => Before(k, runs[k].step)',
           tick'[t].pc = "act" =>
               /\ Over(k)' \/ Before(k, l)'
               /\ tick'[t].eval # NoChild => runs'[k].eval = tick'[t].eval
               /\ tick'[t].bench # NoChild => runs'[k].bench = tick'[t].bench,
           tick'[t].pc = "diagnosed" => l = "diagnostics" /\ (Over(k)' \/ Before(k, l)'),
           tick'[t].pc = "next" => Over(k)' \/ (Before(k, l)' /\ StepDone(k, l)'),
           tick'[t].pc = "finish" /\ tick'[t].verdict \in {"passed", "regressed"} => Over(k)' \/ AllDone(k)'
    PROVE  TickChecked(t)'
<1>1. Work(t)' = k
  BY DEF Work
<1> QED BY <1>1 DEF TickChecked

\* A tick that arrives outside the lease, or without a claim about its run.
LEMMA NothingSeen ==
    ASSUME NEW t \in Ticks,
           tick'[t].pc \in LeasedPcs => runs'[tick'[t].run].status # "none",
           tick'[t].pc \notin {"load", "act", "diagnosed", "next"},
           tick'[t].pc # "finish" \/ tick'[t].verdict \notin {"passed", "regressed"}
    PROVE  TickChecked(t)'
<1>1. PICK k, l : k = tick'[t].run /\ l = tick'[t].step
  OBVIOUS
<1> QED BY <1>1, Rechecked

\* What a tick at work knows of its row, before and after a step.
LEMMA WorkRow ==
    ASSUME Typed, CheckedInv, \A q \in Keys : RowMoves(q), \A c \in Children : ChildMoves(c),
           \A q \in Keys : Over(q) => Over(q)', NEW t \in Ticks, tick[t].pc \in LeasedPcs
    PROVE  /\ Work(t) \in Keys /\ runs[Work(t)].status # "none" /\ runs'[Work(t)].status # "none"
           /\ TickChecked(t) /\ RowGrows(Work(t)) /\ (Over(Work(t)) => runs'[Work(t)].status = "completed")
<1>1. TickChecked(t) /\ TickOK(tick[t])
  BY DEF CheckedInv, Typed, TicksOK
<1>2. Work(t) \in Keys
  BY <1>1 DEF TickOK, WorkPcs, LeasedPcs, Work
<1>3. runs[Work(t)].status # "none"
  BY <1>1 DEF TickChecked
<1>4. Over(Work(t)) => runs'[Work(t)].status = "completed"
  <2>1. PICK k : k = Work(t)
    OBVIOUS
  <2>2. Over(k) => Over(k)'
    BY <1>2, <2>1
  <2> QED BY <2>1, <2>2 DEF Over
<1> QED BY <1>1, <1>2, <1>3, <1>4 DEF RowMoves, RowGrows

\* A tick that ends what it does with its run, without a claim that it passed.
LEMMA LeavesChecked ==
    ASSUME Typed, CheckedInv, \A q \in Keys : RowMoves(q), \A c \in Children : ChildMoves(c),
           \A q \in Keys : Over(q) => Over(q)', NEW t \in Ticks, tick[t].pc \in LeasedPcs,
           \/ Leave(t) \/ Conclude(t, "error") \/ Conclude(t, "failed")
           \/ TickGoto(t, "cancelOwn") \/ TickGoto(t, "emit")
    PROVE  TickChecked(t)'
<1>1. runs'[Work(t)].status # "none"
  BY WorkRow
<1> QED BY <1>1, TickFields, NothingSeen

\* A tick that ends a step that is done.
LEMMA StepEndsChecked ==
    ASSUME Typed, CheckedInv, \A q \in Keys : RowMoves(q), \A c \in Children : ChildMoves(c),
           \A q \in Keys : Over(q) => Over(q)', NEW t \in Ticks, tick[t].pc \in LeasedPcs, StepEnds(t),
           NEW k, k = Work(t), NEW l, l = tick[t].step, Over(k) \/ (Before(k, l) /\ StepDone(k, l)')
    PROVE  TickChecked(t)'
<1>1. runs'[k].status # "none" /\ k \in Keys /\ RowGrows(k)
  BY WorkRow
<1>2. Over(k)' \/ (Before(k, l)' /\ StepDone(k, l)')
  BY <1>1, DoneStays
<1>3. tick'[t].pc = "next" /\ tick'[t].run = k /\ tick'[t].step = l
  BY TickFields
<1> QED BY <1>1, <1>2, <1>3, Rechecked

\* A tick that concludes that the run passed, or regressed.
LEMMA PassesChecked ==
    ASSUME Typed, CheckedInv, \A q \in Keys : RowMoves(q), \A c \in Children : ChildMoves(c),
           \A q \in Keys : Over(q) => Over(q)', NEW t \in Ticks, tick[t].pc \in LeasedPcs, NEW v, Conclude(t, v),
           NEW k, k = Work(t), Over(k) \/ AllDone(k)
    PROVE  TickChecked(t)'
<1>1. runs'[k].status # "none" /\ k \in Keys /\ RowGrows(k)
  BY WorkRow
<1>2. Over(k)' \/ AllDone(k)'
  BY <1>1, DoneStays
<1>3. PICK l : l = tick'[t].step
  OBVIOUS
<1>4. tick'[t].pc = "finish" /\ tick'[t].run = k
  BY TickFields
<1> QED BY <1>1, <1>2, <1>3, <1>4, Rechecked

\* The steps of advance.
LEMMA AdvanceChecked ==
    ASSUME Typed, CheckedInv, \A q \in Keys : RowMoves(q), \A c \in Children : ChildMoves(c),
           \A q \in Keys : Over(q) => Over(q)', NEW t \in Ticks, Advance(t)
    PROVE  TickChecked(t)'
<1>0. tick[t].pc \in LeasedPcs
  BY DEF Advance, NoStep, RunDiagnostics, RecordDiagnostics, CreateChild, RecordChild, CancelOwn,
     PollWait, PollOk, PollBad, Polling, Compare, NextStep, Finish, Emit, AdvanceError, StepIs, TickAt,
     AdvancePcs, LeasedPcs
<1>1. PICK k, l : k = Work(t) /\ l = tick[t].step
  OBVIOUS
<1>2. /\ k \in Keys /\ runs[k].status # "none" /\ runs'[k].status # "none" /\ RowGrows(k)
      /\ (Over(k) => Over(k)') /\ TickChecked(t) /\ tick \in [Ticks -> Tick] /\ tick[t] \in Tick
  BY <1>0, <1>1, WorkRow DEF Typed, TicksOK
<1>3. /\ \A x : StepDone(k, x) => StepDone(k, x)'
      /\ \A x : Before(k, x) => Before(k, x)'
  BY <1>2, DoneStays
<1>4. /\ tick[t].pc = "act" => Over(k) \/ Before(k, l)
      /\ tick[t].pc = "act" /\ tick[t].eval # NoChild => runs[k].eval = tick[t].eval
      /\ tick[t].pc = "act" /\ tick[t].bench # NoChild => runs[k].bench = tick[t].bench
      /\ tick[t].pc = "diagnosed" => l = "diagnostics" /\ (Over(k) \/ Before(k, l))
      /\ tick[t].pc = "next" => Over(k) \/ (Before(k, l) /\ StepDone(k, l))
  BY <1>1, <1>2 DEF TickChecked
<1>5. CASE PollWait(t) \/ CancelOwn(t) \/ Emit(t) \/ AdvanceError(t) \/ RecordChild(t) \/ Finish(t) \/ PollBad(t)
  <2>1. \/ Leave(t) \/ Conclude(t, "error") \/ Conclude(t, "failed")
        \/ TickGoto(t, "cancelOwn") \/ TickGoto(t, "emit")
    BY <1>5 DEF PollWait, CancelOwn, Emit, AdvanceError, RecordChild, Finish, PollBad
  <2> QED BY <1>0, <2>1, LeavesChecked
<1>6. CASE NoStep(t) \/ Compare(t)
  <2>1. tick[t].pc = "act" /\ l \in {"end", "compare"} /\ \E v : Conclude(t, v)
    BY <1>1, <1>6 DEF NoStep, Compare, StepIs, TickAt
  <2>2. Over(k) \/ AllDone(k)
    BY <1>2, <1>4, <2>1, NextIsFirst
  <2> QED BY <1>0, <1>1, <2>1, <2>2, PassesChecked
<1>7. CASE RunDiagnostics(t)
  <2>1. PICK v : tick' = [tick EXCEPT ![t] = [Forget(t, "diagnosed") EXCEPT
                                          !.step = "diagnostics", !.verdict = v]]
    BY <1>7 DEF RunDiagnostics
  <2>2. tick'[t].pc = "diagnosed" /\ tick'[t].run = k /\ tick'[t].step = l /\ l = "diagnostics" /\ tick[t].pc = "act"
    BY <1>1, <1>2, <1>7, <2>1 DEF RunDiagnostics, StepIs, TickAt, Forget, IdleTick
  <2>3. Over(k)' \/ Before(k, l)'
    BY <1>2, <1>3, <1>4, <2>2
  <2> QED BY <1>2, <2>2, <2>3, Rechecked
<1>8. CASE RecordDiagnostics(t)
  <2>1. tick[t].pc = "diagnosed" /\ (StepEnds(t) \/ Conclude(t, "failed"))
    BY <1>8 DEF RecordDiagnostics, TickAt
  <2>2. CASE StepEnds(t)
    <3>1. tick[t].verdict = "passed"
      <4>1. StepEnds(t) => tick'[t].pc = "next"
        BY TickFields
      <4>2. Conclude(t, "failed") => tick'[t].pc = "finish"
        BY TickFields
      <4>3. ~Conclude(t, "failed")
        BY <2>2, <4>1, <4>2
      <4> QED BY <1>8, <4>3 DEF RecordDiagnostics
    <3>2. SetRun(k, [runs[k] EXCEPT !.diagnosed = @ \cup {"ok"}])
      BY <1>1, <1>8, <3>1 DEF RecordDiagnostics
    <3>3. "ok" \in runs'[k].diagnosed
      <4>1. runs'[k] = [runs[k] EXCEPT !.diagnosed = @ \cup {"ok"}] /\ runs[k] \in AutomationRun
        BY <1>2, <3>2, RowWritten
      <4> QED BY <4>1 DEF AutomationRun
    <3>4. StepDone(k, l)'
      BY <1>4, <2>1, <3>3 DEF StepDone
    <3> QED BY <1>0, <1>1, <1>4, <2>1, <2>2, <3>4, StepEndsChecked
  <2> QED BY <1>0, <2>1, <2>2, LeavesChecked
<1>9. CASE PollOk(t)
  <2>1. /\ tick[t].pc = "act" /\ l \in {"quality_gate", "benchmark"} /\ ChildOf(t) # NoChild
        /\ child[ChildOf(t)].status = "ok" /\ StepEnds(t)
    BY <1>1, <1>9 DEF PollOk, Polling, Poll, TickAt
  <2>2. StepDone(k, l)
    <3>1. CASE l = "quality_gate"
      <4>1. runs[k].eval # NoChild /\ child[runs[k].eval].status = "ok"
        BY <1>1, <1>4, <2>1, <3>1 DEF ChildOf
      <4> QED BY <3>1, <4>1 DEF StepDone
    <3>2. CASE l = "benchmark"
      <4>1. runs[k].bench # NoChild /\ child[runs[k].bench].status = "ok"
        BY <1>1, <1>4, <2>1, <3>2 DEF ChildOf
      <4> QED BY <3>2, <4>1 DEF StepDone
    <3> QED BY <2>1, <3>1, <3>2
  <2>3. StepDone(k, l)' /\ (Over(k) \/ Before(k, l))
    BY <1>3, <1>4, <2>1, <2>2
  <2> QED BY <1>0, <1>1, <2>1, <2>3, StepEndsChecked
<1>10. CASE CreateChild(t)
  <2>1. \E m, x : tick' = [tick EXCEPT ![t] = [Forget(t, "record") EXCEPT !.step = x, !.made = m]]
    BY <1>10 DEF CreateChild
  <2>2. tick'[t].pc = "record" /\ tick'[t].run = k
    BY <1>1, <1>2, <2>1 DEF Forget, IdleTick
  <2> QED BY <1>2, <2>2, NothingSeen
<1>11. CASE NextStep(t)
  <2>1. CASE Leave(t)
    BY <1>0, <2>1, LeavesChecked
  <2>2. CASE ~Leave(t)
    <3>1. /\ tick[t].pc = "next" /\ runs[k].status = "running" /\ IsNextStep(k, Rank[l], "end")
          /\ Conclude(t, "passed")
      BY <1>1, <1>11, <2>2 DEF NextStep, TickAt
    <3>2. Before(k, l) /\ StepDone(k, l) /\ l \in Steps
      BY <1>1, <1>2, <1>4, <3>1 DEF Over, Tick
    <3>3. AllDone(k)
      BY <1>2, <3>1, <3>2, NextIsFirst
    <3> QED BY <1>0, <1>1, <3>1, <3>3, PassesChecked
  <2> QED BY <2>1, <2>2
<1> QED BY <1>5, <1>6, <1>7, <1>8, <1>9, <1>10, <1>11 DEF Advance

\* Where a tick arrives outside the lease of a run.
LEMMA LoopPcs ==
    ASSUME Typed, NEW t \in Ticks,
           Promotion(t) \/ TickThrows(t) \/ TickScan(t) \/ TickEnd(t) \/ ClearLease(t)
    PROVE  tick'[t].pc \in {"idle", "lock", "pick", "promote", "lease"}
<1>0. tick \in [Ticks -> Tick] /\ tick[t] \in Tick
  BY DEF Typed, TicksOK
<1>1. CASE TickBegin(t) \/ PromoteCommit(t) \/ TickThrows(t) \/ TickScan(t) \/ TickEnd(t) \/ ClearLease(t)
  <2>1. PICK srcs, todo :
          \/ tick' = [tick EXCEPT ![t] = IdleTick]
          \/ tick' = [tick EXCEPT ![t] = [IdleTick EXCEPT !.pc = "lock", !.srcs = srcs]]
          \/ tick' = [tick EXCEPT ![t] = [IdleTick EXCEPT !.pc = "lease", !.todo = todo]]
    BY <1>1 DEF TickBegin, PromoteCommit, PromoteOver, TickThrows, TickScan, TickEnd, ClearLease
  <2>2. CASE tick' = [tick EXCEPT ![t] = IdleTick]
    BY <1>0, <2>2 DEF IdleTick
  <2>3. CASE tick' = [tick EXCEPT ![t] = [IdleTick EXCEPT !.pc = "lock", !.srcs = srcs]]
    BY <1>0, <2>3 DEF IdleTick
  <2>4. CASE tick' = [tick EXCEPT ![t] = [IdleTick EXCEPT !.pc = "lease", !.todo = todo]]
    BY <1>0, <2>4 DEF IdleTick
  <2> QED BY <2>1, <2>2, <2>3, <2>4
<1>2. CASE PromoteLock(t)
  <2>1. PICK x, s : \/ tick' = [tick EXCEPT ![t] = [tick[t] EXCEPT !.srcs = x]]
                    \/ tick' = [tick EXCEPT ![t] = [[tick[t] EXCEPT !.srcs = x] EXCEPT !.pc = "pick", !.src = s]]
    BY <1>2 DEF PromoteLock
  <2> QED BY <1>0, <1>2, <2>1 DEF PromoteLock, TickAt, Tick
<1>3. CASE PromotePick(t)
  BY <1>0, <1>3 DEF PromotePick, PromoteOver, TickAt, Tick, IdleTick
<1> QED BY <1>1, <1>2, <1>3 DEF Promotion

\* The steps of a tick outside advance.
LEMMA LoopChecked ==
    ASSUME Typed, CheckedInv, \A q \in Keys : RowMoves(q), \A c \in Children : ChildMoves(c),
           \A q \in Keys : Over(q) => Over(q)', NEW t \in Ticks,
           Promotion(t) \/ Iteration(t) \/ TickThrows(t)
    PROVE  TickChecked(t)'
<1>0. tick \in [Ticks -> Tick] /\ tick[t] \in Tick
  BY DEF Typed, TicksOK
<1>1. CASE Promotion(t) \/ TickThrows(t) \/ TickScan(t) \/ TickEnd(t) \/ ClearLease(t)
  <2>1. tick'[t].pc \in {"idle", "lock", "pick", "promote", "lease"}
    BY <1>1, LoopPcs
  <2> QED BY <2>1, NothingSeen DEF LeasedPcs, AdvancePcs
<1>2. CASE AcquireLease(t)
  <2>1. PICK r \in tick[t].todo :
          LET left == [tick[t] EXCEPT !.todo = @ \ {r}]
          IN IF runs[r].status = "running" /\ runs[r].lease # "held"
             THEN /\ SetRun(r, [runs[r] EXCEPT !.lease = "held"])
                  /\ tick' = [tick EXCEPT ![t] = [left EXCEPT !.pc = "load", !.run = r]]
             ELSE UNCHANGED runs /\ tick' = [tick EXCEPT ![t] = left]
    BY <1>2 DEF AcquireLease
  <2>2. r \in Keys /\ tick[t].pc = "lease"
    BY <1>0, <1>2 DEF Tick, AcquireLease, TickAt
  <2>3. CASE tick'[t].pc = "lease"
    BY <2>3, NothingSeen DEF LeasedPcs, AdvancePcs
  <2>4. CASE tick'[t].pc # "lease"
    <3>1. /\ runs[r].status = "running" /\ SetRun(r, [runs[r] EXCEPT !.lease = "held"])
          /\ tick'[t].pc = "load" /\ tick'[t].run = r
      BY <1>0, <2>1, <2>2, <2>4 DEF Tick
    <3>2. runs'[r].status = "running"
      <4>1. runs'[r] = [runs[r] EXCEPT !.lease = "held"] /\ runs[r] \in AutomationRun
        BY <2>2, <3>1, RowWritten
      <4> QED BY <3>1, <4>1 DEF AutomationRun
    <3>3. RowChecked(r)'
      BY <2>2, RowsStayChecked
    <3>4. Before(r, runs[r].step)'
      BY <3>2, <3>3 DEF RowChecked
    <3>5. PICK l : l = tick'[t].step
      OBVIOUS
    <3> QED BY <3>1, <3>2, <3>4, <3>5, Rechecked
  <2> QED BY <2>3, <2>4
<1>3. CASE AdvanceLoad(t)
  <2>0. tick[t].pc = "load" /\ tick[t].pc \in LeasedPcs
    BY <1>3 DEF AdvanceLoad, TickAt, LeasedPcs
  <2>1. PICK k, l : k = Work(t) /\ l = runs[k].step
    OBVIOUS
  <2>2. /\ k \in Keys /\ runs'[k].status # "none" /\ RowGrows(k) /\ (Over(k) => Over(k)') /\ TickChecked(t)
    BY <2>0, <2>1, WorkRow
  <2>3. Over(k)' \/ Before(k, l)'
    <3>1. Over(k) \/ Before(k, l)
      BY <2>0, <2>1, <2>2 DEF TickChecked
    <3> QED BY <2>2, <3>1, DoneStays
  <2>4. /\ tick'[t].pc = "act" /\ tick'[t].run = k /\ tick'[t].step = l
        /\ tick'[t].eval = runs[k].eval /\ tick'[t].bench = runs[k].bench
    BY <1>0, <1>3, <2>1 DEF AdvanceLoad, Work, Tick
  <2> QED BY <2>2, <2>3, <2>4, Rechecked DEF RowGrows
<1> QED BY <1>1, <1>2, <1>3 DEF Iteration

\* Every step.
LEMMA CheckedStep ==
    ASSUME Typed, QueueInv, CheckedInv, [AutomationNext]_automationVars
    PROVE  CheckedInv'
<1>1. /\ \A q \in Keys : RowMoves(q)
      /\ \A c \in Children : ChildMoves(c)
      /\ \A q \in Keys : Over(q) => Over(q)'
  BY RowsMove, ChildrenMove, QueueStep DEF Over
<1>2. \A q \in Keys : RowChecked(q)'
  BY <1>1, RowsStayChecked
<1>3. ASSUME NEW u \in Ticks, tick'[u] = tick[u] PROVE TickChecked(u)'
  BY <1>1, <1>3, TickStaysChecked
<1>4. CASE UNCHANGED tick
  BY <1>2, <1>3, <1>4 DEF CheckedInv
<1>5. CASE Restart
  <2>1. \A u \in Ticks : tick'[u].pc = "idle"
    BY <1>5 DEF Restart, IdleTick
  <2>2. \A u \in Ticks : TickChecked(u)'
    BY <2>1, NothingSeen DEF LeasedPcs, AdvancePcs
  <2> QED BY <1>2, <2>2 DEF CheckedInv
<1>6. ASSUME NEW t \in Ticks, TickStep(t) \/ TickThrows(t) PROVE CheckedInv'
  <2>1. TickChecked(t)'
    BY <1>1, <1>6, AdvanceChecked, LoopChecked DEF TickStep
  <2>2. \A u \in Ticks : TickChecked(u)'
    BY <1>3, <1>6, <2>1, OneTickMoves
  <2> QED BY <1>2, <2>2 DEF CheckedInv
<1>7. ASSUME NEW c \in Callers, CallerBegins(c) \/ CallerStep(c) PROVE UNCHANGED tick
  BY <1>7 DEF CallerBegins, CancelCall, EnqueueRevision, EnqueueOther, CallerStep, EnqueueFind, CancelRead,
     CancelWrite, CancelChildren, CancelDone, EnqueueCreate
<1>8. (\E r \in Keys : LeaseExpires(r)) \/ (\E c \in Children : ChildEnds(c)) \/ UNCHANGED automationVars
        => UNCHANGED tick
  BY DEF LeaseExpires, ChildEnds, automationVars, runnerVars
<1> QED BY <1>4, <1>5, <1>6, <1>7, <1>8 DEF AutomationNext

\* At first there are no runs.
LEMMA CheckedInit == AutomationInit => CheckedInv
BY DEF AutomationInit, AutomationRecordsInit, RunnerInit, NoRun, IdleTick, CheckedInv, RowChecked,
   TickChecked, LeasedPcs, AdvancePcs, Verdicts

\* What a tick has seen done is done, at all times.
LEMMA CheckedAlways == AutomationSpec => [](Typed /\ QueueInv /\ CheckedInv)
<1>1. Typed /\ Typed' /\ QueueInv /\ CheckedInv /\ [AutomationNext]_automationVars => QueueInv' /\ CheckedInv'
  BY QueueStep, CheckedStep
<1> QED BY <1>1, QueueInit, CheckedInit, TypedAlways, PTL DEF AutomationSpec

(* A run that passed, or was found regressed, has done every step before the *)
(* verdict, for any number of ticks that overlap: a tick acts on a copy of   *)
(* the row, but what that copy says is done cannot be undone.                *)
THEOREM PassedSafe == AutomationSpec => []PassedMeansChecked
<1>1. CheckedInv => PassedMeansChecked
  BY DEF CheckedInv, RowChecked, AllDone, PassedMeansChecked
<1> QED BY <1>1, CheckedAlways, PTL

-----------------------------------------------------------------------------
(* No child is forgotten. *)

\* A step of a tick outside advance, or one of the other steps of advance,
\* neither begins nor ends to hold a child.
LEMMA LoopHoldsNone ==
    ASSUME Typed, NEW t \in Ticks, Promotion(t) \/ Iteration(t) \/ TickThrows(t)
    PROVE  tick[t].pc \notin HoldingPcs /\ tick'[t].pc \notin HoldingPcs \cup {"emit", "finish"}
<1>0. tick \in [Ticks -> Tick] /\ tick[t] \in Tick
  BY DEF Typed, TicksOK
<1>1. tick[t].pc \notin HoldingPcs
  BY DEF Promotion, TickBegin, PromoteLock, PromotePick, PromoteCommit, Iteration, TickScan, AcquireLease,
     TickEnd, AdvanceLoad, ClearLease, TickThrows, TickAt, HoldingPcs
<1>2. CASE Promotion(t) \/ TickThrows(t) \/ TickScan(t) \/ TickEnd(t) \/ ClearLease(t)
  BY <1>1, <1>2, LoopPcs DEF HoldingPcs
<1>3. CASE AcquireLease(t)
  <2>1. PICK r, x : \/ tick' = [tick EXCEPT ![t] = [tick[t] EXCEPT !.todo = x]]
                    \/ tick' = [tick EXCEPT ![t] = [[tick[t] EXCEPT !.todo = x] EXCEPT !.pc = "load", !.run = r]]
    BY <1>3 DEF AcquireLease
  <2>2. tick'[t].pc \in {"lease", "load"}
    BY <1>0, <1>3, <2>1 DEF AcquireLease, TickAt, Tick
  <2> QED BY <1>1, <2>2 DEF HoldingPcs
<1>4. CASE AdvanceLoad(t)
  <2>1. tick'[t].pc = "act"
    BY <1>0, <1>4 DEF AdvanceLoad, Tick
  <2> QED BY <1>1, <2>1 DEF HoldingPcs
<1> QED BY <1>2, <1>3, <1>4 DEF Iteration

SameHold(t) == tick'[t].pc \in HoldingPcs /\ tick'[t].made = tick[t].made /\ tick'[t].run = tick[t].run

\* What becomes of a child in the hands of a tick, and how one comes there.
HoldMoves(t) ==
    /\ tick[t].pc \in HoldingPcs =>
          \/ SameHold(t)
          \/ child'[tick[t].made].asked \/ child'[tick[t].made].lost
          \/ tick[t].made \in {runs'[Work(t)].eval, runs'[Work(t)].bench}
    /\ tick'[t].pc \in HoldingPcs =>
          \/ tick[t].pc \in HoldingPcs /\ SameHold(t)
          \/ child'[tick'[t].made].status # "none" /\ child'[tick'[t].made].of = tick'[t].run

\* The steps of advance.
LEMMA AdvanceHolds ==
    ASSUME Typed, NEW t \in Ticks, Advance(t)
    PROVE  HoldMoves(t)
<1>0. /\ tick \in [Ticks -> Tick] /\ tick[t] \in Tick /\ TickOK(tick[t]) /\ child \in [Children -> Child]
      /\ runs \in [Keys -> AutomationRun]
  BY DEF Typed, TicksOK, AutomationRecordsTypeOK
<1>1. CASE NoStep(t) \/ RecordDiagnostics(t) \/ PollWait(t) \/ PollOk(t) \/ PollBad(t) \/ Compare(t)
           \/ NextStep(t) \/ Finish(t) \/ Emit(t)
  <2>1. tick[t].pc \in {"act", "diagnosed", "next", "finish", "emit"}
    BY <1>1 DEF NoStep, RecordDiagnostics, PollWait, PollOk, PollBad, Compare, NextStep, Finish, Emit, StepIs,
       Polling, TickAt
  <2>2. \E v : Leave(t) \/ Conclude(t, v) \/ StepEnds(t) \/ TickGoto(t, "emit")
    BY <1>1 DEF NoStep, RecordDiagnostics, PollWait, PollOk, PollBad, Compare, NextStep, Finish, Emit
  <2>3. tick'[t].pc \in {"unlock", "finish", "next", "emit"}
    BY <2>2, TickFields
  <2> QED BY <2>1, <2>3 DEF HoldMoves, HoldingPcs
<1>2. CASE RunDiagnostics(t)
  <2>1. PICK v : tick' = [tick EXCEPT ![t] = [Forget(t, "diagnosed") EXCEPT
                                          !.step = "diagnostics", !.verdict = v]]
    BY <1>2 DEF RunDiagnostics
  <2>2. tick'[t].pc = "diagnosed" /\ tick[t].pc = "act"
    BY <1>0, <1>2, <2>1 DEF RunDiagnostics, StepIs, TickAt, Forget, IdleTick
  <2> QED BY <2>2 DEF HoldMoves, HoldingPcs
<1>3. CASE CreateChild(t)
  <2>1. PICK m \in FreeChildren :
          /\ child' = [child EXCEPT ![m] = [child[m] EXCEPT !.status = "active",
                          !.of = Work(t), !.kind = KindOf(tick[t].step)]]
          /\ tick' = [tick EXCEPT ![t] = [Forget(t, "record") EXCEPT
                                              !.step = tick[t].step, !.made = m]]
    BY <1>3 DEF CreateChild
  <2>2. m \in Children /\ tick[t].pc = "act"
    BY <1>3 DEF FreeChildren, CreateChild, TickAt
  <2>3. child'[m].status = "active" /\ child'[m].of = Work(t)
    BY <1>0, <2>1, <2>2 DEF Child
  <2>4. tick'[t].pc = "record" /\ tick'[t].made = m /\ tick'[t].run = Work(t)
    BY <1>0, <2>1 DEF Forget, IdleTick
  <2> QED BY <2>2, <2>3, <2>4 DEF HoldMoves, HoldingPcs
<1>4. CASE RecordChild(t)
  <2>0. tick[t].pc = "record" /\ Work(t) \in Keys
    BY <1>0, <1>4 DEF RecordChild, TickAt, TickOK, WorkPcs, AdvancePcs, Work
  <2>1. CASE TickGoto(t, "cancelOwn")
    BY <2>0, <2>1, TickFields DEF HoldMoves, SameHold, HoldingPcs, Work
  <2>2. CASE ~TickGoto(t, "cancelOwn")
    <3>1. /\ Leave(t)
          /\ SetRun(Work(t), IF tick[t].step = "quality_gate"
                             THEN [runs[Work(t)] EXCEPT !.eval = tick[t].made]
                             ELSE [runs[Work(t)] EXCEPT !.bench = tick[t].made])
      BY <1>4, <2>2 DEF RecordChild
    <3>2. runs[Work(t)] \in AutomationRun
      BY <1>0, <2>0
    <3>3. tick[t].made \in {runs'[Work(t)].eval, runs'[Work(t)].bench}
      <4>1. CASE tick[t].step = "quality_gate"
        <5>1. SetRun(Work(t), [runs[Work(t)] EXCEPT !.eval = tick[t].made])
          BY <3>1, <4>1
        <5> QED BY <2>0, <3>2, <5>1, RowWritten DEF AutomationRun
      <4>2. CASE tick[t].step # "quality_gate"
        <5>1. SetRun(Work(t), [runs[Work(t)] EXCEPT !.bench = tick[t].made])
          BY <3>1, <4>2
        <5> QED BY <2>0, <3>2, <5>1, RowWritten DEF AutomationRun
      <4> QED BY <4>1, <4>2
    <3>4. tick'[t].pc = "unlock"
      BY <3>1, TickFields
    <3> QED BY <3>3, <3>4 DEF HoldMoves, HoldingPcs
  <2> QED BY <2>1, <2>2
<1>5. CASE CancelOwn(t)
  <2>1. tick[t].made \in Children
    BY <1>0, <1>5 DEF CancelOwn, TickAt, TickOK
  <2>2. child'[tick[t].made].asked
    BY <1>5, <2>1, AskGrows DEF CancelOwn
  <2>3. tick'[t].pc = "unlock"
    BY <1>5, TickFields DEF CancelOwn
  <2> QED BY <2>2, <2>3 DEF HoldMoves, HoldingPcs
<1>6. CASE AdvanceError(t)
  <2>1. tick'[t].pc = "finish" /\ tick[t].pc \in AdvancePcs
    BY <1>6, TickFields DEF AdvanceError
  <2>2. CASE tick[t].pc = "record"
    <3>1. tick[t].made \in Children
      BY <1>0, <2>2 DEF TickOK
    <3>2. PICK m : m = tick[t].made
      OBVIOUS
    <3>3. child'[m] = [child[m] EXCEPT !.lost = @ \/ (TickAt(t, "record") /\ tick[t].made = m)]
      BY <1>6, <3>1, <3>2 DEF AdvanceError
    <3>4. child[m] \in Child
      BY <1>0, <3>1, <3>2
    <3>5. child'[m].lost
      BY <2>2, <3>2, <3>3, <3>4 DEF Child, TickAt
    <3> QED BY <2>1, <3>2, <3>5 DEF HoldMoves, HoldingPcs
  <2>3. CASE tick[t].pc # "record"
    BY <2>1, <2>3 DEF HoldMoves, HoldingPcs, AdvancePcs
  <2> QED BY <2>2, <2>3
<1> QED BY <1>1, <1>2, <1>3, <1>4, <1>5, <1>6 DEF Advance

\* A step that leaves the ticks alone.
LEMMA TicksLeftAlone ==
    ASSUME [AutomationNext]_automationVars, ~Restart, \A t \in Ticks : ~(TickStep(t) \/ TickThrows(t))
    PROVE  UNCHANGED tick
<1>1. ASSUME NEW c \in Callers, CallerBegins(c) \/ CallerStep(c) PROVE UNCHANGED tick
  BY <1>1 DEF CallerBegins, CancelCall, EnqueueRevision, EnqueueOther, CallerStep, EnqueueFind, CancelRead,
     CancelWrite, CancelChildren, CancelDone, EnqueueCreate
<1>2. (\E r \in Keys : LeaseExpires(r)) \/ (\E c \in Children : ChildEnds(c)) \/ UNCHANGED automationVars
        => UNCHANGED tick
  BY DEF LeaseExpires, ChildEnds, automationVars, runnerVars
<1> QED BY <1>1, <1>2 DEF AutomationNext

\* Every step.
LEMMA TicksHold ==
    ASSUME Typed, [AutomationNext]_automationVars
    PROVE  \A t \in Ticks : HoldMoves(t)
<1>0. \A u \in Ticks : tick'[u] = tick[u] => HoldMoves(u)
  BY DEF HoldMoves, SameHold
<1>1. ASSUME NEW t \in Ticks, TickStep(t) \/ TickThrows(t) PROVE \A u \in Ticks : HoldMoves(u)
  <2>1. HoldMoves(t)
    <3>1. CASE Advance(t)
      BY <3>1, AdvanceHolds
    <3>2. CASE Promotion(t) \/ Iteration(t) \/ TickThrows(t)
      BY <3>2, LoopHoldsNone DEF HoldMoves
    <3> QED BY <1>1, <3>1, <3>2 DEF TickStep
  <2> QED BY <1>0, <1>1, <2>1, OneTickMoves
<1>2. CASE Restart
  <2>1. ASSUME NEW u \in Ticks PROVE HoldMoves(u)
    <3>1. tick'[u].pc = "idle"
      BY <1>2 DEF Restart, IdleTick
    <3>2. ASSUME tick[u].pc \in HoldingPcs PROVE child'[tick[u].made].lost
      <4>1. PICK m : m = tick[u].made
        OBVIOUS
      <4>2. m \in Children /\ child[m] \in Child
        BY <3>2, <4>1 DEF Typed, TicksOK, TickOK, HoldingPcs, AutomationRecordsTypeOK
      <4> DEFINE died == \E t \in Ticks : tick[t].pc \in {"record", "cancelOwn"} /\ tick[t].made = m
      <4>3. child'[m] = [child[m] EXCEPT !.status = IF @ = "active" /\ child[m].kind = "eval" THEN "bad" ELSE @,
                                         !.lost = @ \/ died]
        BY <1>2, <4>2 DEF Restart
      <4>4. died
        BY <3>2, <4>1 DEF HoldingPcs
      <4> HIDE DEF died
      <4> QED BY <4>1, <4>2, <4>3, <4>4 DEF Child
    <3> QED BY <3>1, <3>2 DEF HoldMoves, HoldingPcs
  <2> QED BY <2>1
<1> QED BY <1>0, <1>1, <1>2, TicksLeftAlone

\* Every step keeps children known.
LEMMA ForgetStep ==
    ASSUME Typed, QueueInv, CheckedInv, ForgetInv, [AutomationNext]_automationVars
    PROVE  ForgetInv'
<1>0. /\ \A q \in Keys : RowMoves(q)
      /\ \A c \in Children : ChildMoves(c)
      /\ \A t \in Ticks : HoldMoves(t) /\ TickOK(tick[t])
      /\ NoChild \notin Children /\ child \in [Children -> Child]
  BY RowsMove, ChildrenMove, TicksHold, RecordsAssumption DEF Typed, TicksOK, AutomationRecordsTypeOK
<1>1. ASSUME NEW c \in Children, child'[c].status # "none" PROVE child'[c].of \in Keys
  <2>1. CASE child[c].status # "none"
    BY <1>0, <2>1 DEF ForgetInv, ChildMoves, ChildGrows
  <2>2. CASE child[c].status = "none"
    BY <1>0, <1>1, <2>2 DEF ChildMoves, BornHeld
  <2> QED BY <2>1, <2>2
<1>2. ASSUME NEW t \in Ticks PROVE HeldChild(t)'
  <2> SUFFICES ASSUME tick'[t].pc \in HoldingPcs
               PROVE  child'[tick'[t].made].status # "none" /\ child'[tick'[t].made].of = tick'[t].run
    BY DEF HeldChild, Work
  <2>1. CASE tick[t].pc \in HoldingPcs /\ SameHold(t)
    <3>1. child[tick[t].made].status # "none" /\ child[tick[t].made].of = tick[t].run
      BY <2>1 DEF ForgetInv, HeldChild, Work
    <3>2. tick[t].made \in Children
      BY <1>0, <2>1 DEF TickOK, HoldingPcs
    <3>3. PICK m : m = tick[t].made
      OBVIOUS
    <3>4. child'[m].status # "none" /\ child'[m].of = child[m].of
      BY <1>0, <3>1, <3>2, <3>3 DEF ChildMoves, ChildGrows
    <3> QED BY <2>1, <3>1, <3>3, <3>4 DEF SameHold
  <2>2. CASE ~(tick[t].pc \in HoldingPcs /\ SameHold(t))
    BY <1>0, <2>2 DEF HoldMoves
  <2> QED BY <2>1, <2>2
<1>3. ASSUME NEW c \in Children, child'[c].status = "active"
      PROVE  \/ child'[c].asked \/ child'[c].lost
             \/ c \in {runs'[child'[c].of].eval, runs'[child'[c].of].bench}
             \/ \E t \in Ticks : tick'[t].pc \in {"record", "cancelOwn"} /\ tick'[t].made = c
  <2>1. CASE child[c].status = "none"
    BY <1>0, <1>3, <2>1 DEF ChildMoves, BornHeld
  <2>2. CASE child[c].status # "none"
    <3>1. child[c].status = "active" /\ child'[c].of = child[c].of /\ child[c].of \in Keys
      BY <1>0, <1>3, <2>2 DEF ChildMoves, ChildGrows, ForgetInv
    <3>2. CASE child[c].asked \/ child[c].lost
      BY <1>0, <3>2 DEF ChildMoves, ChildGrows
    <3>3. CASE c \in {runs[child[c].of].eval, runs[child[c].of].bench}
      BY <1>0, <3>1, <3>3 DEF RowMoves, RowGrows
    <3>4. ASSUME NEW t \in Ticks, tick[t].pc \in HoldingPcs, tick[t].made = c
          PROVE  \/ child'[c].asked \/ child'[c].lost
                 \/ c \in {runs'[child'[c].of].eval, runs'[child'[c].of].bench}
                 \/ \E u \in Ticks : tick'[u].pc \in {"record", "cancelOwn"} /\ tick'[u].made = c
      <4>1. child[c].of = Work(t)
        BY <3>4 DEF ForgetInv, HeldChild
      <4>2. \/ SameHold(t) \/ child'[c].asked \/ child'[c].lost
            \/ c \in {runs'[Work(t)].eval, runs'[Work(t)].bench}
        BY <1>0, <3>4 DEF HoldMoves
      <4> QED BY <3>1, <3>4, <4>1, <4>2 DEF SameHold, HoldingPcs
    <3> QED BY <3>1, <3>2, <3>3, <3>4 DEF ForgetInv, NoForgottenChild, HoldingPcs
  <2> QED BY <2>1, <2>2
<1>4. NoForgottenChild'
  BY <1>3 DEF NoForgottenChild
<1> QED BY <1>1, <1>2, <1>4 DEF ForgetInv

\* At first there are no children.
LEMMA ForgetInit == AutomationInit => ForgetInv
BY DEF AutomationInit, AutomationRecordsInit, ChildrenInit, RunnerInit, IdleTick, ForgetInv, NoForgottenChild,
   HeldChild, HoldingPcs

(* No benchmark or evaluation run goes on that nobody knows of: it is on its *)
(* row, or in the hands of a tick, or was asked to stop, unless the process  *)
(* or the write died in between.                                             *)
THEOREM NoChildForgotten == AutomationSpec => []NoForgottenChild
<1>1. ForgetInv => NoForgottenChild
  BY DEF ForgetInv
<1>2. Typed /\ QueueInv /\ CheckedInv /\ ForgetInv /\ [AutomationNext]_automationVars => ForgetInv'
  BY ForgetStep
<1> QED BY <1>1, <1>2, ForgetInit, CheckedAlways, PTL DEF AutomationSpec

-----------------------------------------------------------------------------
(* A run is announced once. *)

\* A tick is about to announce a run because it has just ended it.
EndedBy(t) ==
    /\ runs[Work(t)].status = "running" /\ Work(t) \in Keys
    /\ runs'[Work(t)].status = "completed" /\ runs'[Work(t)].verdict = tick[t].verdict
    /\ tick'[t].run = tick[t].run /\ tick'[t].verdict = tick[t].verdict

\* The steps of advance.
LEMMA AdvanceEmits ==
    ASSUME Typed, NEW t \in Ticks, Advance(t)
    PROVE  /\ tick'[t].pc = "emit" => EndedBy(t) /\ UNCHANGED notes
           /\ notes' # notes => Emit(t)
<1>0. /\ tick \in [Ticks -> Tick] /\ tick[t] \in Tick /\ TickOK(tick[t])
  BY DEF Typed, TicksOK
<1>1. CASE NoStep(t) \/ RecordDiagnostics(t) \/ PollWait(t) \/ PollOk(t) \/ PollBad(t) \/ Compare(t)
           \/ NextStep(t) \/ AdvanceError(t) \/ RecordChild(t) \/ CancelOwn(t)
  <2>1. UNCHANGED notes
    BY <1>1 DEF NoStep, RecordDiagnostics, PollWait, PollOk, PollBad, Compare, NextStep, AdvanceError,
       RecordChild, CancelOwn, automationRecords
  <2>2. \E v : Leave(t) \/ Conclude(t, v) \/ StepEnds(t) \/ TickGoto(t, "cancelOwn")
    BY <1>1 DEF NoStep, RecordDiagnostics, PollWait, PollOk, PollBad, Compare, NextStep, AdvanceError,
       RecordChild, CancelOwn
  <2>3. tick'[t].pc \in {"unlock", "finish", "next", "cancelOwn"}
    BY <2>2, TickFields
  <2> QED BY <2>1, <2>3
<1>2. CASE RunDiagnostics(t) \/ CreateChild(t)
  <2>1. UNCHANGED notes
    BY <1>2 DEF RunDiagnostics, CreateChild, automationRecords
  <2>2. \E m, x, v : \/ tick' = [tick EXCEPT ![t] = [Forget(t, "record") EXCEPT !.step = x, !.made = m]]
                     \/ tick' = [tick EXCEPT ![t] = [Forget(t, "diagnosed") EXCEPT !.step = x, !.verdict = v]]
    BY <1>2 DEF RunDiagnostics, CreateChild
  <2>3. tick'[t].pc \in {"record", "diagnosed"}
    BY <1>0, <2>2 DEF Forget, IdleTick
  <2> QED BY <2>1, <2>3
<1>3. CASE Emit(t)
  <2>1. tick'[t].pc = "unlock"
    BY <1>3, TickFields DEF Emit
  <2> QED BY <1>3, <2>1
<1>4. CASE Finish(t)
  <2>1. UNCHANGED notes
    BY <1>4 DEF Finish
  <2>2. CASE Leave(t)
    <3>1. tick'[t].pc = "unlock"
      BY <2>2, TickFields
    <3> QED BY <2>1, <3>1
  <2>3. CASE ~Leave(t)
    <3>1. /\ runs[Work(t)].status = "running" /\ TickGoto(t, "emit")
          /\ SetRun(Work(t), [runs[Work(t)] EXCEPT !.status = "completed",
                    !.verdict = tick[t].verdict, !.step = "end", !.lease = "free"])
      BY <1>4, <2>3 DEF Finish
    <3>2. Work(t) \in Keys
      BY <1>0, <1>4 DEF Finish, TickAt, TickOK, WorkPcs, AdvancePcs, Work
    <3>3. runs'[Work(t)].status = "completed" /\ runs'[Work(t)].verdict = tick[t].verdict
      <4>1. /\ runs'[Work(t)] = [runs[Work(t)] EXCEPT !.status = "completed",
                                   !.verdict = tick[t].verdict, !.step = "end", !.lease = "free"]
            /\ runs[Work(t)] \in AutomationRun
        BY <3>1, <3>2, RowWritten
      <4> QED BY <4>1 DEF AutomationRun
    <3>4. tick'[t].run = tick[t].run /\ tick'[t].verdict = tick[t].verdict
      BY <3>1, TickFields DEF Work
    <3> QED BY <2>1, <3>1, <3>2, <3>3, <3>4 DEF EndedBy
  <2> QED BY <2>2, <2>3
<1> QED BY <1>1, <1>2, <1>3, <1>4 DEF Advance

\* Who announces after a step, and what the step announced.
LEMMA TicksEmit ==
    ASSUME Typed, [AutomationNext]_automationVars
    PROVE  /\ \A t \in Ticks : tick'[t].pc = "emit" =>
                 \/ tick'[t] = tick[t]
                 \/ /\ EndedBy(t) /\ UNCHANGED notes
                    /\ \A u \in Ticks : u # t => tick'[u] = tick[u]
           /\ notes' # notes => \E t \in Ticks : Emit(t)
<1>1. ASSUME NEW t \in Ticks, TickStep(t) \/ TickThrows(t)
      PROVE  /\ tick'[t].pc = "emit" => EndedBy(t) /\ UNCHANGED notes
             /\ notes' # notes => Emit(t)
  <2>1. CASE Advance(t)
    BY <2>1, AdvanceEmits
  <2>2. CASE Promotion(t) \/ Iteration(t) \/ TickThrows(t)
    <3>1. UNCHANGED notes
      BY <2>2 DEF Promotion, TickBegin, PromoteLock, PromotePick, PromoteCommit, Iteration, TickScan,
         AcquireLease, TickEnd, AdvanceLoad, ClearLease, TickThrows, automationRecords
    <3> QED BY <2>2, <3>1, LoopHoldsNone
  <2> QED BY <1>1, <2>1, <2>2 DEF TickStep
<1>2. CASE Restart
  BY <1>2 DEF Restart, IdleTick
<1>3. ASSUME ~Restart, \A t \in Ticks : ~(TickStep(t) \/ TickThrows(t)) PROVE UNCHANGED <<tick, notes>>
  <2>1. ASSUME NEW c \in Callers, CallerBegins(c) \/ CallerStep(c) PROVE UNCHANGED notes
    BY <2>1 DEF CallerBegins, CancelCall, EnqueueRevision, EnqueueOther, CallerStep, EnqueueFind, CancelRead,
       CancelWrite, CancelChildren, CancelDone, EnqueueCreate, automationRecords
  <2>2. (\E r \in Keys : LeaseExpires(r)) \/ (\E c \in Children : ChildEnds(c)) \/ UNCHANGED automationVars
          => UNCHANGED notes
    BY DEF LeaseExpires, ChildEnds, automationVars, automationRecords
  <2>3. UNCHANGED notes
    BY <1>3, <2>1, <2>2 DEF AutomationNext
  <2> QED BY <1>3, <2>3, TicksLeftAlone
<1> QED BY <1>1, <1>2, <1>3, OneTickMoves

\* Every step keeps the count.
LEMMA AnnouncedStep ==
    ASSUME Typed, QueueInv, AnnouncedInv, [AutomationNext]_automationVars
    PROVE  AnnouncedInv'
<1> SUFFICES ASSUME NEW r \in Keys, NEW v \in Verdicts PROVE Announced(r, v)'
  BY DEF AnnouncedInv
<1>0. /\ Announced(r, v) /\ notes \in [Keys -> [Verdicts -> Nat]]
      /\ \A t \in Ticks : tick[t] \in Tick /\ TickOK(tick[t])
  BY DEF AnnouncedInv, Typed, TicksOK, AutomationRecordsTypeOK, TickOK
<1>1. Over(r) /\ runs[r].verdict = v => runs'[r].status = "completed" /\ runs'[r].verdict = v
  BY QueueStep DEF Over
<1> DEFINE New(t) == tick'[t].pc = "emit" /\ tick'[t].run = r /\ tick'[t].verdict = v
<1>2. ASSUME NEW t \in Ticks, New(t)
      PROVE  \/ tick'[t] = tick[t] /\ Emitting(t, r, v)
             \/ /\ runs[r].status = "running" /\ UNCHANGED notes
                /\ runs'[r].status = "completed" /\ runs'[r].verdict = v
                /\ \A u \in Ticks : u # t => tick'[u] = tick[u]
  BY <1>2, TicksEmit DEF EndedBy, Emitting, Work
<1>3. ASSUME NEW t \in Ticks, NEW u \in Ticks, New(t), New(u) PROVE t = u
  <2>1. Emitting(t, r, v) \/ Emitting(u, r, v) => runs[r].status # "running"
    BY <1>0 DEF Announced, Over
  <2>2. Emitting(t, r, v) /\ Emitting(u, r, v) => t = u
    BY <1>0 DEF Announced
  <2> SUFFICES ASSUME t # u PROVE FALSE
    OBVIOUS
  <2>3. tick'[t] = tick[t] => Emitting(t, r, v)
    BY <1>3 DEF Emitting, Work
  <2>4. tick'[u] = tick[u] => Emitting(u, r, v)
    BY <1>3 DEF Emitting, Work
  <2> QED BY <1>2, <1>3, <2>1, <2>2, <2>3, <2>4
<1>4. notes'[r][v] = notes[r][v]
        \/ \E t \in Ticks : Emitting(t, r, v) /\ tick'[t].pc = "unlock" /\ notes'[r][v] = notes[r][v] + 1
  <2> SUFFICES ASSUME notes' # notes PROVE notes'[r][v] = notes[r][v]
        \/ \E t \in Ticks : Emitting(t, r, v) /\ tick'[t].pc = "unlock" /\ notes'[r][v] = notes[r][v] + 1
    OBVIOUS
  <2>1. PICK t \in Ticks : Emit(t)
    BY TicksEmit
  <2>2. PICK k, w : k = Work(t) /\ w = tick[t].verdict
    OBVIOUS
  <2>3. notes' = [notes EXCEPT ![k][w] = notes[k][w] + 1] /\ tick[t].pc = "emit" /\ tick'[t].pc = "unlock"
    BY <2>1, <2>2, TickFields DEF Emit, TickAt
  <2>4. k \in Keys /\ w \in Verdicts
    BY <1>0, <2>2, <2>3 DEF TickOK, WorkPcs, AdvancePcs, Work, Tick
  <2>5. notes'[k][w] = notes[k][w] + 1 /\ (k # r \/ w # v => notes'[r][v] = notes[r][v])
    BY <1>0, <2>3, <2>4
  <2> QED BY <2>2, <2>3, <2>5 DEF Emitting
<1>5. ASSUME NEW t \in Ticks, New(t)
      PROVE  notes'[r][v] = 0 /\ runs'[r].status = "completed" /\ runs'[r].verdict = v
  <2>1. CASE tick'[t] = tick[t] /\ Emitting(t, r, v)
    <3>1. notes[r][v] = 0 /\ Over(r) /\ runs[r].verdict = v
      BY <1>0, <2>1 DEF Announced
    <3>2. \A u \in Ticks : Emitting(u, r, v) => tick'[u].pc # "unlock"
      BY <1>0, <1>5, <2>1 DEF Announced
    <3> QED BY <1>1, <1>4, <3>1, <3>2
  <2>2. CASE /\ runs[r].status = "running" /\ UNCHANGED notes
             /\ runs'[r].status = "completed" /\ runs'[r].verdict = v
    <3>1. notes[r][v] = 0
      BY <1>0, <2>2 DEF Announced, Over
    <3> QED BY <2>2, <3>1
  <2> QED BY <1>2, <1>5, <2>1, <2>2
<1>6. notes'[r][v] # 0 => notes'[r][v] = 1 /\ runs'[r].status = "completed" /\ runs'[r].verdict = v
  <2>1. CASE notes'[r][v] = notes[r][v]
    BY <1>0, <1>1, <2>1 DEF Announced
  <2>2. ASSUME NEW t \in Ticks, Emitting(t, r, v), notes'[r][v] = notes[r][v] + 1
        PROVE  notes'[r][v] = 1 /\ runs'[r].status = "completed" /\ runs'[r].verdict = v
    <3>1. notes[r][v] = 0 /\ Over(r) /\ runs[r].verdict = v
      BY <1>0, <2>2 DEF Announced
    <3> QED BY <1>1, <2>2, <3>1
  <2> QED BY <1>4, <2>1, <2>2
<1>7. \A t \in Ticks : Emitting(t, r, v)' <=> New(t)
  BY DEF Emitting, Work
<1> HIDE DEF New
<1> QED BY <1>3, <1>5, <1>6, <1>7 DEF Announced, Over

\* At first nothing was announced.
LEMMA AnnouncedInit == AutomationInit => AnnouncedInv
BY DEF AutomationInit, AutomationRecordsInit, ChildrenInit, RunnerInit, IdleTick, AnnouncedInv, Announced,
   Emitting

(* A run is announced once at most, and as what its row says: the guarded    *)
(* write that completes it has one winner, and only the winner announces.    *)
THEOREM AnnouncedSafe == AutomationSpec => []AnnouncedOnce
<1>1. ASSUME Typed, AnnouncedInv PROVE AnnouncedOnce
  <2> SUFFICES ASSUME NEW r \in Keys, NEW v \in Verdicts
               PROVE  notes[r][v] + Cardinality({t \in Ticks : TickAt(t, "emit") /\ Work(t) = r
                                                    /\ tick[t].verdict = v})
                        <= IF runs[r].status = "completed" /\ runs[r].verdict = v THEN 1 ELSE 0
    BY DEF AnnouncedOnce
  <2> DEFINE E == {t \in Ticks : TickAt(t, "emit") /\ Work(t) = r /\ tick[t].verdict = v}
  <2>1. Announced(r, v)
    BY <1>1 DEF AnnouncedInv
  <2>2. notes[r][v] \in Nat
    BY <1>1 DEF Typed, AutomationRecordsTypeOK
  <2>3. E = {t \in Ticks : Emitting(t, r, v)}
    BY DEF Emitting, TickAt
  <2>4. CASE E = {}
    <3>1. Cardinality(E) = 0
      BY <2>4, FS_EmptySet
    <3> HIDE DEF E
    <3>2. notes[r][v] + Cardinality(E) <= IF runs[r].status = "completed" /\ runs[r].verdict = v THEN 1 ELSE 0
      BY <2>1, <2>2, <3>1 DEF Announced, Over
    <3> QED BY <3>2 DEF E
  <2>5. CASE E # {}
    <3>1. PICK t \in Ticks : Emitting(t, r, v)
      BY <2>3, <2>5
    <3>2. E = {t}
      BY <2>1, <2>3, <3>1 DEF Announced
    <3>3. Cardinality(E) = 1
      BY <3>2, FS_Singleton
    <3> HIDE DEF E
    <3>4. notes[r][v] + Cardinality(E) <= IF runs[r].status = "completed" /\ runs[r].verdict = v THEN 1 ELSE 0
      BY <2>1, <2>2, <3>1, <3>3 DEF Announced, Over
    <3> QED BY <3>4 DEF E
  <2> QED BY <2>4, <2>5
<1>2. Typed /\ QueueInv /\ AnnouncedInv /\ [AutomationNext]_automationVars => AnnouncedInv'
  BY AnnouncedStep
<1> QED BY <1>1, <1>2, AnnouncedInit, CheckedAlways, PTL DEF AutomationSpec
=============================================================================
