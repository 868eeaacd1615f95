----------------------- MODULE AutomationQueueProofs -----------------------
(***************************************************************************)
(* The queue of automation runs, for any number of runs, sources, callers  *)
(* and overlapping ticks: types, one run of a source at a time, and        *)
(* verdicts that stand.  The row lock of a promotion is what the argument  *)
(* turns on: while a tick holds the lock of a source, none of its runs is  *)
(* running, and none can begin to.                                         *)
(***************************************************************************)
EXTENDS AutomationRunner, FiniteSetTheorems, TLAPS

-----------------------------------------------------------------------------
(* Types.  A tick that writes a row, or a caller that does, must have one:  *)
(* TickOK and CallerOK say when they do.                                    *)

WorkPcs == {"promote", "load", "cancelOwn", "unlock"} \cup AdvancePcs

TickOK(v) ==
    /\ v \in Tick
    /\ v.pc \in WorkPcs => v.run \in Keys
    /\ v.pc \in {"pick", "promote"} => v.src \in Sources
    /\ v.pc \in {"record", "cancelOwn"} => v.made \in Children

CallerOK(v) ==
    /\ v \in Caller
    /\ v.pc \in {"write", "children"} => v.run \in Keys
    /\ v.pc \in {"find", "create"} => v.key \in Keys

TicksOK == tick \in [Ticks -> Tick] /\ \A t \in Ticks : TickOK(tick[t])
CallersOK == caller \in [Callers -> Caller] /\ \A c \in Callers : CallerOK(caller[c])
RestOK == locked \subseteq Sources /\ faults \in 0..MaxFaults

Typed == AutomationRecordsTypeOK /\ TicksOK /\ CallersOK /\ RestOK

-----------------------------------------------------------------------------
(* Facts about the values the actions write. *)

\* The record of an idle tick is well formed.
LEMMA IdleTickOK == TickOK(IdleTick)
BY RecordsAssumption DEF TickOK, IdleTick, Tick, TickPcs, AdvancePcs, WorkPcs, Steps, AutomationSteps, Verdicts

\* So is that of an idle caller.
LEMMA IdleCallerOK == CallerOK(IdleCaller)
BY DEF CallerOK, IdleCaller, Caller, CallerPcs

\* A tick that takes a well-formed record keeps all ticks well formed.
LEMMA SetTick ==
    ASSUME TicksOK, NEW t \in Ticks, NEW v, TickOK(v), tick' = [tick EXCEPT ![t] = v]
    PROVE  TicksOK'
BY DEF TicksOK, TickOK

\* What advance keeps when it drops its copy of the row is well formed.
LEMMA ForgetOK ==
    ASSUME TicksOK, NEW t \in Ticks, tick[t].run \in Keys, NEW pc \in TickPcs,
           pc \notin {"pick", "promote", "record", "cancelOwn"},
           NEW step \in Steps, NEW v \in Verdicts
    PROVE  TickOK([Forget(t, pc) EXCEPT !.step = step, !.verdict = v])
           /\ TickOK([Forget(t, pc) EXCEPT !.step = step]) 
           /\ TickOK([Forget(t, pc) EXCEPT !.verdict = v]) 
           /\ TickOK(Forget(t, pc))
BY IdleTickOK DEF TicksOK, TickOK, Forget, Work, IdleTick, Tick

\* Leave, Conclude and StepEnds keep the ticks well formed.
LEMMA TickEnds ==
    ASSUME TicksOK, NEW t \in Ticks, tick[t].pc \in WorkPcs, NEW v \in Verdicts,
           Leave(t) \/ Conclude(t, v) \/ StepEnds(t)
    PROVE  TicksOK'
<1>1. tick[t].run \in Keys /\ tick[t].step \in Steps
  BY DEF TicksOK, TickOK, Tick
<1>2. CASE Leave(t)
  <2>1. TickOK(Forget(t, "unlock"))
    BY <1>1, ForgetOK DEF TickPcs
  <2> QED BY <2>1, <1>2, SetTick DEF Leave
<1>3. CASE Conclude(t, v)
  <2>1. TickOK([Forget(t, "finish") EXCEPT !.verdict = v])
    BY <1>1, ForgetOK DEF TickPcs, AdvancePcs
  <2> QED BY <2>1, <1>3, SetTick DEF Conclude
<1>4. CASE StepEnds(t)
  <2>1. TickOK([Forget(t, "next") EXCEPT !.step = tick[t].step])
    BY <1>1, ForgetOK DEF TickPcs, AdvancePcs
  <2> QED BY <2>1, <1>4, SetTick DEF StepEnds
<1> QED BY <1>2, <1>3, <1>4

\* A row that is well formed may be written to the table.
LEMMA SetRunTypes ==
    ASSUME AutomationRecordsTypeOK, NEW r \in Keys, NEW f \in AutomationRun, SetRun(r, f)
    PROVE  runs' \in [Keys -> AutomationRun]
BY DEF AutomationRecordsTypeOK, SetRun

-----------------------------------------------------------------------------
(* The initial state, and the steps of a tick. *)

\* Initially everything is well formed.
LEMMA TypedInit == AutomationInit => Typed
<1> SUFFICES ASSUME AutomationInit PROVE Typed
  OBVIOUS
<1>1. AutomationRecordsTypeOK
  BY RecordsAssumption DEF AutomationInit, AutomationRecordsInit, ChildrenInit, AutomationRecordsTypeOK,
     AutomationRun, RunStatus, Steps, AutomationSteps, Verdicts, NoRun, Child, ChildStatus
<1>2. TicksOK /\ CallersOK
  BY IdleTickOK, IdleCallerOK DEF AutomationInit, RunnerInit, TicksOK, CallersOK, TickOK, CallerOK
<1>3. RestOK
  BY RunnerAssumption DEF AutomationInit, RunnerInit, RestOK
<1> QED BY <1>1, <1>2, <1>3 DEF Typed

\* Promotion keeps everything well formed.
LEMMA PromotionTyped ==
    ASSUME Typed, NEW t \in Ticks, Promotion(t)
    PROVE  Typed'
<1>0. TicksOK /\ TickOK(tick[t]) /\ AutomationRecordsTypeOK /\ CallersOK /\ RestOK
  BY DEF Typed, TicksOK
<1>1. CASE TickBegin(t)
  <2>1. {SourceOfRun(r) : r \in {q \in Keys : runs[q].status = "pending"}} \subseteq Sources
    BY RecordsAssumption DEF SourceOfRun
  <2>2. PICK v : v = [IdleTick EXCEPT !.pc = "lock",
                 !.srcs = {SourceOfRun(r) : r \in {q \in Keys : runs[q].status = "pending"}}]
    OBVIOUS
  <2>3. TickOK(v)
    BY <2>1, <2>2, IdleTickOK DEF TickOK, IdleTick, Tick, TickPcs, WorkPcs, AdvancePcs
  <2>4. TicksOK'
    BY <1>0, <1>1, <2>2, <2>3, SetTick DEF TickBegin
  <2> QED BY <1>0, <1>1, <2>4 DEF TickBegin, Typed, automationRecords, AutomationRecordsTypeOK, CallersOK, CallerOK, RestOK
<1>2. CASE PromoteLock(t)
  <2>1. PICK s \in tick[t].srcs \ locked :
          IF Busy(s)
          THEN tick' = [tick EXCEPT ![t] = [tick[t] EXCEPT !.srcs = @ \ {s}]] /\ UNCHANGED locked
          ELSE /\ tick' = [tick EXCEPT ![t] = [[tick[t] EXCEPT !.srcs = @ \ {s}]
                                                   EXCEPT !.pc = "pick", !.src = s]]
               /\ locked' = locked \cup {s}
    BY <1>2 DEF PromoteLock
  <2>2. s \in Sources
    BY <1>0 DEF TickOK, Tick
  <2>3. TickOK([tick[t] EXCEPT !.srcs = @ \ {s}])
    BY <1>0 DEF TickOK, Tick
  <2>4. TickOK([[tick[t] EXCEPT !.srcs = @ \ {s}] EXCEPT !.pc = "pick", !.src = s])
    BY <1>0, <2>2 DEF TickOK, Tick, TickPcs, WorkPcs, AdvancePcs
  <2>5. TicksOK' /\ RestOK'
    <3>1. CASE Busy(s)
      BY <1>0, <2>1, <2>3, <3>1, <1>2, SetTick DEF RestOK, PromoteLock
    <3>2. CASE ~Busy(s)
      BY <1>0, <2>1, <2>2, <2>4, <3>2, <1>2, SetTick DEF RestOK, PromoteLock
    <3> QED BY <3>1, <3>2
  <2> QED BY <1>0, <1>2, <2>5 DEF PromoteLock, Typed, automationRecords, AutomationRecordsTypeOK, CallersOK
<1>3. PromoteOver(t) => TicksOK'
  <2>0. tick[t].srcs \in SUBSET Sources
    BY <1>0 DEF TickOK, Tick
  <2>1. TickOK([IdleTick EXCEPT !.pc = "lock", !.srcs = tick[t].srcs])
    BY <2>0, IdleTickOK DEF TickOK, IdleTick, Tick, TickPcs, WorkPcs, AdvancePcs
  <2> QED BY <1>0, <2>1, SetTick DEF PromoteOver
<1>4. CASE PromotePick(t)
  <2>1. CASE PromoteOver(t) /\ Unlock(t)
    BY <1>0, <1>3, <1>4, <2>1
    DEF PromotePick, Unlock, Typed, automationRecords, AutomationRecordsTypeOK, CallersOK, RestOK
  <2>2. CASE /\ \E r \in Oldest(tick[t].src) : tick' = [tick EXCEPT ![t].pc = "promote", ![t].run = r]
             /\ UNCHANGED locked
    <3>1. PICK r \in Keys : tick' = [tick EXCEPT ![t] = [tick[t] EXCEPT !.pc = "promote", !.run = r]]
      BY <2>2 DEF Oldest
    <3>2. TickOK([tick[t] EXCEPT !.pc = "promote", !.run = r])
      BY <1>0, <1>4 DEF PromotePick, TickAt, TickOK, Tick, TickPcs, AdvancePcs
    <3>3. TicksOK'
      BY <1>0, <3>1, <3>2, SetTick
    <3> QED BY <1>0, <1>4, <2>2, <3>3
        DEF PromotePick, Typed, automationRecords, AutomationRecordsTypeOK, CallersOK, RestOK
  <2> QED BY <1>4, <2>1, <2>2 DEF PromotePick
<1>5. CASE PromoteCommit(t)
  <2>1. Work(t) \in Keys
    BY <1>0, <1>5 DEF PromoteCommit, TickAt, TickOK, WorkPcs, Work
  <2>2. PICK s \in Steps : SetRun(Work(t), [runs[Work(t)] EXCEPT !.status = "running", !.step = s])
    BY <1>5 DEF PromoteCommit
  <2>3. [runs[Work(t)] EXCEPT !.status = "running", !.step = s] \in AutomationRun
    BY <1>0, <2>1 DEF AutomationRecordsTypeOK, AutomationRun, RunStatus
  <2>4. runs' \in [Keys -> AutomationRun]
    BY <1>0, <2>1, <2>2, <2>3, SetRunTypes
  <2> QED BY <1>0, <1>3, <1>5, <2>4
      DEF PromoteCommit, Unlock, Typed, AutomationRecordsTypeOK, CallersOK, RestOK
<1> QED BY <1>1, <1>2, <1>4, <1>5 DEF Promotion

\* So does the loop over the running rows.
LEMMA IterationTyped ==
    ASSUME Typed, NEW t \in Ticks, Iteration(t)
    PROVE  Typed'
<1>0. TicksOK /\ TickOK(tick[t]) /\ AutomationRecordsTypeOK /\ CallersOK /\ RestOK
  BY DEF Typed, TicksOK
<1>1. CASE TickScan(t)
  <2>1. TickOK([IdleTick EXCEPT !.pc = "lease", !.todo = {r \in Keys : runs[r].status = "running"}])
    BY IdleTickOK DEF TickOK, IdleTick, Tick, TickPcs, WorkPcs, AdvancePcs
  <2>2. TicksOK'
    BY <1>0, <1>1, <2>1, SetTick DEF TickScan
  <2> QED BY <1>0, <1>1, <2>2 DEF TickScan, Typed, automationRecords, AutomationRecordsTypeOK, CallersOK, RestOK
<1>2. CASE AcquireLease(t)
  <2>1. PICK r \in tick[t].todo :
          IF runs[r].status = "running" /\ runs[r].lease # "held"
          THEN /\ SetRun(r, [runs[r] EXCEPT !.lease = "held"])
               /\ tick' = [tick EXCEPT ![t] = [[tick[t] EXCEPT !.todo = @ \ {r}]
                                                   EXCEPT !.pc = "load", !.run = r]]
          ELSE UNCHANGED runs /\ tick' = [tick EXCEPT ![t] = [tick[t] EXCEPT !.todo = @ \ {r}]]
    BY <1>2 DEF AcquireLease
  <2>2. r \in Keys
    BY <1>0 DEF TickOK, Tick
  <2>3. TickOK([tick[t] EXCEPT !.todo = @ \ {r}])
    BY <1>0 DEF TickOK, Tick
  <2>4. TickOK([[tick[t] EXCEPT !.todo = @ \ {r}] EXCEPT !.pc = "load", !.run = r])
    BY <1>0, <2>2 DEF TickOK, Tick, TickPcs, WorkPcs, AdvancePcs
  <2>5. [runs[r] EXCEPT !.lease = "held"] \in AutomationRun
    BY <1>0, <2>2 DEF AutomationRecordsTypeOK, AutomationRun
  <2>6. TicksOK' /\ runs' \in [Keys -> AutomationRun]
    <3>1. CASE runs[r].status = "running" /\ runs[r].lease # "held"
      BY <1>0, <2>1, <2>2, <2>4, <2>5, <3>1, SetTick, SetRunTypes
    <3>2. CASE ~(runs[r].status = "running" /\ runs[r].lease # "held")
      BY <1>0, <2>1, <2>3, <3>2, SetTick DEF AutomationRecordsTypeOK
    <3> QED BY <3>1, <3>2
  <2> QED BY <1>0, <1>2, <2>6 DEF AcquireLease, Typed, AutomationRecordsTypeOK, CallersOK, RestOK
<1>3. CASE TickEnd(t)
  BY <1>0, <1>3, IdleTickOK, SetTick
  DEF TickEnd, Typed, automationRecords, AutomationRecordsTypeOK, CallersOK, RestOK
<1>4. CASE AdvanceLoad(t)
  <2>1. Work(t) \in Keys
    BY <1>0, <1>4 DEF AdvanceLoad, TickAt, TickOK, WorkPcs, Work
  <2>2. tick' = [tick EXCEPT ![t] = [tick[t] EXCEPT !.pc = "act", !.step = runs[Work(t)].step,
                                        !.eval = runs[Work(t)].eval, !.bench = runs[Work(t)].bench]]
    BY <1>4 DEF AdvanceLoad
  <2>3. TickOK([tick[t] EXCEPT !.pc = "act", !.step = runs[Work(t)].step,
                               !.eval = runs[Work(t)].eval, !.bench = runs[Work(t)].bench])
    BY <1>0, <2>1 DEF TickOK, Tick, TickPcs, WorkPcs, AdvancePcs, Work, AutomationRecordsTypeOK, AutomationRun
  <2>4. TicksOK'
    BY <1>0, <2>2, <2>3, SetTick
  <2> QED BY <1>0, <1>4, <2>4
      DEF AdvanceLoad, Typed, automationRecords, AutomationRecordsTypeOK, CallersOK, RestOK
<1>5. CASE ClearLease(t)
  <2>1. Work(t) \in Keys
    BY <1>0, <1>5 DEF ClearLease, TickAt, TickOK, WorkPcs, Work
  <2>2. runs' \in [Keys -> AutomationRun]
    <3>1. [runs[Work(t)] EXCEPT !.lease = "free"] \in AutomationRun
      BY <1>0, <2>1 DEF AutomationRecordsTypeOK, AutomationRun
    <3>2. runs' = [runs EXCEPT ![Work(t)] = [runs[Work(t)] EXCEPT !.lease = "free"]] \/ runs' = runs
      BY <1>5 DEF ClearLease
    <3> QED BY <1>0, <2>1, <3>1, <3>2 DEF AutomationRecordsTypeOK
  <2>0. tick[t].todo \in SUBSET Keys
    BY <1>0 DEF TickOK, Tick
  <2>3. TickOK([IdleTick EXCEPT !.pc = "lease", !.todo = tick[t].todo])
    BY <2>0, IdleTickOK DEF TickOK, IdleTick, Tick, TickPcs, WorkPcs, AdvancePcs
  <2>4. TicksOK'
    BY <1>0, <1>5, <2>3, SetTick DEF ClearLease
  <2> QED BY <1>0, <1>5, <2>2, <2>4 DEF ClearLease, Typed, AutomationRecordsTypeOK, CallersOK, RestOK
<1> QED BY <1>1, <1>2, <1>3, <1>4, <1>5 DEF Iteration

\* Asking for a cancellation keeps the children well formed.
LEMMA AskTypes ==
    ASSUME AutomationRecordsTypeOK, NEW cs, Ask(cs)
    PROVE  child' \in [Children -> Child]
<1>1. PICK stopped \in SUBSET {c \in cs : child[c].status = "active"} :
        child' = [c \in Children |->
                    IF c \in cs
                    THEN [child[c] EXCEPT !.asked = TRUE,
                             !.status = IF c \in stopped THEN "bad" ELSE @]
                    ELSE child[c]]
  BY DEF Ask
<1>2. \A c \in Children : child[c] \in Child
  BY DEF AutomationRecordsTypeOK
<1>3. ASSUME NEW c \in Children
      PROVE  [child[c] EXCEPT !.asked = TRUE,
                 !.status = IF c \in stopped THEN "bad" ELSE @] \in Child
  <2>1. (IF c \in stopped THEN "bad" ELSE child[c].status) \in ChildStatus
    BY <1>2 DEF Child, ChildStatus
  <2> QED BY <1>2, <2>1 DEF Child
<1> QED BY <1>1, <1>2, <1>3

\* The steps that create a child, record it or give it back.
LEMMA ChildStepsTyped ==
    ASSUME Typed, NEW t \in Ticks, CreateChild(t) \/ RecordChild(t) \/ CancelOwn(t)
    PROVE  Typed'
<1>0. TicksOK /\ TickOK(tick[t]) /\ AutomationRecordsTypeOK /\ CallersOK /\ RestOK
  BY DEF Typed, TicksOK
<1>1. tick[t].pc \in WorkPcs /\ Work(t) \in Keys
  BY <1>0 DEF CreateChild, RecordChild, CancelOwn, TickAt, TickOK, WorkPcs, AdvancePcs, Work
<1>2. CASE CreateChild(t)
  <2>1. PICK c \in Children :
          /\ child' = [child EXCEPT ![c] = [child[c] EXCEPT !.status = "active",
                          !.of = Work(t), !.kind = KindOf(tick[t].step)]]
          /\ tick' = [tick EXCEPT ![t] = [Forget(t, "record") EXCEPT
                                              !.step = tick[t].step, !.made = c]]
    BY <1>2 DEF CreateChild, FreeChildren
  <2>2. child' \in [Children -> Child]
    <3>1. [child[c] EXCEPT !.status = "active", !.of = Work(t), !.kind = KindOf(tick[t].step)]
             \in Child
      BY <1>0, <1>1 DEF AutomationRecordsTypeOK, Child, ChildStatus, KindOf
    <3> QED BY <1>0, <2>1, <3>1 DEF AutomationRecordsTypeOK
  <2>3. TickOK([Forget(t, "record") EXCEPT !.step = tick[t].step, !.made = c])
    <3>1. tick[t].todo \in SUBSET Keys /\ tick[t].step \in Steps
      BY <1>0 DEF TickOK, Tick
    <3> QED BY <1>1, <3>1, IdleTickOK DEF TickOK, Forget, IdleTick, Tick, TickPcs, AdvancePcs, Work
  <2>4. TicksOK'
    BY <1>0, <2>1, <2>3, SetTick
  <2> QED BY <1>0, <1>2, <2>2, <2>4 DEF CreateChild, Typed, AutomationRecordsTypeOK, CallersOK, RestOK
<1>3. CASE RecordChild(t)
  <2>1. tick[t].made \in Children
    BY <1>0, <1>3 DEF RecordChild, TickAt, TickOK
  <2>2. [runs[Work(t)] EXCEPT !.eval = tick[t].made] \in AutomationRun
        /\ [runs[Work(t)] EXCEPT !.bench = tick[t].made] \in AutomationRun
    BY <1>0, <1>1, <2>1 DEF AutomationRecordsTypeOK, AutomationRun
  <2>3. runs' \in [Keys -> AutomationRun]
    <3>1. CASE UNCHANGED runs
      BY <1>0, <3>1 DEF AutomationRecordsTypeOK
    <3>2. CASE ~UNCHANGED runs
      BY <1>0, <1>1, <1>3, <2>2, <3>2, SetRunTypes DEF RecordChild
    <3> QED BY <3>1, <3>2
  <2>4. TicksOK'
    <3>1. CASE Leave(t)
      BY <1>0, <1>1, <3>1, TickEnds DEF Verdicts
    <3>2. CASE TickGoto(t, "cancelOwn")
      <4>1. TickOK([tick[t] EXCEPT !.pc = "cancelOwn"])
        BY <1>0, <1>1, <2>1 DEF TickOK, Tick, TickPcs, WorkPcs, Work
      <4> QED BY <1>0, <3>2, <4>1, SetTick DEF TickGoto
    <3> QED BY <1>3, <3>1, <3>2 DEF RecordChild
  <2> QED BY <1>0, <1>3, <2>3, <2>4 DEF RecordChild, Typed, AutomationRecordsTypeOK, CallersOK, RestOK
<1>4. CASE CancelOwn(t)
  <2>1. child' \in [Children -> Child]
    BY <1>0, <1>4, AskTypes DEF CancelOwn
  <2>2. TicksOK'
    BY <1>0, <1>1, <1>4, TickEnds DEF CancelOwn, Verdicts
  <2> QED BY <1>0, <1>4, <2>1, <2>2 DEF CancelOwn, Typed, AutomationRecordsTypeOK, CallersOK, RestOK
<1> QED BY <1>2, <1>3, <1>4

\* The other steps of advance.
LEMMA AdvanceTyped ==
    ASSUME Typed, NEW t \in Ticks, Advance(t)
    PROVE  Typed'
<1>0. TicksOK /\ TickOK(tick[t]) /\ AutomationRecordsTypeOK /\ CallersOK /\ RestOK
  BY DEF Typed, TicksOK
<1>a. tick[t].pc \in WorkPcs
  BY DEF Advance, NoStep, RunDiagnostics, RecordDiagnostics, CreateChild, RecordChild, CancelOwn,
     PollWait, PollOk, PollBad, Polling, Compare, NextStep, Finish, Emit, AdvanceError,
     StepIs, TickAt, WorkPcs, AdvancePcs
<1>b. Work(t) \in Keys
  BY <1>0, <1>a DEF TickOK, Work
<1>1. CASE NoStep(t) \/ PollWait(t) \/ PollOk(t) \/ PollBad(t)
  <2>1. TicksOK'
    BY <1>0, <1>a, <1>1, TickEnds DEF NoStep, PollWait, PollOk, PollBad, Verdicts
  <2> QED BY <1>0, <1>1, <2>1
      DEF NoStep, PollWait, PollOk, PollBad, Typed, automationRecords, AutomationRecordsTypeOK, CallersOK, RestOK
<1>2. CASE RunDiagnostics(t)
  <2>1. PICK v \in {"passed", "failed"} :
          tick' = [tick EXCEPT ![t] = [Forget(t, "diagnosed") EXCEPT !.step = "diagnostics", !.verdict = v]]
    BY <1>2 DEF RunDiagnostics
  <2>2. TickOK([Forget(t, "diagnosed") EXCEPT !.step = "diagnostics", !.verdict = v])
    BY <1>0, <1>b, ForgetOK DEF TickPcs, AdvancePcs, Steps, AutomationSteps, Verdicts, Work
  <2>3. TicksOK'
    BY <1>0, <2>1, <2>2, SetTick
  <2> QED BY <1>0, <1>2, <2>3
      DEF RunDiagnostics, Typed, automationRecords, AutomationRecordsTypeOK, CallersOK, RestOK
<1>3. CASE RecordDiagnostics(t)
  <2>1. PICK d \in {"ok", "failed"} : SetRun(Work(t), [runs[Work(t)] EXCEPT !.diagnosed = @ \cup {d}])
    BY <1>3 DEF RecordDiagnostics
  <2>2. [runs[Work(t)] EXCEPT !.diagnosed = @ \cup {d}] \in AutomationRun
    BY <1>0, <1>b DEF AutomationRecordsTypeOK, AutomationRun
  <2>3. runs' \in [Keys -> AutomationRun]
    BY <1>0, <1>b, <2>1, <2>2, SetRunTypes
  <2>4. TicksOK'
    BY <1>0, <1>a, <1>3, TickEnds DEF RecordDiagnostics, Verdicts
  <2> QED BY <1>0, <1>3, <2>3, <2>4
      DEF RecordDiagnostics, Typed, AutomationRecordsTypeOK, CallersOK, RestOK
<1>4. CASE Compare(t)
  <2>1. TicksOK'
    BY <1>0, <1>a, <1>4, TickEnds DEF Compare, Verdicts
  <2>2. baselines' \subseteq Models
    BY <1>0, <1>b, <1>4, RecordsAssumption DEF Compare, AutomationRecordsTypeOK
  <2> QED BY <1>0, <1>4, <2>1, <2>2 DEF Compare, Typed, AutomationRecordsTypeOK, CallersOK, RestOK
<1>5. CASE NextStep(t)
  <2>1. runs' \in [Keys -> AutomationRun]
    <3>1. CASE UNCHANGED runs
      BY <1>0, <3>1 DEF AutomationRecordsTypeOK
    <3>2. CASE ~UNCHANGED runs
      <4>1. PICK s \in Steps : SetRun(Work(t), [runs[Work(t)] EXCEPT !.step = s])
        BY <1>5, <3>2 DEF NextStep
      <4>2. [runs[Work(t)] EXCEPT !.step = s] \in AutomationRun
        BY <1>0, <1>b DEF AutomationRecordsTypeOK, AutomationRun
      <4> QED BY <1>0, <1>b, <4>1, <4>2, SetRunTypes
    <3> QED BY <3>1, <3>2
  <2>2. TicksOK'
    BY <1>0, <1>a, <1>5, TickEnds DEF NextStep, Verdicts
  <2> QED BY <1>0, <1>5, <2>1, <2>2 DEF NextStep, Typed, AutomationRecordsTypeOK, CallersOK, RestOK
<1>6. CASE Finish(t)
  <2>1. [runs[Work(t)] EXCEPT !.status = "completed", !.verdict = tick[t].verdict,
                              !.step = "end", !.lease = "free"] \in AutomationRun
    <3>1. tick[t].verdict \in Verdicts
      BY <1>0 DEF TickOK, Tick
    <3> QED BY <1>0, <1>b, <3>1 DEF AutomationRecordsTypeOK, AutomationRun, RunStatus, Steps
  <2>2. runs' \in [Keys -> AutomationRun]
    <3>1. CASE UNCHANGED runs
      BY <1>0, <3>1 DEF AutomationRecordsTypeOK
    <3>2. CASE ~UNCHANGED runs
      BY <1>0, <1>b, <1>6, <2>1, <3>2, SetRunTypes DEF Finish
    <3> QED BY <3>1, <3>2
  <2>3. TicksOK'
    <3>1. CASE Leave(t)
      BY <1>0, <1>a, <3>1, TickEnds DEF Verdicts
    <3>2. CASE TickGoto(t, "emit")
      <4>1. TickOK([tick[t] EXCEPT !.pc = "emit"])
        BY <1>0, <1>b DEF TickOK, Tick, TickPcs, WorkPcs, AdvancePcs, Work
      <4> QED BY <1>0, <3>2, <4>1, SetTick DEF TickGoto
    <3> QED BY <1>6, <3>1, <3>2 DEF Finish
  <2> QED BY <1>0, <1>6, <2>2, <2>3 DEF Finish, Typed, AutomationRecordsTypeOK, CallersOK, RestOK
<1>7. CASE Emit(t)
  <2>1. notes' \in [Keys -> [Verdicts -> Nat]]
    BY <1>0, <1>b, <1>7 DEF Emit, AutomationRecordsTypeOK, TickOK, Tick
  <2>2. TicksOK'
    BY <1>0, <1>a, <1>7, TickEnds DEF Emit, Verdicts
  <2> QED BY <1>0, <1>7, <2>1, <2>2 DEF Emit, Typed, AutomationRecordsTypeOK, CallersOK, RestOK
<1>8. CASE AdvanceError(t)
  <2>1. child' \in [Children -> Child]
    <3>1. \A c \in Children : (child[c].lost \/ (TickAt(t, "record") /\ tick[t].made = c)) \in BOOLEAN
      BY <1>0 DEF AutomationRecordsTypeOK, Child
    <3> QED BY <1>0, <1>8, <3>1 DEF AdvanceError, AutomationRecordsTypeOK, Child
  <2>2. TicksOK'
    BY <1>0, <1>a, <1>8, TickEnds DEF AdvanceError, Verdicts
  <2> QED BY <1>0, <1>8, <2>1, <2>2 DEF AdvanceError, Typed, AutomationRecordsTypeOK, CallersOK, RestOK
<1> QED BY <1>1, <1>2, <1>3, <1>4, <1>5, <1>6, <1>7, <1>8, ChildStepsTyped DEF Advance

-----------------------------------------------------------------------------
(* The calls, the world, and the theorem. *)

\* A caller that takes a well-formed record keeps all callers well formed.
LEMMA SetCallerOK ==
    ASSUME CallersOK, NEW c \in Callers, NEW v, CallerOK(v), SetCaller(c, v)
    PROVE  CallersOK'
BY DEF CallersOK, CallerOK, SetCaller

\* Calls that enqueue or cancel begin with what they need.
LEMMA CallerBeginsTyped ==
    ASSUME Typed, NEW c \in Callers, CallerBegins(c)
    PROVE  Typed'
<1>0. TicksOK /\ AutomationRecordsTypeOK /\ CallersOK /\ RestOK
  BY DEF Typed
<1>1. CASE CancelCall(c)
  <2>1. PICK rs : rs \subseteq Keys /\ SetCaller(c, [IdleCaller EXCEPT !.pc = "read", !.todo = rs])
    BY <1>1 DEF CancelCall, ActiveRuns
  <2>2. CallerOK([IdleCaller EXCEPT !.pc = "read", !.todo = rs])
    BY <2>1 DEF CallerOK, IdleCaller, Caller, CallerPcs
  <2>3. CallersOK'
    BY <1>0, <2>1, <2>2, SetCallerOK
  <2> QED BY <1>0, <1>1, <2>3
      DEF CancelCall, Typed, automationRecords, AutomationRecordsTypeOK, TicksOK, RestOK
<1>2. ASSUME NEW r \in Keys, EnqueueRevision(c, r) \/ EnqueueOther(c, r)
      PROVE  Typed'
  <2>1. CallerOK([IdleCaller EXCEPT !.pc = "find", !.key = r, !.why = "superseded"])
        /\ CallerOK([IdleCaller EXCEPT !.pc = "create", !.key = r])
    BY DEF CallerOK, IdleCaller, Caller, CallerPcs
  <2>2. CallersOK'
    BY <1>0, <1>2, <2>1, SetCallerOK DEF EnqueueRevision, EnqueueOther
  <2> QED BY <1>0, <1>2, <2>2
      DEF EnqueueRevision, EnqueueOther, Typed, automationRecords, AutomationRecordsTypeOK, TicksOK, RestOK
<1> QED BY <1>1, <1>2 DEF CallerBegins

\* A call goes back to its loop, or on to the children, well formed.
LEMMA CallerStepTyped ==
    ASSUME Typed, NEW c \in Callers, CallerStep(c)
    PROVE  Typed'
<1>0. TicksOK /\ AutomationRecordsTypeOK /\ CallersOK /\ RestOK /\ CallerOK(caller[c])
  BY DEF Typed, CallersOK
<1>b. CallerOK(BackToLoop(c))
  BY <1>0 DEF BackToLoop, CallerOK, Caller, CallerPcs
<1>1. CASE EnqueueFind(c)
  <2>1. ActiveRuns(ModelOf[caller[c].key]) \subseteq Keys
    BY DEF ActiveRuns
  <2>2. CallerOK([caller[c] EXCEPT !.pc = "read", !.todo = ActiveRuns(ModelOf[caller[c].key])])
    BY <1>0, <2>1 DEF CallerOK, Caller, CallerPcs
  <2>3. CallersOK'
    BY <1>0, <1>1, <2>2, SetCallerOK DEF EnqueueFind
  <2> QED BY <1>0, <1>1, <2>3
      DEF EnqueueFind, Typed, automationRecords, AutomationRecordsTypeOK, TicksOK, RestOK
<1>2. CASE CancelRead(c)
  <2>1. PICK r \in caller[c].todo :
          SetCaller(c, IF RunActive(r)
                       THEN [[caller[c] EXCEPT !.todo = @ \ {r}] EXCEPT !.pc = "write", !.run = r,
                                !.eval = runs[r].eval, !.bench = runs[r].bench]
                       ELSE [caller[c] EXCEPT !.todo = @ \ {r}])
    BY <1>2 DEF CancelRead
  <2>2. r \in Keys
    BY <1>0 DEF CallerOK, Caller
  <2>3. CallerOK([caller[c] EXCEPT !.todo = @ \ {r}])
    BY <1>0 DEF CallerOK, Caller
  <2>4. CallerOK([[caller[c] EXCEPT !.todo = @ \ {r}] EXCEPT !.pc = "write", !.run = r,
                     !.eval = runs[r].eval, !.bench = runs[r].bench])
    <3>1. runs[r].eval \in Children \cup {NoChild} /\ runs[r].bench \in Children \cup {NoChild}
      BY <1>0, <2>2 DEF AutomationRecordsTypeOK, AutomationRun
    <3> QED BY <1>0, <2>2, <3>1 DEF CallerOK, Caller, CallerPcs
  <2>5. CallersOK'
    BY <1>0, <2>1, <2>3, <2>4, SetCallerOK
  <2> QED BY <1>0, <1>2, <2>5
      DEF CancelRead, Typed, automationRecords, AutomationRecordsTypeOK, TicksOK, RestOK
<1>3. CASE CancelWrite(c)
  <2>1. caller[c].run \in Keys
    BY <1>0, <1>3 DEF CancelWrite, CallerAt, CallerOK
  <2>2. [runs[caller[c].run] EXCEPT !.status = "cancelled", !.verdict = caller[c].why,
                                    !.lease = "free"] \in AutomationRun
    <3>1. caller[c].why \in {"none", "superseded"}
      BY <1>0 DEF CallerOK, Caller
    <3>2. runs[caller[c].run] \in AutomationRun
      BY <1>0, <2>1 DEF AutomationRecordsTypeOK
    <3>3. caller[c].why \in Verdicts \cup {"none", "superseded"} /\ "cancelled" \in RunStatus
      BY <3>1 DEF RunStatus
    <3> QED BY <3>2, <3>3 DEF AutomationRun
  <2>3. runs' \in [Keys -> AutomationRun]
    <3>1. CASE UNCHANGED runs
      BY <1>0, <3>1 DEF AutomationRecordsTypeOK
    <3>2. CASE ~UNCHANGED runs
      BY <1>0, <1>3, <2>1, <2>2, <3>2, SetRunTypes DEF CancelWrite, Cancelled
    <3> QED BY <3>1, <3>2
  <2>4. CallerOK([caller[c] EXCEPT !.pc = "children"])
    BY <1>0, <2>1 DEF CallerOK, Caller, CallerPcs
  <2>5. CallersOK'
    BY <1>0, <1>b, <1>3, <2>4, SetCallerOK DEF CancelWrite
  <2> QED BY <1>0, <1>3, <2>3, <2>5
      DEF CancelWrite, Typed, AutomationRecordsTypeOK, TicksOK, RestOK
<1>4. CASE CancelChildren(c)
  <2>1. child' \in [Children -> Child]
    BY <1>0, <1>4, AskTypes DEF CancelChildren
  <2>2. CallersOK'
    BY <1>0, <1>b, <1>4, SetCallerOK DEF CancelChildren
  <2> QED BY <1>0, <1>4, <2>1, <2>2
      DEF CancelChildren, Typed, AutomationRecordsTypeOK, TicksOK, RestOK
<1>5. CASE CancelDone(c)
  <2>1. caller[c].key # NoKey => CallerOK([IdleCaller EXCEPT !.pc = "create", !.key = caller[c].key])
    <3>1. caller[c].key \in Keys \cup {NoKey}
      BY <1>0 DEF CallerOK, Caller
    <3> QED BY <3>1 DEF CallerOK, IdleCaller, Caller, CallerPcs
  <2>2. CallersOK'
    BY <1>0, <1>5, <2>1, IdleCallerOK, SetCallerOK DEF CancelDone
  <2> QED BY <1>0, <1>5, <2>2
      DEF CancelDone, Typed, automationRecords, AutomationRecordsTypeOK, TicksOK, RestOK
<1>6. CASE EnqueueCreate(c)
  <2>1. Born \in Nat
    <3>1. IsFiniteSet({r \in Keys : runs[r].status # "none"})
      BY RecordsAssumption, FS_Subset
    <3> QED BY <3>1, FS_CardinalityType DEF Born
  <2>2. caller[c].key \in Keys
    BY <1>0, <1>6 DEF EnqueueCreate, CallerAt, CallerOK
  <2>3. [NoRun EXCEPT !.status = "pending", !.at = Born] \in AutomationRun
    BY <2>1 DEF NoRun, AutomationRun, RunStatus, Steps, Verdicts
  <2>4. runs' \in [Keys -> AutomationRun]
    <3>1. CASE UNCHANGED runs
      BY <1>0, <3>1 DEF AutomationRecordsTypeOK
    <3>2. CASE ~UNCHANGED runs
      BY <1>0, <1>6, <2>2, <2>3, <3>2, SetRunTypes DEF EnqueueCreate
    <3> QED BY <3>1, <3>2
  <2>5. CallersOK'
    BY <1>0, <1>6, IdleCallerOK, SetCallerOK DEF EnqueueCreate
  <2> QED BY <1>0, <1>6, <2>4, <2>5 DEF EnqueueCreate, Typed, AutomationRecordsTypeOK, TicksOK, RestOK
<1> QED BY <1>1, <1>2, <1>3, <1>4, <1>5, <1>6 DEF CallerStep

\* Faults, leases that run out and children that end keep everything well formed.
LEMMA WorldTyped ==
    ASSUME Typed
    PROVE  /\ \A t \in Ticks : TickThrows(t) => Typed'
           /\ \A r \in Keys : LeaseExpires(r) => Typed'
           /\ \A c \in Children : ChildEnds(c) => Typed'
           /\ Restart => Typed'
<1>0. TicksOK /\ AutomationRecordsTypeOK /\ CallersOK /\ RestOK
  BY DEF Typed
<1>f. faults < MaxFaults /\ faults' = faults + 1 => faults' \in 0..MaxFaults
  BY <1>0, RunnerAssumption DEF RestOK
<1>1. ASSUME NEW t \in Ticks, TickThrows(t) PROVE Typed'
  <2>1. TicksOK'
    BY <1>0, <1>1, IdleTickOK, SetTick DEF TickThrows
  <2> QED BY <1>0, <1>f, <1>1, <2>1
      DEF TickThrows, Unlock, Typed, automationRecords, AutomationRecordsTypeOK, CallersOK, RestOK
<1>2. ASSUME NEW r \in Keys, LeaseExpires(r) PROVE Typed'
  <2>1. [runs[r] EXCEPT !.lease = "expired"] \in AutomationRun
    BY <1>0 DEF AutomationRecordsTypeOK, AutomationRun
  <2>2. runs' \in [Keys -> AutomationRun]
    BY <1>0, <1>2, <2>1, SetRunTypes DEF LeaseExpires
  <2>3. RestOK'
    BY <1>0, <1>f, <1>2 DEF LeaseExpires, RestOK
  <2> QED BY <1>0, <1>2, <2>2, <2>3 DEF LeaseExpires, Typed, AutomationRecordsTypeOK, TicksOK, CallersOK
<1>3. ASSUME NEW c \in Children, ChildEnds(c) PROVE Typed'
  <2>1. PICK s \in ChildStatus : child' = [child EXCEPT ![c].status = s]
    BY <1>3 DEF ChildEnds, ChildStatus
  <2>2. child' \in [Children -> Child]
    BY <1>0, <2>1 DEF AutomationRecordsTypeOK, Child
  <2> QED BY <1>0, <1>3, <2>2
      DEF ChildEnds, runnerVars, Typed, AutomationRecordsTypeOK, TicksOK, CallersOK, RestOK
<1>4. ASSUME Restart PROVE Typed'
  <2>1. TicksOK' /\ CallersOK'
    BY <1>4, IdleTickOK, IdleCallerOK DEF Restart, TicksOK, CallersOK, TickOK, CallerOK
  <2>2. child' \in [Children -> Child]
    <3>1. \A c \in Children :
            (child[c].lost \/ \E t \in Ticks : tick[t].pc \in {"record", "cancelOwn"} /\ tick[t].made = c)
               \in BOOLEAN
      BY <1>0 DEF AutomationRecordsTypeOK, Child
    <3> QED BY <1>0, <1>4, <3>1 DEF Restart, AutomationRecordsTypeOK, Child, ChildStatus
  <2> QED BY <1>0, <1>f, <1>4, <2>1, <2>2 DEF Restart, Typed, AutomationRecordsTypeOK, RestOK
<1> QED BY <1>1, <1>2, <1>3, <1>4

\* Every step keeps everything well formed.
LEMMA TypedStep == Typed /\ [AutomationNext]_automationVars => Typed'
<1> SUFFICES ASSUME Typed, [AutomationNext]_automationVars PROVE Typed'
  OBVIOUS
<1>1. CASE UNCHANGED automationVars
  BY <1>1 DEF automationVars, automationRecords, runnerVars, Typed, AutomationRecordsTypeOK,
     TicksOK, CallersOK, RestOK
<1>2. ASSUME NEW t \in Ticks, TickStep(t) PROVE Typed'
  BY <1>2, PromotionTyped, IterationTyped, AdvanceTyped DEF TickStep
<1> QED BY <1>1, <1>2, CallerBeginsTyped, CallerStepTyped, WorldTyped DEF AutomationNext

\* The invariant behind the theorem: types, and a run for every task that needs one.
LEMMA TypedAlways == AutomationSpec => []Typed
BY TypedInit, TypedStep, PTL DEF AutomationSpec

(* Every variable of the pipeline keeps its type: a tick or a call that     *)
(* writes a row always has one, across overlaps, faults and restarts.       *)
THEOREM AutomationTypeCorrect == AutomationSpec => []AutomationTypeOK
<1>1. Typed => AutomationTypeOK
  BY DEF Typed, TicksOK, CallersOK, RestOK, AutomationTypeOK
<1> QED BY <1>1, TypedAlways, PTL

-----------------------------------------------------------------------------
(* The queue. *)

Promoting(t) == tick[t].pc \in {"pick", "promote"}

\* A promotion holds the lock of its source, alone.
LockHeld ==
    \A t \in Ticks : Promoting(t) =>
        /\ tick[t].src \in locked
        /\ \A u \in Ticks : Promoting(u) /\ tick[u].src = tick[t].src => u = t

\* What it saw when it took the lock is still so.
StillQuiet == \A t \in Ticks : Promoting(t) => ~Busy(tick[t].src)

\* The run it picked has not been started since, though it may be cancelled.
Picked ==
    \A t \in Ticks : tick[t].pc = "promote" =>
        /\ SourceOfRun(tick[t].run) = tick[t].src
        /\ runs[tick[t].run].status \in {"pending", "cancelled"}

QueueInv == LockHeld /\ StillQuiet /\ Picked /\ OneRunningPerSource

\* A step that starts no run, and revives none.
StartsNone ==
    \A r \in Keys :
        /\ runs'[r].status = "running" => runs[r].status = "running"
        /\ runs[r].status \in {"pending", "cancelled"} => runs'[r].status \in {"pending", "cancelled"}
        /\ runs[r].status = "completed" =>
              runs'[r].status = "completed" /\ runs'[r].verdict = runs[r].verdict

\* A step in which no tick takes a lock, or moves while it holds one.
TakesNoLock ==
    \A t \in Ticks : Promoting(t)' => tick'[t] = tick[t] /\ locked' = locked

-----------------------------------------------------------------------------
\* Such steps keep the invariant.
LEMMA CalmStep ==
    ASSUME QueueInv, StartsNone, TakesNoLock, Typed
    PROVE  QueueInv'
<1>1. \A t \in Ticks : Promoting(t)' => Promoting(t) /\ tick'[t] = tick[t] /\ locked' = locked
  BY DEF TakesNoLock, Promoting
<1>2. LockHeld'
  BY <1>1 DEF QueueInv, LockHeld
<1>3. StillQuiet'
  <2>1. \A s : Busy(s)' => Busy(s)
    BY DEF StartsNone, Busy, SourceOfRun
  <2> QED BY <1>1, <2>1 DEF QueueInv, StillQuiet
<1>4. Picked'
  <2>1. \A t \in Ticks : tick'[t].pc = "promote" => tick'[t] = tick[t] /\ tick[t].run \in Keys
    BY <1>1 DEF Promoting, Typed, TicksOK, TickOK, WorkPcs
  <2> QED BY <2>1 DEF QueueInv, Picked, StartsNone, SourceOfRun
<1>5. OneRunningPerSource'
  BY DEF QueueInv, OneRunningPerSource, StartsNone, SourceOfRun
<1> QED BY <1>2, <1>3, <1>4, <1>5 DEF QueueInv

\* A row written without a change of status or verdict is a calm write.
LEMMA SameStatus ==
    ASSUME Typed, NEW r \in Keys, NEW f, SetRun(r, f),
           f.status = runs[r].status, f.verdict = runs[r].verdict
    PROVE  StartsNone
BY DEF Typed, AutomationRecordsTypeOK, SetRun, StartsNone

\* A row that was not there, or was active, may be given any other status but running.
LEMMA OtherStatus ==
    ASSUME Typed, NEW r \in Keys, NEW f, SetRun(r, f), f.status # "running",
           \/ runs[r].status = "none"
           \/ runs[r].status = "running"
           \/ runs[r].status = "pending" /\ f.status = "cancelled"
    PROVE  StartsNone
BY DEF Typed, AutomationRecordsTypeOK, SetRun, StartsNone

\* A step that leaves the rows alone is calm.
LEMMA NoWrite == ASSUME UNCHANGED runs PROVE StartsNone
BY DEF StartsNone

\* A tick that is not promoting and does not begin to takes no lock.
LEMMA TickElsewhere ==
    ASSUME Typed, NEW t \in Ticks, NEW v, v.pc \notin {"pick", "promote"},
           tick' = [tick EXCEPT ![t] = v], UNCHANGED locked
    PROVE  TakesNoLock
BY DEF Typed, TicksOK, TakesNoLock, Promoting

-----------------------------------------------------------------------------
(* The steps of a tick. *)

\* Leave, Conclude and StepEnds take no lock.
LEMMA EndsTakeNoLock ==
    ASSUME Typed, NEW t \in Ticks, NEW v, Leave(t) \/ Conclude(t, v) \/ StepEnds(t), UNCHANGED locked
    PROVE  TakesNoLock
<1>1. \A pc : Forget(t, pc).pc = pc
  BY DEF Forget, IdleTick
<1>2. CASE Leave(t)
  BY <1>1, <1>2, TickElsewhere DEF Leave
<1>3. CASE Conclude(t, v)
  <2>1. [Forget(t, "finish") EXCEPT !.verdict = v].pc = "finish"
    BY <1>1 DEF Forget, IdleTick
  <2> QED BY <1>3, <2>1, TickElsewhere DEF Conclude
<1>4. CASE StepEnds(t)
  <2>1. [Forget(t, "next") EXCEPT !.step = tick[t].step].pc = "next"
    BY <1>1 DEF Forget, IdleTick
  <2> QED BY <1>4, <2>1, TickElsewhere DEF StepEnds
<1> QED BY <1>2, <1>3, <1>4

\* So does a tick that moves on to an await of advance.
LEMMA GotoTakesNoLock ==
    ASSUME Typed, NEW t \in Ticks, NEW pc, pc \notin {"pick", "promote"}, TickGoto(t, pc),
           UNCHANGED locked
    PROVE  TakesNoLock
<1>1. tick' = [tick EXCEPT ![t] = [tick[t] EXCEPT !.pc = pc]] /\ tick[t] \in Tick
  BY DEF TickGoto, Typed, TicksOK
<1>2. [tick[t] EXCEPT !.pc = pc].pc = pc
  BY <1>1 DEF Tick
<1> QED BY <1>1, <1>2, TickElsewhere

\* advance starts no run, and does not touch the locks.
LEMMA AdvanceCalm ==
    ASSUME Typed, NEW t \in Ticks, Advance(t)
    PROVE  StartsNone /\ TakesNoLock
<1>0. tick \in [Ticks -> Tick] /\ TickOK(tick[t]) /\ runs \in [Keys -> AutomationRun]
  BY DEF Typed, TicksOK, AutomationRecordsTypeOK
<1>a. Work(t) \in Keys
  BY <1>0 DEF Advance, NoStep, RunDiagnostics, RecordDiagnostics, CreateChild, RecordChild, CancelOwn,
     PollWait, PollOk, PollBad, Polling, Compare, NextStep, Finish, Emit, AdvanceError,
     StepIs, TickAt, WorkPcs, AdvancePcs, TickOK, Work
<1>b. runs[Work(t)] \in AutomationRun
  BY <1>0, <1>a
<1>1. UNCHANGED locked
  BY DEF Advance, NoStep, RunDiagnostics, RecordDiagnostics, CreateChild, RecordChild, CancelOwn,
     PollWait, PollOk, PollBad, Compare, NextStep, Finish, Emit, AdvanceError
<1>2. CASE NoStep(t) \/ PollWait(t) \/ PollOk(t) \/ PollBad(t) \/ Compare(t) \/ CancelOwn(t)
           \/ Emit(t) \/ AdvanceError(t)
  <2>1. UNCHANGED runs
    BY <1>2 DEF NoStep, PollWait, PollOk, PollBad, Compare, CancelOwn, Emit, AdvanceError, automationRecords
  <2>2. \E v : Leave(t) \/ Conclude(t, v) \/ StepEnds(t)
    BY <1>2 DEF NoStep, PollWait, PollOk, PollBad, Compare, CancelOwn, Emit, AdvanceError
  <2> QED BY <1>1, <2>1, <2>2, NoWrite, EndsTakeNoLock
<1>3. CASE RunDiagnostics(t)
  <2>1. PICK v : tick' = [tick EXCEPT ![t] = [Forget(t, "diagnosed") EXCEPT
                                                !.step = "diagnostics", !.verdict = v]]
    BY <1>3 DEF RunDiagnostics
  <2>2. [Forget(t, "diagnosed") EXCEPT !.step = "diagnostics", !.verdict = v].pc = "diagnosed"
    BY DEF Forget, IdleTick
  <2> QED BY <1>1, <1>3, <2>1, <2>2, TickElsewhere, NoWrite DEF RunDiagnostics, automationRecords
<1>4. CASE CreateChild(t)
  <2>1. PICK c : tick' = [tick EXCEPT ![t] = [Forget(t, "record") EXCEPT
                                                !.step = tick[t].step, !.made = c]]
    BY <1>4 DEF CreateChild
  <2>2. [Forget(t, "record") EXCEPT !.step = tick[t].step, !.made = c].pc = "record"
    BY DEF Forget, IdleTick
  <2> QED BY <1>1, <1>4, <2>1, <2>2, TickElsewhere, NoWrite DEF CreateChild
<1>5. CASE RecordDiagnostics(t)
  <2>1. PICK d : SetRun(Work(t), [runs[Work(t)] EXCEPT !.diagnosed = @ \cup {d}])
    BY <1>5 DEF RecordDiagnostics
  <2>2. StartsNone
    BY <1>a, <1>b, <2>1, SameStatus DEF AutomationRun
  <2> QED BY <1>1, <1>5, <2>2, EndsTakeNoLock DEF RecordDiagnostics
<1>6. CASE RecordChild(t)
  <2>1. StartsNone
    <3>1. CASE UNCHANGED runs
      BY <3>1, NoWrite
    <3>2. CASE ~UNCHANGED runs
      <4>1. \/ SetRun(Work(t), [runs[Work(t)] EXCEPT !.eval = tick[t].made])
            \/ SetRun(Work(t), [runs[Work(t)] EXCEPT !.bench = tick[t].made])
        BY <1>6, <3>2 DEF RecordChild
      <4> QED BY <1>a, <1>b, <4>1, SameStatus DEF AutomationRun
    <3> QED BY <3>1, <3>2
  <2>2. CASE Leave(t)
    BY <1>1, <2>1, <2>2, EndsTakeNoLock
  <2>3. CASE TickGoto(t, "cancelOwn")
    BY <1>1, <2>1, <2>3, GotoTakesNoLock
  <2> QED BY <1>6, <2>2, <2>3 DEF RecordChild
<1>7. CASE NextStep(t)
  <2>1. StartsNone
    <3>1. CASE UNCHANGED runs
      BY <3>1, NoWrite
    <3>2. CASE ~UNCHANGED runs
      <4>1. PICK s : SetRun(Work(t), [runs[Work(t)] EXCEPT !.step = s])
        BY <1>7, <3>2 DEF NextStep
      <4> QED BY <1>a, <1>b, <4>1, SameStatus DEF AutomationRun
    <3> QED BY <3>1, <3>2
  <2> QED BY <1>1, <1>7, <2>1, EndsTakeNoLock DEF NextStep
<1>8. CASE Finish(t)
  <2>1. CASE runs[Work(t)].status = "running"
    <3>1. StartsNone
      BY <1>8, <1>a, <1>b, <2>1, OtherStatus DEF Finish, AutomationRun
    <3>2. TickGoto(t, "emit")
      BY <1>8, <2>1 DEF Finish
    <3> QED BY <1>1, <3>1, <3>2, GotoTakesNoLock
  <2>2. CASE runs[Work(t)].status # "running"
    BY <1>1, <1>8, <2>2, NoWrite, EndsTakeNoLock DEF Finish
  <2> QED BY <2>1, <2>2
<1> QED BY <1>2, <1>3, <1>4, <1>5, <1>6, <1>7, <1>8 DEF Advance

\* Nor does the loop over the running rows.
LEMMA IterationCalm ==
    ASSUME Typed, NEW t \in Ticks, Iteration(t)
    PROVE  StartsNone /\ TakesNoLock
<1>0. tick \in [Ticks -> Tick] /\ TickOK(tick[t]) /\ runs \in [Keys -> AutomationRun]
  BY DEF Typed, TicksOK, AutomationRecordsTypeOK
<1>1. CASE TickScan(t) \/ TickEnd(t) \/ AdvanceLoad(t)
  <2>1. UNCHANGED <<runs, locked>>
    BY <1>1 DEF TickScan, TickEnd, AdvanceLoad, automationRecords
  <2>2. CASE TickScan(t)
    <3>1. [IdleTick EXCEPT !.pc = "lease", !.todo = {r \in Keys : runs[r].status = "running"}].pc = "lease"
      BY DEF IdleTick
    <3> QED BY <2>1, <2>2, <3>1, NoWrite, TickElsewhere DEF TickScan
  <2>3. CASE TickEnd(t)
    <3>1. IdleTick.pc = "idle"
      BY DEF IdleTick
    <3> QED BY <2>1, <2>3, <3>1, NoWrite, TickElsewhere DEF TickEnd
  <2>4. CASE AdvanceLoad(t)
    <3>1. tick' = [tick EXCEPT ![t] = [tick[t] EXCEPT !.pc = "act", !.step = runs[Work(t)].step,
                                          !.eval = runs[Work(t)].eval, !.bench = runs[Work(t)].bench]]
      BY <2>4 DEF AdvanceLoad
    <3>2. [tick[t] EXCEPT !.pc = "act", !.step = runs[Work(t)].step,
                          !.eval = runs[Work(t)].eval, !.bench = runs[Work(t)].bench].pc = "act"
      BY <1>0 DEF Tick
    <3> QED BY <2>1, <3>1, <3>2, NoWrite, TickElsewhere
  <2> QED BY <1>1, <2>2, <2>3, <2>4
<1>2. CASE AcquireLease(t)
  <2>1. PICK r \in tick[t].todo :
          IF runs[r].status = "running" /\ runs[r].lease # "held"
          THEN /\ SetRun(r, [runs[r] EXCEPT !.lease = "held"])
               /\ tick' = [tick EXCEPT ![t] = [[tick[t] EXCEPT !.todo = @ \ {r}]
                                                   EXCEPT !.pc = "load", !.run = r]]
          ELSE UNCHANGED runs /\ tick' = [tick EXCEPT ![t] = [tick[t] EXCEPT !.todo = @ \ {r}]]
    BY <1>2 DEF AcquireLease
  <2>2. r \in Keys /\ tick[t].pc = "lease" /\ UNCHANGED locked
    BY <1>0, <1>2 DEF AcquireLease, TickAt, TickOK, Tick
  <2>3. [[tick[t] EXCEPT !.todo = @ \ {r}] EXCEPT !.pc = "load", !.run = r].pc = "load"
        /\ [tick[t] EXCEPT !.todo = @ \ {r}].pc = "lease"
    BY <1>0, <2>2 DEF Tick
  <2>4. CASE runs[r].status = "running" /\ runs[r].lease # "held"
    <3>1. StartsNone
      <4>1. runs[r] \in AutomationRun
        BY <1>0, <2>2
      <4> QED BY <2>1, <2>2, <2>4, <4>1, SameStatus DEF AutomationRun
    <3> QED BY <2>1, <2>2, <2>3, <2>4, <3>1, TickElsewhere
  <2>5. CASE ~(runs[r].status = "running" /\ runs[r].lease # "held")
    BY <2>1, <2>2, <2>3, <2>5, NoWrite, TickElsewhere
  <2> QED BY <2>4, <2>5
<1>3. CASE ClearLease(t)
  <2>1. Work(t) \in Keys
    BY <1>0, <1>3 DEF ClearLease, TickAt, TickOK, WorkPcs, Work
  <2>2. StartsNone
    <3>1. CASE UNCHANGED runs
      BY <3>1, NoWrite
    <3>2. CASE ~UNCHANGED runs
      <4>1. SetRun(Work(t), [runs[Work(t)] EXCEPT !.lease = "free"]) /\ runs[Work(t)] \in AutomationRun
        BY <1>0, <1>3, <2>1, <3>2 DEF ClearLease, SetRun
      <4> QED BY <2>1, <4>1, SameStatus DEF AutomationRun
    <3> QED BY <3>1, <3>2
  <2>3. [IdleTick EXCEPT !.pc = "lease", !.todo = tick[t].todo].pc = "lease"
    BY DEF IdleTick
  <2> QED BY <1>3, <2>2, <2>3, TickElsewhere DEF ClearLease
<1> QED BY <1>1, <1>2, <1>3 DEF Iteration

\* A step that leaves the ticks and the locks alone takes no lock.
LEMMA TicksStand == ASSUME UNCHANGED <<tick, locked>> PROVE TakesNoLock
BY DEF TakesNoLock

\* Calls, the ends of children and of leases, and restarts are calm.
LEMMA WorldCalm ==
    ASSUME Typed
    PROVE  /\ \A c \in Callers : CallerBegins(c) \/ CallerStep(c) => StartsNone /\ TakesNoLock
           /\ \A r \in Keys : LeaseExpires(r) => StartsNone /\ TakesNoLock
           /\ \A c \in Children : ChildEnds(c) => StartsNone /\ TakesNoLock
           /\ Restart => StartsNone /\ TakesNoLock
<1>0. tick \in [Ticks -> Tick] /\ runs \in [Keys -> AutomationRun] /\ \A c \in Callers : CallerOK(caller[c])
  BY DEF Typed, TicksOK, CallersOK, AutomationRecordsTypeOK
<1>1. ASSUME NEW c \in Callers, CallerBegins(c) \/ CallerStep(c) PROVE StartsNone /\ TakesNoLock
  <2>1. TakesNoLock
    BY <1>1, TicksStand DEF CallerBegins, CancelCall, EnqueueRevision, EnqueueOther, CallerStep, EnqueueFind,
       CancelRead, CancelWrite, CancelChildren, CancelDone, EnqueueCreate
  <2>2. CASE UNCHANGED runs
    BY <2>1, <2>2, NoWrite
  <2>3. CASE CancelWrite(c) /\ RunActive(caller[c].run)
    <3>1. caller[c].run \in Keys
      BY <1>0, <2>3 DEF CancelWrite, CallerAt, CallerOK
    <3>2. [runs[caller[c].run] EXCEPT !.status = "cancelled", !.verdict = caller[c].why,
                                      !.lease = "free"].status = "cancelled"
      BY <1>0, <3>1 DEF AutomationRun
    <3> QED BY <2>1, <2>3, <3>1, <3>2, OtherStatus DEF CancelWrite, Cancelled, RunActive
  <2>4. CASE EnqueueCreate(c) /\ runs[caller[c].key].status = "none"
    <3>1. caller[c].key \in Keys
      BY <1>0, <2>4 DEF EnqueueCreate, CallerAt, CallerOK
    <3>2. [NoRun EXCEPT !.status = "pending", !.at = Born].status = "pending"
      BY DEF NoRun
    <3> QED BY <2>1, <2>4, <3>1, <3>2, OtherStatus DEF EnqueueCreate
  <2> QED BY <1>1, <2>2, <2>3, <2>4
      DEF CallerBegins, CancelCall, EnqueueRevision, EnqueueOther, CallerStep, EnqueueFind, CancelRead,
          CancelWrite, CancelChildren, CancelDone, EnqueueCreate, automationRecords
<1>2. ASSUME NEW r \in Keys, LeaseExpires(r) PROVE StartsNone /\ TakesNoLock
  <2>1. [runs[r] EXCEPT !.lease = "expired"].status = runs[r].status
        /\ [runs[r] EXCEPT !.lease = "expired"].verdict = runs[r].verdict
    BY <1>0 DEF AutomationRun
  <2> QED BY <1>2, <2>1, SameStatus, TicksStand DEF LeaseExpires
<1>3. ASSUME NEW c \in Children, ChildEnds(c) PROVE StartsNone /\ TakesNoLock
  BY <1>3, NoWrite, TicksStand DEF ChildEnds, runnerVars
<1>4. ASSUME Restart PROVE StartsNone /\ TakesNoLock
  <2>1. TakesNoLock
    BY <1>4 DEF Restart, TakesNoLock, Promoting, IdleTick
  <2> QED BY <1>4, <2>1, NoWrite DEF Restart
<1> QED BY <1>1, <1>2, <1>3, <1>4

-----------------------------------------------------------------------------
(* Promotion. *)

\* A promotion that ends gives back its own lock, and no other.
LEMMA PromotionEnds ==
    ASSUME QueueInv, Typed, NEW t \in Ticks, NEW v, v.pc \notin {"pick", "promote"},
           tick' = [tick EXCEPT ![t] = v], locked' = locked \/ (Promoting(t) /\ Unlock(t)), StartsNone
    PROVE  QueueInv'
<1>1. \A u \in Ticks : Promoting(u)' => u # t /\ Promoting(u) /\ tick'[u] = tick[u]
  BY DEF Typed, TicksOK, Promoting
<1>2. LockHeld'
  BY <1>1 DEF QueueInv, LockHeld, Unlock
<1>3. StillQuiet'
  <2>1. \A s : Busy(s)' => Busy(s)
    BY DEF StartsNone, Busy, SourceOfRun
  <2> QED BY <1>1, <2>1 DEF QueueInv, StillQuiet
<1>4. Picked'
  <2>1. \A u \in Ticks : tick'[u].pc = "promote" => tick'[u] = tick[u] /\ tick[u].run \in Keys
    BY <1>1 DEF Promoting, Typed, TicksOK, TickOK, WorkPcs
  <2> QED BY <2>1 DEF QueueInv, Picked, StartsNone, SourceOfRun
<1>5. OneRunningPerSource'
  BY DEF QueueInv, OneRunningPerSource, StartsNone, SourceOfRun
<1> QED BY <1>2, <1>3, <1>4, <1>5 DEF QueueInv

\* The lock is taken on a source none of whose runs is running.
LEMMA LockKeeps ==
    ASSUME QueueInv, Typed, NEW t \in Ticks, PromoteLock(t)
    PROVE  QueueInv'
<1>0. tick \in [Ticks -> Tick] /\ tick[t] \in Tick
  BY DEF Typed, TicksOK
<1>1. UNCHANGED runs
  BY DEF PromoteLock, automationRecords
<1>2. PICK s \in tick[t].srcs \ locked :
        IF Busy(s)
        THEN tick' = [tick EXCEPT ![t] = [tick[t] EXCEPT !.srcs = @ \ {s}]] /\ UNCHANGED locked
        ELSE /\ tick' = [tick EXCEPT ![t] = [[tick[t] EXCEPT !.srcs = @ \ {s}]
                                                 EXCEPT !.pc = "pick", !.src = s]]
             /\ locked' = locked \cup {s}
  BY DEF PromoteLock
<1>3. CASE Busy(s)
  <2>1. [tick[t] EXCEPT !.srcs = @ \ {s}].pc = "lock"
    BY <1>0 DEF PromoteLock, TickAt, Tick
  <2> QED BY <1>1, <1>2, <1>3, <2>1, NoWrite, TickElsewhere, CalmStep
<1>4. CASE ~Busy(s)
  <2>1. /\ tick'[t].pc = "pick" /\ tick'[t].src = s
        /\ \A u \in Ticks : u # t => tick'[u] = tick[u]
    BY <1>0, <1>2, <1>4 DEF Tick
  <2>2. locked' = locked \cup {s} /\ s \notin locked
    BY <1>2, <1>4
  <2>3. \A u \in Ticks : Promoting(u)' /\ u # t =>
            Promoting(u) /\ tick[u].src # s /\ tick'[u] = tick[u]
    BY <2>1, <2>2 DEF QueueInv, LockHeld, Promoting
  <2>4. LockHeld'
    BY <2>1, <2>2, <2>3 DEF QueueInv, LockHeld
  <2>5. StillQuiet'
    BY <1>1, <1>4, <2>1, <2>3 DEF QueueInv, StillQuiet, Busy, SourceOfRun
  <2>6. Picked'
    BY <1>1, <2>1 DEF QueueInv, Picked, SourceOfRun
  <2>7. OneRunningPerSource'
    BY <1>1 DEF QueueInv, OneRunningPerSource, SourceOfRun
  <2> QED BY <2>4, <2>5, <2>6, <2>7 DEF QueueInv
<1> QED BY <1>3, <1>4

\* The run picked is a pending one of the source that is locked.
LEMMA PickKeeps ==
    ASSUME QueueInv, Typed, NEW t \in Ticks, PromotePick(t)
    PROVE  QueueInv'
<1>0. tick \in [Ticks -> Tick] /\ tick[t] \in Tick /\ Promoting(t) /\ tick[t].pc = "pick"
  BY DEF Typed, TicksOK, PromotePick, TickAt, Promoting
<1>1. UNCHANGED runs
  BY DEF PromotePick, automationRecords
<1>2. CASE PromoteOver(t) /\ Unlock(t)
  <2>1. [IdleTick EXCEPT !.pc = "lock", !.srcs = tick[t].srcs].pc = "lock"
    BY DEF IdleTick
  <2> QED BY <1>0, <1>1, <1>2, <2>1, NoWrite, PromotionEnds DEF PromoteOver
<1>3. CASE /\ \E r \in Oldest(tick[t].src) : tick' = [tick EXCEPT ![t].pc = "promote", ![t].run = r]
           /\ UNCHANGED locked
  <2>1. PICK r \in Oldest(tick[t].src) :
          tick' = [tick EXCEPT ![t] = [tick[t] EXCEPT !.pc = "promote", !.run = r]]
    BY <1>3
  <2>2. /\ tick'[t].pc = "promote" /\ tick'[t].src = tick[t].src /\ tick'[t].run = r
        /\ \A u \in Ticks : u # t => tick'[u] = tick[u]
    BY <1>0, <2>1 DEF Tick
  <2>3. \A u \in Ticks : (Promoting(u)' <=> Promoting(u)) /\ tick'[u].src = tick[u].src
    BY <1>0, <2>2 DEF Promoting
  <2>4. LockHeld' /\ StillQuiet'
    <3>1. locked' = locked /\ \A s : Busy(s)' => Busy(s)
      BY <1>1, <1>3 DEF Busy, SourceOfRun
    <3>2. LockHeld'
      BY <2>3, <3>1 DEF QueueInv, LockHeld
    <3>3. StillQuiet'
      BY <2>3, <3>1 DEF QueueInv, StillQuiet
    <3> QED BY <3>2, <3>3
  <2>5. Picked'
    BY <1>1, <2>2 DEF QueueInv, Picked, SourceOfRun, Oldest
  <2>6. OneRunningPerSource'
    BY <1>1 DEF QueueInv, OneRunningPerSource, SourceOfRun
  <2> QED BY <2>4, <2>5, <2>6 DEF QueueInv
<1> QED BY <1>2, <1>3 DEF PromotePick

\* The run that is started is the only one of its source, and had no verdict.
LEMMA CommitKeeps ==
    ASSUME QueueInv, Typed, NEW t \in Ticks, PromoteCommit(t)
    PROVE  QueueInv' /\ \A r \in Keys : runs[r].status = "completed" => runs'[r] = runs[r]
<1>0. /\ tick \in [Ticks -> Tick] /\ tick[t] \in Tick /\ Promoting(t) /\ tick[t].pc = "promote"
      /\ Work(t) \in Keys /\ runs \in [Keys -> AutomationRun]
  BY DEF Typed, TicksOK, TickOK, WorkPcs, Work, PromoteCommit, TickAt, Promoting, AutomationRecordsTypeOK
<1>1. /\ SourceOfRun(Work(t)) = tick[t].src
      /\ runs[Work(t)].status \in {"pending", "cancelled"}
      /\ ~Busy(tick[t].src) /\ tick[t].src \in locked
  BY <1>0 DEF QueueInv, Picked, StillQuiet, LockHeld, Work
<1>2. /\ \A r \in Keys : r # Work(t) => runs'[r] = runs[r]
      /\ runs'[Work(t)].status = "running"
  <2>1. PICK s : SetRun(Work(t), [runs[Work(t)] EXCEPT !.status = "running", !.step = s])
    BY DEF PromoteCommit
  <2> QED BY <1>0, <2>1 DEF SetRun, AutomationRun
<1>3. \A u \in Ticks : u # t => tick'[u] = tick[u]
  BY <1>0 DEF PromoteCommit, PromoteOver
<1>4. ~Promoting(t)'
  BY <1>0 DEF PromoteCommit, PromoteOver, Promoting, IdleTick
<1>5. \A u \in Ticks : Promoting(u)' => Promoting(u) /\ tick'[u] = tick[u] /\ tick[u].src # tick[t].src
  BY <1>0, <1>3, <1>4 DEF Promoting, QueueInv, LockHeld
<1>6. LockHeld'
  BY <1>5 DEF QueueInv, LockHeld, PromoteCommit, Unlock
<1>7. StillQuiet'
  <2>1. \A s : Busy(s)' => Busy(s) \/ s = tick[t].src
    BY <1>1, <1>2 DEF Busy, SourceOfRun
  <2> QED BY <1>5, <2>1 DEF QueueInv, StillQuiet
<1>8. Picked'
  <2>1. \A u \in Ticks : tick'[u].pc = "promote" =>
            tick'[u] = tick[u] /\ tick[u].src # tick[t].src /\ tick[u].run \in Keys
    BY <1>5 DEF Promoting, Typed, TicksOK, TickOK, WorkPcs
  <2> QED BY <1>1, <1>2, <2>1 DEF QueueInv, Picked, SourceOfRun
<1>9. OneRunningPerSource'
  BY <1>1, <1>2 DEF QueueInv, OneRunningPerSource, Busy, SourceOfRun
<1> QED BY <1>1, <1>2, <1>6, <1>7, <1>8, <1>9 DEF QueueInv

-----------------------------------------------------------------------------
(* The theorems. *)

\* Every step keeps the invariant and the verdicts.
LEMMA QueueStep ==
    ASSUME QueueInv, Typed, [AutomationNext]_automationVars
    PROVE  /\ QueueInv'
           /\ \A r \in Keys : runs[r].status = "completed" =>
                 runs'[r].status = "completed" /\ runs'[r].verdict = runs[r].verdict
<1>1. CASE StartsNone /\ TakesNoLock
  BY <1>1, CalmStep DEF StartsNone
<1>2. CASE UNCHANGED automationVars
  BY <1>1, <1>2, NoWrite, TicksStand DEF automationVars, automationRecords, runnerVars
<1>3. ASSUME NEW t \in Ticks, TickThrows(t)
      PROVE  QueueInv' /\ UNCHANGED runs
  <2>1. IdleTick.pc \notin {"pick", "promote"} /\ UNCHANGED runs
    BY <1>3 DEF TickThrows, IdleTick, automationRecords
  <2>2. StartsNone
    BY <2>1, NoWrite
  <2>3. tick' = [tick EXCEPT ![t] = IdleTick] /\ (locked' = locked \/ (Promoting(t) /\ Unlock(t)))
    BY <1>3 DEF TickThrows, Promoting
  <2> QED BY <2>1, <2>2, <2>3, PromotionEnds
<1>4. ASSUME NEW t \in Ticks, TickBegin(t)
      PROVE  StartsNone /\ TakesNoLock
  <2>1. PICK srcs : tick' = [tick EXCEPT ![t] = [IdleTick EXCEPT !.pc = "lock", !.srcs = srcs]]
    BY <1>4 DEF TickBegin
  <2>2. [IdleTick EXCEPT !.pc = "lock", !.srcs = srcs].pc = "lock"
    BY DEF IdleTick
  <2> QED BY <1>4, <2>1, <2>2, NoWrite, TickElsewhere DEF TickBegin, automationRecords
<1>5. ASSUME NEW t \in Ticks, PromoteLock(t) \/ PromotePick(t)
      PROVE  QueueInv' /\ UNCHANGED runs
  BY <1>5, LockKeeps, PickKeeps DEF PromoteLock, PromotePick, automationRecords
<1>6. ASSUME NEW t \in Ticks, PromoteCommit(t)
      PROVE  /\ QueueInv'
             /\ \A r \in Keys : runs[r].status = "completed" => runs'[r] = runs[r]
  BY <1>6, CommitKeeps
<1> QED BY <1>1, <1>2, <1>3, <1>4, <1>5, <1>6, AdvanceCalm, IterationCalm, WorldCalm
    DEF AutomationNext, TickStep, Promotion

\* At first nobody holds a lock and nothing is running.
LEMMA QueueInit == AutomationInit => QueueInv
BY DEF AutomationInit, AutomationRecordsInit, RunnerInit, NoRun, IdleTick, QueueInv, LockHeld,
   StillQuiet, Picked, OneRunningPerSource, Promoting

(* At most one run of a source is running, however many ticks promote at    *)
(* once and wherever a call, a fault or a restart falls in between.         *)
THEOREM QueueSafe == AutomationSpec => []OneRunningPerSource
<1>1. QueueInv => OneRunningPerSource
  BY DEF QueueInv
<1>2. Typed /\ Typed' /\ QueueInv /\ [AutomationNext]_automationVars => QueueInv'
  BY QueueStep
<1> QED BY <1>1, <1>2, QueueInit, TypedAlways, PTL DEF AutomationSpec

(* The verdict of a completed run stands: neither an update that names the  *)
(* id only, nor a stale tick, nor a late cancellation reaches it.           *)
THEOREM VerdictFinal == AutomationSpec => VerdictStands
<1>1. Typed /\ QueueInv /\ [AutomationNext]_automationVars => QueueInv'
  BY QueueStep
<1>2. Typed /\ QueueInv /\ [AutomationNext]_automationVars =>
        [\A r \in Keys : runs[r].status = "completed" =>
            /\ runs'[r].status = "completed"
            /\ runs'[r].verdict = runs[r].verdict]_automationVars
  BY QueueStep
<1> QED BY <1>1, <1>2, QueueInit, TypedAlways, PTL DEF AutomationSpec, VerdictStands
=============================================================================
