-------------------------- MODULE AutomationRunner --------------------------
(***************************************************************************)
(* AutomationRunnerService: overlapping ticks that promote pending runs and *)
(* advance running ones under a 60 s lease, and the calls that enqueue and *)
(* cancel runs.  A tick or a call is at `pc`, the await it performs next,  *)
(* and works on what it read before.  Any await may throw; inside advance  *)
(* this ends the run with verdict "error", elsewhere it ends the tick.     *)
(***************************************************************************)
EXTENDS AutomationRecords

CONSTANTS
    Ticks,       \* ticks of the 10 s cron under way at once
    Callers,     \* ready events, schedule scans and cancel requests
    MaxFaults    \* bound on restarts, failed promotions and leases outrun

ASSUME RunnerAssumption == MaxFaults \in Nat

VARIABLES
    tick,     \* the ticks under way
    caller,   \* the calls under way
    locked,   \* platform_sources rows locked by a promotion transaction
    faults

runnerVars == <<tick, caller, locked, faults>>
automationVars == <<automationRecords, runnerVars>>

AdvancePcs == {"act", "diagnosed", "record", "next", "finish", "emit"}
TickPcs == {"idle", "lock", "pick", "promote", "lease", "load",
            "cancelOwn", "unlock"} \cup AdvancePcs

Tick == [pc: TickPcs, srcs: SUBSET Sources, src: Sources \cup {NoSource}, todo: SUBSET Keys, run: Keys \cup {NoKey},
         step: Steps, eval: Children \cup {NoChild}, bench: Children \cup {NoChild},
         made: Children \cup {NoChild}, verdict: Verdicts]

IdleTick == [pc |-> "idle", srcs |-> {}, src |-> NoSource, todo |-> {}, run |-> NoKey, step |-> "end",
             eval |-> NoChild, bench |-> NoChild, made |-> NoChild, verdict |-> "error"]

CallerPcs == {"idle", "find", "read", "write", "children", "create"}

Caller == [pc: CallerPcs, key: Keys \cup {NoKey}, todo: SUBSET Keys,
           run: Keys \cup {NoKey}, eval: Children \cup {NoChild},
           bench: Children \cup {NoChild}, why: {"none", "superseded"}]

IdleCaller == [pc |-> "idle", key |-> NoKey, todo |-> {}, run |-> NoKey,
               eval |-> NoChild, bench |-> NoChild, why |-> "none"]

RunnerInit ==
    /\ tick = [t \in Ticks |-> IdleTick]
    /\ caller = [c \in Callers |-> IdleCaller]
    /\ locked = {}
    /\ faults = 0

AutomationInit == AutomationRecordsInit /\ RunnerInit

TickAt(t, pc) == tick[t].pc = pc
TickGoto(t, pc) == tick' = [tick EXCEPT ![t].pc = pc]
Work(t) == tick[t].run

\* advance drops its copy of the row, and keeps the loop and the run.
Forget(t, pc) == [IdleTick EXCEPT !.pc = pc, !.todo = tick[t].todo, !.run = Work(t)]

\* Back to the loop over the running rows: `finally` clears the lease.
Leave(t) == tick' = [tick EXCEPT ![t] = Forget(t, "unlock")]
Conclude(t, v) == tick' = [tick EXCEPT ![t] = [Forget(t, "finish") EXCEPT !.verdict = v]]
StepEnds(t) == tick' = [tick EXCEPT ![t] = [Forget(t, "next") EXCEPT !.step = tick[t].step]]
SetRun(r, f) == runs' = [runs EXCEPT ![r] = f]

-----------------------------------------------------------------------------
(* promotePending: one transaction per source with a pending run. *)

TickBegin(t) ==
    /\ TickAt(t, "idle")
    /\ tick' = [tick EXCEPT ![t] = [IdleTick EXCEPT !.pc = "lock",
                    !.srcs = {SourceOfRun(r) : r \in {q \in Keys : runs[q].status = "pending"}}]]
    /\ UNCHANGED <<automationRecords, caller, locked, faults>>

Busy(s) == \E q \in Keys : SourceOfRun(q) = s /\ runs[q].status = "running"

\* Mutant: the transaction does not lock the source row.
PromoteLockMissing(t) ==
    /\ TickAt(t, "lock")
    /\ \E s \in tick[t].srcs :
          LET left == [tick[t] EXCEPT !.srcs = @ \ {s}]
          IN IF Busy(s)
             THEN tick' = [tick EXCEPT ![t] = left] /\ UNCHANGED locked
             ELSE /\ tick' = [tick EXCEPT ![t] = [left EXCEPT !.pc = "pick", !.src = s]]
                  /\ locked' = locked \cup {s}
    /\ UNCHANGED <<automationRecords, caller, faults>>

\* SELECT ... FOR UPDATE waits for the row; then the running ones are counted.
PromoteLock(t) ==
    /\ TickAt(t, "lock")
    /\ \E s \in tick[t].srcs \ locked :
          LET left == [tick[t] EXCEPT !.srcs = @ \ {s}]
          IN IF Busy(s)
             THEN tick' = [tick EXCEPT ![t] = left] /\ UNCHANGED locked
             ELSE /\ tick' = [tick EXCEPT ![t] = [left EXCEPT !.pc = "pick", !.src = s]]
                  /\ locked' = locked \cup {s}
    /\ UNCHANGED <<automationRecords, caller, faults>>

PromoteOver(t) == tick' = [tick EXCEPT ![t] = [IdleTick EXCEPT !.pc = "lock", !.srcs = tick[t].srcs]]
Unlock(t) == locked' = locked \ {tick[t].src}

Oldest(s) ==
    {r \in Keys :
        /\ SourceOfRun(r) = s /\ runs[r].status = "pending"
        /\ \A q \in Keys : SourceOfRun(q) = s /\ runs[q].status = "pending"
              => runs[r].at <= runs[q].at}

PromotePick(t) ==
    /\ TickAt(t, "pick")
    /\ LET first == Oldest(tick[t].src)
       IN \/ first = {} /\ PromoteOver(t) /\ Unlock(t)
          \/ /\ \E r \in first : tick' = [tick EXCEPT ![t].pc = "promote", ![t].run = r]
             /\ UNCHANGED locked
    /\ UNCHANGED <<automationRecords, caller, faults>>

\* The update names the id only: it does not look at the status again.
PromoteCommit(t) ==
    /\ TickAt(t, "promote")
    /\ \E s \in Steps :
          /\ IsNextStep(Work(t), 0, s)
          /\ SetRun(Work(t), [runs[Work(t)] EXCEPT !.status = "running", !.step = s])
    /\ PromoteOver(t) /\ Unlock(t)
    /\ UNCHANGED <<child, baselines, notes, caller, faults>>

-----------------------------------------------------------------------------
(* The loop over the running rows, under the lease of each. *)

\* The running rows are listed after the last source.
TickScan(t) ==
    /\ TickAt(t, "lock") /\ tick[t].srcs = {}
    /\ tick' = [tick EXCEPT ![t] = [IdleTick EXCEPT !.pc = "lease",
                    !.todo = {r \in Keys : runs[r].status = "running"}]]
    /\ UNCHANGED <<automationRecords, caller, locked, faults>>

\* Mutant: a lease that ran out is not taken over.
AcquireLeaseNeverTakesOver(t) ==
    /\ TickAt(t, "lease")
    /\ \E r \in tick[t].todo :
          LET left == [tick[t] EXCEPT !.todo = @ \ {r}]
          IN IF runs[r].status = "running" /\ runs[r].lease = "free"
             THEN /\ SetRun(r, [runs[r] EXCEPT !.lease = "held"])
                  /\ tick' = [tick EXCEPT ![t] = [left EXCEPT !.pc = "load", !.run = r]]
             ELSE UNCHANGED runs /\ tick' = [tick EXCEPT ![t] = left]
    /\ UNCHANGED <<child, baselines, notes, caller, locked, faults>>

AcquireLease(t) ==
    /\ TickAt(t, "lease")
    /\ \E r \in tick[t].todo :
          LET left == [tick[t] EXCEPT !.todo = @ \ {r}]
          IN IF runs[r].status = "running" /\ runs[r].lease # "held"
             THEN /\ SetRun(r, [runs[r] EXCEPT !.lease = "held"])
                  /\ tick' = [tick EXCEPT ![t] = [left EXCEPT !.pc = "load", !.run = r]]
             ELSE UNCHANGED runs /\ tick' = [tick EXCEPT ![t] = left]
    /\ UNCHANGED <<child, baselines, notes, caller, locked, faults>>

TickEnd(t) ==
    /\ TickAt(t, "lease") /\ tick[t].todo = {}
    /\ tick' = [tick EXCEPT ![t] = IdleTick]
    /\ UNCHANGED <<automationRecords, caller, locked, faults>>

\* advance reads the row once and decides from that copy.
AdvanceLoad(t) ==
    /\ TickAt(t, "load")
    /\ tick' = [tick EXCEPT ![t].pc = "act", ![t].step = runs[Work(t)].step,
                  ![t].eval = runs[Work(t)].eval, ![t].bench = runs[Work(t)].bench]
    /\ UNCHANGED <<automationRecords, caller, locked, faults>>

StepIs(t, s) == TickAt(t, "act") /\ tick[t].step = s

NoStep(t) ==
    /\ StepIs(t, "end")
    /\ Conclude(t, "passed")
    /\ UNCHANGED <<automationRecords, caller, locked, faults>>

\* No connection, no evaluation, no template, a child that is gone, or a call
\* that throws: the catch of tick ends the run with verdict "error".  A child
\* whose id could not be recorded is forgotten.
AdvanceError(t) ==
    /\ tick[t].pc \in AdvancePcs
    /\ Conclude(t, "error")
    /\ child' = [c \in Children |-> [child[c] EXCEPT !.lost =
                     @ \/ (TickAt(t, "record") /\ tick[t].made = c)]]
    /\ UNCHANGED <<runs, baselines, notes, caller, locked, faults>>

\* diagnostics.run, then its id is recorded whatever the status of the run.
RunDiagnostics(t) ==
    /\ StepIs(t, "diagnostics")
    /\ \E v \in {"passed", "failed"} :
          tick' = [tick EXCEPT ![t] = [Forget(t, "diagnosed") EXCEPT
                                          !.step = "diagnostics", !.verdict = v]]
    /\ UNCHANGED <<automationRecords, caller, locked, faults>>

RecordDiagnostics(t) ==
    /\ TickAt(t, "diagnosed")
    /\ LET ok == tick[t].verdict = "passed"
       IN /\ SetRun(Work(t), [runs[Work(t)] EXCEPT !.diagnosed =
                                @ \cup {IF ok THEN "ok" ELSE "failed"}])
          /\ IF ok THEN StepEnds(t) ELSE Conclude(t, "failed")
    /\ UNCHANGED <<child, baselines, notes, caller, locked, faults>>

-----------------------------------------------------------------------------
(* Steps that create a child and wait for it. *)

ChildOf(t) == IF tick[t].step = "quality_gate" THEN tick[t].eval ELSE tick[t].bench
KindOf(s) == IF s = "quality_gate" THEN "eval" ELSE "bench"
FreeChildren == {c \in Children : child[c].status = "none"}

CreateChild(t) ==
    /\ tick[t].step \in {"quality_gate", "benchmark"}
    /\ TickAt(t, "act") /\ ChildOf(t) = NoChild
    /\ \E c \in FreeChildren :
          /\ \A d \in FreeChildren : c <= d
          /\ child' = [child EXCEPT ![c] = [@ EXCEPT !.status = "active",
                          !.of = Work(t), !.kind = KindOf(tick[t].step)]]
          /\ tick' = [tick EXCEPT ![t] = [Forget(t, "record") EXCEPT
                                              !.step = tick[t].step, !.made = c]]
    /\ UNCHANGED <<runs, baselines, notes, caller, locked, faults>>

HasChild(r, s) == IF s = "quality_gate" THEN runs[r].eval # NoChild ELSE runs[r].bench # NoChild

\* Mutant: the id is recorded on any running row, also over an earlier id.
RecordChildOverwrites(t) ==
    /\ TickAt(t, "record")
    /\ IF runs[Work(t)].status = "running"
       THEN /\ SetRun(Work(t), IF tick[t].step = "quality_gate"
                               THEN [runs[Work(t)] EXCEPT !.eval = tick[t].made]
                               ELSE [runs[Work(t)] EXCEPT !.bench = tick[t].made])
            /\ Leave(t)
       ELSE UNCHANGED runs /\ TickGoto(t, "cancelOwn")
    /\ UNCHANGED <<child, baselines, notes, caller, locked, faults>>

\* Guarded by status "running" and a null id; otherwise the child is an orphan.
RecordChild(t) ==
    /\ TickAt(t, "record")
    /\ IF runs[Work(t)].status = "running" /\ ~HasChild(Work(t), tick[t].step)
       THEN /\ SetRun(Work(t), IF tick[t].step = "quality_gate"
                               THEN [runs[Work(t)] EXCEPT !.eval = tick[t].made]
                               ELSE [runs[Work(t)] EXCEPT !.bench = tick[t].made])
            /\ Leave(t)
       ELSE UNCHANGED runs /\ TickGoto(t, "cancelOwn")
    /\ UNCHANGED <<child, baselines, notes, caller, locked, faults>>

\* The children whose cancellation is requested; each call may fail, and a
\* failure is only logged.
Ask(cs) ==
    \E stopped \in SUBSET {c \in cs : child[c].status = "active"} :
        child' = [c \in Children |->
                    IF c \in cs
                    THEN [child[c] EXCEPT !.asked = TRUE,
                             !.status = IF c \in stopped THEN "bad" ELSE @]
                    ELSE child[c]]

CancelOwn(t) ==
    /\ TickAt(t, "cancelOwn")
    /\ Ask({tick[t].made})
    /\ Leave(t)
    /\ UNCHANGED <<runs, baselines, notes, caller, locked, faults>>

Poll(t) == child[ChildOf(t)].status
Polling(t) ==
    /\ TickAt(t, "act") /\ tick[t].step \in {"quality_gate", "benchmark"}
    /\ ChildOf(t) # NoChild

PollWait(t) ==
    /\ Polling(t) /\ Poll(t) = "active"
    /\ Leave(t)
    /\ UNCHANGED <<automationRecords, caller, locked, faults>>

\* Mutant: only a failed gate stops the pipeline, not a run that ended otherwise.
PollOkNotFailed(t) ==
    /\ Polling(t) /\ Poll(t) \notin {"active", "gateFailed"}
    /\ StepEnds(t)
    /\ UNCHANGED <<automationRecords, caller, locked, faults>>

PollOk(t) ==
    /\ Polling(t) /\ Poll(t) = "ok"
    /\ StepEnds(t)
    /\ UNCHANGED <<automationRecords, caller, locked, faults>>

PollBad(t) ==
    /\ Polling(t) /\ Poll(t) \in {"bad", "gateFailed"}
    /\ Conclude(t, IF Poll(t) = "gateFailed" THEN "failed" ELSE "error")
    /\ UNCHANGED <<automationRecords, caller, locked, faults>>

\* compare: a model without a baseline gets this benchmark as its baseline;
\* otherwise the verdict is the regression's, or "passed" when it cannot be told.
Compare(t) ==
    /\ StepIs(t, "compare")
    /\ IF ModelOf[Work(t)] \in baselines
       THEN (\E v \in {"passed", "regressed"} : Conclude(t, v)) /\ UNCHANGED baselines
       ELSE Conclude(t, "passed") /\ baselines' = baselines \cup {ModelOf[Work(t)]}
    /\ UNCHANGED <<runs, child, notes, caller, locked, faults>>

-----------------------------------------------------------------------------
(* nextStep, finish and the end of an iteration. *)

NextStep(t) ==
    /\ TickAt(t, "next")
    /\ IF runs[Work(t)].status = "running"
       THEN \E s \in Steps :
               /\ IsNextStep(Work(t), Rank[tick[t].step], s)
               /\ SetRun(Work(t), [runs[Work(t)] EXCEPT !.step = s])
               /\ IF s = "end" THEN Conclude(t, "passed") ELSE Leave(t)
       ELSE UNCHANGED runs /\ Leave(t)
    /\ UNCHANGED <<child, baselines, notes, caller, locked, faults>>

\* Mutant: the status of a finished run is misspelt.
FinishMisspelt(t) ==
    /\ TickAt(t, "finish")
    /\ IF runs[Work(t)].status = "running"
       THEN /\ SetRun(Work(t), [runs[Work(t)] EXCEPT !.status = "complete",
                    !.verdict = tick[t].verdict, !.step = "end", !.lease = "free"])
            /\ TickGoto(t, "emit")
       ELSE UNCHANGED runs /\ Leave(t)
    /\ UNCHANGED <<child, baselines, notes, caller, locked, faults>>

\* Mutant: finishWithSummary emits even when its guarded write changed nothing.
FinishAlwaysEmits(t) ==
    /\ TickAt(t, "finish")
    /\ IF runs[Work(t)].status = "running"
       THEN SetRun(Work(t), [runs[Work(t)] EXCEPT !.status = "completed",
                    !.verdict = tick[t].verdict, !.step = "end", !.lease = "free"])
       ELSE UNCHANGED runs
    /\ TickGoto(t, "emit")
    /\ UNCHANGED <<child, baselines, notes, caller, locked, faults>>

\* Only the write that ends the run is followed by its notification.
Finish(t) ==
    /\ TickAt(t, "finish")
    /\ IF runs[Work(t)].status = "running"
       THEN /\ SetRun(Work(t), [runs[Work(t)] EXCEPT !.status = "completed",
                    !.verdict = tick[t].verdict, !.step = "end", !.lease = "free"])
            /\ TickGoto(t, "emit")
       ELSE UNCHANGED runs /\ Leave(t)
    /\ UNCHANGED <<child, baselines, notes, caller, locked, faults>>

Emit(t) ==
    /\ TickAt(t, "emit")
    /\ notes' = [notes EXCEPT ![Work(t)][tick[t].verdict] = @ + 1]
    /\ Leave(t)
    /\ UNCHANGED <<runs, child, baselines, caller, locked, faults>>

\* finally: clears the lease of a running row, whoever holds it by now.
ClearLease(t) ==
    /\ TickAt(t, "unlock")
    /\ runs' = IF runs[Work(t)].status = "running"
               THEN [runs EXCEPT ![Work(t)].lease = "free"] ELSE runs
    /\ tick' = [tick EXCEPT ![t] = [IdleTick EXCEPT !.pc = "lease", !.todo = tick[t].todo]]
    /\ UNCHANGED <<child, baselines, notes, caller, locked, faults>>

\* Sixty seconds pass since the lease was taken.  This may happen while its
\* holder is still at work (a slow create), which counts as a fault.
LeaseExpires(r) ==
    /\ runs[r].lease = "held"
    /\ SetRun(r, [runs[r] EXCEPT !.lease = "expired"])
    /\ IF \E t \in Ticks : Work(t) = r /\ tick[t].pc \in AdvancePcs \cup {"load", "cancelOwn", "unlock"}
       THEN faults < MaxFaults /\ faults' = faults + 1
       ELSE UNCHANGED faults
    /\ UNCHANGED <<child, baselines, notes, tick, caller, locked>>

\* A promotion transaction is rolled back, or another read of the tick throws:
\* the cron logs it and the tick is over.
TickThrows(t) ==
    /\ tick[t].pc \in {"lock", "pick", "promote", "lease"}
    /\ faults < MaxFaults /\ faults' = faults + 1
    /\ tick' = [tick EXCEPT ![t] = IdleTick]
    /\ IF tick[t].pc \in {"pick", "promote"} THEN Unlock(t) ELSE UNCHANGED locked
    /\ UNCHANGED <<automationRecords, caller>>

Promotion(t) == TickBegin(t) \/ PromoteLock(t) \/ PromotePick(t) \/ PromoteCommit(t)
Iteration(t) == TickScan(t) \/ AcquireLease(t) \/ TickEnd(t) \/ AdvanceLoad(t) \/ ClearLease(t)
Advance(t) ==
    \/ NoStep(t) \/ RunDiagnostics(t) \/ RecordDiagnostics(t)
    \/ CreateChild(t) \/ RecordChild(t) \/ CancelOwn(t)
    \/ PollWait(t) \/ PollOk(t) \/ PollBad(t) \/ Compare(t) \/ NextStep(t)
    \/ Finish(t) \/ Emit(t) \/ AdvanceError(t)

TickStep(t) == Promotion(t) \/ Iteration(t) \/ Advance(t)

-----------------------------------------------------------------------------
(* enqueue, scanSchedules and cancel. *)

CallerAt(c, pc) == caller[c].pc = pc
SetCaller(c, v) == caller' = [caller EXCEPT ![c] = v]

\* A ready revision of a model with automation enabled: a revision becomes ready
\* once, so there is one event for its key.
EnqueueRevision(c, r) ==
    /\ CallerAt(c, "idle") /\ TriggerOf[r] = "revision"
    /\ runs[r].status = "none" /\ \A d \in Callers : caller[d].key # r
    /\ SetCaller(c, [IdleCaller EXCEPT !.pc = "find", !.key = r, !.why = "superseded"])
    /\ UNCHANGED <<automationRecords, tick, locked, faults>>

EnqueueFind(c) ==
    /\ CallerAt(c, "find")
    /\ SetCaller(c, [caller[c] EXCEPT !.pc = "read", !.todo = ActiveRuns(ModelOf[caller[c].key])])
    /\ UNCHANGED <<automationRecords, tick, locked, faults>>

\* The scan enqueues a due schedule of a model that looks idle; the user may
\* ask for a run, or enable automation, whatever is under way.
EnqueueOther(c, r) ==
    /\ CallerAt(c, "idle") /\ TriggerOf[r] # "revision"
    /\ TriggerOf[r] = "schedule" => ActiveRuns(ModelOf[r]) = {}
    /\ SetCaller(c, [IdleCaller EXCEPT !.pc = "create", !.key = r])
    /\ UNCHANGED <<automationRecords, tick, locked, faults>>

\* POST cancel names one run; a removed model's listener names all that are active.
CancelCall(c) ==
    /\ CallerAt(c, "idle")
    /\ \E rs \in {{r} : r \in Keys} \cup {ActiveRuns(m) : m \in Models} :
          /\ rs # {} /\ \A r \in rs : RunActive(r)
          /\ SetCaller(c, [IdleCaller EXCEPT !.pc = "read", !.todo = rs])
    /\ UNCHANGED <<automationRecords, tick, locked, faults>>

\* cancel reads the row, with the ids of its children at that moment.
CancelRead(c) ==
    /\ CallerAt(c, "read")
    /\ \E r \in caller[c].todo :
          LET left == [caller[c] EXCEPT !.todo = @ \ {r}]
          IN SetCaller(c, IF RunActive(r)
                          THEN [left EXCEPT !.pc = "write", !.run = r,
                                   !.eval = runs[r].eval, !.bench = runs[r].bench]
                          ELSE left)
    /\ UNCHANGED <<automationRecords, tick, locked, faults>>

BackToLoop(c) == [caller[c] EXCEPT !.pc = "read", !.run = NoKey,
                                   !.eval = NoChild, !.bench = NoChild]

Cancelled(c) ==
    SetRun(caller[c].run, [runs[caller[c].run] EXCEPT !.status = "cancelled",
                              !.verdict = caller[c].why, !.lease = "free"])

\* Mutant: cancel trusts the status it read.
CancelWriteTrustsRead(c) ==
    /\ CallerAt(c, "write")
    /\ Cancelled(c) /\ SetCaller(c, [caller[c] EXCEPT !.pc = "children"])
    /\ UNCHANGED <<child, baselines, notes, tick, locked, faults>>

CancelWrite(c) ==
    /\ CallerAt(c, "write")
    /\ IF RunActive(caller[c].run)
       THEN Cancelled(c) /\ SetCaller(c, [caller[c] EXCEPT !.pc = "children"])
       ELSE UNCHANGED runs /\ SetCaller(c, BackToLoop(c))
    /\ UNCHANGED <<child, baselines, notes, tick, locked, faults>>

CancelChildren(c) ==
    /\ CallerAt(c, "children")
    /\ Ask({caller[c].eval, caller[c].bench} \ {NoChild})
    /\ SetCaller(c, BackToLoop(c))
    /\ UNCHANGED <<runs, baselines, notes, tick, locked, faults>>

CancelDone(c) ==
    /\ CallerAt(c, "read") /\ caller[c].todo = {}
    /\ SetCaller(c, IF caller[c].key = NoKey THEN IdleCaller
                    ELSE [IdleCaller EXCEPT !.pc = "create", !.key = caller[c].key])
    /\ UNCHANGED <<automationRecords, tick, locked, faults>>

Born == Cardinality({r \in Keys : runs[r].status # "none"})

\* The unique index on triggerKey makes a second create of a key a no-op.
EnqueueCreate(c) ==
    /\ CallerAt(c, "create")
    /\ LET r == caller[c].key
       IN IF runs[r].status = "none"
          THEN SetRun(r, [NoRun EXCEPT !.status = "pending", !.at = Born])
          ELSE UNCHANGED runs
    /\ SetCaller(c, IdleCaller)
    /\ UNCHANGED <<child, baselines, notes, tick, locked, faults>>

CallerBegins(c) == CancelCall(c) \/ \E r \in Keys : EnqueueRevision(c, r) \/ EnqueueOther(c, r)
CallerStep(c) ==
    \/ EnqueueFind(c) \/ CancelRead(c) \/ CancelWrite(c) \/ CancelChildren(c)
    \/ CancelDone(c) \/ EnqueueCreate(c)

-----------------------------------------------------------------------------
\* A benchmark or an evaluation run ends.
ChildEnds(c) ==
    /\ child[c].status = "active"
    /\ \E s \in {"ok", "bad"} \cup (IF child[c].kind = "eval" THEN {"gateFailed"} ELSE {}) :
          child' = [child EXCEPT ![c].status = s]
    /\ UNCHANGED <<runs, baselines, notes, runnerVars>>

\* The process restarts: ticks, calls and transactions are gone, and
\* sweepRunningOnBoot fails the evaluation runs that were under way.
Restart ==
    /\ faults < MaxFaults /\ faults' = faults + 1
    /\ tick' = [t \in Ticks |-> IdleTick]
    /\ caller' = [c \in Callers |-> IdleCaller]
    /\ locked' = {}
    /\ child' = [c \in Children |->
          [child[c] EXCEPT
              !.status = IF @ = "active" /\ child[c].kind = "eval" THEN "bad" ELSE @,
              !.lost = @ \/ \E t \in Ticks : tick[t].pc \in {"record", "cancelOwn"} /\ tick[t].made = c]]
    /\ UNCHANGED <<runs, baselines, notes>>

AutomationNext ==
    \/ \E t \in Ticks : TickStep(t) \/ TickThrows(t)
    \/ \E c \in Callers : CallerBegins(c) \/ CallerStep(c)
    \/ \E r \in Keys : LeaseExpires(r)
    \/ \E c \in Children : ChildEnds(c)
    \/ Restart

AutomationSpec == AutomationInit /\ [][AutomationNext]_automationVars

\* The crons fire, every await returns, leases run out, and benchmarks and
\* evaluation runs end.  Nobody has to call.
AutomationFairness ==
    /\ \A t \in Ticks : WF_automationVars(TickStep(t))
    /\ \A r \in Keys : WF_automationVars(LeaseExpires(r))
    /\ \A c \in Children : WF_automationVars(ChildEnds(c))

AutomationFairSpec == AutomationSpec /\ AutomationFairness

-----------------------------------------------------------------------------
(* Types of all variables. *)
AutomationTypeOK ==
    /\ AutomationRecordsTypeOK
    /\ tick \in [Ticks -> Tick]
    /\ caller \in [Callers -> Caller]
    /\ locked \subseteq Sources
    /\ faults \in 0..MaxFaults

(* Overlapping ticks never run two pipelines of one source at once: the     *)
(* benchmarks of a source compete for its GPUs.  The row lock, held from    *)
(* the count to the commit, is what makes promotePending safe.              *)
OneRunningPerSource ==
    \A q, r \in Keys :
        runs[q].status = "running" /\ runs[r].status = "running"
            /\ SourceOfRun(q) = SourceOfRun(r) => q = r

(* A run passes (or is found regressed) only after every step before the    *)
(* verdict succeeded, however often a lease ran out in the middle and a     *)
(* second tick repeated or overtook the first.                              *)
PassedMeansChecked ==
    \A r \in Keys :
        runs[r].verdict \in {"passed", "regressed"} =>
            \A s \in EffectiveSteps(r) : StepDone(r, s)

(* The user hears of a run at most once, and what is announced is what the  *)
(* row says: a cancelled run was not announced                              *)
(* (automation-runner.service.ts:112-115).                                  *)
AnnouncedOnce ==
    \A r \in Keys, v \in Verdicts :
        notes[r][v] + Cardinality({t \in Ticks : TickAt(t, "emit") /\ Work(t) = r
                                                    /\ tick[t].verdict = v})
            <= IF runs[r].status = "completed" /\ runs[r].verdict = v THEN 1 ELSE 0

(* A benchmark or evaluation run the pipeline created is recorded on its    *)
(* row, or still in the hands of the tick that made it, or its cancellation *)
(* was requested: nothing runs on that no row knows of, unless the process  *)
(* or the write died in between.                                            *)
NoForgottenChild ==
    \A c \in Children :
        child[c].status = "active" =>
            \/ child[c].asked \/ child[c].lost
            \/ c \in {runs[child[c].of].eval, runs[child[c].of].bench}
            \/ \E t \in Ticks : tick[t].pc \in {"record", "cancelOwn"} /\ tick[t].made = c

(* A verdict stands: no stale tick and no late cancellation changes the     *)
(* status or the verdict of a completed run.                                *)
VerdictStands ==
    [][\A r \in Keys : runs[r].status = "completed" =>
          /\ runs'[r].status = "completed"
          /\ runs'[r].verdict = runs[r].verdict]_automationVars

(* Every run ends, across restarts, errors and ticks that overlap: the next *)
(* tick takes over what a dead one left.                                    *)
EveryRunEnds ==
    \A r \in Keys : []<>~RunActive(r)

(* A run that is superseded or cancelled takes its children with it         *)
(* (2026-09-22-gpustack-deployment-gate-design.md:179).  cancel knows only  *)
(* the ids it read before its write: a child recorded in between is neither *)
(* the canceller's nor the tick's to cancel.                                *)
CancelledStopsChildren ==
    (\A t \in Ticks : Work(t) = NoKey) /\ (\A c \in Callers : CallerAt(c, "idle")) =>
        \A c \in Children :
            child[c].status = "active" /\ runs[child[c].of].status = "cancelled"
                => child[c].asked \/ child[c].lost
=============================================================================
