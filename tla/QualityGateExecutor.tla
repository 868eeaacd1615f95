------------------------ MODULE QualityGateExecutor ------------------------
(***************************************************************************)
(* QualityGateRunExecutor and the calls of RunsService: evaluation runs    *)
(* whose samples are asked of an endpoint and judged concurrently, cancel  *)
(* by abort signal, failures of the database between any two steps, the    *)
(* end of the process and the sweep at its next start.  A Promise.all that *)
(* rejects does not stop the samples that are under way or queued.         *)
(***************************************************************************)
EXTENDS GateArithmetic

CONSTANTS
    Evals,               \* ids of evaluation runs
    Samples,             \* samples of each snapshot
    GateConfig,          \* the thresholds
    SampleConcurrency,   \* SAMPLE_CONCURRENCY, 4 in the code
    MaxGateFaults        \* bound on failing writes and restarts

ASSUME GateAssumption ==
    /\ IsFiniteSet(Samples) /\ SampleConcurrency \in Nat \ {0} /\ MaxGateFaults \in Nat

VARIABLES
    eval,      \* evaluation_runs
    saved,     \* evaluation_run_samples, by run
    exec,      \* runInternal, by run; it is in `active` until it is idle
    work,      \* the promise of each sample of a run
    serving,   \* the process is past onModuleInit
    gateFaults

gateVars == <<eval, saved, exec, work, serving, gateFaults>>

EvalStatus == {"none", "PENDING", "RUNNING", "COMPLETED", "FAILED", "CANCELLED", "deleted"}
Modes == {"single", "dual", "baseline"}
Eval == [status: EvalStatus, mode: Modes, gate: GateResults \cup {"none"}, regressions: Nat,
         unmarked: BOOLEAN]    \* the write of its end failed, which is swallowed
ExecPcs == {"idle", "find", "mark", "samples", "aggregate", "cancel", "fail"}
WorkPcs == {"none", "queued", "askA", "judgeA", "askB", "judgeB", "save", "done", "failed"}
Row == [a: {"pass", "fail"}, b: Judged, delta: {"NA", "BOTH_PASS", "BOTH_FAIL", "REGRESSION", "IMPROVEMENT"}]
Work == [pc: WorkPcs, a: {"pass", "fail"}, b: Judged]

NoWork == [s \in Samples |-> [pc |-> "none", a |-> "fail", b |-> "none"]]
NoExec == [pc |-> "idle", aborted |-> FALSE]
NoEval == [status |-> "none", mode |-> "single", gate |-> "none", regressions |-> 0,
           unmarked |-> FALSE]
NoSaved == [s \in {} |-> {}]

GateInit ==
    /\ eval = [e \in Evals |-> NoEval]
    /\ saved = [e \in Evals |-> NoSaved]
    /\ exec = [e \in Evals |-> NoExec]
    /\ work = [e \in Evals |-> NoWork]
    /\ serving = TRUE
    /\ gateFaults = 0

EvalPresent(e) == eval[e].status \notin {"none", "deleted"}
ExecAt(e, pc) == exec[e].pc = pc
ExecGoto(e, pc) == exec' = [exec EXCEPT ![e].pc = pc]
SetEval(e, v) == eval' = [eval EXCEPT ![e] = v]
SetWork(e, s, v) == work' = [work EXCEPT ![e][s] = v]

\* A statement on a row that is gone throws, as does a database that fails.
GateThrows(e) ==
    \/ ~EvalPresent(e) /\ UNCHANGED gateFaults
    \/ gateFaults < MaxGateFaults /\ gateFaults' = gateFaults + 1

-----------------------------------------------------------------------------
(* RunsService. *)

\* create inserts the row and starts the executor, which waits for its first read.
CreateEval(e) ==
    /\ serving /\ eval[e].status = "none"
    /\ \E m \in Modes : SetEval(e, [NoEval EXCEPT !.status = "PENDING", !.mode = m])
    /\ exec' = [exec EXCEPT ![e] = [pc |-> "find", aborted |-> FALSE]]
    /\ UNCHANGED <<saved, work, serving, gateFaults>>

\* cancel reaches only what is in `active`.
CancelEval(e) ==
    /\ serving /\ EvalPresent(e) /\ ~ExecAt(e, "idle")
    /\ exec' = [exec EXCEPT ![e].aborted = TRUE]
    /\ UNCHANGED <<eval, saved, work, serving, gateFaults>>

DeleteEval(e) ==
    /\ serving /\ EvalPresent(e)
    /\ SetEval(e, [eval[e] EXCEPT !.status = "deleted"])
    /\ saved' = [saved EXCEPT ![e] = NoSaved]
    /\ UNCHANGED <<exec, work, serving, gateFaults>>

-----------------------------------------------------------------------------
(* runInternal. *)

ExecFind(e) ==
    /\ ExecAt(e, "find")
    /\ \/ EvalPresent(e) /\ ExecGoto(e, "mark") /\ UNCHANGED gateFaults
       \/ GateThrows(e) /\ ExecGoto(e, "fail")
    /\ UNCHANGED <<eval, saved, work, serving>>

\* markRunning, and the baseline's samples are loaded, if there is one; then every
\* sample is queued at once.
ExecMark(e) ==
    /\ ExecAt(e, "mark")
    /\ \/ /\ EvalPresent(e)
          /\ SetEval(e, [eval[e] EXCEPT !.status = "RUNNING"])
          /\ work' = [work EXCEPT ![e] = [s \in Samples |-> [@[s] EXCEPT !.pc = "queued"]]]
          /\ ExecGoto(e, "samples") /\ UNCHANGED gateFaults
       \/ /\ EvalPresent(e) /\ eval[e].mode = "baseline"
          /\ SetEval(e, [eval[e] EXCEPT !.status = "RUNNING"])
          /\ GateThrows(e) /\ ExecGoto(e, "fail") /\ UNCHANGED work
       \/ GateThrows(e) /\ ExecGoto(e, "fail") /\ UNCHANGED <<eval, work>>
    /\ UNCHANGED <<saved, serving>>

AtWork(e) == {s \in Samples : work[e][s].pc \in {"askA", "judgeA", "askB", "judgeB", "save"}}
WorkAt(e, s, pc) == work[e][s].pc = pc
WorkGoto(e, s, pc) == SetWork(e, s, [work[e][s] EXCEPT !.pc = pc])

\* An aborted sample is over without a row.
SampleStart(e, s) ==
    /\ WorkAt(e, s, "queued") /\ Cardinality(AtWork(e)) < SampleConcurrency
    /\ WorkGoto(e, s, IF exec[e].aborted THEN "done" ELSE "askA")
    /\ UNCHANGED <<eval, saved, exec, serving, gateFaults>>

\* The endpoint answered, or did not: call returns either way.
SampleAskedA(e, s) ==
    /\ WorkAt(e, s, "askA")
    /\ WorkGoto(e, s, IF exec[e].aborted THEN "done" ELSE "judgeA")
    /\ UNCHANGED <<eval, saved, exec, serving, gateFaults>>

\* A judge that throws is a judge that says no (llm-judge.ts catches).  The B side:
\* the baseline's sample if there is one, or the second endpoint's.
SampleJudgedA(e, s) ==
    /\ WorkAt(e, s, "judgeA")
    /\ \E a \in {"pass", "fail"} :
          \/ /\ eval[e].mode = "dual"
             /\ SetWork(e, s, [pc |-> "askB", a |-> a, b |-> "none"])
          \/ /\ eval[e].mode = "single"
             /\ SetWork(e, s, [pc |-> "save", a |-> a, b |-> "none"])
          \/ /\ eval[e].mode = "baseline"
             /\ \E b \in Judged : SetWork(e, s, [pc |-> "save", a |-> a, b |-> b])
    /\ UNCHANGED <<eval, saved, exec, serving, gateFaults>>

\* Aborted by now, the sample is saved without its B side.
SampleAskedB(e, s) ==
    /\ WorkAt(e, s, "askB")
    /\ WorkGoto(e, s, IF exec[e].aborted THEN "save" ELSE "judgeB")
    /\ UNCHANGED <<eval, saved, exec, serving, gateFaults>>

SampleJudgedB(e, s) ==
    /\ WorkAt(e, s, "judgeB")
    /\ \E b \in {"pass", "fail"} : SetWork(e, s, [work[e][s] EXCEPT !.pc = "save", !.b = b])
    /\ UNCHANGED <<eval, saved, exec, serving, gateFaults>>

\* The delta is that of A against B; with a baseline, of the baseline against A.
DeltaOf(e, w) ==
    IF eval[e].mode = "baseline"
    THEN IF w.b = "none" THEN "NA" ELSE ComputeDelta(w.b, w.a)
    ELSE ComputeDelta(w.a, w.b)

\* saveSample, and updateProgress after every fifth; a failure of either rejects the
\* Promise.all, and the others go on.
SampleSave(e, s) ==
    /\ WorkAt(e, s, "save")
    /\ \/ /\ EvalPresent(e)
          /\ LET w == work[e][s]
                 row == [a |-> w.a, b |-> w.b, delta |-> DeltaOf(e, w)]
             IN saved' = [saved EXCEPT ![e] = [x \in DOMAIN @ \cup {s} |-> IF x = s THEN row ELSE @[x]]]
          /\ \/ WorkGoto(e, s, "done") /\ UNCHANGED gateFaults
             \/ WorkGoto(e, s, "failed") /\ GateThrows(e)
       \/ GateThrows(e) /\ WorkGoto(e, s, "failed") /\ UNCHANGED saved
    /\ UNCHANGED <<eval, exec, serving>>

\* Mutant: the abort signal is not looked at after the samples.
SamplesSettledUnchecked(e) ==
    /\ ExecAt(e, "samples")
    /\ \/ (\E s \in Samples : WorkAt(e, s, "failed")) /\ ExecGoto(e, "fail")
       \/ (\A s \in Samples : WorkAt(e, s, "done")) /\ ExecGoto(e, "aggregate")
    /\ UNCHANGED <<eval, saved, work, serving, gateFaults>>

\* Promise.all: rejected by the first failure, fulfilled when all are over.
SamplesSettled(e) ==
    /\ ExecAt(e, "samples")
    /\ \/ (\E s \in Samples : WorkAt(e, s, "failed")) /\ ExecGoto(e, "fail")
       \/ /\ \A s \in Samples : WorkAt(e, s, "done")
          /\ ExecGoto(e, IF exec[e].aborted THEN "cancel" ELSE "aggregate")
    /\ UNCHANGED <<eval, saved, work, serving, gateFaults>>

\* The rows are read, aggregated and judged, and the run is completed.
ExecComplete(e) ==
    /\ ExecAt(e, "aggregate")
    /\ \/ /\ EvalPresent(e)
          /\ LET m == AggregateMetrics(saved[e])
             IN SetEval(e, [eval[e] EXCEPT !.status = "COMPLETED",
                              !.gate = ComputeGateResult(m, GateConfig),
                              !.regressions = IF m.dual THEN m.regressions ELSE 0])
          /\ ExecGoto(e, "idle") /\ UNCHANGED gateFaults
       \/ GateThrows(e) /\ ExecGoto(e, "fail") /\ UNCHANGED eval
    /\ UNCHANGED <<saved, work, serving>>

\* Mutant: the status is spelt as that of a benchmark is.
ExecEndMisspelt(e) ==
    /\ exec[e].pc \in {"cancel", "fail"}
    /\ \/ /\ EvalPresent(e) /\ UNCHANGED gateFaults
          /\ SetEval(e, [eval[e] EXCEPT !.status = IF ExecAt(e, "fail") THEN "FAILED" ELSE "CANCELED"])
       \/ GateThrows(e) /\ SetEval(e, [eval[e] EXCEPT !.unmarked = TRUE])
    /\ ExecGoto(e, "idle")
    /\ UNCHANGED <<saved, work, serving>>

\* markCancelled and markFailed: a failure of either is swallowed.
ExecEnd(e) ==
    /\ exec[e].pc \in {"cancel", "fail"}
    /\ \/ /\ EvalPresent(e) /\ UNCHANGED gateFaults
          /\ SetEval(e, [eval[e] EXCEPT !.status = IF ExecAt(e, "fail") THEN "FAILED" ELSE "CANCELLED"])
       \/ GateThrows(e) /\ SetEval(e, [eval[e] EXCEPT !.unmarked = TRUE])
    /\ ExecGoto(e, "idle")
    /\ UNCHANGED <<saved, work, serving>>

ExecStep(e) == ExecFind(e) \/ ExecMark(e) \/ SamplesSettled(e) \/ ExecComplete(e) \/ ExecEnd(e)
SampleStep(e, s) ==
    \/ SampleStart(e, s) \/ SampleAskedA(e, s) \/ SampleJudgedA(e, s)
    \/ SampleAskedB(e, s) \/ SampleJudgedB(e, s) \/ SampleSave(e, s)

-----------------------------------------------------------------------------
\* The process ends; no shutdown hook runs, since main.ts enables none.
GateCrash ==
    /\ serving /\ serving' = FALSE
    /\ gateFaults < MaxGateFaults /\ gateFaults' = gateFaults + 1
    /\ exec' = [e \in Evals |-> NoExec] /\ work' = [e \in Evals |-> NoWork]
    /\ UNCHANGED <<eval, saved>>

\* Mutant: the sweep takes for finished what has not been started.
GateBootRunningOnly ==
    /\ ~serving /\ serving' = TRUE
    /\ eval' = [e \in Evals |-> IF eval[e].status = "RUNNING"
                                THEN [eval[e] EXCEPT !.status = "FAILED"] ELSE eval[e]]
    /\ UNCHANGED <<saved, exec, work, gateFaults>>

\* Mutant: the sweep fails every row.
GateBootFailsAll ==
    /\ ~serving /\ serving' = TRUE
    /\ eval' = [e \in Evals |-> IF EvalPresent(e) THEN [eval[e] EXCEPT !.status = "FAILED"] ELSE eval[e]]
    /\ UNCHANGED <<saved, exec, work, gateFaults>>

\* onModuleInit awaits sweepRunningOnBoot before the API serves.
GateBoot ==
    /\ ~serving /\ serving' = TRUE
    /\ eval' = [e \in Evals |-> IF eval[e].status \in {"PENDING", "RUNNING"}
                                THEN [eval[e] EXCEPT !.status = "FAILED"] ELSE eval[e]]
    /\ UNCHANGED <<saved, exec, work, gateFaults>>

GateNext ==
    \/ \E e \in Evals : CreateEval(e) \/ CancelEval(e) \/ DeleteEval(e) \/ ExecStep(e)
                           \/ \E s \in Samples : SampleStep(e, s)
    \/ GateCrash \/ GateBoot

GateSpec == GateInit /\ [][GateNext]_gateVars

-----------------------------------------------------------------------------
(* Types of all variables. *)
GateTypeOK ==
    /\ eval \in [Evals -> Eval]
    /\ \A e \in Evals : DOMAIN saved[e] \subseteq Samples /\ \A s \in DOMAIN saved[e] : saved[e][s] \in Row
    /\ exec \in [Evals -> [pc: ExecPcs, aborted: BOOLEAN]]
    /\ work \in [Evals -> [Samples -> Work]]
    /\ serving \in BOOLEAN
    /\ gateFaults \in 0..MaxGateFaults

(* A completed run judged all of its samples: a verdict is never drawn from *)
(* what a cancelled or interrupted run had saved so far.                    *)
CompletedIsWhole ==
    \A e \in Evals : eval[e].status = "COMPLETED" => DOMAIN saved[e] = Samples

(* Had the candidate answered one more sample of a completed run right, no  *)
(* thresholds would judge it worse: the endpoint itself where it is alone,  *)
(* the second one where there are two (compute-gate-result.ts).             *)
BetterNeverWorse ==
    \A e \in Evals : eval[e].status = "COMPLETED" =>
        \A cfg \in GateConfigs, s \in DOMAIN saved[e] :
            /\ eval[e].mode = "dual" =>
                  Gate([saved[e] EXCEPT ![s].b = "pass"], cfg) <= Gate(saved[e], cfg)
            /\ eval[e].mode = "single" =>
                  Gate([saved[e] EXCEPT ![s].a = "pass"], cfg) <= Gate(saved[e], cfg)

EvalActive(e) == eval[e].status \in {"PENDING", "RUNNING"}

(* Every run ends, also when a sample fails, the user cancels at any moment *)
(* or the process dies, unless the write of its end fails too; the pipeline *)
(* that created it polls until then.                                        *)
EvaluationEnds == \A e \in Evals : []<>(~EvalActive(e) \/ eval[e].unmarked)

(* To the pipeline, a run is under way and then has one outcome for good.   *)
LifeOf(e) ==
    CASE eval[e].status = "none" -> "none"
      [] eval[e].status = "deleted" -> "gone"
      [] EvalActive(e) -> "active"
      [] eval[e].status = "COMPLETED" -> IF eval[e].gate = "FAILED" THEN "gateFailed" ELSE "ok"
      [] OTHER -> "bad"

Life == INSTANCE ChildLife WITH Ids <- Evals, life <- [e \in Evals |-> LifeOf(e)]

OutcomesStand == Life!LifeSpec

(* The delta is "always A=baseline, B=candidate" (run-executor.service.ts:  *)
(* 144), so that a sample which fails today and passed in the baseline is a *)
(* regression.  The aggregate that the gate judges reads the stored sides,  *)
(* where A is today's, and counts improvements as regressions.              *)
RegressionsCounted ==
    \A e \in Evals :
        eval[e].status = "COMPLETED" =>
            eval[e].regressions =
                Cardinality({s \in DOMAIN saved[e] : saved[e][s].delta = "REGRESSION"})
=============================================================================
