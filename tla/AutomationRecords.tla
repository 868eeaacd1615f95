------------------------- MODULE AutomationRecords -------------------------
(***************************************************************************)
(* The rows the automation pipeline works on: automation_runs, the child   *)
(* evaluation runs and benchmarks it creates, and the notifications it has *)
(* emitted.  A run id stands for its unique triggerKey                     *)
(* (revision:<id>, schedule:<model>:<slot> or manual:<uuid>), so creating a key twice is  *)
(* the P2002 of the unique index.  Identifiers, names and the summary text *)
(* are left out.                                                           *)
(***************************************************************************)
EXTENDS Naturals, FiniteSets

CONSTANTS
    Keys,         \* trigger keys, each the id of at most one automation run
    Models,       \* discovered models
    Sources,      \* platform sources that are enabled
    ModelOf,      \* [Keys -> Models]
    SourceOf,     \* [Models -> Sources]
    TriggerOf,    \* [Keys -> Triggers]
    StepsOf,      \* [Models -> the steps the user chose]
    MaxChildren,  \* bound on benchmarks and evaluation runs created
    NoKey, NoChild, NoSource

Triggers == {"revision", "schedule", "manual"}    \* "manual" is also "enable"
AutomationSteps == {"diagnostics", "quality_gate", "benchmark"}
Children == 1..MaxChildren

ASSUME RecordsAssumption ==
    /\ ModelOf \in [Keys -> Models]
    /\ SourceOf \in [Models -> Sources]
    /\ TriggerOf \in [Keys -> Triggers]
    /\ StepsOf \in [Models -> SUBSET AutomationSteps]
    /\ MaxChildren \in Nat
    /\ NoKey \notin Keys
    /\ IsFiniteSet(Keys)
    /\ NoChild \notin Children

VARIABLES
    runs,      \* automation_runs; "none" is a key without a row
    child,     \* evaluation_runs and benchmarks created by the pipeline
    baselines, \* models whose baselineId is set
    notes      \* automation.* events emitted, by run and verdict

automationRecords == <<runs, child, baselines, notes>>

Verdicts == {"passed", "failed", "regressed", "error"}
RunStatus == {"none", "pending", "running", "completed", "cancelled"}
Steps == AutomationSteps \cup {"compare", "end"}   \* "end" is a null currentStep
ChildStatus == {"none", "active", "ok", "gateFailed", "bad"}

AutomationRun ==
    [status: RunStatus, step: Steps, at: Nat,
     lease: {"free", "held", "expired"},
     diagnosed: SUBSET {"ok", "failed"},    \* outcomes of its diagnostics runs
     eval: Children \cup {NoChild}, bench: Children \cup {NoChild},
     verdict: Verdicts \cup {"none", "superseded"}]

Child ==
    [status: ChildStatus, of: Keys \cup {NoKey}, kind: {"eval", "bench"},
     asked: BOOLEAN,    \* its cancellation was requested
     lost: BOOLEAN]     \* the process died before its id was recorded

NoRun == [status |-> "none", step |-> "end", at |-> 0, lease |-> "free",
          diagnosed |-> {}, eval |-> NoChild, bench |-> NoChild, verdict |-> "none"]

ChildrenInit ==
    /\ child = [c \in Children |-> [status |-> "none", of |-> NoKey, kind |-> "eval",
                                    asked |-> FALSE, lost |-> FALSE]]
    /\ baselines = {}
    /\ notes = [r \in Keys |-> [v \in Verdicts |-> 0]]

AutomationRecordsInit == runs = [r \in Keys |-> NoRun] /\ ChildrenInit

AutomationRecordsTypeOK ==
    /\ runs \in [Keys -> AutomationRun]
    /\ child \in [Children -> Child]
    /\ baselines \subseteq Models
    /\ notes \in [Keys -> [Verdicts -> Nat]]

RunActive(r) == runs[r].status \in {"pending", "running"}
SourceOfRun(r) == SourceOf[ModelOf[r]]
ActiveRuns(m) == {r \in Keys : ModelOf[r] = m /\ RunActive(r)}

\* effectiveSteps, in AUTOMATION_STEPS order: a set suffices, since the order is fixed.
EffectiveSteps(r) ==
    LET chosen == IF TriggerOf[r] = "schedule" THEN {"benchmark"} ELSE StepsOf[ModelOf[r]]
    IN chosen \cup (IF "benchmark" \in chosen THEN {"compare"} ELSE {})

Rank == [s \in Steps |->
            CASE s = "diagnostics" -> 1 [] s = "quality_gate" -> 2
              [] s = "benchmark" -> 3 [] s = "compare" -> 4 [] s = "end" -> 5]

\* s is the first effective step that comes after rank k.
IsNextStep(r, k, s) ==
    /\ s \in EffectiveSteps(r) \cup {"end"}
    /\ Rank[s] > k
    /\ \A t \in EffectiveSteps(r) : Rank[t] > k => Rank[s] <= Rank[t]

\* The step of run r has done its work: what a later step relies on.
StepDone(r, s) ==
    CASE s = "diagnostics" -> "ok" \in runs[r].diagnosed
      [] s = "quality_gate" -> runs[r].eval # NoChild /\ child[runs[r].eval].status = "ok"
      [] s = "benchmark" -> runs[r].bench # NoChild /\ child[runs[r].bench].status = "ok"
      [] OTHER -> TRUE
=============================================================================
