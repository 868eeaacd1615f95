--------------------------- MODULE GateArithmetic ---------------------------
(***************************************************************************)
(* The arithmetic of the quality gate and of the regression check.  Rates, *)
(* averages and percentages are compared by cross-multiplication, so that  *)
(* no rounding is modelled.  An optional number is absent as Unset.        *)
(***************************************************************************)
EXTENDS Integers, FiniteSets

Unset == -1

Judged == {"pass", "fail", "none"}    \* "none": a B side that is missing
GateResults == {"PASSED", "WARNING", "FAILED"}

ComputeDelta(a, b) ==
    CASE b = "none" -> "NA"
      [] a = b -> IF a = "pass" THEN "BOTH_PASS" ELSE "BOTH_FAIL"
      [] a = "pass" /\ b = "fail" -> "REGRESSION"
      [] a = "fail" /\ b = "pass" -> "IMPROVEMENT"

CountRows(rows, Is(_)) == Cardinality({s \in DOMAIN rows : Is(rows[s])})

\* Mutant: what got better is counted as a regression.
AggregateSwapped(rows) ==
    [total |-> Cardinality(DOMAIN rows),
     dual |-> \E s \in DOMAIN rows : rows[s].b # "none",
     passA |-> CountRows(rows, LAMBDA r : r.a = "pass"),
     passB |-> CountRows(rows, LAMBDA r : r.b = "pass"),
     regressions |-> CountRows(rows, LAMBDA r : r.a = "fail" /\ r.b = "pass")]

\* aggregateMetrics over the samples saved.  Judge scores are left out.
AggregateMetrics(rows) ==
    [total |-> Cardinality(DOMAIN rows),
     dual |-> \E s \in DOMAIN rows : rows[s].b # "none",
     passA |-> CountRows(rows, LAMBDA r : r.a = "pass"),
     passB |-> CountRows(rows, LAMBDA r : r.b = "pass"),
     regressions |-> CountRows(rows, LAMBDA r : r.a = "pass" /\ r.b = "fail")]

\* Each threshold has a band in which it only warns: 0.05 below passRateMin (in
\* percent here), and half of regressionMax above it.  Without samples the pass
\* rate is 0.
PassRateBand(m, cfg) ==
    LET passes == IF m.dual THEN m.passB ELSE m.passA    \* passRateB ?? passRateA
        total == IF m.total = 0 THEN 1 ELSE m.total
    IN IF cfg.passRateMin = Unset THEN "PASSED"
       ELSE IF 100 * passes < (cfg.passRateMin - 5) * total THEN "FAILED"
       ELSE IF 100 * passes < cfg.passRateMin * total THEN "WARNING" ELSE "PASSED"

RegressionBand(m, cfg) ==
    IF cfg.regressionMax = Unset \/ ~m.dual THEN "PASSED"
    ELSE IF 2 * m.regressions > 3 * cfg.regressionMax THEN "FAILED"
    ELSE IF m.regressions > cfg.regressionMax THEN "WARNING" ELSE "PASSED"

ComputeGateResult(m, cfg) ==
    LET bands == {PassRateBand(m, cfg), RegressionBand(m, cfg)}
    IN CASE "FAILED" \in bands -> "FAILED"
         [] bands = {"PASSED"} -> "PASSED"
         [] OTHER -> "WARNING"

-----------------------------------------------------------------------------
(* detectRegression: metrics that should not drop, and that should not rise. *)

RegressionRules == [outputTokensPerSec |-> "drop", ttftP95 |-> "rise", itlP95 |-> "rise"]

\* Mutant: the direction of the change is forgotten.
ExceededUnsigned(bad, base, now, pct) ==
    base # Unset /\ now # Unset /\ base # 0 /\ 100 * (now - base) > pct * base

\* Nothing is exceeded where a side, or anything to compare with, is missing.
Exceeded(bad, base, now, pct) ==
    /\ base # Unset /\ now # Unset /\ base # 0
    /\ CASE bad = "drop" -> 100 * (base - now) > pct * base
         [] bad = "rise" -> 100 * (now - base) > pct * base

DetectRegression(base, now, pct) ==
    \E metric \in DOMAIN RegressionRules :
        Exceeded(RegressionRules[metric], base[metric], now[metric], pct[metric])

-----------------------------------------------------------------------------
(* Bounded inputs of the properties: thresholds in percent and values to 4. *)

GateConfigs == [passRateMin : {Unset, 50, 53, 100}, regressionMax : {Unset, 0, 1}]
Severity == [g \in GateResults |-> CASE g = "PASSED" -> 0 [] g = "WARNING" -> 1 [] g = "FAILED" -> 2]
Gate(rows, cfg) == Severity[ComputeGateResult(AggregateMetrics(rows), cfg)]

(* VerdictGrows is RegressionGrows without a state: a run is not a regression *)
(* of itself, what is worse than a regressed run is regressed, and so is a    *)
(* throughput that is gone.                                                   *)
VerdictGrows ==
    /\ \A run \in [DOMAIN RegressionRules -> Unset..2], pct \in [DOMAIN RegressionRules -> {0, 50}] :
          ~DetectRegression(run, run, pct)
    /\ \A base, now, worse \in 1..4, pct \in {0, 10, 50, 99} :
          /\ ~Exceeded("drop", base, base, pct) /\ ~Exceeded("rise", base, base, pct)
          /\ worse <= now /\ Exceeded("drop", base, now, pct) => Exceeded("drop", base, worse, pct)
          /\ worse >= now /\ Exceeded("rise", base, now, pct) => Exceeded("rise", base, worse, pct)
          /\ Exceeded("drop", base, 0, pct)
=============================================================================
