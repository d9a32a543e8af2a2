------------------------- MODULE BenchmarkEvaluation -------------------------
(***************************************************************************)
(* The benchmark service's verdicts: /benchmarks/compare (compare_api.py), *)
(* the reproducibility gate (reproducibility.py), and the optimizer's      *)
(* evaluation and the learning pipeline over them                          *)
(* (optimizer_evaluation.py). Numbers are integers: fidelities are in      *)
(* hundredths, and a confidence is a level k that stands for erf(k/sqrt 2),*)
(* so "confidence >= level k" is "|z| >= k", which needs no root.          *)
(***************************************************************************)
EXTENDS Integers, Sequences, FiniteSets, FiniteSetsExt, SequencesExt

CONSTANTS Evaluations       \* what is evaluated: [kind, ...]
VARIABLES evaluation        \* <<>> or <<the evaluation made>>

Abs(n) == IF n < 0 THEN -n ELSE n
Clamp(n, low, high) == IF n < low THEN low ELSE IF n > high THEN high ELSE n
-----------------------------------------------------------------------------
\* A metric is [name, mean, sd, n], a policy [lower, threshold, level]: whether
\* lower is better, the percentage and the least confidence.

\* _validate_request.
CompareValid(baseline, candidate, policy) ==
    /\ baseline # <<>> /\ candidate # <<>>
    /\ \A m \in ToSet(baseline) \cup ToSet(candidate) : m.name # "" /\ m.n >= 1
    /\ policy.threshold >= 0 /\ policy.level >= 0

\* confidence >= min_confidence: z is the difference over the standard error,
\* and 0 when the standard error is 0.
Confident(b, c, level) ==
    LET delta == c.mean - b.mean
        spread == b.sd * b.sd * c.n + c.sd * c.sd * b.n
    IN  IF spread = 0 THEN level = 0 ELSE delta * delta * b.n * c.n >= level * level * spread

\* _compare_metric, as its regression flag: a baseline of 0 has no percentage.
Regresses(b, c, policy) ==
    LET delta == 100 * (c.mean - b.mean)
        limit == policy.threshold * Abs(b.mean)
    IN  /\ b.mean # 0 /\ Confident(b, c, policy.level)
        /\ IF policy.lower THEN delta > limit ELSE delta < -limit

\* {item["name"]: item}: the last metric of a name.
Named(metrics, name) == LET same == SelectSeq(metrics, LAMBDA m : m.name = name) IN same[Len(same)]
MetricNames(metrics) == {m.name : m \in ToSet(metrics)}

\* compare, as the metrics that regress: those both sides name are compared.
Regressions(baseline, candidate, policy) ==
    {x \in MetricNames(baseline) \cap MetricNames(candidate) :
        Regresses(Named(baseline, x), Named(candidate, x), policy)}
-----------------------------------------------------------------------------
\* A run of the gate is [hash, payload, metrics], metrics from names to numbers;
\* its policy [runs, relative, absolute].

\* pstdev(samples) > limit, squared: n^2 times the variance.
Variance2(xs) ==
    LET n == Len(xs) IN n * FoldLeft(LAMBDA a, x : a + x * x, 0, xs) - FoldLeft(LAMBDA a, x : a + x, 0, xs) ^ 2

\* _validate_metric_variance, of one metric: both limits must be exceeded, and
\* the relative one always is when the mean is 0.
Varies(xs, policy) ==
    LET sum == FoldLeft(LAMBDA a, x : a + x, 0, xs)
    IN  /\ Variance2(xs) > policy.absolute ^ 2 * Len(xs) ^ 2
        /\ sum # 0 => 10000 * Variance2(xs) > policy.relative ^ 2 * sum ^ 2

\* evaluate: "error" when a run lacks a metric of the first (KeyError).
Reproducible(runs, policy) ==
    IF Len(runs) < policy.runs THEN "failed"
    ELSE IF \E i \in DOMAIN runs : ~(DOMAIN runs[1].metrics \subseteq DOMAIN runs[i].metrics) THEN "error"
    ELSE IF /\ \A i \in DOMAIN runs : runs[i].hash = runs[1].hash /\ runs[i].payload = runs[1].payload
            /\ \A x \in DOMAIN runs[1].metrics : ~Varies([i \in DOMAIN runs |-> runs[i].metrics[x]], policy)
         THEN "passed" ELSE "failed"
-----------------------------------------------------------------------------
\* A fixture is [baseline, candidate, policy, observed, required, nodes, edges,
\* circuits, threshold, elapsed, interval, manual, stable].

\* TopologyAwareBaseline.score, in hundredths; edges are fidelities.
TopologyScore(nodes, edges) ==
    LET penalty == FoldLeft(LAMBDA a, f : a + 100 - Clamp(f, 0, 100), 0, edges)
    IN  [cost |-> 100 * nodes + penalty, routes |-> Len(edges), penalty |-> penalty]

MeanOr(metrics, name, otherwise) == IF name \in MetricNames(metrics) THEN Named(metrics, name).mean ELSE otherwise

\* _build_quality_signal; observed_error is <<>> without a baseline fidelity.
QualitySignal(f) ==
    LET fidelity == MeanOr(f.candidate, "fidelity", 0)
    IN  [swaps |-> TopologyScore(f.nodes, f.edges).routes, predicted |-> Max({0, 100 - fidelity}),
         observed |-> IF "fidelity" \in MetricNames(f.baseline)
                      THEN <<Max({0, MeanOr(f.baseline, "fidelity", 0) - fidelity})>> ELSE <<>>,
         runtime |-> MeanOr(f.candidate, "latency_ms", 0),
         confidence |-> IF f.observed >= f.required THEN 1 ELSE 0]

\* evaluate_offline and _observability_bundle: the fallback and its reason. The
\* confidence is 0 or 1 (any level above 0 is above 0 and at most 1).
Offline(f) ==
    LET quality == QualitySignal(f)
        low     == quality.confidence = 0 /\ f.policy.level > 0
    IN  [regressions |-> Regressions(f.baseline, f.candidate, f.policy), quality |-> quality,
         fallback |-> low \/ f.observed < f.required,
         reason |-> IF low THEN "CONFIDENCE_TOO_LOW" ELSE "UNSPECIFIED"]

\* Mutant of GateReasons: the samples are not looked at.
GateReasonsComparison(f) == IF Offline(f).regressions # {} THEN {"REGRESSION"} ELSE {}

\* evaluate_shadow.
GateReasons(f) ==
    (IF Offline(f).regressions # {} THEN {"REGRESSION"} ELSE {})
    \cup (IF f.observed < f.required THEN {"INSUFFICIENT_SAMPLES"} ELSE {})

\* The rules under which ContinuousLearningPipeline.evaluate trains a model.
ShouldRetrain(f) == f.circuits >= f.threshold \/ f.elapsed >= f.interval \/ f.manual

\* ContinuousLearningPipeline.evaluate; rollback is the model to go back to.
Pipeline(f) ==
    IF ~ShouldRetrain(f) THEN [trained |-> FALSE, decision |-> "NONE", reasons |-> {}, rollback |-> "", events |-> 1]
    ELSE [trained |-> TRUE, decision |-> IF GateReasons(f) = {} THEN "PROMOTE" ELSE "ROLLBACK",
          reasons |-> IF GateReasons(f) = {} THEN {"APPROVED"} ELSE GateReasons(f),
          rollback |-> IF GateReasons(f) = {} THEN "" ELSE f.stable, events |-> 2]
-----------------------------------------------------------------------------
EvaluationInit == evaluation = <<>>

\* A request that does not validate is an exception and no verdict.
Answered(e) ==
    CASE e.kind = "compare" -> CompareValid(<<e.baseline>>, <<e.candidate>>, e.policy)
      [] e.kind = "fixture" -> ShouldRetrain(e) => CompareValid(e.baseline, e.candidate, e.policy)
      [] OTHER -> Reproducible(e.runs, e.policy) # "error"

Evaluate(e) == evaluation = <<>> /\ Answered(e) /\ evaluation' = <<e>>
EvaluationNext == \E e \in Evaluations : Evaluate(e)

Is(kind) == evaluation # <<>> /\ evaluation[1].kind = kind

\* A verdict is monotone: a candidate further on the bad side of the baseline
\* than one that regresses also regresses, the spreads being the same.
RegressionMonotone ==
    Is("compare") => LET e == evaluation[1]
                         worse(by) == [e.candidate EXCEPT !.mean = IF e.policy.lower THEN @ + by ELSE @ - by]
                     IN  Regresses(e.baseline, e.candidate, e.policy) =>
                            \A by \in 1..6 : Regresses(e.baseline, worse(by), e.policy)

\* A verdict does not depend on the unit the metric is reported in: scaling the
\* means and the spreads of both runs leaves it as it was.
UnitsIrrelevant ==
    Is("compare") => LET e == evaluation[1]
                         scaled(m, k) == [m EXCEPT !.mean = k * @, !.sd = k * @]
                     IN  \A k \in 1..3 : Regresses(scaled(e.baseline, k), scaled(e.candidate, k), e.policy)
                                            <=> Regresses(e.baseline, e.candidate, e.policy)

\* The gate's verdict does not depend on the order in which the runs are listed,
\* as long as they report the same metrics.
GateOrderIrrelevant ==
    Is("gate") =>
        LET e == evaluation[1]
        IN  (\A i, j \in DOMAIN e.runs : DOMAIN e.runs[i].metrics = DOMAIN e.runs[j].metrics) =>
                \A p \in [DOMAIN e.runs -> DOMAIN e.runs] :
                    Cardinality({p[i] : i \in DOMAIN p}) = Len(e.runs) =>
                        Reproducible([i \in DOMAIN e.runs |-> e.runs[p[i]]], e.policy) = Reproducible(e.runs, e.policy)

\* A model is promoted only if no metric both sides report regresses and the
\* evaluation behind it did not fall back; a model that was trained and not
\* promoted is rolled back with a reason.
PromotionSound ==
    Is("fixture") =>
        LET f == evaluation[1]
            result == Pipeline(f)
        IN  /\ result.decision = "PROMOTE" => Offline(f).regressions = {} /\ ~Offline(f).fallback
            /\ result.trained /\ result.decision # "PROMOTE" => result.reasons # {} /\ result.rollback = f.stable

\* The values of the quality signal are within the bounds it declares for them,
\* for fidelities that are not negative and a baseline of at most 1.
QualityWithinBounds ==
    Is("fixture") =>
        LET q == QualitySignal(evaluation[1])
        IN  q.predicted \in 0..100 /\ (q.observed # <<>> => q.observed[1] \in 0..100)

\* A verdict follows from the measurements: it is monotone, does not depend on the
\* unit or the order of the runs, and promotes nothing that regressed.
VerdictsSound ==
    /\ RegressionMonotone /\ UnitsIrrelevant /\ GateOrderIrrelevant
    /\ PromotionSound /\ QualityWithinBounds
=============================================================================
