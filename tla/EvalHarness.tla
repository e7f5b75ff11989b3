------------------------------ MODULE EvalHarness ------------------------------
(***************************************************************************)
(* The Eval Harness (src/axis/eval_harness.py): which cases pass, and when *)
(* the candidate may replace the baseline.  A suite is a sequence of cases *)
(* with the two traces they led to; confidences and tolerances are in      *)
(* percent, and the square root of the z-test is squared away.             *)
(***************************************************************************)
EXTENDS Integers, Sequences, FiniteSetsExt

EvalTypes == {"target_task", "adjacent_task", "adversarial", "long_horizon",
              "calibration", "resource_cost", "style_regression"}

\* expected is an outcome or "any", limit a number of tokens or -1, and predicted a
\* confidence or -1 where the code has None.
Cases      == [type : EvalTypes, expected : {"success", "partial", "failure", "any"},
               limit : Int, tolerance : 0 .. 100]
CaseTraces == [outcome : {"success", "partial", "failure"}, tokens : Nat, predicted : -1 .. 100]
Entries    == [case : Cases, baseline : CaseTraces, candidate : CaseTraces]

Distance(m, n) == IF m > n THEN m - n ELSE n - m

\* _case_passed
CasePassed(case, trace) ==
  /\ case.expected \in {"any", trace.outcome}
  /\ case.limit = -1 \/ trace.tokens <= case.limit
  /\ case.type = "calibration" =>
       /\ trace.predicted # -1
       /\ Distance(trace.predicted, IF trace.outcome = "success" THEN 100 ELSE 0)
            <= case.tolerance

OfType(suite, type) == {k \in DOMAIN suite : suite[k].case.type = type}
BaselinePasses(suite, type) ==
  Cardinality({k \in OfType(suite, type) : CasePassed(suite[k].case, suite[k].baseline)})
CandidatePasses(suite, type) ==
  Cardinality({k \in OfType(suite, type) : CasePassed(suite[k].case, suite[k].candidate)})

\* Broken variant: the two-tailed test, which a better candidate fails as well.
RegressedEitherWay(n, b, c) ==
  40000 * n * (c - b) * (c - b) * 2 > 108241 * (b + c) * (2 * n - b - c)

(***************************************************************************)
(* _statistically_regressed, both series being of length n.  With b and c  *)
(* passes, z = (b - c) / sqrt((b + c) (2n - b - c) / 2n), and 1.645 is     *)
(* 329 / 200.  The branch for zero variance is never taken: b > c makes    *)
(* the pooled rate lie strictly between 0 and 1.                           *)
(***************************************************************************)
Regressed(n, b, c) ==
  /\ c < b
  /\ 40000 * n * (b - c) * (b - c) * 2 > 108241 * (b + c) * (2 * n - b - c)

RegressedTypes(suite) ==
  {t \in EvalTypes \ {"target_task"} :
     /\ OfType(suite, t) # {}
     /\ Regressed(Cardinality(OfType(suite, t)),
                  BaselinePasses(suite, t), CandidatePasses(suite, t))}

\* The target cases cost more than percent above the baseline, if that costs anything.
CostRegressed(suite, percent) ==
  LET target == OfType(suite, "target_task")
      b == SumFunction([k \in target |-> suite[k].baseline.tokens])
      c == SumFunction([k \in target |-> suite[k].candidate.tokens])
  IN  b > 0 /\ 100 * (c - b) > percent * b

TargetImproved(suite) ==
  CandidatePasses(suite, "target_task") > BaselinePasses(suite, "target_task")

\* run_suite(), down to EvalReport.passed
SuitePassed(suite, percent) ==
  TargetImproved(suite) /\ RegressedTypes(suite) = {} /\ ~CostRegressed(suite, percent)
=============================================================================
