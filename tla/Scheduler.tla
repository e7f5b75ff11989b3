------------------------------ MODULE Scheduler ------------------------------
(***************************************************************************)
(* The Scheduler (src/axis/scheduler.py): the token budget of a task and   *)
(* the gates it runs under.  Both are pure functions of the task, the      *)
(* Self-Model and a configuration fixed at construction.                   *)
(***************************************************************************)
EXTENDS AxisTypes

CONSTANTS
  TaskBudgets,        \* base tokens of the configured task classes
  StakesMultiplier,   \* stakes -> multiplier, in tenths
  HardCeiling,        \* hard_ceiling
  Split,              \* planning, execution and verification shares, in percent
  NoveltyThreshold    \* novelty_retrieval_threshold, in basis points

ASSUME SchedulerConfig ==
  /\ \A c \in DOMAIN TaskBudgets : TaskBudgets[c] \in Nat
  /\ StakesMultiplier \in [Stakes -> Nat]
  /\ HardCeiling \in Nat
  /\ Split \in [planning : Nat, execution : Nat, verification : Nat]
  /\ Split.planning + Split.execution + Split.verification <= 100
  /\ NoveltyThreshold \in Nat

\* domain_confidence_retrieval_threshold and explore_win_rate_threshold (both
\* 0.7), explore_fraction (in percent).
DomainConfidenceThreshold == 7000
ExploreWinRateThreshold   == 7000
ExploreFraction           == 20

\* Broken variant: the comparison as it would be without rounding.
DomainErrorHighExact(rate) == rate < 8500

(***************************************************************************)
(* domain_error > domain_error_verification_threshold.  The comparison is  *)
(* made on binary64 numbers: 1.0 - 0.85 is 0.15000000000000002, so a win   *)
(* rate of exactly 0.85 already counts as "error above 0.15".              *)
(***************************************************************************)
DomainErrorHigh(rate) == rate <= 8500

-----------------------------------------------------------------------------
(* Budget allocation *)

AtMost(bound, n) == IF n <= bound THEN n ELSE bound

BaseBudget(class) ==
  IF class \in DOMAIN TaskBudgets THEN TaskBudgets[class]
  ELSE IF "general" \in DOMAIN TaskBudgets THEN TaskBudgets["general"]
  ELSE 4000

ComplexityFactor(task) ==
  60 + (IF task.complexity < 0 THEN 0 ELSE AtMost(100, task.complexity))

\* base * (0.6 + complexity) * multiplier, in thousandths of a token
ScaledTotal(task) ==
  BaseBudget(task.class) * ComplexityFactor(task) * StakesMultiplier[task.stakes]

\* Broken variant: the ceiling is not applied.
TotalsUncapped(task) == {ScaledTotal(task) \div 1000}

(***************************************************************************)
(* int() truncates a binary64 product.  When the exact product is a whole  *)
(* number the computed one may fall just below it, and the total is then   *)
(* one token short (4000 tokens, complexity 0.05, low stakes: 1819).       *)
(***************************************************************************)
Totals(task) ==
  LET scaled == ScaledTotal(task)
      whole  == scaled \div 1000
      slips  == scaled > 0 /\ scaled % 1000 = 0
  IN  {AtMost(HardCeiling, t) :
         t \in {n \in {whole, whole - 1} : n = whole \/ slips}}

Share(total, percent) == (total * percent) \div 100

SplitTotal(total) ==
  LET planning     == Share(total, Split.planning)
      execution    == Share(total, Split.execution)
      verification == Share(total, Split.verification)
  IN  [total        |-> total,
       planning     |-> planning,
       execution    |-> execution,
       verification |-> verification,
       buffer       |-> total - planning - execution - verification]

\* The budgets allocate() can return for the task.
Allocate(task) == {SplitTotal(t) : t \in Totals(task)}

Budgets == [total : Nat, planning : Nat, execution : Nat,
            verification : Nat, buffer : Int]

-----------------------------------------------------------------------------
(* Gating *)

Gates == [retrieval : BOOLEAN, verification : BOOLEAN, exploration : Nat]

\* Broken variant: "critical" is forgotten.
GatesForHighOnly(task, selfModel, novelty) ==
  LET confidence == DomainWinRate(selfModel, task.class)
  IN  [retrieval    |-> \/ novelty > NoveltyThreshold
                        \/ confidence < DomainConfidenceThreshold,
       verification |-> task.stakes = "high" \/ DomainErrorHigh(confidence),
       exploration  |-> 0]

GatesFor(task, selfModel, novelty) ==
  LET confidence == DomainWinRate(selfModel, task.class)
      errorHigh  == DomainErrorHigh(confidence)
  IN  [retrieval    |-> \/ novelty > NoveltyThreshold
                        \/ confidence < DomainConfidenceThreshold,
       verification |-> /\ task.stakes \in {"high", "critical"} \/ errorHigh
                        /\ ~(task.stakes = "low" /\ ~errorHigh),
       exploration  |-> IF /\ confidence < ExploreWinRateThreshold
                           /\ task.stakes \in {"low", "medium"}
                        THEN ExploreFraction ELSE 0]
=============================================================================
