---------------------------- MODULE Admission_proofs ----------------------------
(***************************************************************************)
(* Admission control for every configuration of the Scheduler, every task  *)
(* and every Self-Model: what allocate(), gates() and route() return, that *)
(* the Router confirms the Scheduler, and what higher stakes change.       *)
(***************************************************************************)
EXTENDS Admission, TLAPS

-----------------------------------------------------------------------------
(* Budgets and gates *)

LEMMA AtMostBounds ==
  ASSUME NEW bound \in Nat, NEW n \in Nat
  PROVE  AtMost(bound, n) \in Nat /\ AtMost(bound, n) <= bound /\ AtMost(bound, n) <= n
BY DEF AtMost

\* A share is never more than its percentage of the total.
LEMMA ShareBounds ==
  ASSUME NEW total \in Nat, NEW percent \in Nat
  PROVE  Share(total, percent) \in Nat /\ 100 * Share(total, percent) <= total * percent
<1> DEFINE product == total * percent
<1>1. product \in Nat
  OBVIOUS
<1>2. product \div 100 \in Nat /\ 100 * (product \div 100) <= product
  <2> HIDE DEF product
  <2>. QED BY <1>1
<1>. QED BY <1>2 DEF Share

\* Sub-budgets are non-negative and add up to the total.
LEMMA SplitFits ==
  ASSUME NEW total \in Nat
  PROVE  LET b == SplitTotal(total)
         IN  /\ b \in Budgets
             /\ b.total = total
             /\ b.buffer >= 0
             /\ b.total = b.planning + b.execution + b.verification + b.buffer
<1> DEFINE p == Share(total, Split.planning)
           e == Share(total, Split.execution)
           v == Share(total, Split.verification)
<1>1. Split.planning \in Nat /\ Split.execution \in Nat /\ Split.verification \in Nat
  BY SchedulerConfig
<1>2. /\ p \in Nat /\ 100 * p <= total * Split.planning
      /\ e \in Nat /\ 100 * e <= total * Split.execution
      /\ v \in Nat /\ 100 * v <= total * Split.verification
  BY <1>1, ShareBounds
<1>3. p + e + v <= total
  <2> DEFINE percents == Split.planning + Split.execution + Split.verification
  <2>1. percents \in Nat /\ percents <= 100
    BY <1>1, SchedulerConfig
  <2>2. total * percents <= total * 100
    <3> HIDE DEF percents
    <3>. QED BY <2>1
  <2>3. total * percents
          = total * Split.planning + total * Split.execution + total * Split.verification
    BY <1>1
  <2> HIDE DEF p, e, v, percents
  <2>4. total * Split.planning \in Nat /\ total * Split.execution \in Nat
        /\ total * Split.verification \in Nat
    BY <1>1
  <2>. QED BY <1>2, <2>2, <2>3, <2>4
<1>4. SplitTotal(total) = [total |-> total, planning |-> p, execution |-> e,
                           verification |-> v, buffer |-> total - p - e - v]
  BY DEF SplitTotal
<1> HIDE DEF p, e, v
<1>. QED BY <1>2, <1>3, <1>4 DEF Budgets

LEMMA ScaledTotalType ==
  ASSUME NEW task \in Tasks
  PROVE  ScaledTotal(task) \in Nat
<1>1. BaseBudget(task.class) \in Nat
  BY SchedulerConfig DEF BaseBudget
<1>2. ComplexityFactor(task) \in Nat
  BY DEF ComplexityFactor, AtMost, Tasks
<1>3. StakesMultiplier[task.stakes] \in Nat
  BY SchedulerConfig DEF Tasks
<1>. QED BY <1>1, <1>2, <1>3 DEF ScaledTotal

LEMMA TotalsFit ==
  ASSUME NEW task \in Tasks, NEW t \in Totals(task)
  PROVE  t \in Nat /\ t <= HardCeiling
<1> DEFINE scaled == ScaledTotal(task)
           whole  == scaled \div 1000
<1>1. scaled \in Nat
  BY ScaledTotalType
<1>2. PICK n \in {whole, whole - 1} :
         t = AtMost(HardCeiling, n) /\ (n = whole \/ (scaled > 0 /\ scaled % 1000 = 0))
  BY DEF Totals
<1>3. n \in Nat
  <2> HIDE DEF scaled
  <2>1. whole \in Nat
    BY <1>1
  <2>2. CASE n = whole
    BY <2>1, <2>2
  <2>3. CASE n = whole - 1 /\ scaled > 0 /\ scaled % 1000 = 0
    <3>1. whole # 0
      BY <1>1, <2>3
    <3>. QED BY <2>1, <2>3, <3>1
  <2>. QED BY <1>2, <2>2, <2>3
<1>. QED BY <1>2, <1>3, AtMostBounds, SchedulerConfig

\* allocate() returns a well-formed budget under the hard ceiling, whatever the
\* task, the configuration and the rounding of the products.
THEOREM AllocateFits ==
  ASSUME NEW task \in Tasks, NEW b \in Allocate(task)
  PROVE  /\ b \in Budgets
         /\ b.total <= HardCeiling
         /\ b.buffer >= 0
         /\ b.total = b.planning + b.execution + b.verification + b.buffer
<1>1. PICK t \in Totals(task) : b = SplitTotal(t)
  BY DEF Allocate
<1>2. t \in Nat /\ t <= HardCeiling
  BY TotalsFit
<1>. QED BY <1>1, <1>2, SplitFits

LEMMA GatesForType ==
  ASSUME NEW task \in Tasks, NEW selfModel \in SelfModels, NEW novelty \in Nat
  PROVE  GatesFor(task, selfModel, novelty) \in Gates
BY DEF GatesFor, Gates, ExploreFraction
-----------------------------------------------------------------------------
(* The Router, and how it agrees with the Scheduler *)

LEMMA RateType ==
  ASSUME NEW c \in Capabilities
  PROVE  c.rate \in Nat
<1>1. c.rate \in Rates
  BY DEF Capabilities
<1>2. Rates \subseteq Nat
  BY DEF Rates
<1>. QED BY <1>1, <1>2

LEMMA WinRateType ==
  ASSUME NEW t \in Tasks, NEW m \in SelfModels
  PROVE  DomainWinRate(m, t.class) \in Nat
<1>1. m.caps[t.class] \in Capabilities
  BY DEF SelfModels, Tasks
<1>2. m.caps[t.class].rate \in Nat
  BY <1>1, RateType
<1>. QED BY <1>2 DEF DomainWinRate

LEMMA ApplyDepthType ==
  ASSUME NEW g \in Gates, NEW depth
  PROVE  /\ ApplyDepth(g, depth) \in Gates
         /\ ((g.verification /\ depth # "skip") \/ depth = "full" <=> g.verification)
              => ApplyDepth(g, depth) = g
BY DEF ApplyDepth, Gates

\* The Router's depth never changes the gate the Scheduler computed.
LEMMA DepthConfirmsGate ==
  ASSUME NEW t \in Tasks, NEW m \in SelfModels, NEW n \in Nat
  PROVE  LET g == GatesFor(t, m, n)
             d == VerificationDepth(t, m)
         IN  (g.verification /\ d # "skip") \/ d = "full" <=> g.verification
<1> DEFINE rate == DomainWinRate(m, t.class)
           urgent == t.stakes \in {"critical", "high"}
<1>1. rate \in Nat
  BY WinRateType
<1>2. t.stakes \in Stakes
  BY DEF Tasks
<1>3. VerificationDepth(t, m) =
        IF urgent \/ rate < 6000 THEN "full"
        ELSE IF t.stakes = "low" /\ rate > 8500 THEN "skip" ELSE "spot_check"
  BY DEF VerificationDepth
<1>4. GatesFor(t, m, n).verification <=>
        (urgent \/ rate <= 8500) /\ ~(t.stakes = "low" /\ ~(rate <= 8500))
  BY DEF GatesFor, DomainErrorHigh
<1> HIDE DEF rate
<1>. QED BY <1>1, <1>2, <1>3, <1>4 DEF Stakes

LEMMA BelievingType ==
  ASSUME NEW c \in Capabilities
  PROVE  Believing(c) \in SelfModels
BY DEF Believing, SelfModels, Strategies

\* The two components apply the same rule: routing never moves the gate.
LEMMA GateConfirmed ==
  ASSUME NEW task \in Tasks, NEW belief \in Capabilities, NEW novelty \in Nat
  PROVE  Gated(task, belief, novelty) = Granted(task, belief, novelty)
<1> DEFINE granted == Granted(task, belief, novelty)
           depth == Route(task, Believing(belief)).depth
<1>1. Believing(belief) \in SelfModels
  BY BelievingType
<1>2. granted = GatesFor(task, Believing(belief), novelty)
  BY DEF Granted
<1>3. depth = VerificationDepth(task, Believing(belief))
  BY DEF Route
<1>4. (granted.verification /\ depth # "skip") \/ depth = "full" <=> granted.verification
  BY <1>1, <1>2, <1>3, DepthConfirmsGate
<1>5. granted \in Gates
  BY <1>1, <1>2, GatesForType
<1>6. Gated(task, belief, novelty) = ApplyDepth(granted, depth)
  BY DEF Gated
<1> HIDE DEF granted, depth
<1>7. ApplyDepth(granted, depth) = granted
  BY <1>4, <1>5, ApplyDepthType
<1>. QED BY <1>6, <1>7 DEF granted

\* A closed gate means low or medium stakes and a known win rate above 0.85.
LEMMA ClosedGateEarned ==
  ASSUME NEW task \in Tasks, NEW belief \in Capabilities, NEW novelty,
         ~Granted(task, belief, novelty).verification
  PROVE  task.stakes \in {"low", "medium"} /\ belief.known /\ belief.rate > 8500
<1>1. task.stakes \in Stakes /\ task.class \in TaskClasses
  BY DEF Tasks
<1>2. belief.rate \in Nat
  BY RateType
<1>3. DomainWinRate(Believing(belief), task.class)
        = IF belief.known THEN belief.rate ELSE 5000
  BY <1>1 DEF DomainWinRate, Believing
<1>4. ~(task.stakes \in {"high", "critical"})
      /\ ~DomainErrorHigh(DomainWinRate(Believing(belief), task.class))
  BY <1>1 DEF Granted, GatesFor, Stakes
<1>. QED BY <1>1, <1>2, <1>3, <1>4 DEF DomainErrorHigh, Stakes

-----------------------------------------------------------------------------
(* Stakes *)

\* What the configuration must say for it: each level multiplies by more than the one below.
MultipliersRise == \A s \in Stakes : \A lower \in Below[s] :
                     StakesMultiplier[lower] < StakesMultiplier[s]

LEMMA FactorsRise ==
  ASSUME NEW base \in Nat \ {0}, NEW m \in Nat, NEW n \in Nat, m < n
  PROVE  base * m < base * n
<1>1. n = m + (n - m) /\ n - m \in Nat /\ n - m >= 1
  OBVIOUS
<1>2. base * n = base * m + base * (n - m)
  OBVIOUS
<1>3. ASSUME NEW d \in Nat, d >= 1 PROVE base * d >= 1
  BY <1>3
<1>4. base * m \in Nat /\ base * (n - m) >= 1 /\ base * (n - m) \in Nat
  BY <1>1, <1>3
<1>. QED BY <1>2, <1>4

\* The token a product may lose to its rounding is never one the lower stakes keep: only a
\* whole number of tokens can slip, and what is scaled to less than that truncates below it.
LEMMA SlipsKeepOrder ==
  ASSUME NEW a \in Nat, NEW b \in Nat, a < b \/ (a = 0 /\ b = 0),
         NEW m \in {a \div 1000, a \div 1000 - 1},
         m = a \div 1000 \/ (a > 0 /\ a % 1000 = 0),
         NEW n \in {b \div 1000, b \div 1000 - 1},
         n = b \div 1000 \/ (b > 0 /\ b % 1000 = 0)
  PROVE  m <= n
<1> DEFINE p == a \div 1000  q == b \div 1000
<1>1. p \in Nat /\ q \in Nat /\ a = 1000 * p + (a % 1000) /\ b = 1000 * q + (b % 1000)
      /\ a % 1000 \in 0 .. 999 /\ b % 1000 \in 0 .. 999
  OBVIOUS
<1>2. CASE n = q
  <2>1. p <= q
    BY <1>1
  <2>. QED BY <1>1, <1>2, <2>1
<1>3. CASE n = q - 1 /\ b > 0 /\ b % 1000 = 0
  <2>1. a < 1000 * q
    BY <1>1, <1>3
  <2>2. p < q
    BY <1>1, <2>1
  <2>. QED BY <1>1, <1>3, <2>2
<1>. QED BY <1>2, <1>3

LEMMA TotalsRise ==
  ASSUME MultipliersRise, NEW t \in Tasks, NEW s \in Below[t.stakes],
         NEW m \in Totals(Lowered(t, s)), NEW n \in Totals(t)
  PROVE  m <= n
<1> DEFINE lesser == Lowered(t, s)
           factor == BaseBudget(t.class) * ComplexityFactor(t)
           a == ScaledTotal(lesser)
           b == ScaledTotal(t)
<1>1. t.stakes \in Stakes /\ s \in Stakes
  BY DEF Tasks, Below, Stakes
<1>2. lesser \in Tasks /\ lesser.class = t.class /\ lesser.complexity = t.complexity
      /\ lesser.stakes = s
  BY <1>1 DEF Tasks, Lowered
<1>3. BaseBudget(t.class) \in Nat
  BY SchedulerConfig DEF BaseBudget
<1>4. ComplexityFactor(t) \in Nat
  BY DEF ComplexityFactor, AtMost, Tasks
<1>5. factor \in Nat
  BY <1>3, <1>4
<1>6. a = factor * StakesMultiplier[s] /\ b = factor * StakesMultiplier[t.stakes]
  BY <1>2 DEF ScaledTotal, ComplexityFactor
<1>7. StakesMultiplier[s] \in Nat /\ StakesMultiplier[t.stakes] \in Nat
      /\ StakesMultiplier[s] < StakesMultiplier[t.stakes]
  BY <1>1, SchedulerConfig DEF MultipliersRise
<1>8. a \in Nat /\ b \in Nat
  BY <1>2, ScaledTotalType
<1>9. PICK i \in {a \div 1000, a \div 1000 - 1} :
        m = AtMost(HardCeiling, i) /\ (i = a \div 1000 \/ (a > 0 /\ a % 1000 = 0))
  BY DEF Totals
<1>10. PICK j \in {b \div 1000, b \div 1000 - 1} :
        n = AtMost(HardCeiling, j) /\ (j = b \div 1000 \/ (b > 0 /\ b % 1000 = 0))
  BY DEF Totals
<1> HIDE DEF factor, lesser
<1>11. a < b \/ (a = 0 /\ b = 0)
  <2>1. CASE factor = 0
    BY <1>6, <1>7, <2>1
  <2>2. CASE factor # 0
    BY <1>5, <1>6, <1>7, <2>2, FactorsRise
  <2>. QED BY <2>1, <2>2
<1> HIDE DEF a, b
<1>12. i <= j
  BY <1>8, <1>9, <1>10, <1>11, SlipsKeepOrder
<1>13. i \in Int /\ j \in Int /\ HardCeiling \in Nat
  BY <1>8, <1>9, <1>10, SchedulerConfig
<1>. QED BY <1>9, <1>10, <1>12, <1>13 DEF AtMost

\* Nor is verification lost that lower stakes have.
LEMMA VerificationRises ==
  ASSUME NEW task \in Tasks, NEW belief, NEW s \in Below[task.stakes], NEW m, NEW n,
         Granted(Lowered(task, s), belief, m).verification
  PROVE  Granted(task, belief, n).verification
<1> DEFINE lesser == Lowered(task, s)
           rate == DomainWinRate(Believing(belief), task.class)
<1>1. task.stakes \in Stakes /\ lesser.stakes = s /\ lesser.class = task.class
  BY DEF Tasks, Lowered
<1>2. Granted(task, belief, n).verification <=>
        /\ task.stakes \in {"high", "critical"} \/ DomainErrorHigh(rate)
        /\ ~(task.stakes = "low" /\ ~DomainErrorHigh(rate))
  BY DEF Granted, GatesFor
<1>3. Granted(lesser, belief, m).verification <=>
        /\ s \in {"high", "critical"} \/ DomainErrorHigh(rate)
        /\ ~(s = "low" /\ ~DomainErrorHigh(rate))
  BY <1>1 DEF Granted, GatesFor
<1> HIDE DEF rate, lesser
<1>4. DomainErrorHigh(rate) => Granted(task, belief, n).verification
  BY <1>2
<1>5. s \in {"high", "critical"} => task.stakes = "critical"
  BY <1>1 DEF Below, Stakes
<1>. QED BY <1>2, <1>3, <1>4, <1>5 DEF lesser
=============================================================================
