------------------------------- MODULE Judgements -------------------------------
(***************************************************************************)
(* The pure functions callers consult, one call at a time: what a task is  *)
(* granted, the verdict of the Eval Harness, the World Model's forecast of *)
(* plans, the Objective Stack's weights and choices, the Verifier's        *)
(* signals and the federated Self-Model.  Each is held against a reference *)
(* that says what its answer is good for, or against what it would answer  *)
(* to another question.                                                    *)
(***************************************************************************)
EXTENDS Admission, EvalHarness, WorldModel, ObjectiveStack, VerifierSignals, SelfModelMerge

CONSTANTS
  Requests,           \* bound: the tasks clients ask for
  Beliefs,            \* bound: the capability entries a Self-Model may hold
  Novelties,          \* bound: the novelty estimates passed to gates()
  Suites,             \* bound: suites that are run, with the traces they lead to
  CostPercent,        \* cost_regression_pct, in percent
  OtherTraces,        \* bound: traces a candidate might have left instead
  Starts,             \* bound: states plans are tried from
  MaxActions,         \* bound: actions of a plan
  CandidateSets,      \* bound: sequences of candidates to choose from
  Claims,             \* bound: claims an output makes
  Words,              \* bound: words of claims, tool calls and earlier outputs
  Confidences,        \* bound: confidences, in percent
  Severities,         \* severities of contradictions, in percent
  PassThreshold,      \* pass_threshold, in percent
  Samples,            \* bound: what an instance has measured of a class
  Observers           \* instances whose Self-Models are merged

ASSUME JudgementsConfig ==
  /\ Requests \subseteq Tasks /\ Beliefs \subseteq Capabilities /\ Novelties \subseteq Nat
  /\ Suites \subseteq Seq(Entries) /\ OtherTraces \subseteq CaseTraces
  /\ CostPercent \in Nat /\ MaxActions \in Nat
  /\ Starts \subseteq States
  /\ \A candidates \in CandidateSets :
       /\ Len(candidates) \in Nat /\ DOMAIN candidates = 1 .. Len(candidates)
       /\ \A i \in DOMAIN candidates : IsCandidate(candidates[i])
  /\ Claims \subseteq SUBSET Words
  /\ Samples \subseteq AllSamples
  /\ Confidences \subseteq 0 .. 100 /\ Severities \subseteq 0 .. 100
  /\ PassThreshold \in 0 .. 100
  /\ IsFiniteSet(Words) /\ IsFiniteSet(Observers)

VARIABLE call      \* the last call and its answer

NoCall == [what |-> "none"]
Init   == call = NoCall

\* The caller has its answer.
Return == call # NoCall /\ call' = NoCall

Admit ==
  /\ call = NoCall
  /\ \E task \in Requests, belief \in Beliefs, novelty \in Novelties :
     \E budget \in Allocate(task) :
       call' = [what |-> "admit", task |-> task, belief |-> belief, budget |-> budget,
                granted |-> Granted(task, belief, novelty),
                gates |-> Gated(task, belief, novelty)]

RunSuite ==
  /\ call = NoCall
  /\ \E suite \in Suites :
       call' = [what |-> "suite", suite |-> suite, answer |-> SuitePassed(suite, CostPercent)]

PlansUpTo(n) == UNION {[1 .. m -> ActionNames] : m \in 0 .. n}

TryPlan ==
  /\ call = NoCall
  /\ \E start \in Starts, plan \in PlansUpTo(MaxActions) :
       call' = [what |-> "plan", start |-> start, plan |-> plan,
                answer |-> PlanIsFeasible(start, plan)]

TryPlans ==
  /\ call = NoCall
  /\ \E start \in Starts, p, q \in PlansUpTo(MaxActions - 1), limit \in 0 .. 3 :
       call' = [what |-> "plans", start |-> start, plans |-> <<p, q>>, limit |-> limit,
                answer |-> CounterfactualSequences(start, <<p, q>>, limit)]

Weigh ==
  /\ call = NoCall
  /\ \E class \in TaskClasses, stakes \in Stakes :
       call' = [what |-> "weights", class |-> class, stakes |-> stakes,
                answer |-> WeightsFor(class, stakes)]

ChooseOne ==
  /\ call = NoCall
  /\ \E candidates \in CandidateSets, class \in TaskClasses, stakes \in Stakes :
       call' = [what |-> "choice", candidates |-> candidates,
                weights |-> WeightsFor(class, stakes),
                answer |-> Resolve(candidates, WeightsFor(class, stakes))]

ScoreOutput ==
  /\ call = NoCall
  /\ \E claims \in UNION {[1 .. n -> Claims] : n \in 0 .. 2}, words \in SUBSET Words,
        confidence \in Confidences, severity \in Severities, friction \in 0 .. 6 :
       LET corpus == Corpus(claims, words) IN
       call' = [what |-> "score", claims |-> claims, words |-> words,
                confidence |-> confidence, severity |-> severity, friction |-> friction,
                supported |-> SupportedClaims(claims, corpus),
                answer |-> SignalsPass(confidence, claims, corpus, severity, friction,
                                       PassThreshold)]

Merge ==
  /\ call = NoCall
  /\ \E observers \in [Observers -> Samples] :
       /\ Contributing(observers) # {}
       /\ call' = [what |-> "merge", observers |-> observers, answer |-> MergedRate(observers)]

Next ==
  Return \/ Admit \/ RunSuite \/ TryPlan \/ TryPlans \/ Weigh \/ ChooseOne \/ ScoreOutput \/ Merge

Spec == Init /\ [][Next]_call

-----------------------------------------------------------------------------
(* Properties *)

\* allocate(): the budget of a task is well-typed, its four parts are non-negative and add
\* up to the total, and the total respects the hard ceiling, however products are rounded.
BudgetFits ==
  call.what = "admit" =>
    /\ call.budget \in Budgets
    /\ call.budget.total = call.budget.planning + call.budget.execution
                           + call.budget.verification + call.budget.buffer
    /\ call.budget.total <= HardCeiling
    /\ call.budget.buffer >= 0

\* allocate(), gates(): the same task at higher stakes never gets fewer tokens, and
\* never loses the verification it had.
StakesMonotone ==
  call.what = "admit" =>
    \A stakes \in Below[call.task.stakes] :
      LET lesser == Lowered(call.task, stakes) IN
      /\ \A b \in Allocate(lesser) : b.total <= call.budget.total
      /\ Granted(lesser, call.belief, 0).verification => call.granted.verification

\* gates(), route(): no task of high stakes, and none of a class not known to win
\* more than 85 percent of the time, runs with its verification gate closed.
VerificationEarned ==
  call.what = "admit" /\ ~call.gates.verification =>
    /\ call.task.stakes \in {"low", "medium"}
    /\ call.belief.known /\ call.belief.rate > 8500

\* The runtime lets the Router force the gate either way; the rules of the two
\* components are in fact the same rule, down to a win rate of exactly 0.85.
RouterConfirmsScheduler == call.what = "admit" => call.gates = call.granted

With(suite, k, trace) == [suite EXCEPT ![k].candidate = trace]

\* run_suite(): a candidate that passes still passes when it does better, that is when any
\* of its traces is replaced by one that passes its case and costs no more.
GateMonotone ==
  call.what = "suite" /\ call.answer =>
    \A k \in DOMAIN call.suite, t \in OtherTraces :
      CasePassed(call.suite[k].case, t) /\ t.tokens <= call.suite[k].candidate.tokens
        => SuitePassed(With(call.suite, k, t), CostPercent)

\* Where a sequence of assignments writes a key.
WritesTo(assignments, key) == {k \in DOMAIN assignments : assignments[k].key = key}

\* What a key holds after the first n actions of a plan: what the last assignment to it
\* by the last of them to write it says, or what it held.
Holds(start, plan, n, key) ==
  LET writers == {k \in 1 .. n : WritesTo(Schemas[plan[k]].success, key) # {}}
      last    == Schemas[plan[Max(writers)]].success
  IN  IF writers = {} THEN start[key] ELSE Assigned(last[Max(WritesTo(last, key))])

\* The reference: an action runs if every precondition holds of what was last written.
Runs(start, plan, n) ==
  \A k \in DOMAIN Schemas[plan[n]].pre :
    Satisfies([key \in Keys |-> Holds(start, plan, n - 1, key)], Schemas[plan[n]].pre[k])

Forecast(start, plan) ==
  LET unknown == {n \in DOMAIN plan : plan[n] \notin DOMAIN Schemas}
      known   == {n \in DOMAIN plan : \A u \in unknown : n < u}
  IN  IF \E n \in known : ~Runs(start, plan, n) THEN "infeasible"
      ELSE IF unknown # {} THEN "raised" ELSE "feasible"

\* plan_is_feasible(), counterfactual_sequences(): the verdict of a plan is what the last
\* write of every key makes of its preconditions, alone or among other candidates.
FeasibleByLastWriter ==
  /\ call.what = "plan" => call.answer = Forecast(call.start, call.plan)
  /\ call.what = "plans" =>
       LET tried == {k \in DOMAIN call.plans : k <= call.limit} IN
       IF \E k \in tried : Forecast(call.start, call.plans[k]) = "raised"
       THEN call.answer = <<"raised">>
       ELSE call.answer = [k \in tried |-> Forecast(call.start, call.plans[k])]

\* resolve(): what is chosen is permitted, and unless it has the best score it is less
\* than 5% behind the best and of less variance.
ResolveNearBest ==
  call.what = "choice" =>
    LET permitted == {i \in DOMAIN call.candidates : call.candidates[i].permitted}
        score(i)  == Score(call.candidates[i], call.weights)
        best      == {i \in permitted : \A j \in permitted : score(j) <= score(i)}
    IN  IF permitted = {} THEN call.answer = 0
        ELSE /\ call.answer \in permitted
             /\ call.answer \notin best => \A i \in best :
                  /\ 20 * (score(i) - score(call.answer)) < score(i)
                  /\ call.candidates[call.answer].variance < call.candidates[i].variance

Higher == [low |-> {"medium", "high", "critical"}, medium |-> {"high", "critical"},
           high |-> {"critical"}, critical |-> {}]

\* weights_for(): whatever the domain, after normalisation higher stakes never make truth
\* count for less, nor latency for more.
StakesShiftWeights ==
  call.what = "weights" =>
    \A higher \in Higher[call.stakes] :
      LET more == WeightsFor(call.class, higher) IN
      /\ more.truthfulness * TotalWeight(call.answer)
           >= call.answer.truthfulness * TotalWeight(more)
      /\ more.latency * TotalWeight(call.answer) <= call.answer.latency * TotalWeight(more)

\* _evidence_support(): "supported by evidence surfaced during the run (tool outputs +
\* working memory content)": a claim counts as supported only if half of its words are
\* among those of the tool calls and the outputs the run had before it made the claim.
SupportNeedsEvidence ==
  call.what = "score" => \A k \in call.supported : Supported(call.claims[k], call.words)

\* _friction(), _evidence_support(): one more tool call that fails never lets an output pass
\* that was rejected without it, whatever words it brings into the evidence.
FailureNeverHelps ==
  call.what = "score" /\ ~call.answer =>
    \A more \in SUBSET Words :
      ~SignalsPass(call.confidence, call.claims, Corpus(call.claims, call.words \cup more),
                   call.severity, call.friction + 1, PassThreshold)

\* aggregate_self_model(): rounded twice, the merged win rate is within a basis point of
\* the wins among all outcomes of all instances, those without an entry included.
MergedIsPooled ==
  call.what = "merge" =>
    LET wins == SumFunction([i \in Observers |-> call.observers[i].wins])
        size == SumFunction([i \in Observers |-> call.observers[i].size])
    IN  Distance(call.answer * size, 10000 * wins) <= size
=============================================================================
