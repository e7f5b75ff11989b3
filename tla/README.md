# AXIS in TLA+

AXIS (`src/axis`) wraps a language-model backend in a control loop: a task is
routed, budgeted, planned, executed step by step, verified, and its outcome is
measured, so that the next tasks are planned and verified differently. This
directory models that loop and the components around it, checks the models with
TLC and proves the properties that matter most with TLAPS.

Contents: [1 Inventory](#1-inventory) · [2 Modules](#2-modules) ·
[3 Runs](#3-runs) · [4 Fairness](#4-fairness) · [5 Proofs](#5-proofs) ·
[6 Disagreements and observations](#6-disagreements-and-observations) ·
[7 What is not modelled](#7-what-is-not-modelled) · [8 Plan](#8-plan)

## 1 Inventory

The system is a library. Nothing in it starts a thread: `AxisRuntime.run()` blocks
its caller until a task is answered or an exception leaves it. What happens
*between* two runs, and in which order, is up to the callers: writes to Procedural
Memory, forgetting cycles, diagnosis, proposals, deployments, rollback checks,
validation by other instances.

| Component (`src/axis/…`) | State it keeps | Operations | Talks to |
|---|---|---|---|
| `runtime.py` | none of its own; `run()` has a trace, a plan and a replan count | `run` | everything below, by calls |
| `policy_router.py` | the routing log | `route`, `record_outcome`, `training_data` | reads the Self-Model |
| `scheduler.py`, `config.py` | configuration | `allocate`, `gates` | reads the Self-Model |
| `planner.py` | a Self-Model and a view of procedures, both set by the runtime | `plan`, `replan` | |
| `types.py` | plans, traces, enumerations | `Plan.topological_order` | |
| `executor.py` | Working Memory, per attempt | `execute_plan`, `execute_step` | the backend, tools |
| `verifier.py` | thresholds | `verify` | reads trace, gates, task |
| `telemetry.py` | ring buffers, task total, optional sink | `ingest`, `snapshot`, `should_refresh_self_model` | Planner, through the runtime |
| `memory/procedural.py` | procedures with a status and usage counts | `register`, `update_steps`, `record_usage`, `promote`, `retire`, `delete` | |
| `memory/manager.py` | the stores | `record_episode`, index for the Planner, `distill`, forgetting | the stores |
| `memory/episodic.py`, `semantic.py`, `forgetting.py` | bounded stores with id indexes | add, annotate, delete, upsert, prune, evict | |
| `adaptation.py` | deployments, rollbacks, conservative mode, baselines | `diagnose`, `propose`, `evaluate`, `deploy`, `check_rollbacks`, `check_triggers` | Observer, Safety Monitor, harness |
| `safety.py` | sealed configuration, audit log | `review_proposal`, floors, override channel | |
| `eval_harness.py` | the cases | `add_case`, `run_suite` | two runtimes, as functions |
| `multi_instance.py` | shared procedures, reports, registered instances, overrides | `propose_candidate`, `report_usage`, `check_validations`, `record_local_override`, `aggregate_self_model` | Procedural Memory, observers |
| `objectives.py`, `world_model.py`, `reference_frame.py` | none | pure functions | nobody calls them |

**What is hard here.** Three things, in this order.

1. *One run.* Two replan paths (a failed step; a rejected answer) share one
   allowance that is counted in two places. Replans rename steps, and every
   dependency must follow or the Executor rejects the plan. Traces are replaced,
   so scores, costs and Working Memory must belong to the attempt returned. Two
   exceptions (a template step without an action, a failing telemetry sink) leave
   the run half recorded.
2. *Across runs.* Outcomes feed the Self-Model, which decides whether the next
   task is verified. Four ledgers (routing log, telemetry, episodes, what the
   caller saw) must tell the same story although entries are matched by position.
3. *Between runs.* Review, evaluation, deployment and rollback checks are separate
   calls; the state one of them tested may be stale when the next one acts. The same
   holds of the federation: reports arrive in any order, late, twice, about procedures
   retired since; and of the memory stores, where positions kept by id must survive
   eviction by age, by value and by hand.

**What makes each component correct.**

* Runtime: an answer or an exception for every task; bounded attempts; no retry
  given away; high stakes never returned without a score of the final attempt.
* Scheduler and Router: budgets that add up under truncation; higher stakes never
  get less; the two components never contradict each other.
* Planner, `topological_order`: plans stay executable; what is returned is an
  order, and what is raised for has none (the code keeps the second up to a case in section 6).
* Executor: a step starts with its inputs; cost is bounded.
* Telemetry: what is measured is what happened; the Self-Model is fresh.
* Procedural Memory: only validated procedures become templates.
* Adaptation: drops are rolled back, each once; the breaker holds.
* Memory stores: index and list agree; lessons rest on what they say; what is evicted is
  worth least. Federation: a procedure is validated by enough different instances, and
  instances plan from what was validated (section 6 says where the code falls short).
* Judgements (harness, world model, objectives, verifier signals): an answer agrees with a
  definition of what was asked, and moves the right way when the question does.

`PROJECT.json` lists every component with its status, and every hazard at its line.

## 2 Modules

```
AxisTypes ── Scheduler ────────┐
   │      ── PolicyRouter ─────┤
   │      ── TelemetryObserver ┼─ AxisRuntime ── MCAxisRuntime
   │             │             │      └ INSTANCE RetryProtocol
   │             └ Adaptation ─┼─ MCAdaptation
   │      ── Planner ─ ProceduralMemory
   │             └ PlanOrder ── TopologicalOrder
   │      Scheduler + PolicyRouter ── Admission ─┐
   └ ObjectiveStack ─────────────────────────────┤
EvalHarness, WorldModel ─────────────────────────┼─ Judgements ── MCJudgements
VerifierSignals, SelfModelMerge ─────────────────┘
Federation ── MCFederation
   └ INSTANCE ValidationRule
MemoryStores ── MCMemoryStores
*_proofs: Admission (Scheduler, Router), Components (Planner, Router log, Observer,
          procedures), AxisRuntime, Adaptation, Federation, TopologicalOrder,
          MemoryStores, Judgements
```

| Module | Models | How it corresponds |
|---|---|---|
| `AxisTypes` | enumerations, tasks, the Self-Model fields anybody reads | rates are integers in basis points, because the Observer rounds to four digits before anyone reads them |
| `Scheduler` | `allocate`, `gates` | pure operators; `Totals` is the set of results `int()` of a binary64 product can give |
| `PolicyRouter` | `route`, routing log | log entries carry the run that made them, which the code does not know: that is what `LedgersAgree` compares |
| `PlanOrder` | the orders of a plan | `DependencyOrders` is the plain notion; `TopologicalOrders`, on which the Executor is modelled, are those the code gives, none when a dependency is listed twice |
| `TopologicalOrder` | the algorithm itself | one action per iteration of its two loops; checked against `PlanOrder` |
| `Planner` | strategy choice, default phases, templates, `replan` | step ids are numbers in place of uuids |
| `ProceduralMemory` | the registry and the Planner's index of it | success rates are exact ratios |
| `TelemetryObserver` | buffers behind win rates and best strategies, snapshot, refresh trigger | `Push` is `deque(maxlen)` |
| `AxisRuntime` | `run()` with Executor and Verifier, and the writers of Procedural Memory | see below |
| `RetryProtocol` | what `run()` promises its caller | abstract specification, no component in it |
| `Admission` | what Scheduler and Router together grant a task | pure operators over a task, a belief and a novelty |
| `Adaptation` | Adaptation Manager and Safety Monitor review | one action per public call, callers in any order |
| `ValidationRule` | what the federation promises | abstract specification: supporters on task classes, quorums, standing; no reports in it. Who has a quorum on one class is owed validation, who has one over all classes may be validated |
| `Federation` | the coordinator, its reports, and the Memory Managers of the instances | one action per public call; reports are a set, because the code reads only which there are |
| `MemoryStores` | Memory Manager, episodes with their index, lessons, forgetting | one action per write path; time in days, identities in place of uuids and hashes |
| `EvalHarness` | which cases pass, the z-test, the verdict | operators over a suite with two traces per case; the square root is squared away |
| `WorldModel` | predicates, assignments, simulation | operators over parsed predicates, folds over a plan |
| `ObjectiveStack` | weights and `resolve` | weights in percent, not normalised: comparisons are cross-multiplied |
| `VerifierSignals` | evidence support, the friction penalty, the weighted score | a claim is the set of its words; the corpus is what surfaced before the output and the words of its claims |
| `SelfModelMerge` | `aggregate_self_model` | rates in basis points, rounded twice as the code does |
| `Judgements` | the callers of `Admission` and of the five modules above | one call at a time: a question, its answer, and back |

**AxisRuntime.** `pc` names the stage `run()` is in. The locals of `run()` are
variables that return to fixed values when the call is left (`Leave`), by a return
or by an exception. One action per stage:

| Action | Code |
|---|---|
| `Admit` | entry: route, log, allocate, gates, apply the routed depth |
| `PlanTask`, `PlanRaises` | `planner.plan`, the router's strategy put in, first `execute_plan`; or the `KeyError` of a template |
| `StepSucceeds`, `StepFails`, `BudgetExhausted`, `PlanCompleted` | one iteration of the Executor's loop, or its end |
| `ReplanAfterFailure` | the `while` loop of `run()` |
| `FirstReview`, `ReplanAfterRejection`, `AcceptRejected`, `SecondReview` | the verifier block with its one retry |
| `SettleRouting` | `record_outcome` |
| `Observe`, `ObserveSinkFails` | `ingest`, the refresh of the Self-Model; or the sink raises in between |
| `Remember` | `record_episode`, the Planner's new view of procedures, return |
| `RegisterProcedure` … `RetireProcedure` | writers between two runs |

Nondeterministic: the task, whether a step succeeds and what the backend reports as
tokens (negative and excessive counts included), the templates the Planner was built with
(`BuiltWith`; the constructor takes a view of procedures, `planner.py:29`), the score of the Verifier under the
bound its friction penalty sets, the drift verdict, whether the sink raises.
History variables: `runs` (what the caller saw), `attempts`, `scored`, `spent`.

**Adaptation.** `TaskCompleted` stands for the runtime; failure episodes are their
root causes. `CallerWaitsFor` says which of review and evaluation callers insist on
before `deploy()`, which itself insists on nothing; the passing run assumes nothing
(`{}`). Task counts stand for wall-clock times. A win rate is kept as a pair
(wins, outcomes), so that nothing is rounded. The harness is a verdict.

**Federation.** `shared` is the coordinator's Procedural Memory; a deleted procedure keeps
its position, so that a late report still finds the number it is about. `store` says what
the Memory Manager of an instance holds: the constructor keeps the store it is given only if
that is not empty. Under the mapping to `ValidationRule` a report above the threshold is the
support of its instance on its task class, every other report is a stutter, and a check is one
`Validate`. The rule leaves open whether support spread over classes is enough: that it is not
is a statement of its own (`ValidatedOnSameClass`), which the code does not keep.

**MemoryStores.** `index` is `_by_id`, recomputed where the code calls `_reindex`. The value of
an episode is compared by cross-multiplication, which is exact where the code rounds. A lesson
is known by class, strategy and size, because those make its text and its text makes its id.
`recorded` and `remarked` are history variables the stores are held against.

**Judgements.** What a caller asks is drawn from small sets around the thresholds in
`MCJudgements`. `Forecast` is a second definition of feasibility that looks for the last write
of every key instead of folding states; `MergedIsPooled` compares with the pooled sample;
the others compare the answer with the answer to a neighbouring question. `Admit` asks
`Admission` for a budget and for gates.

Definitions named "Broken variant" in the modules are plausible bugs. They are used by
nothing; `PROJECT.json` pairs each with the property that catches it.

## 3 Runs

Passing runs. Sizes are distinct states.

| Run | Asks | Bounds, and why they are enough |
|---|---|---|
| `AttemptsRun` (151 k) | attempts, executability, inputs, cost, giving up, scoring, ledgers; refinement of `RetryProtocol`; termination | two tasks of any of the four stakes, two replans so that a replacement is itself replaced and both replan paths meet; budgets that last for one, two, three or all steps, so that overshoot and exhaustion happen; token reports above any cap, or none when a step fails; Planners built with templates that run, raise or are empty; a sink that fails: every way to leave `run()` |
| `HistoryRun` (680 k) | Self-Model fresh and measured; skipping earned; do the ledgers agree | four tasks, medium of one class and high of another, through buffers of two and three so that entries are dropped, refresh on schedule and on drift; token reports below zero; one procedure registered, edited, promoted, used and retired between runs, whose template raises: it enters the view with one task, makes the next raise, and the entry that leaves pending lies under those of the tasks after |
| `OrderRun` (33 k) | does Kahn's algorithm keep `PlanOrder`'s promise, does it end | every plan of up to three steps with up to two dependencies each: cycles, self-loops, unknown and repeated ones, several roots |
| `AdaptRun` (1.0 M) | drops rolled back, counted once, breaker | four tasks, two deployments of any proposal, a breaker that trips at two rollbacks at most one task apart and lasts two tasks, so that tripping, holding, ending and rollbacks too far apart all happen; checks that end half-way |
| `FederationRun` (186 k) | refinement of `ValidationRule` | three instances of which two are enough, two classes, two procedures, reports at and above the threshold, three different reports: a quorum on one class, a quorum only over both, one instance reporting twice, mixed verdicts, late reports, retirement and deletion in between. The classes, and the instances that build no Memory Manager, are exchangeable (`SYMMETRY`): only safety is checked, and nothing names one of them |
| `MemoryRun` (187 k) | do index, lessons and forgetting keep their word | four episodes through a store of three of which a cycle keeps two; clusters of two, so that lessons of sizes two and three coexist and overlap; a success of six days ago is worth less than a fresh failure |
| `JudgementsRun` (83 k) | budgets, monotone stakes, earned skipping, agreement; the five judgements | the whole default configuration with each complexity and win rate at, just below and just above every threshold, the ceiling lowered so that it binds; suites of up to five cases over three types (two cases of a type are the least of which a drop can be significant), every plan of up to three actions one of them unregistered, candidates 4%, 5% and 40% behind, every stakes and domain, friction up to and beyond its cap, six outcomes per instance |

What the properties say is written above each of them. The ones worth knowing:

* `AttemptBound`, `NoEarlyGiveUp`: over both replan paths a plan is executed at most
  `1 + max_replans` times, and a failure or rejection is returned only when the
  allowance, the one retry, or the steps are exhausted.
* `PlansExecutable`, `InputsReady`: replacing steps never makes a plan the Executor
  rejects, and a step starts with the outputs of its dependencies, of this attempt.
* `CostBounded`: the sub-budget check precedes the step, so an attempt overshoots by
  less than one step cap, and a run by that much per attempt.
* `HighStakesScored`, `SkipEarned`: what goes back for high stakes was scored in its
  final form; skipping needs a success of that class and a measured rate above 0.85.
* `LedgersAgree`: `record_outcome` takes the newest pending entry whatever the task
  id; because runs do not overlap, this is always the right one, whatever entries earlier
  exceptions left pending. It compares what the ledgers hold: that a run whose sink failed
  becomes no episode and may lose a refresh is not its subject.
* `SelfModelMeasured`: the win rate the Planner reads equals that of what callers saw,
  recomputed from `runs` and not from the buffers.
* `VerificationEarned`, `RouterConfirmsScheduler`: a rate of exactly 0.85 does not earn
  skipping, only because `1.0 - 0.85 > 0.15` in binary64; and the override of the
  Scheduler's gate by the Router never changes anything.
* `ImplementsRetryProtocol`: the detailed runtime implements the abstract protocol,
  its liveness included, with `pc # "idle"` as "being served".
* `DropsRolledBack`, `RollbacksCounted`, `BreakerHolds`: a check reaches every
  deployment up to the first one it cannot read; each rollback is counted once through
  any number of interrupted checks; while every deployment can be read, no Class 3 proposal is
  made within `ConservativeTasks` tasks of a rollback that completed enough of them within the
  window. The converse, that the breaker holds only then, the code does not keep (section 6).
* `RaisesOnlyWithCause`: without repeated dependencies, what is raised for has no order.
* `ImplementsRule`: however reports repeat, contradict each other or come late, validation
  needs enough *different* instances, touches candidates only, and leaves none waiting that
  has enough of them on one class.
* `IndexAgrees`, `EpisodesTrue`: however episodes were evicted or deleted, a postmortem lands
  on the episode it was written for.
* `LessonsGrounded`: a lesson rests on at least as many successes as it says, forgotten ones
  included. `KeepsValuable`: no evicted episode was worth more than one that stayed.
* `GateMonotone`: a candidate the harness passes would pass doing better on any one case.
* `FeasibleByLastWriter`, `ResolveNearBest`, `StakesShiftWeights`, `MergedIsPooled`: feasibility
  agrees with its reference; what is chosen is the best, or less than 5% behind it and less variable;
  after normalisation higher stakes never weigh truth less or latency more; double rounding
  costs at most a basis point.
* `FailureNeverHelps`: a failed tool call adds friction, and may add words to the evidence; the
  second never outweighs the first, so that a rejected output stays rejected. This depends on
  the corpus the code takes, which supports every claim with its own output
  (`SupportedByEvidence`): were it taken without that output, as the comments describe it, the
  words of a failed call could earn more than its friction costs.

`CHECK_DEADLOCK FALSE` is set where the system may rest: nobody has to submit another
task, and a finished call of `topological_order` does nothing more. In the other runs there
is always a call left to make and deadlock is checked.

The five runs that TLC must find violated (`ValidatedServed`, `SameClass`, `StaleBreaker`,
`RaisesAcyclic`, `SupportedByEvidence`) are explained in section 6.

## 4 Fairness

* `AxisRuntime!FairSpec`: weak fairness of `RunStep`, the body of `run()`. The code is
  sequential and blocking: once a task is admitted the interpreter goes on, and every
  backend and tool call returns or raises (a backend that hangs for ever hangs `run()`;
  there is no timeout in `src/`). No fairness on `Admit` or on the writers: nobody is
  obliged to call.
* `TopologicalOrder!Spec`: weak fairness of `Next`, a function call that runs.
* The other specifications have none, and no liveness property is stated of them: what is
  done next is up to callers. In particular nobody is obliged to call `check_validations` or
  `forget_cycle`, so that no candidate must ever be validated and no episode evicted.

## 5 Proofs

The theorems hold for every value of the constants that satisfies the named
assumptions (`SchedulerConfig`, `PlannerConfig`, `ObserverConfig`, `RuntimeConfig`,
`OrderConfig`, `AdaptationConfig`, `FederationConfig`, `StoresConfig`,
`SchemasConfig`, `JudgementsConfig`), in particular for any number of tasks, replans,
procedures, episodes, plan steps and eval cases and any buffer length. TLC evaluates these
assumptions in the passing runs. Every invariant and action property a passing run checks is stated by a theorem.

`Admission_proofs`: the operators of Scheduler and Router. `AllocateFits`: sub-budgets are natural
numbers, add up to a total within the ceiling, buffer non-negative, whatever truncation did
(arithmetic on `\div` through `ShareBounds`; the split needs that the shares sum to at most 100).
`GateConfirmed`: the routed depth never changes the gate, a case split over stakes and the two
rates the Router compares with. `TotalsRise`, `VerificationRises`: what higher stakes do.

`Components_proofs`: types of every operator of Planner, Router log, Observer and Procedural
Memory, and the algebra of plans: `ChainLinear` (the Planner builds linear chains),
`ReplanLinear` (replacing one step by a fresh one keeps the chain), `ChainExecutable` (a chain
has an order).

`AxisRuntime_proofs`:

| Theorem | Property | Inductive invariant and why it is needed |
|---|---|---|
| `RuntimeTyped` | `TypeOK` | `TypeInv`: an ended attempt has an outcome (else `Record` is ill-typed), and `order` points into the plan |
| `AttemptsBounded` | `AttemptBound` | `AttemptInv`: `attempts = replans + 1` from the first execution on, so that the two replan paths share a count |
| `PlansAlwaysExecutable` | `PlansExecutable` | `ChainInv`: the plan is a linear chain and all ids are at most `Len + replans`, so that the id of a replacement is fresh |
| `InputsAlwaysReady` | `InputsReady` | `WalkInv`: while executing, the results are exactly the successful steps along the order, and Working Memory holds their outputs |
| `UrgentAlwaysScored` | `HighStakesScored` | `ScoredInv`: the verification gate of a high-stakes run is open throughout, and a rejection pending a decision is that of the last attempt |
| `NeverGivesUpEarly` | `NoEarlyGiveUp` | follows with `AttemptInv`, so that a replan not allowed is an allowance used up |

Each proof has one lemma or step per action and cites `TypeInv` for types.

What holds across attempts and runs:

| Theorem | Property | Inductive invariant and why it is needed |
|---|---|---|
| `CostsBounded` | `CostBounded` | `CostInv`: all steps of a plan share one cap, replanned or not, and the attempts before this one stayed within theirs; without it a replan would move the bound |
| `SelfModelNeverStale` | `SelfModelFresh` | `FreshInv`: the age of the Self-Model is at most `total % RefreshEvery`, so that it is rebuilt when the remainder falls to 0 |
| `SkipAlwaysEarned` | `SkipEarned` | `EarnedInv`: every success in telemetry was a run the caller saw, and so was what the Self-Model rests on; `GateInv`: a closed gate goes back to the Self-Model of admission time |
| `LedgersAlwaysAgree` | `LedgersAgree` | `LogInv`: the entry of the task at hand is the last of the log and pending, so that taking the newest pending entry takes the right one whatever exceptions left pending below it |
| `AlwaysMeasured` | `SelfModelMeasured` | `MeasuredInv`: each outcome buffer holds the last outcomes of its class in the increasing enumeration of the runs telemetry took; the Self-Model rests on the runs taken when it was built, and later ones come after these |
| `ImplementsProtocolSafely` | safety part of `ImplementsRetryProtocol` | `RetryInv`: no outcome while executing, no retry before a score, and a rejection under decision is the first one and not a failure that could still be replanned; every action then maps to one of `RetryProtocol` or to a stutter |

`Federation_proofs`: `FederationTyped`; `FederationImplementsRule`, the refinement. Each kind of
step has a lemma: proposing is `Propose`, a good report is `Support`, any other report a
stutter, a check is `Validate`, retiring and deleting are `Retire` and `Delete`. By
`BackersAreSupporters` the instances the coordinator counts are the supporters over all classes,
so that what it promotes is what is entitled, and what is owed is among it.

`Adaptation_proofs`: `AdaptationTyped`; `RollbacksCountedOnce`, by cardinality of what a check adds,
disjoint from what it found; `MeasuredRollBack`, because a deployment to an unmeasured class starts
at rate 0 (`RatesMeasured`) and a drop needs wins; `ChecksRollBackDrops`, because nothing but a check
sets `checked` and every other call clears it or leaves what it saw; `BreakerAlwaysHolds`, from
`BreakerInv`: while every deployment can be read, `conservativeUntil` covers every rollback from
the one that completed `BreakerRollbacks` on, those within the window among them.

`TopologicalOrder_proofs`: `OrderTyped`, `ReturnsAnOrder`, `RaisesWithCause`. In `OrderInv`, what
was popped followed by what is queued is one worklist that only grows at its end; an in-degree is
the number of dependencies listed less the number of those popped, so that it is zero exactly when
no dependency is listed twice and all were popped (`ListedCount`). When the queue runs dry before
the plan does and no step lists a dependency twice, every step left waits for one that is left
too, which no order allows.

`MemoryStores_proofs`: `StoresTyped`, `IndexStays`, `EpisodesStayTrue`, `LessonsStayGrounded`,
`ValuableKept`. `StoreInv` says that the episodes are a `Chronicle`: increasing ids, each telling
what was recorded and remarked under its id. Every deletion, by age, by hand or by budget, takes a
sublist, and a sublist of a chronicle is one. That no evicted episode was worth more than one
that stayed is a counting argument: the positions evicted are those of the lowest ranks.

`Judgements_proofs`. `AnswerInv` ties the answer on record to the question on record, so that the
rest is about operators. `BudgetsFit`, `RouterConfirms` and `SkipsEarned` put it together with
the lemmas of `Admission_proofs`; so does `HigherStakesNeverCost`, which assumes that the
multipliers rise strictly with the stakes, as those of `config.py` do: the scaled totals then lie
apart by more than truncation can blur, and the ceiling cuts both. The sums and folds are the
community modules', which read the result from a table chosen over the subsets of a finite set; `TableFound` and `TablesAgree` show that
there is exactly one such table, and `SumTakes`, `SumMonotone`, `SumLinear` what a sum does.

| Theorem | Property | Argument |
|---|---|---|
| `FailureCannotHelp` | `FailureNeverHelps` | every claim with a word is a subset of the corpus, with the words of the failed call and without them (`EveryClaimSupported`), so that only the penalty differs, and it never falls (`FrictionLowersScore`) |
| `RegressionMonotone` | | passing more cases never turns "not regressed" into "regressed": polynomial arithmetic split into products |
| `GateNeverPunishesBetter` | `GateMonotone` | the cases passed grow by inclusion, the cost falls by `SumMonotone`, and `RegressionMonotone` does each type |
| `VerdictByLastWriter` | `FeasibleByLastWriter` | along the plan the state holds, for every key, what the last write before it wrote (`WalkTold`) |
| `StakesAlwaysShift` | `StakesShiftWeights` | the stakes and the domains leave five shapes of weights; for each the cross-products are compared |
| `ChoiceIsNearBest` | `ResolveNearBest` | a best candidate exists (`FirstExists`), and the second is taken only inside the margin |
| `MergedAlwaysPooled` | `MergedIsPooled` | each of the two roundings costs at most half a basis point, and the errors add up by `SumLinear` |

**Only model-checked.** The liveness part of `ImplementsRetryProtocol`, `RunEnds` and `Terminates`:
liveness under fairness and `ENABLED` are beyond the prover. The library's induction theorems take
an operator as parameter and cannot be instantiated here either; where a fold had to be reasoned
about, the induction is over the subsets of a finite set, or over numbers, as a statement of
first-order logic about a set of counterexamples that has no least member. That does for the folds of
the judgements, and no module with a theorem declares a `RECURSIVE` operator.

## 6 Disagreements and observations

Five statements of the repository are contradicted by what the code does, each in a run of its own.

| Run | The text says | The code does |
|---|---|---|
| `ValidatedServed` | `multi_instance.py:9-11`: "semantic + procedural memory are shared" | `memory/manager.py:37` replaces an empty store: a manager built on the shared memory before the first proposal plans from a private one for ever |
| `SameClass` | `multi_instance.py:15-16`: "3+ instances report success rate above threshold on the same task class" | lines 135-139 count the instances over all classes: reports on different ones add up |
| `StaleBreaker` | `adaptation.py:15-16`: "3 rollbacks within 500 tasks → conservative mode (Class 2 only) for the next 1000 tasks" | the filter of line 338 is always true: rollbacks of any age count, so that two of them further apart than the window trip the breaker of the run; for the same reason a later check without a new rollback renews the mode |
| `RaisesAcyclic` | `types.py:120`: "Raises on cycle", line 141: "plan contains a cycle" | a dependency listed twice is counted twice (line 127) and released once (line 135): an acyclic plan raises |
| `SupportedByEvidence` | `verifier.py:182-184`: "supported by evidence surfaced during the run (tool outputs + working memory content)" | the corpus of line 195 takes in the output that makes the claims: a claim supports itself. Without friction and contradiction markers an answer of zero confidence scores 0.35 + 0.25 = 0.6 and passes at the default threshold. `test_verifier_evidence_support_counts_tool_overlap` would pass without its tool call |

Noticed while modelling, visible in the definitions, and not the subject of a run:

* The escalation threshold, by `policy_router.py:10` the "verifier score below which to re-plan",
  is never read: only the Verifier's own pass threshold is compared.
* A deployment with an empty trigger, which the review permits for Class 2, raises `KeyError` and
  ends every check before the deployments behind it (`adaptation.py:332`): hence the proviso of
  `DropsRolledBack`.
* Conservative mode is tested by `propose()` and not by `deploy()`: a policy approved before the
  breaker trips is deployed in conservative mode.
* Baselines of `check_triggers()` are the first rates seen and never move (`adaptation.py:126`).
* An old good report counts although a later one of the same instance is bad; reports do not feed
  the success rate by which the index ranks procedures (`multi_instance.py:135`).
* Distilling again after one more success adds a lesson in place of updating it: the id hashes the
  text, which names the sample size (`semantic.py:134` against `forgetting.py:133`). Of three
  configured caps only the episodic one is enforced, and `decay_score` is never written, so that no
  lesson is ever pruned.
* An action nobody registered raises out of `plan_is_feasible` and `counterfactual_sequences`
  (`world_model.py:125`), although the sum of latencies (line 187) expects it.
* `update_steps()` keeps the status: new steps are served as validated (`memory/procedural.py:68`).
* A type with a single eval case can never regress: the test needs two.
* A third candidate within 5% is never considered by `resolve()`.
* Attempts are each held against the whole execution sub-budget, and a step may cost its
  full cap (at least 256 tokens), so that a task can cost more than the "Compute budget
  […] for a single task" of `types.py:59`. `CostBounded` is the bound that does hold.
* A `retrieval_first` plan retrieves even through a closed retrieval gate (`planner.py:192`).
* The Planner's view of procedures is taken at the end of a run: a procedure retired
  between two runs is instantiated once more (`runtime.py:178`). For the same reason a template step without
  an action blocks its class: every task of the class raises before the view is taken
  again, and repairing the procedure helps only once a task of another class has ended.
* A sink that raises on the task that completes a refresh period loses the refresh of
  that period; `SelfModelFresh` holds without a sink.
* The Router's `spot_check` leaves the gate as the Scheduler set it, closed for medium
  stakes in a class above 0.85. A template without steps succeeds at once.
* An answer the Verifier rejected twice keeps its outcome, is counted as a win and can
  earn its class the right to skip verification.
* The last line of `gates()` that closes verification for low stakes never changes a value.
* The execution tokens of the trace are those of the last attempt only.
* `deploy()` looks neither at the change class nor at an evaluation (`adaptation.py:294`,
  against line 12), a rolled-back payload stays applied (line 333), and exactly half of the
  failures are enough for a diagnosis (line 162, against "requires >50%").
* The win rate of a class without telemetry is 0.0 at deployment and can never drop:
  such a deployment is never rolled back (`OnlyMeasuredRollBack`).

## 7 What is not modelled

* Prompts, tool payloads, wording, latency and cost figures, uuids: data no decision of
  the control flow reads.
* The text side of the Verifier: extracting claims, contradiction markers, resampling. In
  `AxisRuntime` its score is nondeterministic under the bound of the friction penalty. The drift
  statistics: a nondeterministic verdict.
* `should_continue`, `training_data`, `best_for_class`, `for_class`: no caller, or read only.
  Retrieval policy and response posture of a routing decision: read by nobody.
* `check_triggers()` with its baselines: what it returns and keeps is read by no other operation.
  Objective floors, audit log and override channel of the Safety Monitor: called by nothing in `src/`.
* Latency, cost, calibration, failure and tool buffers of telemetry: reported only, or inputs of the
  drift statistics.
* Semantic and episodic retrieval (`similar`): embeddings and cosines.
* Rounding of binary64 where it cannot be told from exact arithmetic at these sizes: the mean of
  `aggregate_self_model` and the 5% margin of `resolve` are exact in the model, so that an exact tie is
  decided as on paper. Truncation in `allocate`, which does matter, is modelled.
* Backends: external. They succeed, fail or raise, and report any number of tokens.
* `embedding.py` (numeric), `reference_frame.py` (threshold predicates nobody calls),
  re-exporting packages.

## 8 Plan

Done: Scheduler, Router and what they grant together; plan order and its algorithm; the runtime with Executor,
Verifier, telemetry and procedures, and its abstract protocol; Adaptation; the federation and its
abstract rule; the memory stores with forgetting; the judgements as operators against references;
proofs of every invariant and action property of these, and of both refinements up to liveness.

Next:

1. Drift: the two tests of `telemetry.py` as integer inequalities, like that of the harness, and
   `check_triggers()` with its baselines, which would cover the hazard that they never move.
2. Bounds proved for the hazards that have only an observation in section 6: how long a retired
   procedure can still be instantiated, and what an interrupted deployment leaves behind.
3. The safety lemmas a liveness argument would rest on: a measure on the stages of `run()` that
   every step decreases, for any replan allowance.
