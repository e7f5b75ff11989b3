------------------------------ MODULE AxisRuntime ------------------------------
(***************************************************************************)
(* AxisRuntime.run (src/axis/runtime.py) with the Executor and the Verifier *)
(* it drives.  The runtime is one blocking loop: a task is routed, budgeted *)
(* and planned, its plan is executed step by step, a failure goes back to   *)
(* the Planner, the Verifier may send the result back once more, and what   *)
(* came out is written to the routing log, to telemetry and to memory.      *)
(*                                                                          *)
(* One action per stage of run(), one per iteration of the Executor's loop. *)
(* What the environment decides is nondeterministic: the task, the answer   *)
(* of the backend, the signals behind a verifier score, a failing sink.     *)
(* Between two runs, whoever administers Procedural Memory may write to it. *)
(***************************************************************************)
EXTENDS Scheduler, PolicyRouter, TelemetryObserver, ProceduralMemory

CONSTANTS
  Components,       \* the optional collaborators that are configured
  AutoRefresh,      \* auto_refresh_self_model
  MaxReplans,       \* max_replans
  PassThreshold,    \* pass_threshold of the Verifier, in percent
  MaxEpisodes,      \* max_episodes of Episodic Memory
  BuiltWith,        \* bound: the procedural_memory the Planner may be built with
  Requests,         \* bound: the tasks callers submit
  ReportedTokens,   \* bound: what a backend may report as tokens_used
  Scores,           \* bound: the verifier scores told apart, in percent
  MaxTasks,         \* bound: how many tasks are submitted
  MaxProcedures,    \* bound: how many procedures are registered
  OfferedTemplates, \* bound: the step lists procedures are given
  MaxUses           \* bound: how often the use of a procedure is recorded

ASSUME RuntimeConfig ==
  /\ TaskClasses # {}
  /\ Components \subseteq {"router", "verifier", "observer", "sink", "memory"}
  /\ AutoRefresh \in BOOLEAN
  /\ MaxReplans \in Nat
  /\ PassThreshold \in 0 .. 100
  /\ MaxEpisodes \in Nat \ {0}
  /\ BuiltWith \subseteq [TaskClasses -> Templates]
  /\ Requests \subseteq Tasks
  /\ ReportedTokens \subseteq Int
  /\ Scores \subseteq 0 .. 100
  /\ OfferedTemplates \subseteq Seq(TemplateActions \cup {"missing"})
  /\ MaxTasks \in Nat /\ MaxProcedures \in Nat /\ MaxUses \in Nat

VARIABLES
  \* local state of run()
  pc,           \* the stage run() is in, "idle" between two calls
  task, decision, budget, gates, plan,
  order,        \* the topological order the Executor walks
  results,      \* trace.step_results of the current attempt
  tokens,       \* trace.execution_tokens of the current attempt
  outcome,      \* trace.outcome, "none" while the attempt runs
  wm,           \* ids whose output is in Working Memory (step_outputs)
  replans,      \* trace.replanning_events
  verdict,      \* what the Verifier said last
  score,        \* trace.verifier_score, 0 when there is none
  retried,      \* TRUE once the Verifier sent the task back to the Planner
  \* state of the components
  selfModel,    \* planner.self_model
  view,         \* planner.procedural_memory
  log,          \* the Router's log
  observer,     \* the TelemetryObserver's buffers
  procs,        \* Procedural Memory
  episodes,     \* Episodic Memory
  \* history
  runs,         \* per task submitted: its class and the outcome run() settled on
  attempts,     \* calls of execute_plan in this run; saturates
  scored,       \* the attempt the Verifier looked at last, 0 for none
  spent         \* execution tokens of this run, over all attempts

locals    == <<task, decision, budget, gates, plan, order, results, tokens,
               outcome, wm, replans, verdict, score, retried>>
attempt   == <<plan, order, results, tokens, outcome, wm>>
admission == <<task, decision, budget, gates>>
review    == <<verdict, score, retried>>
history   == <<runs, attempts, scored, spent>>
stores    == <<selfModel, view, log, observer, procs, episodes>>
vars      == <<pc, locals, stores, history>>

Has(component) == component \in Components
ThisRun == Len(runs)

\* The locals of run() outside of a call.
NoTask   == [class |-> CHOOSE c \in TaskClasses : TRUE, stakes |-> "low", complexity |-> 0]
NoBudget == SplitTotal(0)
NoGates  == [retrieval |-> FALSE, verification |-> FALSE, exploration |-> 0]

-----------------------------------------------------------------------------
(* Admission: run(), up to the call of the Planner *)

\* run() does not estimate novelty: gates() falls back on its default of 0.5.
DefaultNovelty == 5000

Admit(t) ==
  /\ pc = "idle"
  /\ Len(runs) < MaxTasks
  /\ pc' = "planning"
  /\ task' = t
  /\ runs' = Append(runs, [class |-> t.class, outcome |-> "none"])
  /\ decision' = IF Has("router") THEN Route(t, selfModel) ELSE NoDecision
  /\ log' = IF Has("router") THEN LogDecision(log, Len(runs) + 1) ELSE log
  /\ budget' \in Allocate(t)
  /\ gates' = ApplyDepth(GatesFor(t, selfModel, DefaultNovelty), decision'.depth)
  /\ UNCHANGED <<attempt, replans, review, selfModel, view, observer, procs,
                 episodes, attempts, scored, spent>>

-----------------------------------------------------------------------------
(* Executor.execute_plan *)

\* The call: a fresh Working Memory and trace; an invalid plan fails at once,
\* with no step executed.
Execute(newPlan) ==
  LET orders == TopologicalOrders(newPlan.steps)
  IN  /\ plan' = newPlan
      /\ attempts' = AtMost(MaxReplans + 2, attempts + 1)
      /\ results' = <<>> /\ tokens' = 0 /\ wm' = {}
      /\ IF orders = {}
         THEN order' = <<>> /\ outcome' = "failure" /\ pc' = "stopped"
         ELSE order' \in orders /\ outcome' = "none" /\ pc' = "executing"

StepsLeft == Len(results) < Len(order)
CurrentStep == plan.steps[order[Len(results) + 1]]

\* Broken variants: the backend is believed; the whole budget is spent on steps.
ChargeReported(reported, cap) == reported
AffordableInTotal == tokens < budget.total

\* The check before each step of the sub-budget.
Affordable == tokens < budget.execution

\* max(0, min(result.tokens_used, step.max_tokens))
Charge(reported, cap) == IF reported < 0 THEN 0 ELSE AtMost(cap, reported)

Stop(result) ==
  /\ outcome' = result
  /\ pc' = "stopped"

\* The step's own result is charged and recorded whether it succeeded or not.
RecordStep(ok, reported) ==
  LET charged == Charge(reported, CurrentStep.cap)
  IN  /\ results' = Append(results, [id |-> CurrentStep.id, ok |-> ok])
      /\ tokens' = tokens + charged
      /\ spent' = spent + charged

Executing ==
  /\ pc = "executing"
  /\ UNCHANGED <<admission, plan, order, replans, review, stores, runs, attempts, scored>>

StepSucceeds ==
  /\ Executing
  /\ StepsLeft /\ Affordable
  /\ \E reported \in ReportedTokens : RecordStep(TRUE, reported)
  /\ wm' = wm \cup {CurrentStep.id}
  /\ UNCHANGED <<pc, outcome>>

\* Broken variant: the output of a failed step is kept.
StepFailsKeepingOutput ==
  /\ Executing
  /\ StepsLeft /\ Affordable
  /\ \E reported \in ReportedTokens \cup {0} : RecordStep(FALSE, reported)
  /\ Stop("failure")
  /\ wm' = wm \cup {CurrentStep.id}

\* The backend reports a failure, or raises: then no token is charged.
StepFails ==
  /\ Executing
  /\ StepsLeft /\ Affordable
  /\ \E reported \in ReportedTokens \cup {0} : RecordStep(FALSE, reported)
  /\ Stop("failure")
  /\ UNCHANGED wm

BudgetExhausted ==
  /\ Executing
  /\ StepsLeft /\ ~Affordable
  /\ Stop("partial")
  /\ UNCHANGED <<results, tokens, wm, spent>>

PlanCompleted ==
  /\ Executing
  /\ ~StepsLeft
  /\ Stop("success")
  /\ UNCHANGED <<results, tokens, wm, spent>>

-----------------------------------------------------------------------------
(* Planning and replanning *)

PlanTask ==
  /\ pc = "planning"
  /\ ~Malformed(view[task.class])
  /\ LET made == MakePlan(task, selfModel, view[task.class], budget.execution,
                          gates.retrieval)
     IN  Execute(IF Has("router") THEN [made EXCEPT !.strategy = decision.strategy]
                 ELSE made)
  /\ UNCHANGED <<admission, replans, review, stores, runs, scored, spent>>

\* The last step result names the step to replace; uuid4 is fresh, and so is
\* a number beyond those of the plan and of the earlier replacements.
ReplanLastStep ==
  Execute(Replan(plan, results[Len(results)].id, Len(plan.steps) + replans + 1))

\* Broken variants: one replan too many, one too few.
MayReplanOnceMore == replans <= MaxReplans /\ results # <<>>
MayReplanOnceLess == replans + 1 < MaxReplans /\ results # <<>>

MayReplan == replans < MaxReplans /\ results # <<>>

\* Broken variant: the replan is not counted.
ReplanUncounted ==
  /\ pc = "stopped" /\ verdict = "unscored"
  /\ outcome = "failure" /\ MayReplan
  /\ ReplanLastStep
  /\ UNCHANGED <<admission, replans, review, stores, runs, scored, spent>>

ReplanAfterFailure ==
  /\ pc = "stopped" /\ verdict = "unscored"
  /\ outcome = "failure" /\ MayReplan
  /\ ReplanLastStep
  /\ replans' = replans + 1
  /\ UNCHANGED <<admission, review, stores, runs, scored, spent>>

-----------------------------------------------------------------------------
(* Verification *)

(***************************************************************************)
(* _combine_signals: the friction penalty, 10 percent for each replan, tool *)
(* error and failed step, up to 50, bounds the score from above.  A trace   *)
(* without steps has no confidence and no evidence, only coherence.         *)
(***************************************************************************)
Penalty == AtMost(50, 10 * (replans + (IF outcome = "failure" /\ results # <<>> THEN 1 ELSE 0)))

PossibleScores ==
  IF results = <<>> THEN {IF Penalty > 25 THEN 0 ELSE 25 - Penalty}
  ELSE {s \in Scores : s <= 100 - Penalty}

Verified == gates.verification \/ task.stakes = "critical"

\* verify(), and the fields of the trace its result fills
Verify ==
  IF ~Verified
  THEN verdict' = "skipped" /\ score' = 100 /\ UNCHANGED scored
  ELSE /\ score' \in PossibleScores
       /\ verdict' = IF score' >= PassThreshold THEN "passed" ELSE "rejected"
       /\ scored' = attempts

Reviewing ==
  /\ pc = "stopped"
  /\ UNCHANGED <<admission, attempt, replans, retried, stores, runs, attempts, spent>>

\* The replan loop is over.
FirstReview ==
  /\ Reviewing
  /\ verdict = "unscored" /\ ~(outcome = "failure" /\ MayReplan)
  /\ IF Has("verifier")
     THEN /\ Verify
          /\ pc' = IF verdict' = "rejected" THEN "rejected" ELSE "settling"
     ELSE pc' = "settling" /\ UNCHANGED <<verdict, score, scored>>

\* A rejected result gets one more attempt, out of the same replan allowance.
ReplanAfterRejection ==
  /\ pc = "rejected" /\ MayReplan
  /\ ReplanLastStep
  /\ replans' = replans + 1
  /\ retried' = TRUE
  /\ UNCHANGED <<admission, verdict, score, stores, runs, scored, spent>>

AcceptRejected ==
  /\ pc = "rejected" /\ ~MayReplan
  /\ pc' = "settling"
  /\ UNCHANGED <<locals, stores, history>>

\* Broken variant: the second attempt is returned with the score of the first.
SecondReviewUnscored ==
  /\ Reviewing
  /\ retried
  /\ pc' = "settling"
  /\ UNCHANGED <<verdict, score, scored>>

\* The second attempt is scored and kept, whatever the Verifier says of it.
SecondReview ==
  /\ Reviewing
  /\ retried
  /\ Verify
  /\ pc' = "settling"

-----------------------------------------------------------------------------
(* Settling: routing log, telemetry, memory *)

SettleRouting ==
  /\ pc = "settling"
  /\ pc' = "observing"
  /\ runs' = [runs EXCEPT ![ThisRun].outcome = outcome]
  /\ log' = IF Has("router") THEN RecordOutcome(log, outcome) ELSE log
  /\ UNCHANGED <<locals, selfModel, view, observer, procs, episodes, attempts, scored, spent>>

\* run() is left, by a return or by an exception: its locals are gone.
Leave ==
  /\ pc' = "idle"
  /\ task' = NoTask
  /\ decision' = NoDecision
  /\ budget' = NoBudget /\ gates' = NoGates
  /\ plan' = NoPlan /\ order' = <<>> /\ results' = <<>> /\ tokens' = 0
  /\ outcome' = "none" /\ wm' = {} /\ replans' = 0
  /\ verdict' = "unscored" /\ score' = 0 /\ retried' = FALSE
  /\ attempts' = 0 /\ scored' = 0 /\ spent' = 0

Record == [run |-> ThisRun, class |-> task.class, strategy |-> plan.strategy,
           outcome |-> outcome]

Observe ==
  /\ pc = "observing"
  /\ pc' = "remembering"
  /\ IF Has("observer")
     THEN /\ observer' = Ingest(observer, Record)
          /\ \E refresh \in ShouldRefresh(observer') :
               selfModel' = IF AutoRefresh /\ refresh THEN Snapshot(observer') ELSE selfModel
     ELSE UNCHANGED <<observer, selfModel>>
  /\ UNCHANGED <<locals, view, log, procs, episodes, history>>

\* The sink raises once everything in memory is updated: no refresh, no episode,
\* and the caller gets the exception in place of the trace.
ObserveSinkFails ==
  /\ pc = "observing"
  /\ Has("observer") /\ Has("sink")
  /\ observer' = Ingest(observer, Record)
  /\ Leave
  /\ UNCHANGED <<selfModel, view, log, procs, episodes, runs>>

Remember ==
  /\ pc = "remembering"
  /\ IF Has("memory")
     THEN /\ episodes' = Push(episodes, [run |-> ThisRun, outcome |-> outcome], MaxEpisodes)
          /\ view' = IndexForPlanner(procs)
     ELSE UNCHANGED <<episodes, view>>
  /\ Leave
  /\ UNCHANGED <<selfModel, log, observer, procs, runs>>

\* plan() raises KeyError on a template step without an action; the entry the
\* Router logged for the task stays pending.
PlanRaises ==
  /\ pc = "planning"
  /\ Malformed(view[task.class])
  /\ Leave
  /\ UNCHANGED <<stores, runs>>

-----------------------------------------------------------------------------
(* Writers of Procedural Memory, between two runs *)

Administer(newProcs) ==
  /\ pc = "idle" /\ Has("memory")
  /\ procs' = newProcs
  /\ UNCHANGED <<pc, locals, selfModel, view, log, observer, episodes, history>>

RegisterProcedure ==
  /\ Len(procs) < MaxProcedures
  /\ \E c \in TaskClasses, a \in OfferedTemplates : Administer(Register(procs, c, a))

UpdateProcedure ==
  \E p \in DOMAIN procs, a \in OfferedTemplates : Administer(UpdateSteps(procs, p, a))

UseProcedure ==
  \E p \in DOMAIN procs, ok \in BOOLEAN :
    procs[p].uses < MaxUses /\ Administer(RecordUsage(procs, p, ok))

PromoteProcedure == \E p \in DOMAIN procs : Administer(Promote(procs, p))
RetireProcedure  == \E p \in DOMAIN procs : Administer(Retire(procs, p))

-----------------------------------------------------------------------------
(* Specification *)

Init ==
  /\ pc = "idle"
  /\ task = NoTask
  /\ decision = NoDecision
  /\ budget = NoBudget /\ gates = NoGates
  /\ plan = NoPlan /\ order = <<>> /\ results = <<>> /\ tokens = 0
  /\ outcome = "none" /\ wm = {} /\ replans = 0
  /\ verdict = "unscored" /\ score = 0 /\ retried = FALSE
  /\ selfModel = DefaultSelfModel
  /\ view \in BuiltWith
  /\ log = <<>>
  /\ observer = NewObserver
  /\ procs = <<>>
  /\ episodes = <<>>
  /\ runs = <<>> /\ attempts = 0 /\ scored = 0 /\ spent = 0

\* The body of run(), once a task is admitted.
RunStep ==
  \/ PlanTask \/ PlanRaises
  \/ StepSucceeds \/ StepFails \/ BudgetExhausted \/ PlanCompleted
  \/ ReplanAfterFailure
  \/ FirstReview \/ ReplanAfterRejection \/ AcceptRejected \/ SecondReview
  \/ SettleRouting \/ Observe \/ ObserveSinkFails \/ Remember

Environment ==
  \/ \E t \in Requests : Admit(t)
  \/ RegisterProcedure \/ UpdateProcedure \/ UseProcedure
  \/ PromoteProcedure \/ RetireProcedure

Next == RunStep \/ Environment

Spec == Init /\ [][Next]_vars

\* run() blocks its caller and every backend call returns or raises; nobody is
\* obliged to submit another task.
FairSpec == Spec /\ WF_vars(RunStep)

-----------------------------------------------------------------------------
(* Type invariant *)

LocalsOK ==
  /\ pc \in {"idle", "planning", "executing", "stopped", "rejected",
             "settling", "observing", "remembering"}
  /\ task \in Tasks /\ decision \in Decisions /\ budget \in Budgets /\ gates \in Gates
  /\ plan \in Plans /\ order \in Seq(Nat)
  /\ results \in Seq([id : Nat, ok : BOOLEAN])
  /\ tokens \in Nat /\ outcome \in Outcomes \cup {"none"}
  /\ wm \in SUBSET Nat /\ replans \in Nat
  /\ verdict \in {"unscored", "skipped", "passed", "rejected"}
  /\ score \in 0 .. 100 /\ retried \in BOOLEAN

StoresOK ==
  /\ selfModel \in SelfModels
  /\ view \in [TaskClasses -> Templates]
  /\ log \in Seq(LogEntry) /\ observer \in Observers
  /\ procs \in Seq(Procedures)
  /\ episodes \in Seq([run : Nat, outcome : Outcomes])

HistoryOK ==
  /\ runs \in Seq([class : TaskClasses, outcome : Outcomes \cup {"none"}])
  /\ attempts \in Nat /\ scored \in Nat /\ spent \in Nat

\* Every variable keeps to the values the code can give it.
TypeOK == LocalsOK /\ StoresOK /\ HistoryOK

-----------------------------------------------------------------------------
(* Safety: one run *)

Settled == pc \in {"settling", "observing", "remembering"}

\* run(): the replans for failures and the one for a rejection come out of the
\* same allowance, so the plan of a task is executed at most 1 + max_replans times.
AttemptBound ==
  /\ attempts <= MaxReplans + 1
  /\ pc \notin {"idle", "planning"} => attempts = replans + 1

\* Plan.topological_order never rejects a plan the Planner made, however often
\* steps of it were replaced: an attempt fails only through a step that failed.
PlansExecutable ==
  pc = "stopped" /\ outcome = "failure" =>
    results # <<>> /\ ~results[Len(results)].ok

\* Executor: when a step starts, Working Memory holds the outputs of all steps it
\* depends on, and nothing but outputs of this very attempt.
InputsReady ==
  /\ pc = "executing" /\ StepsLeft =>
       \A d \in DOMAIN CurrentStep.deps : CurrentStep.deps[d] \in wm
  /\ wm = {results[i].id : i \in {j \in DOMAIN results : results[j].ok}}

\* Executor: the sub-budget check precedes each step, so an attempt overshoots by
\* less than the cap of one step, and a run by that much per attempt.
CostBounded ==
  \A i \in DOMAIN plan.steps :
    /\ tokens = 0 \/ tokens < budget.execution + plan.steps[i].cap
    /\ spent <= attempts * (budget.execution + plan.steps[i].cap)

\* run(): a failure is returned, or a rejected result kept, only once the replans
\* are used up, the Verifier had its one retry, or there was no step to replace.
NoEarlyGiveUp ==
  Settled /\ (outcome = "failure" \/ verdict = "rejected") =>
    replans = MaxReplans \/ retried \/ results = <<>>

\* Honesty (Scheduler gates, Router depth, Verifier floor): what a high-stakes or
\* critical task returns was scored, in its final form.
HighStakesScored ==
  Settled /\ Has("verifier") /\ task.stakes \in {"high", "critical"} =>
    verdict \in {"passed", "rejected"} /\ scored = attempts

-----------------------------------------------------------------------------
(* Safety: across runs *)

\* Verification is skipped only below high stakes, in a class whose measured win
\* rate is above 0.85, and so never before the class has seen a success.
SkipEarned ==
  pc \in {"settling", "observing"} /\ verdict = "skipped" =>
    /\ task.stakes \in {"low", "medium"}
    /\ selfModel.caps[task.class].known /\ selfModel.caps[task.class].rate > 8500
    /\ \E i \in 1 .. (ThisRun - 1) : runs[i] = [class |-> task.class, outcome |-> "success"]

\* record_outcome: every log entry carries the outcome of the run that made it and
\* none when that run raised before it had one, though the code matches entries
\* by position; telemetry and memory agree with it.
LedgersAgree ==
  LET settledAs(entry) == runs[entry.run].outcome = entry.outcome
  IN  /\ \A i \in DOMAIN log :
           log[i].outcome = IF runs[log[i].run].outcome = "none" THEN "pending"
                            ELSE runs[log[i].run].outcome
      /\ \A i \in DOMAIN observer.records : settledAs(observer.records[i])
      /\ \A i \in DOMAIN episodes : settledAs(episodes[i])

\* The k earliest and the k latest of a set of runs.
Earliest(S, k) == {i \in S : Cardinality({j \in S : j <= i}) <= k}
Latest(S, k)   == {i \in S : Cardinality({j \in S : j > i}) < k}

SettledRuns   == {i \in DOMAIN runs : runs[i].outcome # "none"}
OfClass(S, c)   == {i \in S : runs[i].class = c}
Successes(S)  == {i \in S : runs[i].outcome = "success"}

\* The runs of a class that its win rate rests on, of those observed when the
\* Self-Model was built.
MeasuredRuns(c) == Latest(OfClass(Earliest(SettledRuns, selfModel.builtAt), c), OutcomeWindow)

\* "Measured, never asserted": the win rate the Planner reads of a class is that of
\* its last runs, as callers saw them, up to the last refresh.
SelfModelMeasured ==
  \A c \in TaskClasses : selfModel.caps[c].known =>
    /\ MeasuredRuns(c) # {}
    /\ selfModel.caps[c].rate = Rate(Cardinality(Successes(MeasuredRuns(c))),
                                     Cardinality(MeasuredRuns(c)))

\* The Self-Model is recomputed at least every RefreshEvery tasks, as long as no
\* sink can fail.
SelfModelFresh ==
  Has("observer") /\ ~Has("sink") /\ AutoRefresh =>
    observer.total - selfModel.builtAt < RefreshEvery

-----------------------------------------------------------------------------
(* Liveness and refinement *)

\* Every admitted task is answered or its call raises: no plan, failure or
\* rejection keeps run() going for ever.
RunEnds == pc # "idle" ~> pc = "idle"

Retry == INSTANCE RetryProtocol WITH
  MaxAttempts <- MaxReplans + 1,
  active      <- pc # "idle",
  tries       <- attempts,
  answer      <- outcome,
  sentBack    <- retried,
  served      <- IF pc = "idle" THEN Len(runs) ELSE Len(runs) - 1

\* The runtime implements the retry protocol, and serves to the end what it began.
ImplementsRetryProtocol == Retry!FairSpec
=============================================================================
