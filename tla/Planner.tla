-------------------------------- MODULE Planner --------------------------------
(***************************************************************************)
(* The Planner (src/axis/planner.py): the strategy and the steps of an     *)
(* initial plan, and the plan that replaces it after a step failed.  Step  *)
(* ids are uuid4 strings in the code and numbers unique in a run here.     *)
(***************************************************************************)
EXTENDS AxisTypes, PlanOrder

CONSTANTS
  TemplateActions,    \* action names procedural templates use
  MinStepTokens       \* the least max_tokens of a step (256 in the code)

ASSUME PlannerConfig == MinStepTokens \in Nat

DefaultActions == {"retrieve_context", "invoke_primary_tool",
                   "reason_about_task", "produce_final_answer"}
Actions  == DefaultActions \cup TemplateActions
PlanStep == Steps(Actions)

\* source is the procedure a plan instantiates, 0 for the default decomposition
\* (the code keeps it in Plan.rationale).
Plans == [steps : Seq(PlanStep), strategy : Strategies, source : Nat]
NoPlan == [steps |-> <<>>, strategy |-> "analytical", source |-> 0]

\* A procedural template: the procedure it was taken from and, for each of its
\* steps, the action, or "missing" when the step has no "action" key.
Templates  == [source : Nat, actions : Seq(TemplateActions \cup {"missing"})]
NoTemplate == [source |-> 0, actions |-> <<>>]

\* ts["action"] raises KeyError out of plan()
Malformed(template) ==
  \E i \in DOMAIN template.actions : template.actions[i] = "missing"

-----------------------------------------------------------------------------
(* Strategy selection *)

\* sorted(eff.items(), ...)[0], or the conservative default
HistoricalBest(selfModel) ==
  IF selfModel.leader = "none" THEN "analytical" ELSE selfModel.leader

ChooseStrategy(task, selfModel) ==
  LET best == selfModel.caps[task.class].best
  IN  IF best = "none" THEN HistoricalBest(selfModel) ELSE best

AlternativeStrategy(current) ==
  IF current = "analytical" THEN "retrieval_first" ELSE "analytical"

-----------------------------------------------------------------------------
(* Decomposition *)

PerStepTokens(executionTokens, n) ==
  LET even == executionTokens \div (IF n = 0 THEN 1 ELSE n)
  IN  IF even < MinStepTokens THEN MinStepTokens ELSE even

\* A linear chain of the given actions: every step depends on the one before.
Chain(actions, cap) ==
  [i \in 1 .. Len(actions) |->
     [id     |-> i,
      action |-> actions[i],
      deps   |-> IF i = 1 THEN <<>> ELSE <<i - 1>>,
      cap    |-> cap]]

Phases(strategy, retrievalOpen) ==
  (IF retrievalOpen \/ strategy = "retrieval_first"
     THEN <<"retrieve_context">> ELSE <<>>)
  \o (IF strategy = "tool_first" THEN <<"invoke_primary_tool">> ELSE <<>>)
  \o <<"reason_about_task", "produce_final_answer">>

DefaultDecomposition(strategy, executionTokens, retrievalOpen) ==
  LET phases == Phases(strategy, retrievalOpen)
  IN  Chain(phases, PerStepTokens(executionTokens, Len(phases)))

InstantiateTemplate(template, executionTokens) ==
  Chain(template.actions, PerStepTokens(executionTokens, Len(template.actions)))

\* plan(): template is NoTemplate when procedural memory has none for the class.
MakePlan(task, selfModel, template, executionTokens, retrievalOpen) ==
  LET strategy == ChooseStrategy(task, selfModel)
  IN  [steps    |-> IF template = NoTemplate
                    THEN DefaultDecomposition(strategy, executionTokens, retrievalOpen)
                    ELSE InstantiateTemplate(template, executionTokens),
       strategy |-> strategy,
       source   |-> template.source]

-----------------------------------------------------------------------------
(* Replanning *)

\* Broken variant: dependencies keep pointing at the step that was replaced.
ReplaceStepOnly(step, failed, fresh) ==
  [step EXCEPT !.id = IF step.id = failed THEN fresh ELSE step.id]

\* The failed step gets a new id, and the steps that depend on it follow.
ReplaceStep(step, failed, fresh) ==
  [step EXCEPT
     !.id   = IF step.id = failed THEN fresh ELSE step.id,
     !.deps = [k \in DOMAIN step.deps |->
                 IF step.deps[k] = failed /\ step.id # failed
                 THEN fresh ELSE step.deps[k]]]

Replan(plan, failed, fresh) ==
  [plan EXCEPT
     !.steps    = [i \in DOMAIN plan.steps |-> ReplaceStep(plan.steps[i], failed, fresh)],
     !.strategy = AlternativeStrategy(plan.strategy)]
=============================================================================
