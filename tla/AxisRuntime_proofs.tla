--------------------------- MODULE AxisRuntime_proofs ---------------------------
(***************************************************************************)
(* The runtime loop, for every configuration and any number of tasks.  The *)
(* theorems build on one another: types, then the bookkeeping of attempts, *)
(* then what is returned to the caller, what a run may cost, and what one  *)
(* run leaves behind for the next: the Self-Model's age, the evidence a    *)
(* skipped verification rests on, the agreement of routing log, telemetry  *)
(* and memory, and what the Self-Model is measured from.  The last section *)
(* is the safety part of the refinement of the retry protocol.             *)
(***************************************************************************)
EXTENDS AxisRuntime, Components_proofs

-----------------------------------------------------------------------------
(* Type correctness *)

AttemptEnded == pc \in {"stopped", "rejected", "settling", "observing", "remembering"}

\* TypeOK is not inductive: an outcome is recorded only once there is one, and the
\* Executor looks up the steps its order names.
TypeInv ==
  /\ TypeOK
  /\ AttemptEnded => outcome \in Outcomes
  /\ order \in [DOMAIN order -> DOMAIN plan.steps]

\* The values run() starts from and leaves behind.
LEMMA EmptyRun ==
  /\ NoTask \in Tasks /\ NoDecision \in Decisions
  /\ NoBudget \in Budgets /\ NoGates \in Gates /\ NoPlan \in Plans
  /\ <<>> \in Seq(Nat) /\ <<>> \in Seq([id : Nat, ok : BOOLEAN])
  /\ <<>> \in [DOMAIN <<>> -> DOMAIN NoPlan.steps]
<1>1. NoTask \in Tasks
  BY RuntimeConfig DEF NoTask, Tasks, Stakes
<1>2. NoDecision \in Decisions
  BY DEF NoDecision, Decisions, Strategies
<1>3. NoBudget \in Budgets
  BY SplitFits DEF NoBudget
<1>4. NoGates \in Gates
  BY DEF NoGates, Gates
<1>5. NoPlan \in Plans
  BY DEF NoPlan, Plans, Strategies
<1>6. <<>> \in [DOMAIN <<>> -> DOMAIN NoPlan.steps]
  BY DEF NoPlan
<1>. QED BY <1>1, <1>2, <1>3, <1>4, <1>5, <1>6

LEMMA ExecuteType ==
  ASSUME TypeInv, NEW p \in Plans, Execute(p)
  PROVE  /\ plan' \in Plans /\ attempts' \in Nat /\ tokens' \in Nat
         /\ results' \in Seq([id : Nat, ok : BOOLEAN]) /\ wm' \in SUBSET Nat
         /\ order' \in Seq(Nat) /\ order' \in [DOMAIN order' -> DOMAIN plan'.steps]
         /\ pc' \in {"stopped", "executing"}
         /\ outcome' \in Outcomes \cup {"none"} /\ (pc' = "stopped" => outcome' \in Outcomes)
<1>1. plan' = p /\ results' = <<>> /\ tokens' = 0 /\ wm' = {}
      /\ attempts' = AtMost(MaxReplans + 2, attempts + 1)
  BY DEF Execute
<1>2. attempts' \in Nat
  <2>1. attempts \in Nat
    BY DEF TypeInv, TypeOK, LocalsOK, HistoryOK
  <2>2. MaxReplans \in Nat
    BY RuntimeConfig
  <2>3. attempts + 1 \in Nat /\ MaxReplans + 2 \in Nat
    BY <2>1, <2>2
  <2>. QED BY <1>1, <2>3, AtMostBounds
<1>3. p.steps \in Seq(PlanStep) /\ DOMAIN p.steps = 1 .. Len(p.steps)
  BY LenProperties DEF Plans
<1>4. CASE TopologicalOrders(p.steps) = {}
  <2>1. order' = <<>> /\ outcome' = "failure" /\ pc' = "stopped"
    BY <1>4 DEF Execute
  <2>2. order' \in [DOMAIN order' -> DOMAIN p.steps]
    BY <2>1, EmptySeq, LenProperties
  <2>. QED BY <1>1, <1>2, <2>1, <2>2 DEF Outcomes
<1>5. CASE TopologicalOrders(p.steps) # {}
  <2>1. order' \in TopologicalOrders(p.steps) /\ outcome' = "none" /\ pc' = "executing"
    BY <1>5 DEF Execute
  <2>2. order' \in Seq(Nat) /\ order' \in [1 .. Len(p.steps) -> 1 .. Len(p.steps)]
    BY <1>3, <2>1, OrderType
  <2>. QED BY <1>1, <1>2, <1>3, <2>1, <2>2
<1>. QED BY <1>4, <1>5

LEMMA ReplanLastStepType ==
  ASSUME TypeInv, ReplanLastStep
  PROVE  \E p \in Plans : Execute(p)
<1> DEFINE fresh == Len(plan.steps) + replans + 1
<1>1. plan \in Plans /\ replans \in Nat
  BY DEF TypeInv, TypeOK, LocalsOK, HistoryOK
<1>2. Len(plan.steps) \in Nat
  BY <1>1, LenProperties DEF Plans
<1>3. fresh \in Nat
  BY <1>1, <1>2
<1>4. Replan(plan, results[Len(results)].id, fresh) \in Plans
  BY <1>1, <1>3, ReplanType
<1>. QED BY <1>4 DEF ReplanLastStep

LEMMA CurrentStepType ==
  ASSUME TypeInv, StepsLeft
  PROVE  CurrentStep \in PlanStep /\ CurrentStep.id \in Nat /\ CurrentStep.cap \in Nat
<1>1. Len(results) \in Nat /\ Len(order) \in Nat /\ DOMAIN order = 1 .. Len(order)
  BY LenProperties DEF TypeInv, TypeOK, LocalsOK, HistoryOK
<1>2. Len(results) + 1 \in DOMAIN order
  BY <1>1 DEF StepsLeft
<1>3. order[Len(results) + 1] \in DOMAIN plan.steps
  BY <1>2 DEF TypeInv
<1>4. plan.steps \in Seq(PlanStep)
  BY DEF TypeInv, TypeOK, LocalsOK, HistoryOK, Plans
<1>5. CurrentStep \in PlanStep
  BY <1>3, <1>4, ElementOfSeq, LenProperties DEF CurrentStep
<1>. QED BY <1>5 DEF PlanStep, Steps

LEMMA ChargeType ==
  ASSUME NEW reported \in Int, NEW cap \in Nat
  PROVE  Charge(reported, cap) \in Nat /\ Charge(reported, cap) <= cap
BY DEF Charge, AtMost

LEMMA RecordStepType ==
  ASSUME TypeInv, StepsLeft, NEW ok \in BOOLEAN, NEW reported \in Int, RecordStep(ok, reported)
  PROVE  results' \in Seq([id : Nat, ok : BOOLEAN]) /\ tokens' \in Nat /\ spent' \in Nat
<1>1. Charge(reported, CurrentStep.cap) \in Nat
  BY CurrentStepType, ChargeType
<1>2. [id |-> CurrentStep.id, ok |-> ok] \in [id : Nat, ok : BOOLEAN]
  BY CurrentStepType
<1>3. results \in Seq([id : Nat, ok : BOOLEAN]) /\ tokens \in Nat /\ spent \in Nat
  BY DEF TypeInv, TypeOK, LocalsOK, HistoryOK
<1>4. results' \in Seq([id : Nat, ok : BOOLEAN])
  BY <1>2, <1>3, AppendProperties DEF RecordStep
<1>. QED BY <1>1, <1>3, <1>4 DEF RecordStep

LEMMA PossibleScoresType ==
  ASSUME TypeInv
  PROVE  PossibleScores \subseteq 0 .. 100
<1> DEFINE frictions == 10 * (replans + (IF outcome = "failure" /\ results # <<>> THEN 1 ELSE 0))
<1>1. frictions \in Nat
  BY DEF TypeInv, TypeOK, LocalsOK, HistoryOK
<1>2. Penalty = AtMost(50, frictions)
  BY DEF Penalty
<1> HIDE DEF frictions
<1>3. Penalty \in Nat
  BY <1>1, <1>2, AtMostBounds
<1>4. (IF Penalty > 25 THEN 0 ELSE 25 - Penalty) \in 0 .. 100
  BY <1>3
<1>5. Scores \subseteq 0 .. 100
  BY RuntimeConfig
<1>. QED BY <1>4, <1>5 DEF PossibleScores

\* run() leaves nothing behind but what its components keep.
LEMMA LeaveType ==
  ASSUME Leave
  PROVE  /\ LocalsOK' /\ order' \in [DOMAIN order' -> DOMAIN plan'.steps] /\ pc' = "idle"
         /\ attempts' \in Nat /\ scored' \in Nat /\ spent' \in Nat
<1>1. task' \in Tasks /\ decision' \in Decisions /\ budget' \in Budgets /\ gates' \in Gates
  BY EmptyRun DEF Leave
<1>2. plan' \in Plans /\ order' \in Seq(Nat) /\ results' \in Seq([id : Nat, ok : BOOLEAN])
      /\ order' \in [DOMAIN order' -> DOMAIN plan'.steps]
  BY EmptyRun DEF Leave
<1>3. wm' \in SUBSET Nat /\ tokens' \in Nat /\ replans' \in Nat
      /\ attempts' \in Nat /\ scored' \in Nat /\ spent' \in Nat
  BY DEF Leave
<1>4. outcome' = "none" /\ verdict' = "unscored" /\ score' = 0 /\ pc' = "idle"
  BY DEF Leave
<1>5. retried' \in BOOLEAN
  BY Zenon DEF Leave
<1>. QED BY <1>1, <1>2, <1>3, <1>4, <1>5 DEF LocalsOK

LEMMA VerifyType ==
  ASSUME TypeInv, Verify
  PROVE  /\ verdict' \in {"unscored", "skipped", "passed", "rejected"}
         /\ score' \in 0 .. 100 /\ scored' \in Nat
<1>1. attempts \in Nat /\ scored \in Nat
  BY DEF TypeInv, TypeOK, LocalsOK, HistoryOK
<1>2. CASE ~Verified
  BY <1>1, <1>2 DEF Verify
<1>3. CASE Verified
  BY <1>1, <1>3, PossibleScoresType DEF Verify
<1>. QED BY <1>2, <1>3

LEMMA RecordType ==
  ASSUME TypeInv, AttemptEnded
  PROVE  Record \in Records
<1>1. Len(runs) \in Nat /\ task.class \in TaskClasses /\ outcome \in Outcomes
  BY LenProperties DEF TypeInv, TypeOK, LocalsOK, HistoryOK, Tasks
<1>2. plan.strategy \in Strategies
  BY DEF TypeInv, TypeOK, LocalsOK, HistoryOK, Plans
<1>. QED BY <1>1, <1>2 DEF Record, Records, ThisRun

LEMMA InitTyped == Init => TypeInv
<1> SUFFICES ASSUME Init PROVE TypeInv
  OBVIOUS
<1>1. DefaultSelfModel \in SelfModels
  BY DEF DefaultSelfModel, SelfModels, Capabilities, Rates, Strategies
<1>2. NewObserver \in Observers
  BY DEF NewObserver, Observers
<1>3. view \in [TaskClasses -> Templates]
  BY RuntimeConfig DEF Init
<1>4. order \in [DOMAIN order -> DOMAIN plan.steps] /\ ~AttemptEnded
  BY EmptyRun DEF Init, AttemptEnded
<1>5. StoresOK
  BY <1>1, <1>2, <1>3 DEF Init, StoresOK
<1>6. HistoryOK
  BY DEF Init, HistoryOK
<1>7. LocalsOK
  <2>1. task \in Tasks /\ decision \in Decisions /\ budget \in Budgets /\ gates \in Gates
    BY EmptyRun DEF Init
  <2>2. plan \in Plans /\ order \in Seq(Nat) /\ results \in Seq([id : Nat, ok : BOOLEAN])
    BY EmptyRun DEF Init
  <2>3. wm \in SUBSET Nat /\ tokens \in Nat /\ replans \in Nat /\ pc = "idle"
        /\ outcome = "none" /\ verdict = "unscored" /\ score = 0
    BY DEF Init
  <2>4. retried \in BOOLEAN
    BY Zenon DEF Init
  <2>. QED BY <2>1, <2>2, <2>3, <2>4 DEF LocalsOK
<1>. QED BY <1>4, <1>5, <1>6, <1>7 DEF TypeInv, TypeOK

\* One step at a time.  Stages of run() that touch the attempt:
LEMMA ExecutionTyped ==
  ASSUME TypeInv,
         PlanTask \/ ReplanAfterFailure \/ ReplanAfterRejection
  PROVE  TypeInv'
<1>1. PICK p \in Plans : Execute(p)
  <2>1. CASE PlanTask
    <3> DEFINE made == MakePlan(task, selfModel, view[task.class], budget.execution,
                                gates.retrieval)
    <3>1. task \in Tasks /\ selfModel \in SelfModels /\ decision \in Decisions
          /\ budget.execution \in Nat /\ task.class \in TaskClasses
      BY DEF TypeInv, TypeOK, LocalsOK, StoresOK, Budgets, Tasks
    <3>2. view[task.class] \in Templates
      BY <3>1 DEF TypeInv, TypeOK, StoresOK
    <3>3. ~Malformed(view[task.class])
      BY <2>1 DEF PlanTask
    <3>4. made \in Plans
      BY <3>1, <3>2, <3>3, MakePlanType
    <3> HIDE DEF made
    <3>5. decision.strategy \in Strategies
      BY <3>1 DEF Decisions
    <3>6. [made EXCEPT !.strategy = decision.strategy] \in Plans
      BY <3>4, <3>5 DEF Plans
    <3>7. Execute(IF Has("router") THEN [made EXCEPT !.strategy = decision.strategy] ELSE made)
      BY <2>1 DEF PlanTask, made
    <3>. QED BY <3>4, <3>6, <3>7
  <2>2. CASE ReplanAfterFailure
    BY <2>2, ReplanLastStepType DEF ReplanAfterFailure
  <2>3. CASE ReplanAfterRejection
    BY <2>3, ReplanLastStepType DEF ReplanAfterRejection
  <2>. QED BY <2>1, <2>2, <2>3
<1>2. /\ plan' \in Plans /\ attempts' \in Nat /\ tokens' \in Nat
      /\ results' \in Seq([id : Nat, ok : BOOLEAN]) /\ wm' \in SUBSET Nat
      /\ order' \in Seq(Nat) /\ order' \in [DOMAIN order' -> DOMAIN plan'.steps]
      /\ pc' \in {"stopped", "executing"}
      /\ outcome' \in Outcomes \cup {"none"} /\ (pc' = "stopped" => outcome' \in Outcomes)
  BY <1>1, ExecuteType
<1>3. UNCHANGED <<admission, verdict, score, stores, runs, scored, spent>>
  BY DEF PlanTask, ReplanAfterFailure, ReplanAfterRejection, review
<1>4. replans' \in Nat
  BY DEF PlanTask, ReplanAfterFailure, ReplanAfterRejection, TypeInv, TypeOK, LocalsOK
<1>5. retried' \in BOOLEAN
  <2>1. retried' = retried \/ retried' = TRUE
    BY Zenon DEF PlanTask, ReplanAfterFailure, ReplanAfterRejection, review
  <2>2. retried \in BOOLEAN
    BY DEF TypeInv, TypeOK, LocalsOK
  <2>. QED BY <2>1, <2>2
<1>6. StoresOK'
  BY <1>3 DEF TypeInv, TypeOK, StoresOK, stores
<1>7. HistoryOK'
  BY <1>2, <1>3 DEF TypeInv, TypeOK, HistoryOK
<1>8. LocalsOK'
  BY <1>2, <1>3, <1>4, <1>5 DEF TypeInv, TypeOK, LocalsOK, admission
<1>9. AttemptEnded' => outcome' \in Outcomes
  BY <1>2 DEF AttemptEnded
<1>. QED BY <1>2, <1>6, <1>7, <1>8, <1>9 DEF TypeInv, TypeOK

LEMMA StepTyped ==
  ASSUME TypeInv,
         StepSucceeds \/ StepFails \/ BudgetExhausted \/ PlanCompleted
  PROVE  TypeInv'
<1>1. UNCHANGED <<admission, plan, order, replans, review, stores, runs, attempts, scored>>
  BY DEF StepSucceeds, StepFails, BudgetExhausted, PlanCompleted, Executing
<1>2. /\ results' \in Seq([id : Nat, ok : BOOLEAN]) /\ tokens' \in Nat /\ spent' \in Nat
      /\ wm' \in SUBSET Nat
  <2>1. CASE StepSucceeds
    <3>1. PICK reported \in ReportedTokens : StepsLeft /\ RecordStep(TRUE, reported)
      BY <2>1 DEF StepSucceeds
    <3>2. reported \in Int
      BY <3>1, RuntimeConfig
    <3>3. wm' = wm \cup {CurrentStep.id}
      BY <2>1 DEF StepSucceeds
    <3>. QED BY <3>1, <3>2, <3>3, RecordStepType, CurrentStepType
             DEF TypeInv, TypeOK, LocalsOK
  <2>2. CASE StepFails
    <3>1. PICK reported \in ReportedTokens \cup {0} : StepsLeft /\ RecordStep(FALSE, reported)
      BY <2>2 DEF StepFails
    <3>2. reported \in Int
      BY <3>1, RuntimeConfig
    <3>3. wm' = wm
      BY <2>2 DEF StepFails
    <3>. QED BY <3>1, <3>2, <3>3, RecordStepType DEF TypeInv, TypeOK, LocalsOK
  <2>3. CASE BudgetExhausted \/ PlanCompleted
    BY <2>3 DEF BudgetExhausted, PlanCompleted, TypeInv, TypeOK, LocalsOK, HistoryOK
  <2>. QED BY <2>1, <2>2, <2>3
<1>3. \/ pc' = pc /\ outcome' = outcome /\ pc = "executing"
      \/ pc' = "stopped" /\ outcome' \in Outcomes
  BY DEF StepSucceeds, StepFails, BudgetExhausted, PlanCompleted, Executing, Stop, Outcomes
<1>4. StoresOK'
  BY <1>1 DEF TypeInv, TypeOK, StoresOK, stores
<1>5. HistoryOK'
  BY <1>1, <1>2 DEF TypeInv, TypeOK, HistoryOK
<1>6. LocalsOK'
  BY <1>1, <1>2, <1>3 DEF TypeInv, TypeOK, LocalsOK, admission, review
<1>. QED BY <1>1, <1>3, <1>4, <1>5, <1>6 DEF TypeInv, TypeOK, AttemptEnded

LEMMA ReviewTyped ==
  ASSUME TypeInv, FirstReview \/ AcceptRejected \/ SecondReview
  PROVE  TypeInv'
<1>1. UNCHANGED <<admission, attempt, replans, retried, stores, runs, attempts, spent>>
  BY DEF FirstReview, AcceptRejected, SecondReview, Reviewing, locals, attempt, admission,
         history
<1>2. /\ verdict' \in {"unscored", "skipped", "passed", "rejected"}
      /\ score' \in 0 .. 100 /\ scored' \in Nat
  <2>1. Verify \/ UNCHANGED <<verdict, score, scored>>
    BY DEF FirstReview, AcceptRejected, SecondReview, locals, history
  <2>. QED BY <2>1, VerifyType DEF TypeInv, TypeOK, LocalsOK, HistoryOK
<1>3. AttemptEnded /\ pc' \in {"rejected", "settling"}
  BY DEF FirstReview, AcceptRejected, SecondReview, Reviewing, AttemptEnded
<1>4. StoresOK' /\ HistoryOK'
  BY <1>1, <1>2 DEF TypeInv, TypeOK, StoresOK, HistoryOK, stores
<1>5. LocalsOK'
  BY <1>1, <1>2, <1>3 DEF TypeInv, TypeOK, LocalsOK, admission, attempt
<1>. QED BY <1>1, <1>3, <1>4, <1>5 DEF TypeInv, TypeOK, AttemptEnded, attempt

LEMMA AdmitTyped ==
  ASSUME TypeInv, NEW t \in Requests, Admit(t)
  PROVE  TypeInv'
<1>1. t \in Tasks /\ t.class \in TaskClasses
  BY RuntimeConfig DEF Tasks
<1>2. selfModel \in SelfModels /\ log \in Seq(LogEntry)
      /\ runs \in Seq([class : TaskClasses, outcome : Outcomes \cup {"none"}])
  BY DEF TypeInv, TypeOK, StoresOK, HistoryOK
<1>3. Len(runs) + 1 \in Nat
  BY <1>2, LenProperties
<1>4. decision' \in Decisions
  BY <1>1, <1>2, RouteType, EmptyRun DEF Admit
<1>5. log' \in Seq(LogEntry)
  BY <1>2, <1>3, LogDecisionType DEF Admit
<1>6. budget' \in Budgets
  BY <1>1, AllocateFits DEF Admit
<1>7. gates' \in Gates
  <2>1. GatesFor(t, selfModel, DefaultNovelty) \in Gates
    BY <1>1, <1>2, GatesForType DEF DefaultNovelty
  <2>. QED BY <2>1, ApplyDepthType DEF Admit
<1>8. runs' \in Seq([class : TaskClasses, outcome : Outcomes \cup {"none"}])
  BY <1>1, <1>2, AppendProperties DEF Admit
<1>9. /\ UNCHANGED <<attempt, replans, review, selfModel, view, observer, procs,
                     episodes, attempts, scored, spent>>
      /\ pc' = "planning" /\ task' = t
  BY DEF Admit
<1>10. StoresOK' /\ HistoryOK'
  BY <1>5, <1>8, <1>9 DEF TypeInv, TypeOK, StoresOK, HistoryOK
<1>11. LocalsOK'
  BY <1>1, <1>4, <1>6, <1>7, <1>9 DEF TypeInv, TypeOK, LocalsOK, attempt, review
<1>. QED BY <1>9, <1>10, <1>11 DEF TypeInv, TypeOK, AttemptEnded, attempt

LEMMA SettlingTyped ==
  ASSUME TypeInv,
         SettleRouting \/ Observe \/ ObserveSinkFails \/ Remember \/ PlanRaises
  PROVE  TypeInv'
<1>1. CASE SettleRouting
  <2>1. outcome \in Outcomes
    BY <1>1 DEF SettleRouting, TypeInv, AttemptEnded
  <2>2. log' \in Seq(LogEntry)
    BY <1>1, <2>1, RecordOutcomeType DEF SettleRouting, TypeInv, TypeOK, StoresOK
  <2>3. runs' \in Seq([class : TaskClasses, outcome : Outcomes \cup {"none"}])
    <3> DEFINE R == [class : TaskClasses, outcome : Outcomes \cup {"none"}]
    <3>1. Len(runs) \in Nat /\ runs \in [1 .. Len(runs) -> R]
      BY LenProperties DEF TypeInv, TypeOK, HistoryOK
    <3>2. [runs EXCEPT ![ThisRun].outcome = outcome] \in [1 .. Len(runs) -> R]
      BY <2>1, <3>1
    <3>. QED BY <1>1, <3>1, <3>2, SeqFromFunction DEF SettleRouting
  <2>4. UNCHANGED <<locals, selfModel, view, observer, procs, episodes, attempts, scored, spent>>
        /\ pc' = "observing"
    BY <1>1 DEF SettleRouting
  <2>5. StoresOK' /\ HistoryOK'
    BY <2>2, <2>3, <2>4 DEF TypeInv, TypeOK, StoresOK, HistoryOK
  <2>6. LocalsOK'
    BY <2>4 DEF TypeInv, TypeOK, LocalsOK, locals
  <2>. QED BY <2>1, <2>4, <2>5, <2>6 DEF TypeInv, TypeOK, locals
<1>2. CASE Observe
  <2>1. Record \in Records
    BY <1>2, RecordType DEF Observe, AttemptEnded
  <2>2. Ingest(observer, Record) \in Observers
    BY <2>1, IngestType DEF TypeInv, TypeOK, StoresOK
  <2>3. observer' \in Observers /\ selfModel' \in SelfModels
    BY <1>2, <2>2, SnapshotType DEF Observe, TypeInv, TypeOK, StoresOK
  <2>4. UNCHANGED <<locals, view, log, procs, episodes, history>> /\ pc' = "remembering"
        /\ AttemptEnded
    BY <1>2 DEF Observe, AttemptEnded
  <2>5. StoresOK' /\ HistoryOK'
    BY <2>3, <2>4 DEF TypeInv, TypeOK, StoresOK, HistoryOK, history
  <2>6. LocalsOK'
    BY <2>4 DEF TypeInv, TypeOK, LocalsOK, locals
  <2>. QED BY <2>4, <2>5, <2>6 DEF TypeInv, TypeOK, locals
<1>3. CASE ObserveSinkFails
  <2>1. Record \in Records
    BY <1>3, RecordType DEF ObserveSinkFails, AttemptEnded
  <2>2. observer' \in Observers
    BY <1>3, <2>1, IngestType DEF ObserveSinkFails, TypeInv, TypeOK, StoresOK
  <2>3. Leave /\ UNCHANGED <<selfModel, view, log, procs, episodes, runs>>
    BY <1>3 DEF ObserveSinkFails
  <2>. QED BY <2>2, <2>3, LeaveType
           DEF TypeInv, TypeOK, StoresOK, HistoryOK, AttemptEnded
<1>4. CASE Remember
  <2>1. outcome \in Outcomes /\ ThisRun \in Nat
    BY <1>4, LenProperties DEF Remember, TypeInv, TypeOK, HistoryOK, AttemptEnded, ThisRun
  <2>2. [run |-> ThisRun, outcome |-> outcome] \in [run : Nat, outcome : Outcomes]
    BY <2>1
  <2>3. Push(episodes, [run |-> ThisRun, outcome |-> outcome], MaxEpisodes)
          \in Seq([run : Nat, outcome : Outcomes])
    BY <2>2, PushType, RuntimeConfig DEF TypeInv, TypeOK, StoresOK
  <2>4. episodes' \in Seq([run : Nat, outcome : Outcomes])
    BY <1>4, <2>3 DEF Remember, TypeInv, TypeOK, StoresOK
  <2>5. view' \in [TaskClasses -> Templates]
    BY <1>4, IndexType DEF Remember, TypeInv, TypeOK, StoresOK
  <2>6. Leave /\ UNCHANGED <<selfModel, log, observer, procs, runs>>
    BY <1>4 DEF Remember
  <2>. QED BY <2>4, <2>5, <2>6, LeaveType
           DEF TypeInv, TypeOK, StoresOK, HistoryOK, AttemptEnded
<1>5. CASE PlanRaises
  <2>1. Leave /\ UNCHANGED <<stores, runs>>
    BY <1>5 DEF PlanRaises
  <2>. QED BY <2>1, LeaveType
           DEF TypeInv, TypeOK, StoresOK, HistoryOK, AttemptEnded, stores
<1>. QED BY <1>1, <1>2, <1>3, <1>4, <1>5

Administration ==
  \/ RegisterProcedure \/ UpdateProcedure \/ UseProcedure
  \/ PromoteProcedure \/ RetireProcedure

LEMMA AdministrationTyped ==
  ASSUME TypeInv, Administration
  PROVE  TypeInv'
<1>1. PICK new \in Seq(Procedures) : Administer(new)
  BY ProcedureWrites, RuntimeConfig
     DEF Administration, RegisterProcedure, UpdateProcedure, UseProcedure, PromoteProcedure,
         RetireProcedure, TypeInv, TypeOK, StoresOK
<1>2. procs' \in Seq(Procedures)
      /\ UNCHANGED <<pc, locals, selfModel, view, log, observer, episodes, history>>
  BY <1>1 DEF Administer
<1>3. StoresOK' /\ HistoryOK'
  BY <1>2 DEF TypeInv, TypeOK, StoresOK, HistoryOK, history
<1>4. LocalsOK'
  BY <1>2 DEF TypeInv, TypeOK, LocalsOK, locals
<1>. QED BY <1>2, <1>3, <1>4 DEF TypeInv, TypeOK, AttemptEnded, locals

LEMMA StutterTyped ==
  ASSUME TypeInv, UNCHANGED vars
  PROVE  TypeInv'
<1>1. StoresOK' /\ HistoryOK'
  BY DEF TypeInv, TypeOK, StoresOK, HistoryOK, vars, stores, history
<1>2. LocalsOK'
  BY DEF TypeInv, TypeOK, LocalsOK, vars, locals
<1>. QED BY <1>1, <1>2 DEF TypeInv, TypeOK, AttemptEnded, vars, locals

\* The steps of the runtime, grouped by the part of run() they belong to.
LEMMA NextCases ==
  ASSUME [Next]_vars
  PROVE  \/ \E t \in Requests : Admit(t)
         \/ PlanTask \/ ReplanAfterFailure \/ ReplanAfterRejection
         \/ StepSucceeds \/ StepFails \/ BudgetExhausted \/ PlanCompleted
         \/ FirstReview \/ AcceptRejected \/ SecondReview
         \/ SettleRouting \/ Observe \/ ObserveSinkFails \/ Remember \/ PlanRaises
         \/ Administration
         \/ UNCHANGED vars
BY Zenon DEF Next, RunStep, Environment, Administration

LEMMA AlwaysTyped == Spec => []TypeInv
<1>1. TypeInv /\ [Next]_vars => TypeInv'
  BY NextCases, AdmitTyped, ExecutionTyped, StepTyped, ReviewTyped, SettlingTyped,
     AdministrationTyped, StutterTyped
<1>. QED BY <1>1, InitTyped, PTL DEF Spec

\* Type correctness of the runtime and of everything its components keep.
THEOREM RuntimeTyped == Spec => []TypeOK
<1>1. TypeInv => TypeOK
  BY DEF TypeInv
<1>. QED BY <1>1, AlwaysTyped, PTL

-----------------------------------------------------------------------------
(* Attempts *)

Before == pc \in {"idle", "planning"}

\* The strengthening: before the plan exists nothing is counted, from then on every
\* attempt but the first is paid for by a replan.
AttemptInv ==
  /\ Before => attempts = 0 /\ replans = 0
  /\ ~Before => attempts = replans + 1 /\ replans <= MaxReplans

LEMMA LastAttemptCounted ==
  ASSUME TypeInv, NEW p, Execute(p), attempts <= MaxReplans + 1
  PROVE  attempts' = attempts + 1 /\ pc' \in {"stopped", "executing"}
<1>1. attempts \in Nat /\ MaxReplans \in Nat
  BY RuntimeConfig DEF TypeInv, TypeOK, HistoryOK
<1>2. attempts' = AtMost(MaxReplans + 2, attempts + 1)
  BY DEF Execute
<1>3. pc' \in {"stopped", "executing"}
  BY DEF Execute
<1>. QED BY <1>1, <1>2, <1>3 DEF AtMost

LEMMA AttemptsCounted == Spec => []AttemptInv
<1>1. Init => AttemptInv
  BY DEF Init, AttemptInv, Before
<1>2. TypeInv /\ AttemptInv /\ [Next]_vars => AttemptInv'
  <2> SUFFICES ASSUME TypeInv, AttemptInv, [Next]_vars PROVE AttemptInv'
    OBVIOUS
  <2>0. replans \in Nat /\ attempts \in Nat /\ MaxReplans \in Nat
    BY RuntimeConfig DEF TypeInv, TypeOK, LocalsOK, HistoryOK
  <2>1. ASSUME NEW t \in Requests, Admit(t) PROVE AttemptInv'
    BY <2>1 DEF Admit, AttemptInv, Before
  <2>2. CASE PlanTask
    <3>1. attempts' = attempts + 1 /\ pc' \in {"stopped", "executing"}
      BY <2>0, <2>2, LastAttemptCounted DEF PlanTask, AttemptInv, Before
    <3>. QED BY <2>0, <2>2, <3>1 DEF PlanTask, AttemptInv, Before
  <2>3. CASE ReplanAfterFailure
    <3>1. attempts' = attempts + 1 /\ pc' \in {"stopped", "executing"}
      BY <2>0, <2>3, LastAttemptCounted
         DEF ReplanAfterFailure, ReplanLastStep, AttemptInv, Before
    <3>. QED BY <2>0, <2>3, <3>1 DEF ReplanAfterFailure, MayReplan, AttemptInv, Before
  <2>4. CASE ReplanAfterRejection
    <3>1. attempts' = attempts + 1 /\ pc' \in {"stopped", "executing"}
      BY <2>0, <2>4, LastAttemptCounted
         DEF ReplanAfterRejection, ReplanLastStep, AttemptInv, Before
    <3>. QED BY <2>0, <2>4, <3>1 DEF ReplanAfterRejection, MayReplan, AttemptInv, Before
  <2>5. CASE StepSucceeds \/ StepFails \/ BudgetExhausted \/ PlanCompleted
    <3>1. pc = "executing" /\ pc' \in {"executing", "stopped"}
          /\ UNCHANGED <<replans, attempts>>
      BY <2>5 DEF StepSucceeds, StepFails, BudgetExhausted, PlanCompleted, Executing, Stop
    <3>. QED BY <3>1 DEF AttemptInv, Before
  <2>6. CASE FirstReview \/ AcceptRejected \/ SecondReview
    <3>1. pc \in {"stopped", "rejected"} /\ pc' \in {"rejected", "settling"}
          /\ UNCHANGED <<replans, attempts>>
      BY <2>6 DEF FirstReview, AcceptRejected, SecondReview, Reviewing, locals, history
    <3>. QED BY <3>1 DEF AttemptInv, Before
  <2>7. CASE SettleRouting \/ Observe
    <3>1. pc \in {"settling", "observing"} /\ pc' \in {"observing", "remembering"}
          /\ UNCHANGED <<replans, attempts>>
      BY <2>7 DEF SettleRouting, Observe, locals, history
    <3>. QED BY <3>1 DEF AttemptInv, Before
  <2>8. CASE ObserveSinkFails \/ Remember \/ PlanRaises
    BY <2>8 DEF ObserveSinkFails, Remember, PlanRaises, Leave, AttemptInv, Before
  <2>9. CASE Administration
    <3>1. UNCHANGED <<pc, replans, attempts>>
      BY <2>9 DEF Administration, RegisterProcedure, UpdateProcedure, UseProcedure,
                  PromoteProcedure, RetireProcedure, Administer, locals, history
    <3>. QED BY <3>1 DEF AttemptInv, Before
  <2>10. CASE UNCHANGED vars
    BY <2>10 DEF vars, locals, history, AttemptInv, Before
  <2>. QED BY NextCases, <2>1, <2>2, <2>3, <2>4, <2>5, <2>6, <2>7, <2>8, <2>9, <2>10
<1>. QED BY <1>1, <1>2, AlwaysTyped, PTL DEF Spec

\* The plan of a task is executed at most 1 + max_replans times, replans for failures
\* and for a rejection taken together.
THEOREM AttemptsBounded == Spec => []AttemptBound
<1>1. TypeInv /\ AttemptInv => AttemptBound
  BY RuntimeConfig DEF AttemptInv, AttemptBound, Before, TypeInv, TypeOK, LocalsOK
<1>. QED BY <1>1, AlwaysTyped, AttemptsCounted, PTL

-----------------------------------------------------------------------------
(* Execution *)

\* The strengthening: plans stay linear chains, whatever steps are replaced, because
\* a fresh id lies beyond all ids in use.
ChainInv ==
  /\ LinearChain(plan.steps)
  /\ \A i \in DOMAIN plan.steps : plan.steps[i].id <= Len(plan.steps) + replans
  /\ PlansExecutable

LEMMA EmptyChain == LinearChain(NoPlan.steps) /\ DOMAIN NoPlan.steps = {}
<1>1. DOMAIN <<>> = {}
  BY EmptySeq, LenProperties
<1>. QED BY <1>1 DEF NoPlan, LinearChain

\* A chain never fails before its first step.
LEMMA ExecuteChain ==
  ASSUME NEW p \in Plans, LinearChain(p.steps), Execute(p)
  PROVE  /\ plan' = p /\ pc' = "executing" /\ results' = <<>> /\ wm' = {}
         /\ order' \in TopologicalOrders(p.steps)
<1>1. TopologicalOrders(p.steps) # {}
  BY ChainExecutable DEF Plans
<1>. QED BY <1>1 DEF Execute

LEMMA FirstPlanChain ==
  ASSUME TypeInv, PlanTask
  PROVE  \E p \in Plans : /\ Execute(p) /\ LinearChain(p.steps)
                          /\ \A i \in DOMAIN p.steps : p.steps[i].id = i
<1> DEFINE made == MakePlan(task, selfModel, view[task.class], budget.execution,
                            gates.retrieval)
<1>1. task \in Tasks /\ selfModel \in SelfModels /\ decision \in Decisions
      /\ budget.execution \in Nat /\ task.class \in TaskClasses
  BY DEF TypeInv, TypeOK, LocalsOK, StoresOK, Budgets, Tasks
<1>2. view[task.class] \in Templates
  BY <1>1 DEF TypeInv, TypeOK, StoresOK
<1>3. ~Malformed(view[task.class])
  BY DEF PlanTask
<1>4. made \in Plans
  BY <1>1, <1>2, <1>3, MakePlanType
<1>5. LinearChain(made.steps) /\ \A i \in DOMAIN made.steps : made.steps[i].id = i
  BY <1>1, <1>2, <1>3, PlanLinear
<1>6. Execute(IF Has("router") THEN [made EXCEPT !.strategy = decision.strategy] ELSE made)
  BY DEF PlanTask
<1> HIDE DEF made
<1>7. decision.strategy \in Strategies
  BY <1>1 DEF Decisions
<1>8. [made EXCEPT !.strategy = decision.strategy] \in Plans
      /\ [made EXCEPT !.strategy = decision.strategy].steps = made.steps
  BY <1>4, <1>7 DEF Plans
<1>. QED BY <1>4, <1>5, <1>6, <1>8

LEMMA NextPlanChain ==
  ASSUME TypeInv, ChainInv, ReplanLastStep
  PROVE  \E p \in Plans : /\ Execute(p) /\ LinearChain(p.steps)
                          /\ \A i \in DOMAIN p.steps :
                               p.steps[i].id <= Len(p.steps) + (replans + 1)
<1> DEFINE n      == Len(plan.steps)
           fresh  == n + replans + 1
           failed == results[Len(results)].id
           p      == Replan(plan, failed, fresh)
<1>1. plan \in Plans /\ replans \in Nat
  BY DEF TypeInv, TypeOK, LocalsOK
<1>2. plan.steps \in Seq(PlanStep)
  BY <1>1 DEF Plans
<1>3. n \in Nat /\ DOMAIN plan.steps = 1 .. n
  BY <1>2, LenProperties
<1>4. fresh \in Nat
  BY <1>1, <1>3
<1>5. ASSUME NEW i \in DOMAIN plan.steps PROVE plan.steps[i].id \in Nat
  <2>1. plan.steps[i] \in PlanStep
    BY <1>2, <1>3, ElementOfSeq
  <2>. QED BY <2>1 DEF PlanStep, Steps
<1>6. \A i \in DOMAIN plan.steps : plan.steps[i].id # fresh
  BY <1>1, <1>3, <1>5 DEF ChainInv
<1>7. p \in Plans
  BY <1>1, <1>4, ReplanType
<1>8. /\ LinearChain(p.steps) /\ DOMAIN p.steps = DOMAIN plan.steps /\ Len(p.steps) = n
      /\ \A i \in DOMAIN p.steps : p.steps[i].id \in {fresh, plan.steps[i].id}
  BY <1>1, <1>4, <1>6, ReplanLinear DEF ChainInv
<1>9. Execute(p)
  BY DEF ReplanLastStep
<1> HIDE DEF p
<1>10. ASSUME NEW i \in DOMAIN p.steps PROVE p.steps[i].id <= n + (replans + 1)
  <2>1. plan.steps[i].id <= n + replans /\ plan.steps[i].id \in Nat
    BY <1>5, <1>8 DEF ChainInv
  <2>2. p.steps[i].id = n + replans + 1 \/ p.steps[i].id = plan.steps[i].id
    BY <1>8
  <2> HIDE DEF n
  <2>. QED BY <1>1, <1>3, <2>1, <2>2
<1>. QED BY <1>7, <1>8, <1>9, <1>10

LEMMA ChainsKept == Spec => []ChainInv
<1>1. Init => ChainInv
  BY EmptyChain DEF Init, ChainInv, PlansExecutable
<1>2. TypeInv /\ AttemptInv /\ ChainInv /\ [Next]_vars => ChainInv'
  <2> SUFFICES ASSUME TypeInv, AttemptInv, ChainInv, [Next]_vars PROVE ChainInv'
    OBVIOUS
  <2>1. CASE PlanTask
    <3>1. PICK p \in Plans : /\ Execute(p) /\ LinearChain(p.steps)
                             /\ \A i \in DOMAIN p.steps : p.steps[i].id = i
      BY <2>1, FirstPlanChain
    <3>2. plan' = p /\ pc' = "executing"
      BY <3>1, ExecuteChain
    <3>3. replans' = 0
      BY <2>1 DEF PlanTask, AttemptInv, Before
    <3>4. DOMAIN p.steps = 1 .. Len(p.steps) /\ Len(p.steps) \in Nat
      BY LenProperties DEF Plans
    <3>. QED BY <3>1, <3>2, <3>3, <3>4 DEF ChainInv, PlansExecutable
  <2>2. CASE ReplanAfterFailure \/ ReplanAfterRejection
    <3>1. PICK p \in Plans : /\ Execute(p) /\ LinearChain(p.steps)
                             /\ \A i \in DOMAIN p.steps :
                                  p.steps[i].id <= Len(p.steps) + (replans + 1)
      BY <2>2, NextPlanChain DEF ReplanAfterFailure, ReplanAfterRejection
    <3>2. plan' = p /\ pc' = "executing"
      BY <3>1, ExecuteChain
    <3>3. replans' = replans + 1
      BY <2>2 DEF ReplanAfterFailure, ReplanAfterRejection
    <3>. QED BY <3>1, <3>2, <3>3 DEF ChainInv, PlansExecutable
  <2>3. CASE StepSucceeds \/ StepFails \/ BudgetExhausted \/ PlanCompleted
    <3>1. UNCHANGED <<plan, replans>>
      BY <2>3 DEF StepSucceeds, StepFails, BudgetExhausted, PlanCompleted, Executing
    <3>2. PlansExecutable'
      <4>1. CASE StepFails
        <5>1. PICK reported \in ReportedTokens \cup {0} : RecordStep(FALSE, reported)
          BY <4>1 DEF StepFails
        <5>2. results' = Append(results, [id |-> CurrentStep.id, ok |-> FALSE])
          BY <5>1 DEF RecordStep
        <5>3. results \in Seq([id : Nat, ok : BOOLEAN])
              /\ [id |-> CurrentStep.id, ok |-> FALSE] \in [id : Nat, ok : BOOLEAN]
          BY <4>1, CurrentStepType DEF StepFails, TypeInv, TypeOK, LocalsOK
        <5>4. results' # <<>> /\ ~results'[Len(results')].ok
          BY <5>2, <5>3, AppendProperties
        <5>. QED BY <5>4 DEF PlansExecutable
      <4>2. CASE StepSucceeds \/ BudgetExhausted \/ PlanCompleted
        <5>1. pc' = "executing" \/ outcome' # "failure"
          BY <4>2 DEF StepSucceeds, BudgetExhausted, PlanCompleted, Executing, Stop
        <5>. QED BY <5>1 DEF PlansExecutable
      <4>. QED BY <2>3, <4>1, <4>2
    <3>. QED BY <3>1, <3>2 DEF ChainInv
  <2>4. CASE \/ \E t \in Requests : Admit(t)
             \/ FirstReview \/ AcceptRejected \/ SecondReview
             \/ SettleRouting \/ Observe
    <3>1. UNCHANGED <<plan, replans>> /\ pc' # "stopped"
      BY <2>4 DEF Admit, FirstReview, AcceptRejected, SecondReview, Reviewing, SettleRouting,
                  Observe, locals, attempt
    <3>. QED BY <3>1 DEF ChainInv, PlansExecutable
  <2>5. CASE ObserveSinkFails \/ Remember \/ PlanRaises
    <3>1. plan' = NoPlan /\ pc' = "idle"
      BY <2>5 DEF ObserveSinkFails, Remember, PlanRaises, Leave
    <3>. QED BY <3>1, EmptyChain DEF ChainInv, PlansExecutable
  <2>6. CASE Administration
    <3>1. UNCHANGED <<pc, plan, replans, results, outcome>>
      BY <2>6 DEF Administration, RegisterProcedure, UpdateProcedure, UseProcedure,
                  PromoteProcedure, RetireProcedure, Administer, locals
    <3>. QED BY <3>1 DEF ChainInv, PlansExecutable
  <2>7. CASE UNCHANGED vars
    BY <2>7 DEF vars, locals, ChainInv, PlansExecutable
  <2>. QED BY NextCases, <2>1, <2>2, <2>3, <2>4, <2>5, <2>6, <2>7
<1>. QED BY <1>1, <1>2, AlwaysTyped, AttemptsCounted, PTL DEF Spec

\* Plan.topological_order never rejects a plan of the Planner, however many steps
\* were replaced: an attempt fails only through a step that was run and failed.
THEOREM PlansAlwaysExecutable == Spec => []PlansExecutable
<1>1. ChainInv => PlansExecutable
  BY DEF ChainInv
<1>. QED BY <1>1, ChainsKept, PTL

-----------------------------------------------------------------------------
(* Working Memory *)

WmAgrees == wm = {results[i].id : i \in {j \in DOMAIN results : results[j].ok}}

\* The strengthening: while the Executor runs, the results are those of the first
\* steps of the order, all of them successes.
WalkInv ==
  /\ WmAgrees
  /\ pc = "executing" =>
       /\ order \in TopologicalOrders(plan.steps)
       /\ Len(results) <= Len(order)
       /\ \A j \in DOMAIN results : results[j].ok /\ results[j].id = plan.steps[order[j]].id

LEMMA WmGrows ==
  ASSUME TypeInv, WmAgrees, StepsLeft, NEW ok \in BOOLEAN, NEW reported, RecordStep(ok, reported),
         wm' = IF ok THEN wm \cup {CurrentStep.id} ELSE wm
  PROVE  /\ WmAgrees'
         /\ results \in Seq([id : Nat, ok : BOOLEAN])
         /\ results' \in Seq([id : Nat, ok : BOOLEAN]) /\ Len(results') = Len(results) + 1
         /\ \A j \in 1 .. Len(results) : results'[j] = results[j]
         /\ results'[Len(results) + 1] = [id |-> CurrentStep.id, ok |-> ok]
<1> DEFINE new == [id |-> CurrentStep.id, ok |-> ok]
           n   == Len(results)
<1>1. results \in Seq([id : Nat, ok : BOOLEAN]) /\ new \in [id : Nat, ok : BOOLEAN]
  BY CurrentStepType DEF TypeInv, TypeOK, LocalsOK
<1>2. results' = Append(results, new)
  BY DEF RecordStep
<1>3. /\ results' \in Seq([id : Nat, ok : BOOLEAN]) /\ Len(results') = n + 1
      /\ \A j \in 1 .. n : results'[j] = results[j]
      /\ results'[n + 1] = new
  BY <1>1, <1>2, AppendProperties
<1>4. n \in Nat /\ DOMAIN results = 1 .. n /\ DOMAIN results' = 1 .. (n + 1)
  BY <1>1, <1>3, LenProperties
<1> HIDE DEF n
<1>5. WmAgrees'
  <2>1. {j \in DOMAIN results' : results'[j].ok}
          = {j \in DOMAIN results : results[j].ok} \cup (IF ok THEN {n + 1} ELSE {})
    BY <1>3, <1>4
  <2>2. {results'[i].id : i \in {j \in DOMAIN results' : results'[j].ok}}
          = {results[i].id : i \in {j \in DOMAIN results : results[j].ok}}
            \cup (IF ok THEN {CurrentStep.id} ELSE {})
    BY <1>3, <1>4, <2>1
  <2>. QED BY <2>2 DEF WmAgrees
<1>. QED BY <1>1, <1>3, <1>5 DEF n

LEMMA WalkKept == Spec => []WalkInv
<1>0. \A r : r = <<>> => {r[i].id : i \in {j \in DOMAIN r : r[j].ok}} = {}
  <2>1. DOMAIN <<>> = {}
    BY EmptySeq, LenProperties
  <2>. QED BY <2>1
<1>1. Init => WalkInv
  BY <1>0 DEF Init, WalkInv, WmAgrees
<1>2. TypeInv /\ ChainInv /\ WalkInv /\ [Next]_vars => WalkInv'
  <2> SUFFICES ASSUME TypeInv, ChainInv, WalkInv, [Next]_vars PROVE WalkInv'
    OBVIOUS
  <2>1. CASE PlanTask \/ ReplanAfterFailure \/ ReplanAfterRejection
    <3>1. PICK p \in Plans : Execute(p) /\ LinearChain(p.steps)
      BY <2>1, FirstPlanChain, NextPlanChain DEF ReplanAfterFailure, ReplanAfterRejection
    <3>2. /\ plan' = p /\ results' = <<>> /\ wm' = {}
          /\ order' \in TopologicalOrders(p.steps)
      BY <3>1, ExecuteChain
    <3>3. WmAgrees'
      BY <1>0, <3>2 DEF WmAgrees
    <3>4. Len(order') \in Nat
      BY <3>2, OrderType, LenProperties DEF Plans
    <3>5. Len(results') = 0 /\ DOMAIN results' = {}
      BY <3>2, EmptySeq, LenProperties
    <3>. QED BY <3>2, <3>3, <3>4, <3>5 DEF WalkInv
  <2>2. CASE StepSucceeds
    <3>1. PICK reported \in ReportedTokens : RecordStep(TRUE, reported)
      BY <2>2 DEF StepSucceeds
    <3>2. StepsLeft /\ pc = "executing" /\ wm' = wm \cup {CurrentStep.id}
          /\ UNCHANGED <<plan, order>>
      BY <2>2 DEF StepSucceeds, Executing
    <3>3. /\ WmAgrees'
          /\ results \in Seq([id : Nat, ok : BOOLEAN])
          /\ results' \in Seq([id : Nat, ok : BOOLEAN]) /\ Len(results') = Len(results) + 1
          /\ \A j \in 1 .. Len(results) : results'[j] = results[j]
          /\ results'[Len(results) + 1] = [id |-> CurrentStep.id, ok |-> TRUE]
      BY <3>1, <3>2, WmGrows DEF WalkInv
    <3>4. Len(results) \in Nat /\ DOMAIN results = 1 .. Len(results)
          /\ DOMAIN results' = 1 .. (Len(results) + 1) /\ Len(order) \in Nat
      BY <3>3, LenProperties DEF TypeInv, TypeOK, LocalsOK
    <3>5. ASSUME NEW j \in DOMAIN results'
          PROVE  results'[j].ok /\ results'[j].id = plan.steps[order[j]].id
      <4>1. CASE j \in 1 .. Len(results)
        BY <3>2, <3>3, <3>4, <4>1 DEF WalkInv
      <4>2. CASE j = Len(results) + 1
        BY <3>3, <4>2 DEF CurrentStep
      <4>. QED BY <3>4, <4>1, <4>2
    <3>6. Len(results') <= Len(order)
      BY <3>2, <3>3, <3>4 DEF StepsLeft
    <3>. QED BY <3>2, <3>3, <3>5, <3>6 DEF WalkInv
  <2>3. CASE StepFails
    <3>1. PICK reported \in ReportedTokens \cup {0} : RecordStep(FALSE, reported)
      BY <2>3 DEF StepFails
    <3>2. StepsLeft /\ wm' = wm /\ pc' = "stopped"
      BY <2>3 DEF StepFails, Stop
    <3>. QED BY <3>1, <3>2, WmGrows DEF WalkInv
  <2>4. CASE \/ BudgetExhausted \/ PlanCompleted
             \/ \E t \in Requests : Admit(t)
             \/ FirstReview \/ AcceptRejected \/ SecondReview
             \/ SettleRouting \/ Observe
    <3>1. UNCHANGED <<wm, results>> /\ pc' # "executing"
      BY <2>4 DEF BudgetExhausted, PlanCompleted, Executing, Stop, Admit, FirstReview,
                  AcceptRejected, SecondReview, Reviewing, SettleRouting, Observe, locals, attempt
    <3>. QED BY <3>1 DEF WalkInv, WmAgrees
  <2>5. CASE ObserveSinkFails \/ Remember \/ PlanRaises
    <3>1. wm' = {} /\ results' = <<>> /\ pc' = "idle"
      BY <2>5 DEF ObserveSinkFails, Remember, PlanRaises, Leave
    <3>. QED BY <1>0, <3>1 DEF WalkInv, WmAgrees
  <2>6. CASE Administration
    <3>1. UNCHANGED <<pc, plan, order, results, wm>>
      BY <2>6 DEF Administration, RegisterProcedure, UpdateProcedure, UseProcedure,
                  PromoteProcedure, RetireProcedure, Administer, locals
    <3>. QED BY <3>1 DEF WalkInv, WmAgrees
  <2>7. CASE UNCHANGED vars
    BY <2>7 DEF vars, locals, WalkInv, WmAgrees
  <2>. QED BY NextCases, <2>1, <2>2, <2>3, <2>4, <2>5, <2>6, <2>7
<1>. QED BY <1>1, <1>2, AlwaysTyped, ChainsKept, PTL DEF Spec

\* When a step starts, Working Memory holds the outputs of all steps it depends on,
\* and nothing but outputs of this very attempt.
THEOREM InputsAlwaysReady == Spec => []InputsReady
<1>1. TypeInv /\ WalkInv => InputsReady
  <2> SUFFICES ASSUME TypeInv, WalkInv, pc = "executing", StepsLeft,
                      NEW d \in DOMAIN CurrentStep.deps
               PROVE  CurrentStep.deps[d] \in wm
    BY DEF InputsReady, WalkInv, WmAgrees
  <2> DEFINE n == Len(results)
  <2>1. n \in Nat /\ DOMAIN results = 1 .. n /\ Len(order) \in Nat
        /\ DOMAIN order = 1 .. Len(order)
    BY LenProperties DEF TypeInv, TypeOK, LocalsOK
  <2>2. Respects(plan.steps, order)
    BY OrderType DEF WalkInv, TypeInv, TypeOK, LocalsOK, Plans
  <2>3. n + 1 \in DOMAIN order /\ n + 1 - 1 = n
    BY <2>1 DEF StepsLeft
  <2>4. PICK j \in 1 .. n : plan.steps[order[j]].id = CurrentStep.deps[d]
    BY <2>2, <2>3 DEF Respects, CurrentStep
  <2>5. results[j].ok /\ results[j].id = CurrentStep.deps[d] /\ j \in DOMAIN results
    BY <2>1, <2>4 DEF WalkInv
  <2>. QED BY <2>5 DEF WalkInv, WmAgrees
<1>. QED BY <1>1, AlwaysTyped, WalkKept, PTL

-----------------------------------------------------------------------------
(* What is returned to the caller *)

Urgent == task.stakes \in {"high", "critical"}

\* The strengthening: an urgent task is admitted with its verification gate open,
\* and every review leaves a score for the attempt it looked at.
ScoredInv ==
  /\ pc # "idle" /\ Urgent => gates.verification
  /\ pc = "rejected" => verdict = "rejected" /\ scored = attempts
  /\ HighStakesScored

LEMMA UrgentVerified ==
  ASSUME TypeInv, NEW t \in Requests, Admit(t), t.stakes \in {"high", "critical"}
  PROVE  gates'.verification
<1>1. t \in Tasks /\ selfModel \in SelfModels
  BY RuntimeConfig DEF TypeInv, TypeOK, StoresOK
<1>2. GatesFor(t, selfModel, DefaultNovelty).verification
  BY <1>1 DEF GatesFor, Tasks, Stakes
<1>3. decision'.depth # "skip"
  BY <1>1 DEF Admit, Route, VerificationDepth, NoDecision
<1>. QED BY <1>2, <1>3 DEF Admit, ApplyDepth

LEMMA UrgentScored ==
  ASSUME TypeInv, gates.verification, Verify
  PROVE  verdict' \in {"passed", "rejected"} /\ scored' = attempts
<1>1. Verified
  BY DEF Verified
<1>. QED BY <1>1 DEF Verify

LEMMA ReviewsScored == Spec => []ScoredInv
<1>1. Init => ScoredInv
  BY DEF Init, ScoredInv, HighStakesScored, Settled
<1>2. TypeInv /\ ScoredInv /\ [Next]_vars => ScoredInv'
  <2> SUFFICES ASSUME TypeInv, ScoredInv, [Next]_vars PROVE ScoredInv'
    OBVIOUS
  <2>1. ASSUME NEW t \in Requests, Admit(t) PROVE ScoredInv'
    <3>1. pc' = "planning" /\ task' = t
      BY <2>1 DEF Admit
    <3>. QED BY <2>1, <3>1, UrgentVerified DEF ScoredInv, HighStakesScored, Settled, Urgent
  <2>2. CASE \/ PlanTask \/ ReplanAfterFailure \/ ReplanAfterRejection
             \/ StepSucceeds \/ StepFails \/ BudgetExhausted \/ PlanCompleted
    <3>1. pc # "idle" /\ pc' \in {"executing", "stopped"} /\ UNCHANGED <<task, gates>>
      BY <2>2 DEF PlanTask, ReplanAfterFailure, ReplanAfterRejection, ReplanLastStep, Execute,
                  StepSucceeds, StepFails, BudgetExhausted, PlanCompleted, Executing, Stop,
                  admission
    <3>. QED BY <3>1 DEF ScoredInv, HighStakesScored, Settled, Urgent
  <2>3. CASE FirstReview \/ SecondReview
    <3>1. pc = "stopped" /\ UNCHANGED <<task, gates, attempts>>
          /\ pc' \in {"rejected", "settling"}
      BY <2>3 DEF FirstReview, SecondReview, Reviewing, admission
    <3>2. pc' = "rejected" => verdict' = "rejected" /\ Verify
      BY <2>3 DEF FirstReview, SecondReview
    <3>3. Has("verifier") => Verify
      BY <2>3 DEF FirstReview, SecondReview
    <3>4. Verify /\ verdict' = "rejected" => scored' = attempts
      BY DEF Verify
    <3>5. Verify /\ Urgent => verdict' \in {"passed", "rejected"} /\ scored' = attempts
      BY <3>1, UrgentScored DEF ScoredInv
    <3>. QED BY <3>1, <3>2, <3>3, <3>4, <3>5 DEF ScoredInv, HighStakesScored, Settled, Urgent
  <2>4. CASE AcceptRejected \/ SettleRouting \/ Observe
    <3>1. UNCHANGED <<task, gates, verdict, scored, attempts>> /\ pc # "idle"
          /\ pc' \in {"settling", "observing", "remembering"}
          /\ (pc = "rejected" \/ Settled)
      BY <2>4 DEF AcceptRejected, SettleRouting, Observe, Settled, locals, history
    <3>. QED BY <3>1 DEF ScoredInv, HighStakesScored, Settled, Urgent
  <2>5. CASE ObserveSinkFails \/ Remember \/ PlanRaises
    <3>1. pc' = "idle"
      BY <2>5 DEF ObserveSinkFails, Remember, PlanRaises, Leave
    <3>. QED BY <3>1 DEF ScoredInv, HighStakesScored, Settled
  <2>6. CASE Administration
    <3>1. UNCHANGED <<pc, task, gates, verdict, scored, attempts>>
      BY <2>6 DEF Administration, RegisterProcedure, UpdateProcedure, UseProcedure,
                  PromoteProcedure, RetireProcedure, Administer, locals, history
    <3>. QED BY <3>1 DEF ScoredInv, HighStakesScored, Settled, Urgent
  <2>7. CASE UNCHANGED vars
    BY <2>7 DEF vars, locals, history, ScoredInv, HighStakesScored, Settled, Urgent
  <2>. QED BY NextCases, <2>1, <2>2, <2>3, <2>4, <2>5, <2>6, <2>7
<1>. QED BY <1>1, <1>2, AlwaysTyped, PTL DEF Spec

\* What an urgent task returns was scored by the Verifier, in its final form.
THEOREM UrgentAlwaysScored == Spec => []HighStakesScored
<1>1. ScoredInv => HighStakesScored
  BY DEF ScoredInv
<1>. QED BY <1>1, ReviewsScored, PTL

\* A failure is returned, or a rejected result kept, only once nothing is left to try.
THEOREM NeverGivesUpEarly == Spec => []NoEarlyGiveUp
<1>1. Init => NoEarlyGiveUp
  BY DEF Init, NoEarlyGiveUp, Settled
<1>2. TypeInv /\ AttemptInv /\ NoEarlyGiveUp /\ [Next]_vars => NoEarlyGiveUp'
  <2> SUFFICES ASSUME TypeInv, AttemptInv, NoEarlyGiveUp, [Next]_vars PROVE NoEarlyGiveUp'
    OBVIOUS
  <2>0. replans \in Nat /\ MaxReplans \in Nat
    BY RuntimeConfig DEF TypeInv, TypeOK, LocalsOK
  <2>1. CASE \/ \E t \in Requests : Admit(t)
             \/ PlanTask \/ ReplanAfterFailure \/ ReplanAfterRejection
             \/ StepSucceeds \/ StepFails \/ BudgetExhausted \/ PlanCompleted
             \/ ObserveSinkFails \/ Remember \/ PlanRaises
    <3>1. pc' \in {"idle", "planning", "executing", "stopped"}
      BY <2>1 DEF Admit, PlanTask, ReplanAfterFailure, ReplanAfterRejection, ReplanLastStep,
                  Execute, StepSucceeds, StepFails, BudgetExhausted, PlanCompleted, Executing,
                  Stop, ObserveSinkFails, Remember, PlanRaises, Leave
    <3>. QED BY <3>1 DEF NoEarlyGiveUp, Settled
  <2>2. CASE FirstReview
    <3>1. pc = "stopped" /\ UNCHANGED <<outcome, results, replans, retried>>
          /\ ~(outcome = "failure" /\ MayReplan)
      BY <2>2 DEF FirstReview, Reviewing, attempt
    <3>2. pc' = "settling" => verdict' # "rejected"
      BY <2>2 DEF FirstReview
    <3>3. replans <= MaxReplans
      BY <3>1 DEF AttemptInv, Before
    <3>4. pc' \in {"rejected", "settling"}
      BY <2>2 DEF FirstReview
    <3>. QED BY <2>0, <3>1, <3>2, <3>3, <3>4 DEF NoEarlyGiveUp, Settled, MayReplan
  <2>3. CASE SecondReview
    BY <2>3 DEF SecondReview, Reviewing, NoEarlyGiveUp
  <2>4. CASE AcceptRejected
    <3>1. pc = "rejected" /\ UNCHANGED <<results, replans, retried>> /\ ~MayReplan
      BY <2>4 DEF AcceptRejected, locals
    <3>2. replans <= MaxReplans
      BY <3>1 DEF AttemptInv, Before
    <3>. QED BY <2>0, <3>1, <3>2 DEF NoEarlyGiveUp, MayReplan
  <2>5. CASE SettleRouting \/ Observe
    <3>1. UNCHANGED <<outcome, verdict, results, replans, retried>> /\ Settled
      BY <2>5 DEF SettleRouting, Observe, Settled, locals
    <3>. QED BY <3>1 DEF NoEarlyGiveUp
  <2>6. CASE Administration
    <3>1. UNCHANGED <<pc, outcome, verdict, results, replans, retried>>
      BY <2>6 DEF Administration, RegisterProcedure, UpdateProcedure, UseProcedure,
                  PromoteProcedure, RetireProcedure, Administer, locals
    <3>. QED BY <3>1 DEF NoEarlyGiveUp, Settled
  <2>7. CASE UNCHANGED vars
    BY <2>7 DEF vars, locals, NoEarlyGiveUp, Settled
  <2>. QED BY NextCases, <2>1, <2>2, <2>3, <2>4, <2>5, <2>6, <2>7
<1>. QED BY <1>1, <1>2, AlwaysTyped, AttemptsCounted, PTL DEF Spec

-----------------------------------------------------------------------------
(* Cost *)

SameCaps(steps) == \A i, j \in DOMAIN steps : steps[i].cap = steps[j].cap

\* What an attempt may charge, by the plan it executes.
Allowance(i) == budget.execution + plan.steps[i].cap

\* The strengthening: all steps of a plan share one cap, replanned or not, and all the
\* attempts before this one have charged no more than their allowance.
CostInv ==
  /\ SameCaps(plan.steps)
  /\ Before => spent = 0 /\ tokens = 0
  /\ ~Before => \A i \in DOMAIN plan.steps :
       /\ tokens = 0 \/ tokens < Allowance(i)
       /\ spent <= (attempts - 1) * Allowance(i) + tokens

LEMMA FirstPlanCaps ==
  ASSUME NEW t, NEW selfModel_, NEW template, NEW n, NEW retrieval
  PROVE  SameCaps(MakePlan(t, selfModel_, template, n, retrieval).steps)
<1>1. ASSUME NEW actions, NEW cap PROVE SameCaps(Chain(actions, cap))
  BY DEF Chain, SameCaps
<1>. QED BY <1>1 DEF MakePlan, DefaultDecomposition, InstantiateTemplate

LEMMA ReplanCaps ==
  ASSUME NEW p \in Plans, NEW failed, NEW fresh
  PROVE  /\ DOMAIN Replan(p, failed, fresh).steps = DOMAIN p.steps
         /\ \A i \in DOMAIN p.steps : Replan(p, failed, fresh).steps[i].cap = p.steps[i].cap
<1>1. p.steps \in Seq(PlanStep) /\ DOMAIN p.steps = 1 .. Len(p.steps)
  BY LenProperties DEF Plans
<1>2. Replan(p, failed, fresh).steps
        = [i \in DOMAIN p.steps |-> ReplaceStep(p.steps[i], failed, fresh)]
  BY DEF Replan, Plans
<1>3. ASSUME NEW i \in DOMAIN p.steps
      PROVE  ReplaceStep(p.steps[i], failed, fresh).cap = p.steps[i].cap
  <2>1. p.steps[i] \in PlanStep
    BY <1>1, ElementOfSeq
  <2>. QED BY <2>1 DEF ReplaceStep, PlanStep, Steps
<1>. QED BY <1>2, <1>3

LEMMA AllowanceType ==
  ASSUME TypeInv, NEW i \in DOMAIN plan.steps
  PROVE  budget.execution \in Nat /\ plan.steps[i].cap \in Nat /\ Allowance(i) \in Nat
<1>1. budget.execution \in Nat
  BY DEF TypeInv, TypeOK, LocalsOK, Budgets
<1>2. plan.steps \in Seq(PlanStep) /\ DOMAIN plan.steps = 1 .. Len(plan.steps)
  BY LenProperties DEF TypeInv, TypeOK, LocalsOK, Plans
<1>3. plan.steps[i] \in PlanStep
  BY <1>2, ElementOfSeq
<1>4. plan.steps[i].cap \in Nat
  BY <1>3 DEF PlanStep, Steps
<1>. QED BY <1>1, <1>4 DEF Allowance

LEMMA OneMoreAttempt ==
  ASSUME NEW a \in Nat, NEW k \in Nat, NEW t \in Nat, NEW s \in Nat,
         t = 0 \/ t < k, s <= (a - 1) * k + t
  PROVE  s <= a * k
<1>1. (a - 1) * k + k = a * k
  OBVIOUS
<1>2. (a - 1) * k \in Int
  OBVIOUS
<1>. QED BY <1>1, <1>2

\* A replacement plan starts with a clean slate and the same caps.
LEMMA ReplanCost ==
  ASSUME TypeInv, AttemptInv, CostInv, ~Before, ReplanLastStep,
         attempts <= MaxReplans + 1, UNCHANGED <<budget, spent>>
  PROVE  CostInv'
<1> DEFINE new == Replan(plan, results[Len(results)].id, Len(plan.steps) + replans + 1)
<1>1. plan' = new /\ tokens' = 0 /\ pc' \in {"stopped", "executing"}
      /\ attempts' = attempts + 1
  BY LastAttemptCounted DEF ReplanLastStep, Execute
<1>2. plan \in Plans /\ tokens \in Nat /\ attempts \in Nat /\ spent \in Nat
  BY DEF TypeInv, TypeOK, LocalsOK, HistoryOK
<1>3. DOMAIN new.steps = DOMAIN plan.steps
      /\ \A i \in DOMAIN plan.steps : new.steps[i].cap = plan.steps[i].cap
  BY <1>2, ReplanCaps
<1> HIDE DEF new
<1>4. SameCaps(plan'.steps)
  BY <1>1, <1>3 DEF CostInv, SameCaps
<1>5. ASSUME NEW i \in DOMAIN plan'.steps
      PROVE  spent' <= (attempts' - 1) * Allowance(i)' + tokens'
  <2>1. i \in DOMAIN plan.steps /\ Allowance(i)' = Allowance(i)
    BY <1>1, <1>3, <1>5 DEF Allowance
  <2>2. Allowance(i) \in Nat
    BY <2>1, AllowanceType
  <2>3. spent <= attempts * Allowance(i)
    BY <1>2, <2>1, <2>2, OneMoreAttempt DEF CostInv
  <2>4. attempts' - 1 = attempts /\ spent' = spent /\ tokens' = 0
        /\ attempts * Allowance(i) \in Nat
    BY <1>1, <1>2, <2>2
  <2>. QED BY <2>1, <2>3, <2>4
<1>. QED BY <1>1, <1>4, <1>5 DEF CostInv, Before

\* Charging a step: the check before it and the cap on it bound the attempt.
LEMMA ChargedCost ==
  ASSUME TypeInv, CostInv, pc = "executing", pc' \in {"executing", "stopped"},
         StepsLeft, Affordable, NEW ok \in BOOLEAN, NEW reported \in Int,
         RecordStep(ok, reported), UNCHANGED <<plan, budget, attempts>>
  PROVE  CostInv'
<1> DEFINE c == Charge(reported, CurrentStep.cap)
<1>1. tokens' = tokens + c /\ spent' = spent + c
  BY DEF RecordStep
<1>2. c \in Nat /\ c <= CurrentStep.cap /\ CurrentStep.cap \in Nat
  BY CurrentStepType, ChargeType
<1> HIDE DEF c
<1>3. tokens \in Nat /\ spent \in Nat /\ attempts \in Nat /\ tokens < budget.execution
  BY DEF TypeInv, TypeOK, LocalsOK, HistoryOK, Affordable
<1>4. PICK k \in DOMAIN plan.steps : CurrentStep = plan.steps[k]
  <2>1. Len(results) \in Nat /\ Len(order) \in Nat /\ DOMAIN order = 1 .. Len(order)
    BY LenProperties DEF TypeInv, TypeOK, LocalsOK, HistoryOK
  <2>2. order[Len(results) + 1] \in DOMAIN plan.steps
    BY <2>1 DEF TypeInv, StepsLeft
  <2>. QED BY <2>2 DEF CurrentStep
<1>5. ASSUME NEW i \in DOMAIN plan'.steps
      PROVE  tokens' < Allowance(i)' /\ spent' <= (attempts' - 1) * Allowance(i)' + tokens'
  <2>1. i \in DOMAIN plan.steps /\ Allowance(i)' = Allowance(i)
    BY <1>5 DEF Allowance
  <2>2. budget.execution \in Nat /\ plan.steps[i].cap \in Nat /\ Allowance(i) \in Nat
    BY <2>1, AllowanceType
  <2>3. CurrentStep.cap = plan.steps[i].cap
    BY <1>4, <2>1 DEF CostInv, SameCaps
  <2>4. spent <= (attempts - 1) * Allowance(i) + tokens
    BY <2>1 DEF CostInv, Before
  <2>5. (attempts - 1) * Allowance(i) \in Int
    BY <1>3, <2>2
  <2>6. tokens' < Allowance(i)
    BY <1>1, <1>2, <1>3, <2>2, <2>3 DEF Allowance
  <2>7. spent + c <= (attempts - 1) * Allowance(i) + (tokens + c)
    BY <1>2, <1>3, <2>4, <2>5
  <2>. QED BY <1>1, <2>1, <2>6, <2>7
<1>. QED BY <1>5 DEF CostInv, Before, SameCaps

LEMMA StaysTyped ==
  ASSUME TypeInv, [Next]_vars PROVE TypeInv'
BY NextCases, AdmitTyped, ExecutionTyped, StepTyped, ReviewTyped, SettlingTyped,
   AdministrationTyped, StutterTyped

LEMMA CostsKept == Spec => []CostInv
<1>1. Init => CostInv
  <2>1. DOMAIN NoPlan.steps = {}
    BY EmptyChain
  <2>. QED BY <2>1 DEF Init, CostInv, Before, SameCaps
<1>2. TypeInv /\ AttemptInv /\ CostInv /\ [Next]_vars => CostInv'
  <2> SUFFICES ASSUME TypeInv, AttemptInv, CostInv, [Next]_vars PROVE CostInv'
    OBVIOUS
  <2>0. replans \in Nat /\ attempts \in Nat /\ MaxReplans \in Nat /\ ReportedTokens \subseteq Int
    BY RuntimeConfig DEF TypeInv, TypeOK, LocalsOK, HistoryOK
  <2>1. ASSUME NEW t \in Requests, Admit(t) PROVE CostInv'
    BY <2>1 DEF Admit, attempt, CostInv, Before
  <2>2. CASE PlanTask
    <3>1. attempts' = 1 /\ pc' \in {"stopped", "executing"} /\ tokens' = 0 /\ spent' = 0
      <4>1. pc = "planning" /\ spent' = spent /\ \E p : Execute(p)
        BY <2>2 DEF PlanTask
      <4>2. attempts = 0 /\ spent = 0
        BY <4>1 DEF AttemptInv, CostInv, Before
      <4>3. attempts' = attempts + 1 /\ pc' \in {"stopped", "executing"}
        BY <2>0, <4>1, <4>2, LastAttemptCounted
      <4>4. tokens' = 0
        BY <4>1 DEF Execute
      <4>. QED BY <4>1, <4>2, <4>3, <4>4
    <3> DEFINE made == MakePlan(task, selfModel, view[task.class], budget.execution,
                                gates.retrieval)
    <3>2. plan' = IF Has("router") THEN [made EXCEPT !.strategy = decision.strategy] ELSE made
      BY <2>2 DEF PlanTask, Execute
    <3>3. plan'.steps = made.steps
      BY <3>2 DEF MakePlan
    <3>4. SameCaps(plan'.steps)
      BY <3>3, FirstPlanCaps
    <3>5. ASSUME NEW i \in DOMAIN plan'.steps
          PROVE  spent' <= (attempts' - 1) * Allowance(i)' + tokens'
      <4>1. budget'.execution \in Nat /\ plan' \in Plans
        BY StaysTyped DEF TypeInv, TypeOK, LocalsOK, Budgets
      <4>2. plan'.steps \in Seq(PlanStep) /\ DOMAIN plan'.steps = 1 .. Len(plan'.steps)
        BY <4>1, LenProperties DEF Plans
      <4>3. plan'.steps[i] \in PlanStep
        BY <3>5, <4>2, ElementOfSeq
      <4>4. budget'.execution + plan'.steps[i].cap \in Nat
        BY <4>1, <4>3 DEF PlanStep, Steps
      <4>5. Allowance(i)' \in Nat
        BY <4>4 DEF Allowance
      <4>. QED BY <3>1, <4>5
    <3>. QED BY <3>1, <3>4, <3>5 DEF CostInv, Before
  <2>3. CASE ReplanAfterFailure \/ ReplanAfterRejection
    <3>1. ReplanLastStep /\ ~Before /\ UNCHANGED <<budget, spent>>
      BY <2>3 DEF ReplanAfterFailure, ReplanAfterRejection, Before, admission
    <3>2. attempts <= MaxReplans + 1
      BY <2>0, <3>1 DEF AttemptInv
    <3>. QED BY <3>1, <3>2, ReplanCost
  <2>4. CASE StepSucceeds \/ StepFails
    <3>1. pc = "executing" /\ pc' \in {"executing", "stopped"} /\ StepsLeft /\ Affordable
          /\ UNCHANGED <<plan, budget, attempts>>
      BY <2>4 DEF StepSucceeds, StepFails, Executing, Stop, admission
    <3>2. CASE StepSucceeds
      <4>1. PICK reported \in ReportedTokens : RecordStep(TRUE, reported)
        BY <3>2 DEF StepSucceeds
      <4>2. reported \in Int /\ TRUE \in BOOLEAN
        BY <2>0
      <4>. QED BY <3>1, <4>1, <4>2, ChargedCost
    <3>3. CASE StepFails
      <4>1. PICK reported \in ReportedTokens \cup {0} : RecordStep(FALSE, reported)
        BY <3>3 DEF StepFails
      <4>2. reported \in Int /\ FALSE \in BOOLEAN
        BY <2>0
      <4>. QED BY <3>1, <4>1, <4>2, ChargedCost
    <3>. QED BY <2>4, <3>2, <3>3
  <2>5. CASE \/ BudgetExhausted \/ PlanCompleted
             \/ FirstReview \/ AcceptRejected \/ SecondReview
             \/ SettleRouting \/ Observe
    <3>1. UNCHANGED <<plan, budget, tokens, spent, attempts>> /\ ~Before /\ ~Before'
      BY <2>5 DEF BudgetExhausted, PlanCompleted, Executing, Stop, FirstReview, AcceptRejected,
                  SecondReview, Reviewing, SettleRouting, Observe, Before,
                  admission, attempt, locals, history
    <3>. QED BY <3>1 DEF CostInv, Allowance
  <2>6. CASE ObserveSinkFails \/ Remember \/ PlanRaises
    <3>1. plan' = NoPlan /\ tokens' = 0 /\ spent' = 0 /\ pc' = "idle"
      BY <2>6 DEF ObserveSinkFails, Remember, PlanRaises, Leave
    <3>. QED BY <3>1, EmptyChain DEF CostInv, Before, SameCaps
  <2>7. CASE Administration
    <3>1. UNCHANGED <<pc, plan, budget, tokens, spent, attempts>>
      BY <2>7 DEF Administration, RegisterProcedure, UpdateProcedure, UseProcedure,
                  PromoteProcedure, RetireProcedure, Administer, locals, history
    <3>. QED BY <3>1 DEF CostInv, Allowance, Before
  <2>8. CASE UNCHANGED vars
    BY <2>8 DEF vars, locals, history, CostInv, Allowance, Before
  <2>. QED BY NextCases, <2>1, <2>2, <2>3, <2>4, <2>5, <2>6, <2>7, <2>8
<1>. QED BY <1>1, <1>2, AlwaysTyped, AttemptsCounted, PTL DEF Spec

\* An attempt overshoots its sub-budget by less than one step, and a run by that much
\* per attempt, whatever the backends report.
THEOREM CostsBounded == Spec => []CostBounded
<1>1. TypeInv /\ AttemptInv /\ CostInv => CostBounded
  <2> SUFFICES ASSUME TypeInv, AttemptInv, CostInv, NEW i \in DOMAIN plan.steps
               PROVE  (tokens = 0 \/ tokens < Allowance(i)) /\ spent <= attempts * Allowance(i)
    BY DEF CostBounded, Allowance
  <2>1. tokens \in Nat /\ attempts \in Nat /\ spent \in Nat /\ Allowance(i) \in Nat
    BY AllowanceType DEF TypeInv, TypeOK, LocalsOK, HistoryOK
  <2>2. CASE Before
    <3>1. spent = 0 /\ tokens = 0 /\ attempts = 0
      BY <2>2 DEF CostInv, AttemptInv
    <3>. QED BY <2>1, <3>1
  <2>3. CASE ~Before
    BY <2>1, <2>3, OneMoreAttempt DEF CostInv
  <2>. QED BY <2>2, <2>3
<1>. QED BY <1>1, AlwaysTyped, AttemptsCounted, CostsKept, PTL

-----------------------------------------------------------------------------
(* The age of the Self-Model *)

Undisturbed == Has("observer") /\ ~Has("sink") /\ AutoRefresh

\* The strengthening: the last multiple of RefreshEvery is covered by the model.
FreshInv ==
  Undisturbed => observer.total - selfModel.builtAt <= observer.total % RefreshEvery

LEMMA UniqueRemainder ==
  ASSUME NEW k \in Nat \ {0}, NEW p \in Nat, NEW q \in Nat,
         NEW r \in 0 .. (k - 1), NEW s \in 0 .. (k - 1), k * p + r = k * q + s
  PROVE  r = s
<1>1. ASSUME NEW x \in Nat, NEW y \in Nat, x < y PROVE k * x + k <= k * y
  <2>1. k * y = k * x + k * (y - x)
    OBVIOUS
  <2>2. y - x \in Nat /\ y - x >= 1
    BY <1>1
  <2>3. ASSUME NEW d \in Nat, d >= 1 PROVE k * d >= k
    BY <2>3
  <2>4. k * (y - x) >= k
    BY <2>2, <2>3
  <2>5. k * x \in Nat /\ k * (y - x) \in Nat
    BY <2>2
  <2>. QED BY <2>1, <2>4, <2>5
<1>2. k * p \in Nat /\ k * q \in Nat
  OBVIOUS
<1>3. ~(p < q)
  BY <1>1, <1>2
<1>4. ~(q < p)
  BY <1>1, <1>2
<1>. QED BY <1>2, <1>3, <1>4

LEMMA NextRemainder ==
  ASSUME NEW n \in Nat, NEW k \in Nat \ {0}, (n + 1) % k # 0
  PROVE  (n + 1) % k = (n % k) + 1
<1> DEFINE q == n \div k        r == n % k
           p == (n + 1) \div k  s == (n + 1) % k
<1>1. q \in Nat /\ r \in 0 .. (k - 1) /\ n = k * q + r
  OBVIOUS
<1>2. p \in Nat /\ s \in 0 .. (k - 1) /\ n + 1 = k * p + s
  OBVIOUS
<1> HIDE DEF p, q, r, s
<1>3. CASE r + 1 = k
  <2>1. k * (q + 1) = k * q + k /\ k * q \in Nat
    BY <1>1
  <2>2. k * p + s = k * (q + 1) + 0
    BY <1>1, <1>2, <1>3, <2>1
  <2>3. q + 1 \in Nat /\ 0 \in 0 .. (k - 1)
    BY <1>1
  <2>4. s = 0
    BY <1>2, <2>2, <2>3, UniqueRemainder
  <2>. QED BY <2>4 DEF s
<1>4. CASE r + 1 # k
  <2>1. k * p + s = k * q + (r + 1) /\ r + 1 \in 0 .. (k - 1)
    BY <1>1, <1>2, <1>4
  <2>2. s = r + 1
    BY <1>1, <1>2, <2>1, UniqueRemainder
  <2>. QED BY <2>2 DEF r, s
<1>. QED BY <1>3, <1>4

\* The Self-Model is never RefreshEvery tasks old, if no sink can fail.
THEOREM SelfModelNeverStale == Spec => []SelfModelFresh
<1>1. Init => FreshInv
  <2>1. 0 % RefreshEvery = 0
    BY ObserverConfig
  <2>. QED BY <2>1 DEF Init, FreshInv, NewObserver, DefaultSelfModel
<1>2. TypeInv /\ FreshInv /\ [Next]_vars => FreshInv'
  <2> SUFFICES ASSUME TypeInv, FreshInv, [Next]_vars, Undisturbed
               PROVE  observer'.total - selfModel'.builtAt <= observer'.total % RefreshEvery
    BY DEF FreshInv, Undisturbed, Has
  <2>1. observer.total \in Nat /\ selfModel.builtAt \in Nat /\ RefreshEvery \in Nat \ {0}
    BY ObserverConfig DEF TypeInv, TypeOK, StoresOK, Observers, SelfModels
  <2>2. CASE Observe
    <3>1. observer'.total = observer.total + 1
      BY <2>2 DEF Observe, Undisturbed, Ingest
    <3>2. PICK refresh \in ShouldRefresh(observer') :
            selfModel' = IF AutoRefresh /\ refresh THEN Snapshot(observer') ELSE selfModel
      BY <2>2 DEF Observe, Undisturbed
    <3>3. CASE selfModel' = Snapshot(observer')
      <4>1. selfModel'.builtAt = observer'.total
        BY <3>3 DEF Snapshot
      <4>2. observer'.total % RefreshEvery \in Nat
        BY <2>1, <3>1
      <4>. QED BY <2>1, <3>1, <4>1, <4>2
    <3>4. CASE selfModel' = selfModel /\ observer'.total % RefreshEvery # 0
      <4>1. observer'.total % RefreshEvery = (observer.total % RefreshEvery) + 1
        BY <2>1, <3>1, <3>4, NextRemainder
      <4>2. observer.total % RefreshEvery \in Nat
        BY <2>1
      <4>3. observer.total - selfModel.builtAt <= observer.total % RefreshEvery
        BY DEF FreshInv
      <4>. QED BY <2>1, <3>1, <3>4, <4>1, <4>2, <4>3
    <3>5. observer'.total % RefreshEvery = 0 => refresh
      BY <3>2 DEF ShouldRefresh
    <3>. QED BY <3>2, <3>3, <3>4, <3>5 DEF Undisturbed
  <2>3. CASE ~Observe
    <3>1. UNCHANGED <<observer, selfModel>>
      BY <2>3, NextCases
         DEF Admit, PlanTask, ReplanAfterFailure, ReplanAfterRejection, StepSucceeds, StepFails,
             BudgetExhausted, PlanCompleted, Executing, FirstReview, AcceptRejected, SecondReview,
             Reviewing, SettleRouting, ObserveSinkFails, Remember, PlanRaises, Administration,
             RegisterProcedure, UpdateProcedure, UseProcedure, PromoteProcedure,
             RetireProcedure, Administer, Undisturbed, vars, stores
    <3>. QED BY <3>1 DEF FreshInv
  <2>. QED BY <2>2, <2>3
<1>3. TypeInv /\ FreshInv => SelfModelFresh
  <2> SUFFICES ASSUME TypeInv, FreshInv, Undisturbed
               PROVE  observer.total - selfModel.builtAt < RefreshEvery
    BY DEF SelfModelFresh, Undisturbed
  <2>1. observer.total \in Nat /\ selfModel.builtAt \in Nat /\ RefreshEvery \in Nat \ {0}
    BY ObserverConfig DEF TypeInv, TypeOK, StoresOK, Observers, SelfModels
  <2>2. observer.total % RefreshEvery < RefreshEvery /\ observer.total % RefreshEvery \in Nat
    BY <2>1
  <2>. QED BY <2>1, <2>2 DEF FreshInv
<1>. QED BY <1>1, <1>2, <1>3, AlwaysTyped, PTL DEF Spec

-----------------------------------------------------------------------------
(* The task at hand and its entry in the history *)

Unsettled == pc \in {"planning", "executing", "stopped", "rejected", "settling"}

\* The last run is the task at hand; it has an outcome once the Router was told.
CurrentInv ==
  /\ pc # "idle" => ThisRun >= 1 /\ runs[ThisRun].class = task.class
  /\ Unsettled => runs[ThisRun].outcome = "none"
  /\ pc \in {"observing", "remembering"} => runs[ThisRun].outcome = outcome

Entries == [class : TaskClasses, outcome : Outcomes \cup {"none"}]

LEMMA RunsType ==
  ASSUME TypeInv
  PROVE  runs \in Seq(Entries) /\ ThisRun \in Nat /\ DOMAIN runs = 1 .. ThisRun
BY LenProperties DEF TypeInv, TypeOK, HistoryOK, Entries, ThisRun

\* The history before a task and the entry it adds.
LEMMA Admitted ==
  ASSUME TypeInv, NEW t \in Requests, Admit(t)
  PROVE  /\ runs' \in Seq(Entries) /\ ThisRun' = ThisRun + 1
         /\ \A i \in 1 .. ThisRun : runs'[i] = runs[i]
         /\ runs'[ThisRun'] = [class |-> t.class, outcome |-> "none"]
<1>1. t.class \in TaskClasses
  BY RuntimeConfig DEF Tasks
<1>2. [class |-> t.class, outcome |-> "none"] \in Entries
  BY <1>1 DEF Entries
<1>3. runs \in Seq(Entries)
  BY RunsType
<1>. QED BY <1>2, <1>3, AppendProperties DEF Admit, ThisRun

\* The only entry that ever changes is that of the task at hand.
LEMMA SettledEntry ==
  ASSUME TypeInv, CurrentInv, SettleRouting
  PROVE  /\ ThisRun' = ThisRun /\ ThisRun \in Nat /\ ThisRun >= 1
         /\ \A i \in 1 .. (ThisRun - 1) : runs'[i] = runs[i]
         /\ runs'[ThisRun] = [class |-> task.class, outcome |-> outcome]
<1>1. ThisRun \in Nat /\ ThisRun >= 1 /\ DOMAIN runs = 1 .. ThisRun /\ runs \in Seq(Entries)
  BY RunsType DEF CurrentInv, SettleRouting
<1>2. runs' = [runs EXCEPT ![ThisRun].outcome = outcome]
  BY DEF SettleRouting
<1>3. runs[ThisRun] \in Entries
  BY <1>1, ElementOfSeq DEF ThisRun
<1>4. runs[ThisRun].class = task.class
  BY DEF CurrentInv, SettleRouting
<1>5. runs'[ThisRun] = [class |-> task.class, outcome |-> outcome]
  BY <1>1, <1>2, <1>3, <1>4 DEF Entries
<1>6. \A i \in 1 .. (ThisRun - 1) : runs'[i] = runs[i]
  BY <1>1, <1>2
<1>7. outcome \in Outcomes
  BY DEF TypeInv, AttemptEnded, SettleRouting
<1>8. [class |-> task.class, outcome |-> outcome] \in Entries
  BY <1>7 DEF TypeInv, TypeOK, LocalsOK, Tasks, Entries
<1>9. runs' = [runs EXCEPT ![ThisRun] = [class |-> task.class, outcome |-> outcome]]
  <2>1. [runs[ThisRun] EXCEPT !.outcome = outcome] = [class |-> task.class, outcome |-> outcome]
    BY <1>3, <1>4 DEF Entries
  <2>2. runs' = [runs EXCEPT ![ThisRun] = [runs[ThisRun] EXCEPT !.outcome = outcome]]
    BY <1>2, Zenon
  <2>. QED BY <2>1, <2>2
<1>10. Len(runs') = Len(runs)
  BY <1>1, <1>8, <1>9, ExceptSeq DEF ThisRun
<1>. QED BY <1>1, <1>5, <1>6, <1>10 DEF ThisRun

\* What the other steps of a run leave alone.
LEMMA BodySteps ==
  ASSUME \/ PlanTask \/ ReplanAfterFailure \/ ReplanAfterRejection
         \/ StepSucceeds \/ StepFails \/ BudgetExhausted \/ PlanCompleted
         \/ FirstReview \/ AcceptRejected \/ SecondReview
  PROVE  /\ UNCHANGED <<task, gates, stores, runs>>
         /\ Unsettled /\ Unsettled' /\ pc # "settling"
<1>1. CASE PlanTask \/ ReplanAfterFailure \/ ReplanAfterRejection
  BY <1>1 DEF PlanTask, ReplanAfterFailure, ReplanAfterRejection, ReplanLastStep, Execute,
              admission, Unsettled
<1>2. CASE StepSucceeds \/ StepFails \/ BudgetExhausted \/ PlanCompleted
  BY <1>2 DEF StepSucceeds, StepFails, BudgetExhausted, PlanCompleted, Executing, Stop,
              admission, Unsettled
<1>3. CASE FirstReview \/ AcceptRejected \/ SecondReview
  BY <1>3 DEF FirstReview, AcceptRejected, SecondReview, Reviewing, admission, locals, history,
              Unsettled
<1>. QED BY <1>1, <1>2, <1>3

\* Writing to Procedural Memory leaves everything else alone, and so does a stutter.
LEMMA ElsewhereSteps ==
  ASSUME Administration \/ UNCHANGED vars
  PROVE  UNCHANGED <<pc, task, gates, outcome, verdict, selfModel, log, observer, episodes, runs>>
<1>1. CASE Administration
  BY <1>1 DEF Administration, RegisterProcedure, UpdateProcedure, UseProcedure, PromoteProcedure,
              RetireProcedure, Administer, locals, history
<1>2. CASE UNCHANGED vars
  BY <1>2 DEF vars, locals, stores, history
<1>. QED BY <1>1, <1>2

LEMMA CurrentKept == Spec => []CurrentInv
<1>1. Init => CurrentInv
  BY DEF Init, CurrentInv, Unsettled
<1>2. TypeInv /\ CurrentInv /\ [Next]_vars => CurrentInv'
  <2> SUFFICES ASSUME TypeInv, CurrentInv, [Next]_vars PROVE CurrentInv'
    OBVIOUS
  <2>1. ASSUME NEW t \in Requests, Admit(t) PROVE CurrentInv'
    <3>1. task' = t /\ pc' = "planning"
      BY <2>1 DEF Admit
    <3>2. ThisRun \in Nat
      BY RunsType
    <3>3. ThisRun' = ThisRun + 1 /\ runs'[ThisRun'] = [class |-> t.class, outcome |-> "none"]
      BY <2>1, Admitted
    <3>4. ThisRun' >= 1 /\ runs'[ThisRun'].class = t.class /\ runs'[ThisRun'].outcome = "none"
      BY <3>2, <3>3
    <3>. QED BY <3>1, <3>4 DEF CurrentInv
  <2>2. CASE \/ PlanTask \/ ReplanAfterFailure \/ ReplanAfterRejection
             \/ StepSucceeds \/ StepFails \/ BudgetExhausted \/ PlanCompleted
             \/ FirstReview \/ AcceptRejected \/ SecondReview
    BY <2>2, BodySteps DEF CurrentInv, Unsettled, ThisRun
  <2>3. CASE SettleRouting
    <3>1. pc' = "observing" /\ UNCHANGED <<task, outcome>>
      BY <2>3 DEF SettleRouting, locals
    <3>. QED BY <2>3, <3>1, SettledEntry DEF CurrentInv, Unsettled
  <2>4. CASE Observe
    BY <2>4 DEF Observe, locals, history, CurrentInv, Unsettled, ThisRun
  <2>5. CASE ObserveSinkFails \/ Remember \/ PlanRaises
    BY <2>5 DEF ObserveSinkFails, Remember, PlanRaises, Leave, CurrentInv, Unsettled
  <2>6. CASE Administration \/ UNCHANGED vars
    BY <2>6, ElsewhereSteps DEF CurrentInv, Unsettled, ThisRun
  <2>. QED BY NextCases, <2>1, <2>2, <2>3, <2>4, <2>5, <2>6
<1>. QED BY <1>1, <1>2, AlwaysTyped, PTL DEF Spec

-----------------------------------------------------------------------------
(* Skipped verification *)

WonBefore(class, n) == \E i \in 1 .. n : runs[i] = [class |-> class, outcome |-> "success"]

\* The runs telemetry may know of: the task at hand is one of them once it was observed.
Known == IF pc \in {"idle", "remembering"} THEN ThisRun ELSE ThisRun - 1

TelemetryEarned ==
  \A c \in TaskClasses : \A i \in DOMAIN observer.outcomes[c] :
    observer.outcomes[c][i] = "success" => WonBefore(c, Known)

Trusted(c) == selfModel.caps[c].known /\ selfModel.caps[c].rate > 8500

\* The strengthening: every success in telemetry was a run, and so was what makes the
\* Self-Model trust a class.
EarnedInv == TelemetryEarned /\ \A c \in TaskClasses : Trusted(c) => WonBefore(c, Known)

\* The gate is open unless the class was trusted when the task came in, and the
\* Self-Model is that of then until the task was observed.
GateInv ==
  /\ (Unsettled \/ pc = "observing") /\ ~gates.verification =>
       task.stakes \in {"low", "medium"} /\ Trusted(task.class)
  /\ verdict = "skipped" => pc \in {"settling", "observing", "remembering"} /\ ~gates.verification

LEMMA PushElements ==
  ASSUME NEW S, NEW buffer \in Seq(S), NEW x \in S, NEW window \in Nat \ {0},
         NEW i \in DOMAIN Push(buffer, x, window)
  PROVE  \/ Push(buffer, x, window)[i] = x
         \/ \E j \in DOMAIN buffer : Push(buffer, x, window)[i] = buffer[j]
<1> DEFINE longer == Append(buffer, x)  n == Len(buffer)
<1>1. n \in Nat /\ longer \in Seq(S) /\ Len(longer) = n + 1 /\ longer[n + 1] = x
      /\ (\A j \in 1 .. n : longer[j] = buffer[j]) /\ DOMAIN buffer = 1 .. n
  BY AppendProperties, LenProperties
<1>2. ASSUME NEW j \in 1 .. (n + 1) PROVE longer[j] = x \/ \E k \in DOMAIN buffer : longer[j] = buffer[k]
  BY <1>1
<1>3. CASE n + 1 > window
  <2>1. longer # <<>>
    BY <1>1, EmptySeq
  <2>2. Tail(longer) \in Seq(S) /\ Len(Tail(longer)) = n
        /\ \A j \in 1 .. n : Tail(longer)[j] = longer[j + 1]
    BY <1>1, <2>1, HeadTailProperties
  <2>3. Push(buffer, x, window) = Tail(longer) /\ DOMAIN Tail(longer) = 1 .. n
    BY <1>1, <1>3, <2>2, LenProperties DEF Push
  <2> HIDE DEF longer, n
  <2>4. i \in 1 .. n /\ i + 1 \in 1 .. (n + 1) /\ Push(buffer, x, window)[i] = longer[i + 1]
    BY <1>1, <2>2, <2>3
  <2>. QED BY <1>2, <2>4
<1>4. CASE ~(n + 1 > window)
  <2>1. Push(buffer, x, window) = longer /\ DOMAIN longer = 1 .. (n + 1)
    BY <1>1, <1>4, LenProperties DEF Push
  <2>. QED BY <1>2, <2>1
<1>. QED BY <1>3, <1>4

\* A trusted class has a success in the buffer the rate was computed from.
LEMMA TrustNeedsSuccess ==
  ASSUME NEW obs \in Observers, NEW c \in TaskClasses,
         Snapshot(obs).caps[c].known, Snapshot(obs).caps[c].rate > 8500
  PROVE  \E i \in DOMAIN obs.outcomes[c] : obs.outcomes[c][i] = "success"
<1> DEFINE buffer == obs.outcomes[c]
           n == Len(buffer)
           won == {i \in DOMAIN buffer : buffer[i] = "success"}
<1>1. buffer # <<>> /\ Snapshot(obs).caps[c].rate = Rate(Wins(buffer), n)
  BY DEF Snapshot, WinRate
<1>2. buffer \in Seq(Outcomes)
  BY DEF Observers
<1>3. n \in Nat /\ n > 0
  BY <1>1, <1>2, EmptySeq, LenProperties
<1>4. CASE won = {}
  <2>1. Wins(buffer) = 0
    BY <1>4, FS_EmptySet DEF Wins
  <2> HIDE DEF n
  <2>2. (10000 * 0) \div n = 0 /\ (10000 * 0) % n = 0
    BY <1>3
  <2>3. Rate(0, n) \in {0, 1}
    BY <1>3, <2>2 DEF Rate
  <2>. QED BY <1>1, <2>1, <2>3
<1>. QED BY <1>4

\* A run remains won, and counts for every later bound.
LEMMA StillWon ==
  ASSUME NEW c, NEW m \in Int, NEW n \in Int, m <= n, WonBefore(c, m),
         \A i \in 1 .. m : runs'[i] = runs[i]
  PROVE  \E i \in 1 .. n : runs'[i] = [class |-> c, outcome |-> "success"]
BY DEF WonBefore

\* Observing a run adds its outcome to telemetry, and the run to what telemetry knows.
LEMMA ObservedEarned ==
  ASSUME TypeInv, CurrentInv, EarnedInv, pc = "observing", UNCHANGED runs,
         observer' = Ingest(observer, Record), pc' \in {"idle", "remembering"}
  PROVE  TelemetryEarned' /\ \A c \in TaskClasses : Trusted(c) => WonBefore(c, Known)'
<1>1. Known' = ThisRun /\ Known = ThisRun - 1 /\ ThisRun \in Nat /\ ThisRun >= 1
  BY RunsType DEF Known, ThisRun, CurrentInv
<1>2. runs[ThisRun] = [class |-> task.class, outcome |-> outcome]
  <2>1. runs[ThisRun] \in Entries
    BY <1>1, RunsType, ElementOfSeq DEF ThisRun
  <2>. QED BY <2>1 DEF CurrentInv, Entries
<1>3. ASSUME NEW c, WonBefore(c, Known) PROVE WonBefore(c, Known)'
  BY <1>1, <1>3 DEF WonBefore
<1>4. ASSUME NEW c \in TaskClasses, NEW i \in DOMAIN observer'.outcomes[c],
             observer'.outcomes[c][i] = "success"
      PROVE  WonBefore(c, Known)'
  <2>1. observer \in Observers /\ task.class \in TaskClasses /\ outcome \in Outcomes
    BY RecordType DEF AttemptEnded, TypeInv, TypeOK, StoresOK, LocalsOK, Tasks
  <2>2. observer.outcomes \in [TaskClasses -> Seq(Outcomes)]
    BY <2>1 DEF Observers
  <2>3. observer'.outcomes
          = [observer.outcomes EXCEPT ![task.class] = Push(@, outcome, OutcomeWindow)]
    BY DEF Ingest, Record
  <2>4. CASE c = task.class
    <3>1. observer'.outcomes[c] = Push(observer.outcomes[c], outcome, OutcomeWindow)
      BY <2>1, <2>2, <2>3, <2>4
    <3>2. observer.outcomes[c] \in Seq(Outcomes)
      BY <2>2
    <3>3. \/ observer'.outcomes[c][i] = outcome
          \/ \E j \in DOMAIN observer.outcomes[c] :
                 observer'.outcomes[c][i] = observer.outcomes[c][j]
      BY <1>4, <2>1, <3>1, <3>2, PushElements, ObserverConfig
    <3>4. CASE observer'.outcomes[c][i] = outcome
      <4>1. runs'[ThisRun] = [class |-> c, outcome |-> "success"]
        BY <1>2, <1>4, <2>4, <3>4
      <4>. QED BY <1>1, <4>1 DEF WonBefore
    <3>5. CASE \E j \in DOMAIN observer.outcomes[c] :
                 observer'.outcomes[c][i] = observer.outcomes[c][j]
      BY <1>3, <1>4, <3>5 DEF EarnedInv, TelemetryEarned
    <3>. QED BY <3>3, <3>4, <3>5
  <2>5. CASE c # task.class
    <3>1. observer'.outcomes[c] = observer.outcomes[c]
      BY <2>2, <2>3, <2>5
    <3>. QED BY <1>3, <1>4, <3>1 DEF EarnedInv, TelemetryEarned
  <2>. QED BY <2>4, <2>5
<1>5. TelemetryEarned'
  BY <1>4 DEF TelemetryEarned
<1>6. \A c \in TaskClasses : Trusted(c) => WonBefore(c, Known)'
  BY <1>3 DEF EarnedInv
<1>. QED BY <1>5, <1>6

LEMMA TrustEarned == Spec => []EarnedInv
<1>1. Init => EarnedInv
  <2> SUFFICES ASSUME Init PROVE EarnedInv
    OBVIOUS
  <2>1. ASSUME NEW c \in TaskClasses PROVE ~selfModel.caps[c].known
    BY DEF Init, DefaultSelfModel
  <2>2. ASSUME NEW c \in TaskClasses PROVE DOMAIN observer.outcomes[c] = {}
    <3>1. observer.outcomes[c] = <<>>
      BY DEF Init, NewObserver
    <3>. QED BY <3>1, EmptyChain DEF NoPlan
  <2>. QED BY <2>1, <2>2 DEF EarnedInv, TelemetryEarned, Trusted
<1>2. TypeInv /\ CurrentInv /\ EarnedInv /\ [Next]_vars => EarnedInv'
  <2> SUFFICES ASSUME TypeInv, CurrentInv, EarnedInv, [Next]_vars PROVE EarnedInv'
    OBVIOUS
  <2>0. ThisRun \in Nat /\ Known \in Int /\ Known <= ThisRun
    BY RunsType DEF Known
  <2>1. ASSUME UNCHANGED <<selfModel, observer>>, Known' \in Int, Known <= Known',
               \A i \in 1 .. Known : runs'[i] = runs[i]
        PROVE  EarnedInv'
    <3>1. ASSUME NEW c, WonBefore(c, Known) PROVE WonBefore(c, Known)'
      BY <2>0, <2>1, <3>1, StillWon DEF WonBefore
    <3>. QED BY <2>1, <3>1 DEF EarnedInv, TelemetryEarned, Trusted
  <2>2. ASSUME NEW t \in Requests, Admit(t) PROVE EarnedInv'
    <3>1. pc = "idle" /\ pc' = "planning" /\ UNCHANGED <<selfModel, observer>>
      BY <2>2 DEF Admit
    <3>2. Known = ThisRun /\ Known' = ThisRun
      <4>1. ThisRun' = ThisRun + 1
        BY <2>2, Admitted
      <4>. QED BY <2>0, <3>1, <4>1 DEF Known
    <3>. QED BY <2>0, <2>1, <2>2, <3>1, <3>2, Admitted
  <2>3. CASE \/ PlanTask \/ ReplanAfterFailure \/ ReplanAfterRejection
             \/ StepSucceeds \/ StepFails \/ BudgetExhausted \/ PlanCompleted
             \/ FirstReview \/ AcceptRejected \/ SecondReview
    <3>1. UNCHANGED <<selfModel, observer, runs>> /\ Known' = Known
      BY <2>3, BodySteps DEF stores, Known, Unsettled, ThisRun
    <3>. QED BY <2>0, <2>1, <3>1
  <2>4. CASE SettleRouting
    <3>1. UNCHANGED <<selfModel, observer>> /\ Known = ThisRun - 1 /\ Known' = ThisRun' - 1
      BY <2>4 DEF SettleRouting, Known
    <3>. QED BY <2>0, <2>1, <2>4, <3>1, SettledEntry
  <2>5. CASE Observe
    <3>1. pc = "observing" /\ pc' = "remembering" /\ UNCHANGED runs
      BY <2>5 DEF Observe, history
    <3>2. CASE Has("observer")
      <4>1. observer' = Ingest(observer, Record)
        BY <2>5, <3>2 DEF Observe
      <4>2. TelemetryEarned' /\ \A c \in TaskClasses : Trusted(c) => WonBefore(c, Known)'
        BY <3>1, <4>1, ObservedEarned
      <4>3. selfModel' = selfModel \/ selfModel' = Snapshot(observer')
        BY <2>5, <3>2 DEF Observe
      <4>4. ASSUME NEW c \in TaskClasses, Trusted(c)', selfModel' = Snapshot(observer')
            PROVE  WonBefore(c, Known)'
        <5>1. observer' \in Observers
          BY StaysTyped DEF TypeInv, TypeOK, StoresOK
        <5>2. \E i \in DOMAIN observer'.outcomes[c] : observer'.outcomes[c][i] = "success"
          BY <4>4, <5>1, TrustNeedsSuccess DEF Trusted
        <5>. QED BY <4>2, <5>2 DEF TelemetryEarned
      <4>. QED BY <4>2, <4>3, <4>4 DEF EarnedInv, Trusted
    <3>3. CASE ~Has("observer")
      <4>1. UNCHANGED <<observer, selfModel>> /\ Known' = ThisRun
        BY <2>5, <3>1, <3>3 DEF Observe, Known, ThisRun
      <4>. QED BY <2>0, <2>1, <3>1, <4>1
    <3>. QED BY <3>2, <3>3
  <2>6. CASE ObserveSinkFails
    <3>1. pc = "observing" /\ pc' = "idle" /\ UNCHANGED <<runs, selfModel>>
          /\ observer' = Ingest(observer, Record)
      BY <2>6 DEF ObserveSinkFails, Leave
    <3>2. TelemetryEarned' /\ \A c \in TaskClasses : Trusted(c) => WonBefore(c, Known)'
      BY <3>1, ObservedEarned
    <3>. QED BY <3>1, <3>2 DEF EarnedInv, Trusted
  <2>7. CASE Remember \/ PlanRaises
    <3>1. pc' = "idle" /\ UNCHANGED <<selfModel, observer, runs>>
      BY <2>7 DEF Remember, PlanRaises, Leave, stores
    <3>2. Known' = ThisRun
      BY <3>1 DEF Known, ThisRun
    <3>. QED BY <2>0, <2>1, <3>1, <3>2
  <2>8. CASE Administration \/ UNCHANGED vars
    <3>1. UNCHANGED <<pc, selfModel, observer, runs>>
      BY <2>8, ElsewhereSteps
    <3>. QED BY <2>0, <2>1, <3>1 DEF Known, ThisRun
  <2>. QED BY NextCases, <2>2, <2>3, <2>4, <2>5, <2>6, <2>7, <2>8
<1>. QED BY <1>1, <1>2, AlwaysTyped, CurrentKept, PTL DEF Spec

\* The Scheduler's gate and the Router's depth close only for a trusted class.
LEMMA ClosedGate ==
  ASSUME TypeInv, NEW t \in Requests, Admit(t), ~gates'.verification
  PROVE  t.stakes \in {"low", "medium"} /\ Trusted(t.class)
<1>1. t \in Tasks /\ t.class \in TaskClasses /\ t.stakes \in Stakes
  BY RuntimeConfig DEF Tasks
<1>2. ~(t.stakes \in {"high", "critical"})
  BY <1>1, UrgentVerified
<1>3. decision'.depth = "skip" \/ ~GatesFor(t, selfModel, DefaultNovelty).verification
  BY DEF Admit, ApplyDepth
<1>4. decision'.depth = "skip" => DomainWinRate(selfModel, t.class) > 8500
  BY DEF Admit, Route, NoDecision, VerificationDepth
<1>5. selfModel.caps[t.class].rate \in Nat
  <2>1. selfModel.caps \in [TaskClasses -> Capabilities]
    BY DEF TypeInv, TypeOK, StoresOK, SelfModels
  <2>2. selfModel.caps[t.class] \in Capabilities
    BY <1>1, <2>1
  <2>3. selfModel.caps[t.class].rate \in Rates
    BY <2>2 DEF Capabilities
  <2>4. ASSUME NEW r \in Rates PROVE r \in Nat
    BY DEF Rates
  <2>. QED BY <2>3, <2>4
<1>6. DomainWinRate(selfModel, t.class) \in Nat
  BY <1>5 DEF DomainWinRate
<1>7. ~GatesFor(t, selfModel, DefaultNovelty).verification
        => DomainWinRate(selfModel, t.class) > 8500
  BY <1>6 DEF GatesFor, DomainErrorHigh
<1>8. Trusted(t.class)
  BY <1>3, <1>4, <1>7 DEF DomainWinRate, Trusted
<1>. QED BY <1>1, <1>2, <1>8 DEF Stakes

LEMMA GatesKept == Spec => []GateInv
<1>1. Init => GateInv
  BY DEF Init, GateInv, Unsettled
<1>2. TypeInv /\ GateInv /\ [Next]_vars => GateInv'
  <2> SUFFICES ASSUME TypeInv, GateInv, [Next]_vars PROVE GateInv'
    OBVIOUS
  <2>1. ASSUME NEW t \in Requests, Admit(t) PROVE GateInv'
    <3>1. pc = "idle" /\ pc' = "planning" /\ task' = t /\ UNCHANGED <<selfModel, verdict>>
      BY <2>1 DEF Admit, review
    <3>2. ~gates'.verification => t.stakes \in {"low", "medium"} /\ Trusted(t.class)
      BY <2>1, ClosedGate
    <3>3. verdict' # "skipped"
      BY <3>1 DEF GateInv
    <3>4. Trusted(t.class) => Trusted(task.class)'
      BY <3>1 DEF Trusted
    <3>. QED BY <3>1, <3>2, <3>3, <3>4 DEF GateInv
  <2>2. CASE \/ PlanTask \/ ReplanAfterFailure \/ ReplanAfterRejection
             \/ StepSucceeds \/ StepFails \/ BudgetExhausted \/ PlanCompleted
             \/ FirstReview \/ AcceptRejected \/ SecondReview
    <3>1. UNCHANGED <<task, gates, selfModel>> /\ Unsettled /\ Unsettled' /\ pc # "settling"
      BY <2>2, BodySteps DEF stores
    <3>2. verdict # "skipped"
      BY <3>1 DEF GateInv, Unsettled
    <3>3. verdict' = "skipped" => pc' = "settling" /\ ~gates.verification
      <4>1. CASE FirstReview \/ SecondReview
        <5>1. verdict' # verdict => Verify
          BY <4>1 DEF FirstReview, SecondReview
        <5>2. Verify /\ verdict' = "skipped" => ~gates.verification
          BY DEF Verify, Verified
        <5>3. pc' = "rejected" => verdict' = "rejected"
          BY <4>1 DEF FirstReview, SecondReview
        <5>4. pc' \in {"rejected", "settling"}
          BY <4>1 DEF FirstReview, SecondReview
        <5>. QED BY <3>2, <5>1, <5>2, <5>3, <5>4
      <4>2. CASE ~(FirstReview \/ SecondReview)
        <5>1. verdict' = verdict
          BY <2>2, <4>2 DEF PlanTask, ReplanAfterFailure, ReplanAfterRejection, StepSucceeds,
                            StepFails, BudgetExhausted, PlanCompleted, Executing,
                            AcceptRejected, locals, review
        <5>. QED BY <3>2, <5>1
      <4>. QED BY <4>1, <4>2
    <3>. QED BY <3>1, <3>3 DEF GateInv, Trusted
  <2>3. CASE SettleRouting
    <3>1. pc = "settling" /\ pc' = "observing"
          /\ UNCHANGED <<task, gates, verdict, selfModel>>
      BY <2>3 DEF SettleRouting, locals
    <3>. QED BY <3>1 DEF GateInv, Trusted, Unsettled
  <2>4. CASE Observe
    <3>1. pc' = "remembering" /\ UNCHANGED <<task, gates, verdict>>
      BY <2>4 DEF Observe, locals
    <3>. QED BY <3>1 DEF GateInv, Unsettled
  <2>5. CASE ObserveSinkFails \/ Remember \/ PlanRaises
    <3>1. pc' = "idle" /\ verdict' = "unscored"
      BY <2>5 DEF ObserveSinkFails, Remember, PlanRaises, Leave
    <3>. QED BY <3>1 DEF GateInv, Unsettled
  <2>6. CASE Administration \/ UNCHANGED vars
    BY <2>6, ElsewhereSteps DEF GateInv, Trusted, Unsettled
  <2>. QED BY NextCases, <2>1, <2>2, <2>3, <2>4, <2>5, <2>6
<1>. QED BY <1>1, <1>2, AlwaysTyped, PTL DEF Spec

\* Verification is skipped only for a class whose measured win rate is above 0.85, which
\* takes a success of that class before.
THEOREM SkipAlwaysEarned == Spec => []SkipEarned
<1>1. TypeInv /\ EarnedInv /\ GateInv => SkipEarned
  <2> SUFFICES ASSUME TypeInv, EarnedInv, GateInv,
                      pc \in {"settling", "observing"}, verdict = "skipped"
               PROVE  /\ task.stakes \in {"low", "medium"}
                      /\ selfModel.caps[task.class].known
                      /\ selfModel.caps[task.class].rate > 8500
                      /\ \E i \in 1 .. (ThisRun - 1) :
                           runs[i] = [class |-> task.class, outcome |-> "success"]
    BY DEF SkipEarned
  <2>1. task.stakes \in {"low", "medium"} /\ Trusted(task.class)
    BY DEF GateInv, Unsettled
  <2>2. task.class \in TaskClasses
    BY DEF TypeInv, TypeOK, LocalsOK, Tasks
  <2>3. WonBefore(task.class, ThisRun - 1)
    BY <2>1, <2>2 DEF EarnedInv, Known
  <2>. QED BY <2>1, <2>3 DEF Trusted, WonBefore
<1>. QED BY <1>1, AlwaysTyped, TrustEarned, GatesKept, PTL

-----------------------------------------------------------------------------
(* Routing log, telemetry and memory *)

\* Episodic Memory learns of a run with its last step.
Remembered == IF pc = "idle" THEN ThisRun ELSE ThisRun - 1

AgreesUpTo(entries, n) ==
  \A i \in DOMAIN entries :
    entries[i].run \in 1 .. n /\ runs[entries[i].run].outcome = entries[i].outcome

Logged(i) ==
  log[i].outcome = IF runs[log[i].run].outcome = "none" THEN "pending"
                   ELSE runs[log[i].run].outcome

\* The strengthening: the entry of the task at hand, pending, is the last of the log, and
\* the entries before it belong to earlier runs.
LogInv ==
  /\ \A i \in DOMAIN log : log[i].run \in 1 .. ThisRun /\ Logged(i)
  /\ Unsettled => \A i \in DOMAIN log : i # Len(log) => log[i].run < ThisRun
  /\ Unsettled /\ Has("router") => log # <<>> /\ log[Len(log)].run = ThisRun
  /\ ~Has("router") => log = <<>>

\* record_outcome takes the newest pending entry, which is the last.
LEMMA NewestIsLast ==
  ASSUME TypeInv, CurrentInv, LogInv, pc = "settling", Has("router"),
         log' = RecordOutcome(log, outcome)
  PROVE  log' = [log EXCEPT ![Len(log)].outcome = outcome]
<1> DEFINE n == Len(log)
<1>1. log \in Seq(LogEntry) /\ n \in Nat /\ DOMAIN log = 1 .. n
  BY LenProperties DEF TypeInv, TypeOK, StoresOK
<1>2. log # <<>> /\ log[n].run = ThisRun
  BY DEF LogInv, Unsettled
<1>3. n \in DOMAIN log
  BY <1>1, <1>2, EmptySeq
<1>4. log[n].outcome = "pending"
  BY <1>2, <1>3 DEF LogInv, Logged, CurrentInv, Unsettled
<1> HIDE DEF n
<1>5. n \in Pending(log) /\ \A j \in Pending(log) : j <= n
  BY <1>1, <1>3, <1>4 DEF Pending
<1>6. Pending(log) \subseteq Nat
  BY <1>1 DEF Pending
<1>7. (CHOOSE i \in Pending(log) : \A j \in Pending(log) : j <= i) = n
  <2> DEFINE newest == CHOOSE i \in Pending(log) : \A j \in Pending(log) : j <= i
  <2>1. newest \in Pending(log) /\ \A j \in Pending(log) : j <= newest
    BY <1>5
  <2> HIDE DEF newest
  <2>2. newest \in Nat /\ n \in Nat /\ newest <= n /\ n <= newest
    BY <1>1, <1>5, <1>6, <2>1
  <2>3. newest = n
    BY <2>2
  <2>. QED BY <2>3 DEF newest
<1>8. Pending(log) # {}
  BY <1>5
<1>. QED BY <1>7, <1>8 DEF RecordOutcome, n

LEMMA LogAdmits ==
  ASSUME TypeInv, CurrentInv, LogInv, NEW t \in Requests, Admit(t)
  PROVE  LogInv'
<1>1. pc' = "planning" /\ log \in Seq(LogEntry) /\ ThisRun \in Nat /\ ThisRun' = ThisRun + 1
  BY Admitted, RunsType DEF Admit, TypeInv, TypeOK, StoresOK
<1>2. /\ \A i \in 1 .. ThisRun : runs'[i] = runs[i]
      /\ runs'[ThisRun + 1] = [class |-> t.class, outcome |-> "none"]
  BY <1>1, Admitted
<1>3. CASE Has("router")
  <2> DEFINE entry == [run |-> Len(runs) + 1, outcome |-> "pending"]
             n == Len(log)
  <2>1. log' = Append(log, entry) /\ entry \in LogEntry /\ entry.run = ThisRun + 1
    BY <1>1, <1>3 DEF Admit, LogDecision, ThisRun, LogEntry
  <2>2. /\ log' \in Seq(LogEntry) /\ Len(log') = n + 1 /\ n \in Nat
        /\ \A i \in 1 .. n : log'[i] = log[i]
        /\ log'[n + 1] = entry
    BY <1>1, <2>1, AppendProperties, LenProperties
  <2>3. DOMAIN log' = 1 .. (n + 1) /\ DOMAIN log = 1 .. n /\ log' # <<>>
    BY <1>1, <2>2, LenProperties, EmptySeq
  <2> HIDE DEF n
  <2>4. ASSUME NEW i \in DOMAIN log', i # n + 1
        PROVE  log'[i].run \in 1 .. ThisRun /\ Logged(i)'
    <3>1. i \in DOMAIN log /\ log'[i] = log[i]
      BY <2>2, <2>3, <2>4
    <3>. QED BY <1>2, <3>1 DEF LogInv, Logged
  <2>5. log'[n + 1].outcome = "pending" /\ log'[n + 1].run = ThisRun + 1
        /\ runs'[ThisRun + 1].outcome = "none"
    BY <1>2, <2>1, <2>2
  <2>6. ASSUME NEW i \in DOMAIN log' PROVE log'[i].run \in 1 .. ThisRun' /\ Logged(i)'
    <3>1. CASE i = n + 1
      <4>1. log'[i].run \in 1 .. ThisRun'
        BY <1>1, <2>5, <3>1
      <4>. QED BY <2>5, <3>1, <4>1 DEF Logged
    <3>2. CASE i # n + 1
      BY <1>1, <2>4, <3>2
    <3>. QED BY <3>1, <3>2
  <2>7. \A i \in DOMAIN log' : i # Len(log') => log'[i].run < ThisRun'
    BY <1>1, <2>2, <2>4
  <2>8. log'[Len(log')].run = ThisRun'
    BY <1>1, <2>1, <2>2
  <2>. QED BY <1>3, <2>3, <2>6, <2>7, <2>8 DEF LogInv, Has
<1>4. CASE ~Has("router")
  <2>1. log' = <<>> /\ DOMAIN log' = {}
    BY <1>4, EmptyChain DEF Admit, LogInv, NoPlan
  <2>. QED BY <1>4, <2>1 DEF LogInv, Has
<1>. QED BY <1>3, <1>4

LEMMA LogSettles ==
  ASSUME TypeInv, CurrentInv, LogInv, SettleRouting
  PROVE  LogInv'
<1>1. pc = "settling" /\ pc' = "observing" /\ outcome \in Outcomes
  BY DEF SettleRouting, TypeInv, AttemptEnded
<1>2. /\ ThisRun' = ThisRun /\ ThisRun \in Nat
      /\ \A i \in 1 .. (ThisRun - 1) : runs'[i] = runs[i]
      /\ runs'[ThisRun].outcome = outcome
  BY SettledEntry
<1>3. CASE Has("router")
  <2> DEFINE n == Len(log)
  <2>1. log' = [log EXCEPT ![n].outcome = outcome]
    BY <1>1, <1>3, NewestIsLast DEF SettleRouting
  <2>2. log \in Seq(LogEntry) /\ n \in Nat /\ DOMAIN log = 1 .. n
    BY LenProperties DEF TypeInv, TypeOK, StoresOK
  <2>3. log # <<>> /\ log[n].run = ThisRun
    BY <1>1, <1>3 DEF LogInv, Unsettled
  <2>4. n \in DOMAIN log
    BY <2>2, <2>3, EmptySeq
  <2> HIDE DEF n
  <2>5. log[n] \in LogEntry
    BY <2>2, <2>4, ElementOfSeq DEF n
  <2>6. DOMAIN log' = DOMAIN log
    BY <2>1
  <2>7. log'[n].run = ThisRun /\ log'[n].outcome = outcome
    BY <2>1, <2>3, <2>4, <2>5 DEF LogEntry
  <2>8. ASSUME NEW i \in DOMAIN log', i # n
        PROVE  log'[i].run \in 1 .. ThisRun' /\ Logged(i)'
    <3>1. i \in DOMAIN log /\ log'[i] = log[i]
      BY <2>1, <2>6, <2>8
    <3>2. log[i].run \in 1 .. (ThisRun - 1)
      BY <1>1, <1>2, <2>8, <3>1 DEF LogInv, Unsettled, n
    <3>3. Logged(i) /\ runs'[log[i].run] = runs[log[i].run]
      BY <1>2, <3>1, <3>2 DEF LogInv
    <3>. QED BY <1>2, <3>1, <3>2, <3>3 DEF Logged
  <2>9. runs'[log'[n].run].outcome = outcome /\ outcome # "none"
    BY <1>1, <1>2, <2>7 DEF Outcomes
  <2>10. ThisRun \in 1 .. ThisRun
    BY SettledEntry
  <2>11. ASSUME NEW i \in DOMAIN log' PROVE log'[i].run \in 1 .. ThisRun' /\ Logged(i)'
    <3>1. CASE i = n
      <4>1. log'[i].run \in 1 .. ThisRun'
        BY <1>2, <2>7, <2>10, <3>1
      <4>. QED BY <2>7, <2>9, <3>1, <4>1 DEF Logged
    <3>2. CASE i # n
      BY <2>8, <3>2
    <3>. QED BY <3>1, <3>2
  <2>. QED BY <1>1, <1>3, <2>11 DEF LogInv, Unsettled, Has
<1>4. CASE ~Has("router")
  <2>1. log' = <<>> /\ DOMAIN log' = {}
    BY <1>4, EmptyChain DEF SettleRouting, LogInv, NoPlan
  <2>. QED BY <1>1, <1>4, <2>1 DEF LogInv, Unsettled, Has
<1>. QED BY <1>3, <1>4

LEMMA LogKept == Spec => []LogInv
<1>1. Init => LogInv
  <2>1. Init => DOMAIN log = {}
    BY EmptyChain DEF Init, NoPlan
  <2>. QED BY <2>1 DEF Init, LogInv, Unsettled
<1>2. TypeInv /\ CurrentInv /\ LogInv /\ [Next]_vars => LogInv'
  <2> SUFFICES ASSUME TypeInv, CurrentInv, LogInv, [Next]_vars PROVE LogInv'
    OBVIOUS
  <2>1. ASSUME NEW t \in Requests, Admit(t) PROVE LogInv'
    BY <2>1, LogAdmits
  <2>2. CASE \/ PlanTask \/ ReplanAfterFailure \/ ReplanAfterRejection
             \/ StepSucceeds \/ StepFails \/ BudgetExhausted \/ PlanCompleted
             \/ FirstReview \/ AcceptRejected \/ SecondReview
    BY <2>2, BodySteps DEF stores, LogInv, Logged, ThisRun, Has
  <2>3. CASE SettleRouting
    BY <2>3, LogSettles
  <2>4. CASE Observe \/ ObserveSinkFails \/ Remember \/ PlanRaises
    <3>1. pc' \in {"idle", "remembering"} /\ UNCHANGED <<log, runs>>
      BY <2>4 DEF Observe, ObserveSinkFails, Remember, PlanRaises, Leave, history, stores
    <3>. QED BY <3>1 DEF LogInv, Logged, ThisRun, Unsettled, Has
  <2>5. CASE Administration \/ UNCHANGED vars
    BY <2>5, ElsewhereSteps DEF LogInv, Logged, ThisRun, Unsettled, Has
  <2>. QED BY NextCases, <2>1, <2>2, <2>3, <2>4, <2>5
<1>. QED BY <1>1, <1>2, AlwaysTyped, CurrentKept, PTL DEF Spec

\* Whatever is pushed to a buffer of entries that agree agrees with the runs, too.
LEMMA PushAgrees ==
  ASSUME NEW S, NEW buffer \in Seq(S), NEW x \in S, NEW window \in Nat \ {0},
         NEW m \in Int, NEW n \in Int, m <= n,
         AgreesUpTo(buffer, m), x.run \in 1 .. n, runs[x.run].outcome = x.outcome
  PROVE  AgreesUpTo(Push(buffer, x, window), n)
<1> DEFINE pushed == Push(buffer, x, window)
<1>1. ASSUME NEW i \in DOMAIN pushed
      PROVE  pushed[i].run \in 1 .. n /\ runs[pushed[i].run].outcome = pushed[i].outcome
  <2>1. pushed[i] = x \/ \E j \in DOMAIN buffer : pushed[i] = buffer[j]
    BY PushElements
  <2> HIDE DEF pushed
  <2>2. CASE pushed[i] = x
    BY <2>2
  <2>3. CASE \E j \in DOMAIN buffer : pushed[i] = buffer[j]
    <3>1. PICK j \in DOMAIN buffer : pushed[i] = buffer[j]
      BY <2>3
    <3>. QED BY <3>1 DEF AgreesUpTo
  <2>. QED BY <2>1, <2>2, <2>3
<1>. QED BY <1>1 DEF AgreesUpTo

LEMMA StillAgrees ==
  ASSUME NEW entries, NEW m \in Int, NEW n \in Int, m <= n, AgreesUpTo(entries, m),
         \A i \in 1 .. m : runs'[i] = runs[i]
  PROVE  \A i \in DOMAIN entries :
           entries[i].run \in 1 .. n /\ runs'[entries[i].run].outcome = entries[i].outcome
BY DEF AgreesUpTo

TelemetryAgrees == AgreesUpTo(observer.records, Known)
MemoryAgrees    == AgreesUpTo(episodes, Remembered)

LEMMA ObservedAgrees ==
  ASSUME TypeInv, CurrentInv, TelemetryAgrees, pc = "observing", UNCHANGED runs,
         observer' = Ingest(observer, Record), pc' \in {"idle", "remembering"}
  PROVE  TelemetryAgrees'
<1>1. Known' = ThisRun /\ Known = ThisRun - 1 /\ ThisRun \in Nat /\ ThisRun >= 1
  BY RunsType DEF Known, ThisRun, CurrentInv
<1>2. observer.records \in Seq(Records) /\ Record \in Records /\ RecordWindow \in Nat \ {0}
  BY RecordType, ObserverConfig DEF AttemptEnded, TypeInv, TypeOK, StoresOK, Observers
<1>3. Record.run \in 1 .. ThisRun /\ runs[Record.run].outcome = Record.outcome
  BY <1>1 DEF Record, CurrentInv
<1>4. observer'.records = Push(observer.records, Record, RecordWindow)
  BY DEF Ingest
<1>5. AgreesUpTo(Push(observer.records, Record, RecordWindow), ThisRun)
  BY <1>1, <1>2, <1>3, PushAgrees DEF TelemetryAgrees
<1>. QED BY <1>1, <1>4, <1>5 DEF TelemetryAgrees, AgreesUpTo

LEMMA RememberedAgrees ==
  ASSUME TypeInv, CurrentInv, MemoryAgrees, Remember
  PROVE  MemoryAgrees'
<1>1. pc = "remembering" /\ pc' = "idle" /\ UNCHANGED runs
  BY DEF Remember, Leave
<1>2. Remembered' = ThisRun /\ Remembered = ThisRun - 1 /\ ThisRun \in Nat /\ ThisRun >= 1
  BY <1>1, RunsType DEF Remembered, ThisRun, CurrentInv
<1>3. CASE Has("memory")
  <2> DEFINE entry == [run |-> ThisRun, outcome |-> outcome]
             S == [run : Nat, outcome : Outcomes]
  <2>1. episodes' = Push(episodes, entry, MaxEpisodes)
    BY <1>3 DEF Remember
  <2>2. episodes \in Seq(S) /\ MaxEpisodes \in Nat \ {0}
    BY RuntimeConfig DEF TypeInv, TypeOK, StoresOK
  <2>3. entry \in S
    BY <1>1, <1>2 DEF TypeInv, AttemptEnded
  <2>4. entry.run \in 1 .. ThisRun /\ runs[entry.run].outcome = entry.outcome
    BY <1>1, <1>2 DEF CurrentInv
  <2> HIDE DEF entry, S
  <2>5. AgreesUpTo(Push(episodes, entry, MaxEpisodes), ThisRun)
    BY <1>2, <2>2, <2>3, <2>4, PushAgrees DEF MemoryAgrees
  <2>. QED BY <1>1, <1>2, <2>1, <2>5 DEF MemoryAgrees, AgreesUpTo
<1>4. CASE ~Has("memory")
  <2>1. episodes' = episodes
    BY <1>4 DEF Remember
  <2>. QED BY <1>1, <1>2, <2>1 DEF MemoryAgrees, AgreesUpTo
<1>. QED BY <1>3, <1>4

LEMMA LedgersKept == Spec => [](TelemetryAgrees /\ MemoryAgrees)
<1>1. Init => TelemetryAgrees /\ MemoryAgrees
  <2>1. Init => DOMAIN observer.records = {} /\ DOMAIN episodes = {}
    BY EmptyChain DEF Init, NewObserver, NoPlan
  <2>. QED BY <2>1 DEF TelemetryAgrees, MemoryAgrees, AgreesUpTo
<1>2. TypeInv /\ CurrentInv /\ TelemetryAgrees /\ MemoryAgrees /\ [Next]_vars
        => TelemetryAgrees' /\ MemoryAgrees'
  <2> SUFFICES ASSUME TypeInv, CurrentInv, TelemetryAgrees, MemoryAgrees, [Next]_vars
               PROVE  TelemetryAgrees' /\ MemoryAgrees'
    OBVIOUS
  <2>0. /\ ThisRun \in Nat /\ Known \in Int /\ Remembered \in Int
        /\ Known <= ThisRun /\ Remembered <= ThisRun
    BY RunsType DEF Known, Remembered
  <2>1. ASSUME UNCHANGED observer, Known' \in Int, Known <= Known',
               \A i \in 1 .. Known : runs'[i] = runs[i]
        PROVE  TelemetryAgrees'
    BY <2>0, <2>1, StillAgrees DEF TelemetryAgrees, AgreesUpTo
  <2>2. ASSUME UNCHANGED episodes, Remembered' \in Int, Remembered <= Remembered',
               \A i \in 1 .. Remembered : runs'[i] = runs[i]
        PROVE  MemoryAgrees'
    BY <2>0, <2>2, StillAgrees DEF MemoryAgrees, AgreesUpTo
  <2>3. ASSUME NEW t \in Requests, Admit(t) PROVE TelemetryAgrees' /\ MemoryAgrees'
    <3>1. pc = "idle" /\ pc' = "planning" /\ UNCHANGED <<observer, episodes>>
      BY <2>3 DEF Admit
    <3>2. ThisRun' = ThisRun + 1 /\ \A i \in 1 .. ThisRun : runs'[i] = runs[i]
      BY <2>3, Admitted
    <3>3. Known = ThisRun /\ Known' = ThisRun /\ Remembered = ThisRun /\ Remembered' = ThisRun
      BY <2>0, <3>1, <3>2 DEF Known, Remembered
    <3>. QED BY <2>0, <2>1, <2>2, <3>1, <3>2, <3>3
  <2>4. CASE \/ PlanTask \/ ReplanAfterFailure \/ ReplanAfterRejection
             \/ StepSucceeds \/ StepFails \/ BudgetExhausted \/ PlanCompleted
             \/ FirstReview \/ AcceptRejected \/ SecondReview
    <3>1. UNCHANGED <<observer, episodes, runs>> /\ Unsettled /\ Unsettled'
      BY <2>4, BodySteps DEF stores
    <3>2. Known' = Known /\ Remembered' = Remembered
      BY <3>1 DEF Known, Remembered, Unsettled, ThisRun
    <3>. QED BY <2>0, <2>1, <2>2, <3>1, <3>2
  <2>5. CASE SettleRouting
    <3>1. /\ UNCHANGED <<observer, episodes>>
          /\ Known = ThisRun - 1 /\ Known' = ThisRun' - 1
          /\ Remembered = ThisRun - 1 /\ Remembered' = ThisRun' - 1
      BY <2>5 DEF SettleRouting, Known, Remembered
    <3>2. ThisRun' = ThisRun /\ \A i \in 1 .. (ThisRun - 1) : runs'[i] = runs[i]
      BY <2>5, SettledEntry
    <3>. QED BY <2>0, <2>1, <2>2, <3>1, <3>2
  <2>6. CASE Observe \/ ObserveSinkFails
    <3>1. pc = "observing" /\ pc' \in {"idle", "remembering"} /\ UNCHANGED <<runs, episodes>>
      BY <2>6 DEF Observe, ObserveSinkFails, Leave, history
    <3>2. UNCHANGED observer \/ observer' = Ingest(observer, Record)
      BY <2>6 DEF Observe, ObserveSinkFails
    <3>3. /\ Known = ThisRun - 1 /\ Known' = ThisRun
          /\ Remembered = ThisRun - 1 /\ Remembered' \in {ThisRun - 1, ThisRun}
      BY <3>1 DEF Known, Remembered, ThisRun
    <3>4. MemoryAgrees'
      BY <2>0, <2>2, <3>1, <3>3
    <3>5. TelemetryAgrees'
      BY <2>0, <2>1, <3>1, <3>2, <3>3, ObservedAgrees
    <3>. QED BY <3>4, <3>5
  <2>7. CASE Remember
    <3>1. UNCHANGED <<observer, runs>> /\ Known = ThisRun /\ Known' = ThisRun
      BY <2>7 DEF Remember, Leave, Known, ThisRun
    <3>. QED BY <2>0, <2>1, <2>7, <3>1, RememberedAgrees
  <2>8. CASE PlanRaises
    <3>1. /\ UNCHANGED <<observer, episodes, runs>>
          /\ Known' = ThisRun /\ Remembered' = ThisRun
      BY <2>8 DEF PlanRaises, Leave, stores, Known, Remembered, ThisRun
    <3>. QED BY <2>0, <2>1, <2>2, <3>1
  <2>9. CASE Administration \/ UNCHANGED vars
    <3>1. UNCHANGED <<pc, observer, episodes, runs>>
      BY <2>9, ElsewhereSteps
    <3>2. Known' = Known /\ Remembered' = Remembered
      BY <3>1 DEF Known, Remembered, ThisRun
    <3>. QED BY <2>0, <2>1, <2>2, <3>1, <3>2
  <2>. QED BY NextCases, <2>3, <2>4, <2>5, <2>6, <2>7, <2>8, <2>9
<1>. QED BY <1>1, <1>2, AlwaysTyped, CurrentKept, PTL DEF Spec

\* Routing log, telemetry and memory tell the same story of every run, as its caller saw
\* it, although the log is matched by position.
THEOREM LedgersAlwaysAgree == Spec => []LedgersAgree
<1>1. LogInv /\ TelemetryAgrees /\ MemoryAgrees => LedgersAgree
  BY DEF LogInv, Logged, TelemetryAgrees, MemoryAgrees, AgreesUpTo, LedgersAgree
<1>. QED BY <1>1, LogKept, LedgersKept, PTL

-----------------------------------------------------------------------------
(* What the Self-Model is measured from *)

\* The runs telemetry has taken in, in the order of the history.
Taken == {i \in 1 .. Known : runs[i].outcome # "none"}

\* An enumeration of a finite set of runs, oldest first.
Enumerates(q, S) ==
  /\ q \in [1 .. Cardinality(S) -> S]
  /\ \A i \in S : \E k \in 1 .. Cardinality(S) : q[k] = i
  /\ \A j, k \in 1 .. Cardinality(S) : j < k => q[j] < q[k]

\* A ring buffer holds the outcomes of the last runs of a set.
HoldsLast(buffer, S) ==
  \E q : /\ Enumerates(q, S)
         /\ Len(buffer) = AtMost(OutcomeWindow, Cardinality(S))
         /\ \A k \in 1 .. Len(buffer) :
              buffer[k] = runs[q[Cardinality(S) - Len(buffer) + k]].outcome

RestsOn(c, M) ==
  /\ M # {}
  /\ selfModel.caps[c].rate = Rate(Cardinality(Successes(M)), Cardinality(M))

Basis(S, c) == Latest(OfClass(Earliest(S, selfModel.builtAt), c), OutcomeWindow)

\* The strengthening: telemetry has counted the runs it took in and each of its buffers
\* holds the last of a class, and the Self-Model was built from what it held then.
MeasuredInv ==
  IF Has("observer")
  THEN /\ Cardinality(Taken) = observer.total
       /\ selfModel.builtAt <= observer.total
       /\ \A c \in TaskClasses :
            /\ HoldsLast(observer.outcomes[c], OfClass(Taken, c))
            /\ selfModel.caps[c].known => RestsOn(c, Basis(Taken, c))
  ELSE \A c \in TaskClasses : ~selfModel.caps[c].known

LEMMA TakenFacts ==
  ASSUME TypeInv
  PROVE  /\ Known \in Int /\ ThisRun \in Nat /\ Known <= ThisRun
         /\ Taken \in SUBSET Nat /\ \A i \in Taken : i \in 1 .. Known
         /\ IsFiniteSet(Taken) /\ Cardinality(Taken) \in Nat
<1>1. Known \in Int /\ ThisRun \in Nat /\ Known <= ThisRun
  BY RunsType DEF Known
<1>2. Taken \in SUBSET (1 .. Known)
  BY DEF Taken
<1>3. IsFiniteSet(1 .. Known)
  BY <1>1, FS_Interval
<1>4. IsFiniteSet(Taken) /\ Cardinality(Taken) \in Nat
  BY <1>2, <1>3, FS_Subset, FS_CardinalityType
<1>. QED BY <1>1, <1>2, <1>4

\* A function onto a set that repeats nothing counts it.
LEMMA CountedBy ==
  ASSUME NEW A, NEW B, NEW f \in [A -> B], IsFiniteSet(A),
         \A i, j \in A : f[i] = f[j] => i = j,
         \A b \in B : \E i \in A : f[i] = b
  PROVE  IsFiniteSet(B) /\ Cardinality(B) = Cardinality(A)
<1>1. f \in Bijection(A, B)
  BY DEF Bijection, Injection, IsInjective, Surjection
<1>. QED BY <1>1, FS_Bijection DEF ExistsBijection

LEMMA EarliestAll ==
  ASSUME NEW S, IsFiniteSet(S), S \in SUBSET Nat
  PROVE  Earliest(S, Cardinality(S)) = S
<1>1. ASSUME NEW i \in S PROVE Cardinality({j \in S : j <= i}) <= Cardinality(S)
  <2>1. {j \in S : j <= i} \in SUBSET S
    OBVIOUS
  <2>. QED BY <2>1, FS_Subset
<1>. QED BY <1>1 DEF Earliest

\* One more run at the end is not among the earliest.
LEMMA EarliestStable ==
  ASSUME NEW S, IsFiniteSet(S), S \in SUBSET Nat, NEW n \in Nat, \A i \in S : i < n,
         NEW k \in Nat, k <= Cardinality(S)
  PROVE  Earliest(S \cup {n}, k) = Earliest(S, k)
<1>1. ASSUME NEW i \in S PROVE {j \in S \cup {n} : j <= i} = {j \in S : j <= i}
  <2>1. i \in Nat /\ ~(n <= i)
    OBVIOUS
  <2>. QED BY <2>1
<1>2. {j \in S \cup {n} : j <= n} = S \cup {n}
  <2>1. \A j \in S \cup {n} : j <= n
    OBVIOUS
  <2>. QED BY <2>1
<1>3. n \notin S
  OBVIOUS
<1>4. Cardinality(S \cup {n}) = Cardinality(S) + 1 /\ Cardinality(S) \in Nat
  BY <1>3, FS_AddElement, FS_CardinalityType
<1>5. ~(Cardinality({j \in S \cup {n} : j <= n}) <= k)
  BY <1>2, <1>4
<1>. QED BY <1>1, <1>3, <1>5 DEF Earliest

\* The runs behind a buffer are the latest of the set, success for success.
LEMMA BufferCounts ==
  ASSUME NEW S, IsFiniteSet(S), S \in SUBSET Nat,
         NEW buffer \in Seq(Outcomes), HoldsLast(buffer, S)
  PROVE  /\ Cardinality(Latest(S, OutcomeWindow)) = Len(buffer)
         /\ Cardinality(Successes(Latest(S, OutcomeWindow))) = Wins(buffer)
         /\ IsFiniteSet(Latest(S, OutcomeWindow))
<1> DEFINE N == Cardinality(S)  L == Len(buffer)  M == Latest(S, OutcomeWindow)
<1>1. PICK q : /\ Enumerates(q, S)
               /\ Len(buffer) = AtMost(OutcomeWindow, N)
               /\ \A k \in 1 .. Len(buffer) : buffer[k] = runs[q[N - Len(buffer) + k]].outcome
  BY DEF HoldsLast
<1>2. N \in Nat /\ L \in Nat /\ L <= N /\ L <= OutcomeWindow /\ OutcomeWindow \in Nat
      /\ (L < OutcomeWindow => L = N) /\ DOMAIN buffer = 1 .. L
  BY <1>1, FS_CardinalityType, ObserverConfig, LenProperties DEF AtMost
<1>3. /\ q \in [1 .. N -> S]
      /\ \A i \in S : \E k \in 1 .. N : q[k] = i
      /\ \A j, k \in 1 .. N : j < k => q[j] < q[k]
  BY <1>1 DEF Enumerates
<1>4. \A k \in 1 .. L : buffer[k] = runs[q[N - L + k]].outcome
  BY <1>1
<1> HIDE DEF N, L
<1>5. \A j, k \in 1 .. N : q[j] < q[k] => j < k
  <2>1. \A j \in 1 .. N : q[j] \in Nat
    BY <1>3
  <2>2. ASSUME NEW j \in 1 .. N, NEW k \in 1 .. N, ~(j < k) PROVE ~(q[j] < q[k])
    <3>1. k < j \/ k = j
      BY <1>2, <2>2
    <3>2. q[k] < q[j] \/ q[k] = q[j]
      BY <1>3, <3>1
    <3>. QED BY <2>1, <3>2
  <2>. QED BY <2>2
<1>6. \A j, k \in 1 .. N : q[j] = q[k] => j = k
  <2>1. \A j \in 1 .. N : q[j] \in Nat
    BY <1>3
  <2>. QED BY <1>2, <1>3, <2>1
<1>7. ASSUME NEW i \in 1 .. N PROVE Cardinality({j \in S : j > q[i]}) = N - i
  <2> DEFINE A == (i + 1) .. N  B == {j \in S : j > q[i]}  f == [k \in A |-> q[k]]
  <2>1. \A k \in A : k \in 1 .. N /\ i < k /\ q[k] \in B
    BY <1>2, <1>3
  <2>2. f \in [A -> B] /\ \A k \in A : f[k] = q[k]
    BY <2>1
  <2>3. ASSUME NEW b \in B PROVE \E k \in A : f[k] = b
    <3>1. PICK k \in 1 .. N : q[k] = b
      BY <1>3
    <3>2. k \in A
      BY <1>2, <1>5, <3>1
    <3>. QED BY <3>1, <3>2
  <2>4. IsFiniteSet(A) /\ Cardinality(A) = N - i
    BY <1>2, FS_Interval
  <2>5. \A j, k \in A : f[j] = f[k] => j = k
    BY <1>6, <2>1, <2>2
  <2> HIDE DEF A, B, f
  <2>6. Cardinality(B) = Cardinality(A)
    BY <2>2, <2>3, <2>4, <2>5, CountedBy
  <2>. QED BY <2>4, <2>6 DEF B
<1>8. \A i \in 1 .. N : q[i] \in M <=> i > N - L
  BY <1>2, <1>3, <1>7 DEF Latest
<1>9. ASSUME NEW k \in 1 .. L PROVE N - L + k \in 1 .. N /\ q[N - L + k] \in M
  BY <1>2, <1>8
<1>10. ASSUME NEW m \in M PROVE \E k \in 1 .. L : q[N - L + k] = m
  <2>1. PICK i \in 1 .. N : q[i] = m
    BY <1>3 DEF Latest
  <2>2. i > N - L
    BY <1>8, <2>1
  <2>3. i - (N - L) \in 1 .. L /\ N - L + (i - (N - L)) = i
    BY <1>2, <2>2
  <2>. QED BY <2>1, <2>3
<1>11. \A j, k \in 1 .. L : q[N - L + j] = q[N - L + k] => j = k
  BY <1>2, <1>6, <1>9
<1> HIDE DEF M
<1>12. IsFiniteSet(M) /\ Cardinality(M) = L
  <2> DEFINE f == [k \in 1 .. L |-> q[N - L + k]]
  <2>1. f \in [1 .. L -> M] /\ \A k \in 1 .. L : f[k] = q[N - L + k]
    BY <1>9
  <2>2. IsFiniteSet(1 .. L) /\ Cardinality(1 .. L) = L
    BY <1>2, FS_Interval
  <2>3. /\ \A j, k \in 1 .. L : f[j] = f[k] => j = k
        /\ \A m \in M : \E k \in 1 .. L : f[k] = m
    BY <1>10, <1>11, <2>1
  <2> HIDE DEF f
  <2>. QED BY <2>1, <2>2, <2>3, CountedBy
<1>13. Cardinality(Successes(M)) = Wins(buffer)
  <2> DEFINE A == {k \in DOMAIN buffer : buffer[k] = "success"}
             f == [k \in A |-> q[N - L + k]]
  <2>1. ASSUME NEW k \in A PROVE k \in 1 .. L /\ q[N - L + k] \in Successes(M)
    BY <1>2, <1>4, <1>9 DEF Successes
  <2>2. f \in [A -> Successes(M)] /\ \A k \in A : f[k] = q[N - L + k]
    BY <2>1
  <2>3. ASSUME NEW m \in Successes(M) PROVE \E k \in A : f[k] = m
    <3>1. m \in M /\ runs[m].outcome = "success"
      BY DEF Successes
    <3>2. PICK k \in 1 .. L : q[N - L + k] = m
      BY <1>10, <3>1
    <3>3. k \in A
      BY <1>2, <1>4, <3>1, <3>2
    <3>. QED BY <3>2, <3>3
  <2>4. IsFiniteSet(A)
    <3>1. A \in SUBSET (1 .. L)
      BY <1>2
    <3>. QED BY <1>2, <3>1, FS_Interval, FS_Subset
  <2>5. \A j, k \in A : f[j] = f[k] => j = k
    BY <1>11, <2>1, <2>2
  <2> HIDE DEF f
  <2>6. Cardinality(Successes(M)) = Cardinality(A)
    <3> HIDE DEF A
    <3>. QED BY <2>2, <2>3, <2>4, <2>5, CountedBy
  <2>. QED BY <2>6 DEF Wins
<1>. QED BY <1>12, <1>13 DEF M, L

\* Observing one more run of a set: the buffer holds the last of the larger set.
LEMMA PushHolds ==
  ASSUME NEW S, IsFiniteSet(S), S \in SUBSET Nat, NEW n \in Nat, \A i \in S : i < n,
         NEW buffer \in Seq(Outcomes), HoldsLast(buffer, S), runs[n].outcome \in Outcomes
  PROVE  HoldsLast(Push(buffer, runs[n].outcome, OutcomeWindow), S \cup {n})
<1> DEFINE N == Cardinality(S)  L == Len(buffer)  x == runs[n].outcome
           pushed == Push(buffer, x, OutcomeWindow)  K == Len(pushed)
           T == S \cup {n}
<1>1. PICK q : /\ Enumerates(q, S)
               /\ L = AtMost(OutcomeWindow, N)
               /\ \A k \in 1 .. L : buffer[k] = runs[q[N - L + k]].outcome
  BY DEF HoldsLast
<1>2. N \in Nat /\ L \in Nat /\ OutcomeWindow \in Nat /\ OutcomeWindow > 0
      /\ L = (IF N > OutcomeWindow THEN OutcomeWindow ELSE N)
  BY <1>1, FS_CardinalityType, ObserverConfig, LenProperties DEF AtMost
<1>3. /\ q \in [1 .. N -> S]
      /\ \A i \in S : \E k \in 1 .. N : q[k] = i
      /\ \A j, k \in 1 .. N : j < k => q[j] < q[k]
  BY <1>1 DEF Enumerates
<1>4. n \notin S
  OBVIOUS
<1>5. Cardinality(T) = N + 1
  BY <1>4, FS_AddElement
<1> DEFINE r == [k \in 1 .. (N + 1) |-> IF k = N + 1 THEN n ELSE q[k]]
<1> HIDE DEF N
<1>6. r[N + 1] = n /\ \A k \in 1 .. N : r[k] = q[k] /\ q[k] \in S /\ k \in 1 .. (N + 1)
  BY <1>2, <1>3
<1>7. \A k \in 1 .. (N + 1) : k = N + 1 \/ k \in 1 .. N
  BY <1>2
<1>8. r \in [1 .. (N + 1) -> T]
  <2>1. \A k \in 1 .. (N + 1) : r[k] \in T
    BY <1>6, <1>7
  <2>. QED BY <2>1
<1> HIDE DEF r
<1>9. Enumerates(r, T)
  <2>1. \A i \in T : \E k \in 1 .. (N + 1) : r[k] = i
    <3>1. N + 1 \in 1 .. (N + 1)
      BY <1>2
    <3>. QED BY <1>3, <1>6, <3>1
  <2>2. ASSUME NEW j \in 1 .. (N + 1), NEW k \in 1 .. (N + 1), j < k PROVE r[j] < r[k]
    <3>1. j \in 1 .. N
      BY <1>2, <2>2
    <3>2. CASE k = N + 1
      BY <1>6, <3>1, <3>2
    <3>3. CASE k \in 1 .. N
      BY <1>3, <1>6, <2>2, <3>1, <3>3
    <3>. QED BY <1>7, <3>2, <3>3
  <2>. QED BY <1>5, <1>8, <2>1, <2>2 DEF Enumerates
<1>10. /\ Append(buffer, x) \in Seq(Outcomes) /\ Len(Append(buffer, x)) = L + 1
       /\ Append(buffer, x)[L + 1] = x
       /\ \A k \in 1 .. L : Append(buffer, x)[k] = buffer[k]
  BY AppendProperties
<1> DEFINE longer == Append(buffer, x)
<1>11. ASSUME NEW k \in 1 .. (L + 1)
       PROVE  longer[k] = runs[r[N - L + k]].outcome
  <2>1. CASE k = L + 1
    <3>1. N - L + k = N + 1
      BY <1>2, <2>1
    <3>. QED BY <1>6, <1>10, <2>1, <3>1
  <2>2. CASE k # L + 1
    <3>1. k \in 1 .. L /\ N - L + k \in 1 .. N
      BY <1>2, <2>2
    <3>2. longer[k] = buffer[k] /\ buffer[k] = runs[q[N - L + k]].outcome
      BY <1>1, <1>10, <3>1
    <3>3. r[N - L + k] = q[N - L + k]
      BY <1>6, <3>1
    <3>. QED BY <3>2, <3>3
  <2>. QED BY <2>1, <2>2
<1>12. /\ K = AtMost(OutcomeWindow, N + 1)
       /\ \A k \in 1 .. K : pushed[k] = runs[r[(N + 1) - K + k]].outcome
  <2>1. CASE L + 1 > OutcomeWindow
    <3>1. longer # <<>>
      BY <1>2, <1>10, EmptySeq
    <3>2. Len(Tail(longer)) = L /\ \A k \in 1 .. L : Tail(longer)[k] = longer[k + 1]
      <4>1. Len(Tail(longer)) = Len(longer) - 1
            /\ \A k \in 1 .. (Len(longer) - 1) : Tail(longer)[k] = longer[k + 1]
        BY <1>10, <3>1, HeadTailProperties
      <4>2. Len(longer) - 1 = L
        BY <1>2, <1>10
      <4>. QED BY <4>1, <4>2
    <3>3. pushed = Tail(longer)
      BY <1>10, <2>1 DEF Push
    <3> HIDE DEF longer, L, pushed, x, T
    <3>4. K = L /\ K = AtMost(OutcomeWindow, N + 1)
      BY <1>2, <2>1, <3>2, <3>3 DEF AtMost
    <3>5. ASSUME NEW k \in 1 .. L PROVE pushed[k] = runs[r[(N + 1) - L + k]].outcome
      <4>1. k + 1 \in 1 .. (L + 1) /\ N - L + (k + 1) = (N + 1) - L + k
        BY <1>2
      <4>. QED BY <1>11, <3>2, <3>3, <4>1
    <3>. QED BY <3>4, <3>5
  <2>2. CASE ~(L + 1 > OutcomeWindow)
    <3>1. pushed = longer /\ K = L + 1
      BY <1>10, <2>2 DEF Push
    <3> HIDE DEF longer, L, pushed, x, T, K
    <3>2. K = AtMost(OutcomeWindow, N + 1)
      BY <1>2, <2>2, <3>1 DEF AtMost
    <3>3. (N + 1) - K = N - L
      BY <1>2, <3>1
    <3>4. ASSUME NEW k \in 1 .. K PROVE pushed[k] = runs[r[(N + 1) - K + k]].outcome
      BY <1>11, <3>1, <3>3
    <3>. QED BY <3>2, <3>4
  <2>. QED BY <2>1, <2>2
<1>13. /\ Len(pushed) = AtMost(OutcomeWindow, Cardinality(T))
       /\ \A k \in 1 .. Len(pushed) :
            pushed[k] = runs[r[Cardinality(T) - Len(pushed) + k]].outcome
  BY <1>5, <1>12
<1>14. HoldsLast(pushed, T)
  <2> HIDE DEF pushed, T, K, x, L, longer
  <2>. QED BY <1>9, <1>13 DEF HoldsLast
<1>. QED BY <1>14

\* Nothing is measured anew while the runs taken in, and what telemetry made of them, stay.
LEMMA MeasuredFrame ==
  ASSUME TypeInv, MeasuredInv, UNCHANGED <<observer, selfModel>>,
         Taken' = Taken, \A i \in Taken : runs'[i] = runs[i]
  PROVE  MeasuredInv'
<1>1. ASSUME NEW c PROVE OfClass(Taken, c)' = OfClass(Taken, c)
  BY DEF OfClass
<1>2. ASSUME NEW c PROVE Basis(Taken, c)' = Basis(Taken, c) /\ Basis(Taken, c) \in SUBSET Taken
  <2>1. Earliest(Taken, selfModel.builtAt)' = Earliest(Taken, selfModel.builtAt)
        /\ Earliest(Taken, selfModel.builtAt) \in SUBSET Taken
    BY DEF Earliest
  <2> DEFINE E == Earliest(Taken, selfModel.builtAt)
  <2> HIDE DEF E
  <2>2. {i \in E : runs'[i].class = c} = {i \in E : runs[i].class = c}
    BY <2>1 DEF E
  <2>. QED BY <2>1, <2>2 DEF Basis, OfClass, Latest, E
<1>3. ASSUME NEW c, RestsOn(c, Basis(Taken, c)) PROVE RestsOn(c, Basis(Taken, c))'
  <2> DEFINE B == Basis(Taken, c)
  <2>1. B' = B /\ B \in SUBSET Taken
    BY <1>2
  <2> HIDE DEF B
  <2>2. {i \in B : runs'[i].outcome = "success"} = {i \in B : runs[i].outcome = "success"}
    BY <2>1
  <2>. QED BY <1>3, <2>1, <2>2 DEF RestsOn, Successes, B
<1>4. ASSUME NEW c \in TaskClasses, HoldsLast(observer.outcomes[c], OfClass(Taken, c))
      PROVE  HoldsLast(observer.outcomes[c], OfClass(Taken, c))'
  <2> DEFINE S == OfClass(Taken, c)  b == observer.outcomes[c]  N == Cardinality(S)
  <2>1. S' = S /\ b' = b /\ S \in SUBSET Taken
    BY <1>1 DEF OfClass
  <2>2. IsFiniteSet(S) /\ N \in Nat
    BY <2>1, TakenFacts, FS_Subset, FS_CardinalityType
  <2>3. Len(b) \in Nat
    <3>1. b \in Seq(Outcomes)
      BY DEF TypeInv, TypeOK, StoresOK, Observers
    <3>. QED BY <3>1, LenProperties
  <2> HIDE DEF S, b
  <2>4. PICK q : /\ Enumerates(q, S) /\ Len(b) = AtMost(OutcomeWindow, N)
                 /\ \A k \in 1 .. Len(b) : b[k] = runs[q[N - Len(b) + k]].outcome
    BY <1>4 DEF HoldsLast, S, b
  <2>5. q \in [1 .. N -> S] /\ Len(b) <= N
    BY <2>2, <2>4, ObserverConfig DEF Enumerates, AtMost
  <2>6. ASSUME NEW k \in 1 .. Len(b) PROVE b[k] = runs'[q[N - Len(b) + k]].outcome
    <3>1. N - Len(b) + k \in 1 .. N
      BY <2>2, <2>3, <2>5
    <3>2. q[N - Len(b) + k] \in Taken
      BY <2>1, <2>5, <3>1
    <3>. QED BY <2>4, <3>2
  <2>7. HoldsLast(b, S)'
    <3>1. Enumerates(q, S')
      BY <2>1, <2>4
    <3>. QED BY <2>1, <2>4, <2>6, <3>1 DEF HoldsLast, Enumerates
  <2>. QED BY <2>7 DEF S, b
<1>. QED BY <1>1, <1>2, <1>3, <1>4 DEF MeasuredInv

\* The run telemetry takes in next is the last, and the only one it did not know.
LEMMA TakenIn ==
  ASSUME TypeInv, CurrentInv, pc = "observing", UNCHANGED runs, pc' \in {"idle", "remembering"}
  PROVE  /\ Taken' = Taken \cup {ThisRun} /\ \A i \in Taken : i < ThisRun
         /\ ThisRun \in Nat /\ ThisRun \notin Taken
         /\ runs[ThisRun] = [class |-> task.class, outcome |-> outcome]
         /\ outcome \in Outcomes
<1>1. Known' = ThisRun /\ Known = ThisRun - 1 /\ ThisRun \in Nat /\ ThisRun >= 1
  BY RunsType DEF Known, ThisRun, CurrentInv
<1>2. runs[ThisRun] = [class |-> task.class, outcome |-> outcome]
  <2>1. runs[ThisRun] \in Entries
    BY <1>1, RunsType, ElementOfSeq DEF ThisRun
  <2>. QED BY <2>1 DEF CurrentInv, Entries
<1>3. outcome \in Outcomes
  BY DEF TypeInv, AttemptEnded
<1>4. runs[ThisRun].outcome # "none"
  BY <1>2, <1>3 DEF Outcomes
<1>5. 1 .. ThisRun = (1 .. (ThisRun - 1)) \cup {ThisRun}
  BY <1>1
<1>6. Taken' = {i \in 1 .. ThisRun : runs[i].outcome # "none"}
      /\ Taken = {i \in 1 .. (ThisRun - 1) : runs[i].outcome # "none"}
  BY <1>1 DEF Taken
<1>7. Taken' = Taken \cup {ThisRun}
  BY <1>4, <1>5, <1>6
<1>. QED BY <1>1, <1>2, <1>3, <1>6, <1>7

LEMMA ObservedMeasured ==
  ASSUME TypeInv, TypeInv', CurrentInv, MeasuredInv, Has("observer"), pc = "observing",
         UNCHANGED runs, observer' = Ingest(observer, Record), pc' \in {"idle", "remembering"},
         selfModel' = selfModel \/ selfModel' = Snapshot(observer')
  PROVE  MeasuredInv'
<1>0. PICK n, T : n = ThisRun /\ T = Taken \cup {n}
  OBVIOUS
<1>1. /\ Taken' = T /\ n \in Nat /\ n \notin Taken /\ \A i \in Taken : i < n
      /\ runs[n].class = task.class /\ runs[n].outcome = outcome /\ outcome \in Outcomes
  BY <1>0, TakenIn
<1>2. Taken \in SUBSET Nat /\ IsFiniteSet(Taken) /\ Cardinality(Taken) \in Nat
  BY TakenFacts
<1>3. T \in SUBSET Nat /\ IsFiniteSet(T) /\ Cardinality(T) = Cardinality(Taken) + 1
  BY <1>0, <1>1, <1>2, FS_AddElement
<1>4. /\ Cardinality(Taken) = observer.total /\ selfModel.builtAt <= observer.total
      /\ \A c \in TaskClasses :
            /\ HoldsLast(observer.outcomes[c], OfClass(Taken, c))
            /\ selfModel.caps[c].known => RestsOn(c, Basis(Taken, c))
  BY DEF MeasuredInv
<1>5. /\ observer'.total = observer.total + 1
      /\ observer'.outcomes
          = [observer.outcomes EXCEPT ![task.class] = Push(@, outcome, OutcomeWindow)]
  BY DEF Ingest, Record
<1>6. /\ observer.outcomes \in [TaskClasses -> Seq(Outcomes)]
      /\ observer'.outcomes \in [TaskClasses -> Seq(Outcomes)]
      /\ selfModel.builtAt \in Nat /\ task.class \in TaskClasses
  BY DEF TypeInv, TypeOK, StoresOK, LocalsOK, Observers, SelfModels, Tasks
<1>7. ASSUME NEW c PROVE OfClass(T, c) = IF c = task.class THEN OfClass(Taken, c) \cup {n}
                                         ELSE OfClass(Taken, c)
  BY <1>0, <1>1 DEF OfClass
<1>8. ASSUME NEW c PROVE /\ OfClass(Taken, c) \in SUBSET Nat /\ IsFiniteSet(OfClass(Taken, c))
                         /\ \A i \in OfClass(Taken, c) : i < n
                         /\ OfClass(T, c) \in SUBSET Nat /\ IsFiniteSet(OfClass(T, c))
  <2>1. OfClass(Taken, c) \in SUBSET Taken /\ OfClass(T, c) \in SUBSET T
    BY DEF OfClass
  <2>. QED BY <1>1, <1>2, <1>3, <2>1, FS_Subset
<1>9. ASSUME NEW c \in TaskClasses PROVE HoldsLast(observer'.outcomes[c], OfClass(T, c))
  <2>1. HoldsLast(observer.outcomes[c], OfClass(Taken, c)) /\ observer.outcomes[c] \in Seq(Outcomes)
    BY <1>4, <1>6
  <2>2. CASE c = task.class
    <3>1. observer'.outcomes[c] = Push(observer.outcomes[c], runs[n].outcome, OutcomeWindow)
      BY <1>1, <1>5, <1>6, <2>2
    <3>2. HoldsLast(Push(observer.outcomes[c], runs[n].outcome, OutcomeWindow),
                    OfClass(Taken, c) \cup {n})
      BY <1>1, <1>8, <2>1, PushHolds
    <3>. QED BY <1>7, <2>2, <3>1, <3>2
  <2>3. CASE c # task.class
    BY <1>5, <1>6, <1>7, <2>1, <2>3
  <2>. QED BY <2>2, <2>3
<1>10. ASSUME NEW c \in TaskClasses, selfModel'.caps[c].known
       PROVE  RestsOn(c, Basis(T, c))'
  <2>1. CASE selfModel' = selfModel
    <3>1. Earliest(T, selfModel.builtAt) = Earliest(Taken, selfModel.builtAt)
      <4>1. selfModel.builtAt <= Cardinality(Taken)
        BY <1>4
      <4>2. T = Taken \cup {n} /\ n \in Nat /\ \A i \in Taken : i < n
        BY <1>0, <1>1
      <4>. QED BY <1>2, <1>6, <4>1, <4>2, EarliestStable
    <3>2. Basis(T, c) = Basis(Taken, c)
      BY <3>1 DEF Basis
    <3>3. RestsOn(c, Basis(T, c))
      BY <1>4, <1>10, <2>1, <3>2
    <3>. QED BY <1>1, <2>1, <3>3 DEF RestsOn, Successes, Basis, OfClass, Latest, Earliest
  <2>2. CASE selfModel' = Snapshot(observer')
    <3> DEFINE buffer == observer'.outcomes[c]
               M == Latest(OfClass(T, c), OutcomeWindow)
    <3>1. /\ selfModel'.builtAt = Cardinality(T)
          /\ buffer # <<>> /\ selfModel'.caps[c].rate = Rate(Wins(buffer), Len(buffer))
      BY <1>3, <1>4, <1>5, <1>10, <2>2 DEF Snapshot, WinRate
    <3>2. buffer \in Seq(Outcomes)
      BY <1>6
    <3>3. /\ Cardinality(M) = Len(buffer) /\ Cardinality(Successes(M)) = Wins(buffer)
      BY <1>8, <1>9, <3>2, BufferCounts
    <3>4. M # {}
      <4>1. Len(buffer) # 0
        BY <3>1, <3>2, EmptySeq
      <4>. QED BY <3>3, <4>1, FS_EmptySet
    <3>5. Basis(T, c)' = M
      <4>1. Earliest(T, selfModel'.builtAt) = T
        BY <1>3, <3>1, EarliestAll
      <4>. QED BY <4>1 DEF Basis, Latest, OfClass, Earliest
    <3>. QED BY <3>1, <3>3, <3>4, <3>5 DEF RestsOn, Successes
  <2>. QED BY <2>1, <2>2
<1>11. selfModel'.builtAt <= observer'.total
  BY <1>2, <1>4, <1>5, <1>6 DEF Snapshot
<1>12. ASSUME NEW c \in TaskClasses PROVE HoldsLast(observer.outcomes[c], OfClass(T, c))'
  <2>1. OfClass(T, c)' = OfClass(T, c)
    BY DEF OfClass
  <2> DEFINE S == OfClass(T, c)  b == observer'.outcomes[c]
  <2>2. PICK q : /\ Enumerates(q, S) /\ Len(b) = AtMost(OutcomeWindow, Cardinality(S))
                 /\ \A k \in 1 .. Len(b) :
                      b[k] = runs[q[Cardinality(S) - Len(b) + k]].outcome
    BY <1>9 DEF HoldsLast
  <2> HIDE DEF S, b
  <2>3. /\ Enumerates(q, S') /\ Len(b) = AtMost(OutcomeWindow, Cardinality(S'))
        /\ \A k \in 1 .. Len(b) : b[k] = runs'[q[Cardinality(S') - Len(b) + k]].outcome
    BY <2>1, <2>2 DEF S
  <2>. QED BY <2>3 DEF HoldsLast, Enumerates, S, b
<1>. QED BY <1>1, <1>3, <1>4, <1>5, <1>10, <1>11, <1>12 DEF MeasuredInv

LEMMA MeasuresKept == Spec => []MeasuredInv
<1>1. Init => MeasuredInv
  <2> SUFFICES ASSUME Init PROVE MeasuredInv
    OBVIOUS
  <2>1. runs = <<>> /\ selfModel = DefaultSelfModel /\ observer = NewObserver /\ pc = "idle"
    BY DEF Init
  <2>2. Taken = {}
    <3>1. Known = 0
      BY <2>1, EmptySeq DEF Known, ThisRun
    <3>. QED BY <3>1 DEF Taken
  <2>3. \A c \in TaskClasses : ~selfModel.caps[c].known /\ observer.outcomes[c] = <<>>
    BY <2>1 DEF DefaultSelfModel, NewObserver
  <2>4. observer.total = 0 /\ selfModel.builtAt = 0 /\ Cardinality({}) = 0
    BY <2>1, FS_EmptySet DEF DefaultSelfModel, NewObserver
  <2>5. HoldsLast(<<>>, {})
    <3>1. Len(<<>>) = 0 /\ AtMost(OutcomeWindow, 0) = 0
      BY EmptySeq, ObserverConfig DEF AtMost
    <3>2. Enumerates([k \in 1 .. 0 |-> k], {})
      BY <2>4 DEF Enumerates
    <3>. QED BY <2>4, <3>1, <3>2 DEF HoldsLast
  <2>6. ASSUME NEW c PROVE OfClass(Taken, c) = {}
    BY <2>2 DEF OfClass
  <2>7. Cardinality(Taken) = observer.total /\ selfModel.builtAt <= observer.total
    BY <2>2, <2>4
  <2>8. \A c \in TaskClasses : HoldsLast(observer.outcomes[c], OfClass(Taken, c))
    BY <2>3, <2>5, <2>6
  <2>. QED BY <2>3, <2>7, <2>8 DEF MeasuredInv
<1>2. TypeInv /\ CurrentInv /\ MeasuredInv /\ [Next]_vars => MeasuredInv'
  <2> SUFFICES ASSUME TypeInv, CurrentInv, MeasuredInv, [Next]_vars PROVE MeasuredInv'
    OBVIOUS
  <2>0. ThisRun \in Nat /\ Known \in Int /\ Known <= ThisRun
    BY TakenFacts
  \* A step that only adds runs without an outcome.
  <2>1. ASSUME UNCHANGED <<selfModel, observer>>, Known' \in Int, Known <= Known',
               \A i \in 1 .. Known : runs'[i] = runs[i],
               \A i \in (Known + 1) .. Known' : runs'[i].outcome = "none"
        PROVE  MeasuredInv'
    <3>1. \A i \in 1 .. Known' : i \in 1 .. Known \/ i \in (Known + 1) .. Known'
      BY <2>0, <2>1
    <3>2. \A i \in 1 .. Known : i \in 1 .. Known'
      BY <2>0, <2>1
    <3>3. Taken' = Taken
      BY <2>1, <3>1, <3>2 DEF Taken
    <3>4. \A i \in Taken : runs'[i] = runs[i]
      BY <2>1 DEF Taken
    <3>. QED BY <2>1, <3>3, <3>4, MeasuredFrame
  <2>2. ASSUME NEW t \in Requests, Admit(t) PROVE MeasuredInv'
    <3>1. pc = "idle" /\ pc' = "planning" /\ UNCHANGED <<selfModel, observer>>
      BY <2>2 DEF Admit
    <3>2. Known = ThisRun /\ Known' = ThisRun
      <4>1. ThisRun' = ThisRun + 1
        BY <2>2, Admitted
      <4>. QED BY <2>0, <3>1, <4>1 DEF Known
    <3>3. \A i \in (Known + 1) .. Known' : FALSE
      BY <2>0, <3>2
    <3>. QED BY <2>0, <2>1, <2>2, <3>1, <3>2, <3>3, Admitted
  <2>3. CASE \/ PlanTask \/ ReplanAfterFailure \/ ReplanAfterRejection
             \/ StepSucceeds \/ StepFails \/ BudgetExhausted \/ PlanCompleted
             \/ FirstReview \/ AcceptRejected \/ SecondReview
    <3>1. UNCHANGED <<selfModel, observer, runs>> /\ Known' = Known
      BY <2>3, BodySteps DEF stores, Known, Unsettled, ThisRun
    <3>2. \A i \in (Known + 1) .. Known' : FALSE
      BY <2>0, <3>1
    <3>. QED BY <2>0, <2>1, <3>1, <3>2
  <2>4. CASE SettleRouting
    <3>1. UNCHANGED <<selfModel, observer>> /\ Known = ThisRun - 1 /\ Known' = ThisRun' - 1
      BY <2>4 DEF SettleRouting, Known
    <3>2. ThisRun' = ThisRun /\ \A i \in 1 .. Known : runs'[i] = runs[i]
      BY <2>4, <3>1, SettledEntry
    <3>3. \A i \in (Known + 1) .. Known' : FALSE
      BY <2>0, <3>1, <3>2
    <3>. QED BY <2>0, <2>1, <3>1, <3>2, <3>3
  <2>5. CASE Observe \/ ObserveSinkFails
    <3>1. pc = "observing" /\ pc' \in {"idle", "remembering"} /\ UNCHANGED runs
      BY <2>5 DEF Observe, ObserveSinkFails, Leave, history
    <3>2. CASE Has("observer")
      <4>1. observer' = Ingest(observer, Record)
            /\ (selfModel' = selfModel \/ selfModel' = Snapshot(observer'))
        BY <2>5, <3>2 DEF Observe, ObserveSinkFails
      <4>. QED BY <3>1, <3>2, <4>1, StaysTyped, ObservedMeasured
    <3>3. CASE ~Has("observer")
      BY <2>5, <3>3 DEF Observe, ObserveSinkFails, MeasuredInv
    <3>. QED BY <3>2, <3>3
  <2>6. CASE Remember
    <3>1. UNCHANGED <<selfModel, observer, runs>> /\ Known = ThisRun /\ Known' = ThisRun
      BY <2>6 DEF Remember, Leave, Known, ThisRun
    <3>2. \A i \in (Known + 1) .. Known' : FALSE
      BY <2>0, <3>1
    <3>. QED BY <2>0, <2>1, <3>1, <3>2
  <2>7. CASE PlanRaises
    <3>1. /\ UNCHANGED <<selfModel, observer, runs>>
          /\ Known = ThisRun - 1 /\ Known' = ThisRun /\ runs[ThisRun].outcome = "none"
      BY <2>7 DEF PlanRaises, Leave, stores, Known, ThisRun, CurrentInv, Unsettled
    <3>2. \A i \in (Known + 1) .. Known' : i = ThisRun
      BY <2>0, <3>1
    <3>. QED BY <2>0, <2>1, <3>1, <3>2
  <2>8. CASE Administration \/ UNCHANGED vars
    <3>1. UNCHANGED <<pc, selfModel, observer, runs>>
      BY <2>8, ElsewhereSteps
    <3>2. Known' = Known
      BY <3>1 DEF Known, ThisRun
    <3>3. \A i \in (Known + 1) .. Known' : FALSE
      BY <2>0, <3>2
    <3>. QED BY <2>0, <2>1, <3>1, <3>2, <3>3
  <2>. QED BY NextCases, <2>2, <2>3, <2>4, <2>5, <2>6, <2>7, <2>8
<1>. QED BY <1>1, <1>2, AlwaysTyped, CurrentKept, PTL DEF Spec

\* "Measured, never asserted": a win rate of the Self-Model is that of the last runs of
\* its class, as callers saw them, that telemetry knew when the model was built.
THEOREM AlwaysMeasured == Spec => []SelfModelMeasured
<1>1. TypeInv /\ CurrentInv /\ MeasuredInv => SelfModelMeasured
  <2> SUFFICES ASSUME TypeInv, CurrentInv, MeasuredInv,
                      NEW c \in TaskClasses, selfModel.caps[c].known
               PROVE  RestsOn(c, MeasuredRuns(c))
    BY DEF SelfModelMeasured, RestsOn
  <2>1. /\ Cardinality(Taken) = observer.total /\ selfModel.builtAt <= observer.total
        /\ RestsOn(c, Basis(Taken, c))
    BY DEF MeasuredInv
  <2>2. selfModel.builtAt \in Nat /\ selfModel.builtAt <= Cardinality(Taken)
    BY <2>1 DEF TypeInv, TypeOK, StoresOK, SelfModels
  <2>3. Earliest(SettledRuns, selfModel.builtAt) = Earliest(Taken, selfModel.builtAt)
    <3>1. DOMAIN runs = 1 .. ThisRun /\ ThisRun \in Nat
      BY RunsType
    <3>2. CASE pc \in {"idle", "remembering"}
      BY <3>1, <3>2 DEF SettledRuns, Taken, Known
    <3>3. ASSUME pc \notin {"idle", "remembering"}
          PROVE  /\ 1 .. ThisRun = (1 .. Known) \cup {ThisRun} /\ Known = ThisRun - 1
                 /\ ThisRun >= 1
      <4>1. Known = ThisRun - 1 /\ ThisRun >= 1
        BY <3>3 DEF Known, CurrentInv
      <4>. QED BY <3>1, <4>1
    <3>4. CASE Unsettled
      <4>1. runs[ThisRun].outcome = "none" /\ pc \notin {"idle", "remembering"}
        BY <3>4 DEF CurrentInv, Unsettled
      <4>. QED BY <3>1, <3>3, <4>1 DEF SettledRuns, Taken
    <3>5. CASE pc = "observing"
      <4>1. runs[ThisRun].outcome # "none"
        BY <3>5 DEF CurrentInv, TypeInv, AttemptEnded, Outcomes
      <4>2. SettledRuns = Taken \cup {ThisRun}
        BY <3>1, <3>3, <3>5, <4>1 DEF SettledRuns, Taken
      <4>3. \A i \in Taken : i < ThisRun
        BY <3>1, <3>3, <3>5 DEF Taken
      <4>4. Taken \in SUBSET Nat /\ IsFiniteSet(Taken)
        BY TakenFacts
      <4>. QED BY <2>2, <3>1, <4>2, <4>3, <4>4, EarliestStable
    <3>. QED BY <3>2, <3>4, <3>5 DEF TypeInv, TypeOK, LocalsOK, Unsettled
  <2>4. MeasuredRuns(c) = Basis(Taken, c)
    BY <2>3 DEF MeasuredRuns, Basis
  <2>. QED BY <2>1, <2>4
<1>. QED BY <1>1, AlwaysTyped, CurrentKept, MeasuresKept, PTL

-----------------------------------------------------------------------------
(* The retry protocol *)

\* The strengthening: an attempt has no outcome while it runs, the one retry after a
\* review is taken after a review, and what is rejected and may be retried did not fail.
RetryInv ==
  /\ pc = "executing" => outcome = "none"
  /\ verdict = "unscored" => ~retried
  /\ pc = "rejected" => ~retried /\ ~(outcome = "failure" /\ MayReplan)

LEMMA RetryKept == Spec => []RetryInv
<1>1. Init => RetryInv
  BY DEF Init, RetryInv
<1>2. TypeInv /\ ChainInv /\ ScoredInv /\ RetryInv /\ [Next]_vars => RetryInv'
  <2> SUFFICES ASSUME TypeInv, ChainInv, ScoredInv, RetryInv, [Next]_vars PROVE RetryInv'
    OBVIOUS
  <2>1. CASE PlanTask \/ ReplanAfterFailure \/ ReplanAfterRejection
    <3>1. PICK p \in Plans : Execute(p) /\ LinearChain(p.steps)
      BY <2>1, FirstPlanChain, NextPlanChain DEF ReplanAfterFailure, ReplanAfterRejection
    <3>2. pc' = "executing"
      BY <3>1, ExecuteChain
    <3>3. outcome' = "none"
      BY <3>1, <3>2 DEF Execute
    <3>4. verdict' = verdict
      BY <2>1 DEF PlanTask, ReplanAfterFailure, ReplanAfterRejection, review
    <3>5. verdict' = "unscored" => ~retried'
      <4>1. CASE PlanTask \/ ReplanAfterFailure
        <5>1. retried' = retried
          BY <4>1 DEF PlanTask, ReplanAfterFailure, review
        <5>. QED BY <3>4, <5>1 DEF RetryInv
      <4>2. CASE ReplanAfterRejection
        <5>1. verdict = "rejected"
          BY <4>2 DEF ReplanAfterRejection, ScoredInv
        <5>. QED BY <3>4, <5>1
      <4>. QED BY <2>1, <4>1, <4>2
    <3>. QED BY <3>2, <3>3, <3>5 DEF RetryInv
  <2>2. CASE StepSucceeds \/ StepFails \/ BudgetExhausted \/ PlanCompleted
    <3>1. UNCHANGED <<verdict, retried>> /\ pc' \in {"executing", "stopped"}
          /\ (pc' = "executing" => outcome' = outcome /\ pc = "executing")
      BY <2>2 DEF StepSucceeds, StepFails, BudgetExhausted, PlanCompleted, Executing, Stop, review
    <3>. QED BY <3>1 DEF RetryInv
  <2>3. CASE FirstReview
    <3>1. verdict = "unscored" /\ ~(outcome = "failure" /\ MayReplan)
          /\ UNCHANGED <<outcome, replans, results, retried>>
          /\ pc' \in {"rejected", "settling"}
      BY <2>3 DEF FirstReview, Reviewing, attempt
    <3>2. ~retried'
      BY <3>1 DEF RetryInv
    <3>. QED BY <3>1, <3>2 DEF RetryInv, MayReplan
  <2>4. CASE SecondReview
    <3>1. pc' = "settling" /\ verdict' # "unscored"
      BY <2>4 DEF SecondReview, Verify
    <3>. QED BY <3>1 DEF RetryInv
  <2>5. CASE (\E t \in Requests : Admit(t)) \/ AcceptRejected \/ SettleRouting \/ Observe
    <3>1. UNCHANGED <<verdict, retried>> /\ pc' \notin {"executing", "rejected"}
      BY <2>5 DEF Admit, AcceptRejected, SettleRouting, Observe, review, locals
    <3>. QED BY <3>1 DEF RetryInv
  <2>6. CASE ObserveSinkFails \/ Remember \/ PlanRaises
    <3>1. pc' = "idle" /\ ~retried'
      BY <2>6, Zenon DEF ObserveSinkFails, Remember, PlanRaises, Leave
    <3>. QED BY <3>1 DEF RetryInv
  <2>7. CASE Administration
    <3>1. UNCHANGED <<pc, outcome, verdict, replans, results, retried>>
      BY <2>7 DEF Administration, RegisterProcedure, UpdateProcedure, UseProcedure,
                  PromoteProcedure, RetireProcedure, Administer, locals
    <3>. QED BY <3>1 DEF RetryInv, MayReplan
  <2>8. CASE UNCHANGED vars
    BY <2>8 DEF vars, locals, RetryInv, MayReplan
  <2>. QED BY NextCases, <2>1, <2>2, <2>3, <2>4, <2>5, <2>6, <2>7, <2>8
<1>. QED BY <1>1, <1>2, AlwaysTyped, ChainsKept, ReviewsScored, PTL DEF Spec

\* Every call of the Executor starts an attempt of the protocol.
LEMMA StartsAttempt ==
  ASSUME TypeInv, NEW p \in Plans, LinearChain(p.steps), Execute(p),
         pc # "idle", attempts <= MaxReplans, UNCHANGED runs
  PROVE  Retry!StartAttempt
<1>1. pc' = "executing"
  BY ExecuteChain
<1>2. outcome' = "none"
  BY <1>1 DEF Execute
<1>3. attempts \in Nat /\ MaxReplans \in Nat
  BY RuntimeConfig DEF TypeInv, TypeOK, HistoryOK
<1>4. attempts' = attempts + 1
  BY <1>3, LastAttemptCounted
<1>5. attempts < MaxReplans + 1
  BY <1>3
<1>. QED BY <1>1, <1>2, <1>4, <1>5 DEF Retry!StartAttempt

\* Leaving run() ends the service of a task.
LEMMA LeaveEnds ==
  ASSUME TypeInv, AttemptInv, Leave, pc # "idle", outcome # "none" \/ pc = "planning", UNCHANGED runs
  PROVE  Retry!End
<1>1. pc' = "idle" /\ attempts' = 0 /\ outcome' = "none" /\ ~retried'
  BY Zenon DEF Leave
<1>2. retried' = FALSE
  BY Zenon DEF Leave
<1>3. Len(runs) \in Nat
  BY LenProperties DEF TypeInv, TypeOK, HistoryOK
<1>4. outcome # "none" \/ attempts = 0
  BY DEF AttemptInv, Before
<1>. QED BY <1>1, <1>2, <1>3, <1>4 DEF Retry!End

\* Every step of the runtime is a step of the protocol or none at all.
LEMMA StepsOfProtocol ==
  ASSUME TypeInv, AttemptInv, ChainInv, RetryInv, [Next]_vars
  PROVE  [Retry!Next]_(Retry!vars)
<1>0. replans \in Nat /\ attempts \in Nat /\ MaxReplans \in Nat
  BY RuntimeConfig DEF TypeInv, TypeOK, LocalsOK, HistoryOK
<1>1. CASE \E t \in Requests : Admit(t)
  <2>1. PICK t \in Requests : Admit(t)
    BY <1>1
  <2>2. pc = "idle" /\ pc' = "planning" /\ UNCHANGED <<attempts, outcome, retried>>
    BY <2>1 DEF Admit, attempt, review
  <2>3. Len(runs) \in Nat /\ Len(runs') = Len(runs) + 1
    <3>1. runs' = Append(runs, [class |-> t.class, outcome |-> "none"])
      BY <2>1 DEF Admit
    <3>2. t \in Tasks
      BY RuntimeConfig
    <3>3. [class |-> t.class, outcome |-> "none"] \in [class : TaskClasses, outcome : Outcomes \cup {"none"}]
      BY <3>2 DEF Tasks
    <3>. QED BY <3>1, <3>3, LenProperties, AppendProperties DEF TypeInv, TypeOK, HistoryOK
  <2>4. Retry!Begin
    BY <2>2, <2>3 DEF Retry!Begin
  <2>. QED BY <2>4 DEF Retry!Next
<1>2. CASE PlanTask
  <2>1. PICK p \in Plans : Execute(p) /\ LinearChain(p.steps)
    BY <1>2, FirstPlanChain
  <2>2. pc = "planning" /\ UNCHANGED <<runs, retried>>
    BY <1>2 DEF PlanTask, review
  <2>3. attempts = 0
    BY <2>2 DEF AttemptInv, Before
  <2>4. Retry!StartAttempt
    BY <1>0, <2>1, <2>2, <2>3, StartsAttempt
  <2>. QED BY <2>2, <2>3, <2>4 DEF Retry!Next, Retry!FirstAttempt
<1>3. CASE ReplanAfterFailure
  <2>1. PICK p \in Plans : Execute(p) /\ LinearChain(p.steps)
    BY <1>3, NextPlanChain DEF ReplanAfterFailure
  <2>2. pc = "stopped" /\ outcome = "failure" /\ replans < MaxReplans
        /\ UNCHANGED <<runs, retried>> /\ verdict = "unscored"
    BY <1>3 DEF ReplanAfterFailure, MayReplan, review
  <2>3. attempts <= MaxReplans
    BY <1>0, <2>2 DEF AttemptInv, Before
  <2>4. Retry!StartAttempt
    BY <2>1, <2>2, <2>3, StartsAttempt
  <2>5. ~retried
    BY <2>2 DEF RetryInv
  <2>. QED BY <2>2, <2>4, <2>5 DEF Retry!Next, Retry!RetryFailure
<1>4. CASE ReplanAfterRejection
  <2>1. PICK p \in Plans : Execute(p) /\ LinearChain(p.steps)
    BY <1>4, NextPlanChain DEF ReplanAfterRejection
  <2>2. pc = "rejected" /\ MayReplan /\ replans < MaxReplans /\ UNCHANGED runs
    BY <1>4 DEF ReplanAfterRejection, MayReplan
  <2>3. retried' = TRUE
    BY <1>4 DEF ReplanAfterRejection
  <2>4. attempts <= MaxReplans
    BY <1>0, <2>2 DEF AttemptInv, Before
  <2>5. Retry!StartAttempt
    BY <2>1, <2>2, <2>4, StartsAttempt
  <2>6. ~retried /\ outcome # "failure"
    BY <2>2 DEF RetryInv
  <2>7. outcome \in {"success", "partial"}
    BY <2>2, <2>6 DEF TypeInv, AttemptEnded, Outcomes
  <2>. QED BY <2>3, <2>5, <2>6, <2>7 DEF Retry!Next, Retry!SendBack
<1>5. CASE StepSucceeds \/ StepFails \/ BudgetExhausted \/ PlanCompleted
  <2>1. pc = "executing" /\ UNCHANGED <<runs, attempts, retried>>
        /\ \/ pc' = "executing" /\ outcome' = outcome
           \/ pc' = "stopped" /\ outcome' \in {"success", "partial", "failure"}
    BY <1>5 DEF StepSucceeds, StepFails, BudgetExhausted, PlanCompleted, Executing, Stop, review
  <2>2. outcome = "none" /\ attempts > 0
    BY <1>0, <2>1 DEF RetryInv, AttemptInv, Before
  <2>. QED BY <2>1, <2>2 DEF Retry!Next, Retry!EndAttempt, Retry!vars
<1>6. CASE FirstReview \/ AcceptRejected \/ SecondReview
  <2>1. pc # "idle" /\ pc' # "idle" /\ UNCHANGED <<runs, attempts, outcome, retried>>
    BY <1>6 DEF FirstReview, AcceptRejected, SecondReview, Reviewing, locals, attempt, history
  <2>. QED BY <2>1 DEF Retry!vars
<1>7. CASE SettleRouting \/ Observe
  <2>1. pc # "idle" /\ pc' # "idle" /\ UNCHANGED <<attempts, outcome, retried>>
    BY <1>7 DEF SettleRouting, Observe, locals, history
  <2>2. Len(runs') = Len(runs)
    <3>1. runs' = runs \/ runs' = [runs EXCEPT ![ThisRun].outcome = outcome]
      BY <1>7 DEF SettleRouting, Observe, history
    <3>2. runs \in Seq([class : TaskClasses, outcome : Outcomes \cup {"none"}])
          /\ outcome \in Outcomes
      BY <1>7 DEF SettleRouting, Observe, TypeInv, TypeOK, HistoryOK, AttemptEnded
    <3>3. runs \in [1 .. Len(runs) -> [class : TaskClasses, outcome : Outcomes \cup {"none"}]]
          /\ Len(runs) \in Nat
      BY <3>2, LenProperties
    <3>4. runs' \in [1 .. Len(runs) -> [class : TaskClasses, outcome : Outcomes \cup {"none"}]]
      BY <3>1, <3>2, <3>3
    <3>5. runs' \in Seq([class : TaskClasses, outcome : Outcomes \cup {"none"}])
      BY <3>3, <3>4, SeqDef
    <3>. QED BY <3>3, <3>4, <3>5, LenProperties
  <2>. QED BY <2>1, <2>2 DEF Retry!vars
<1>8. CASE ObserveSinkFails \/ Remember
  <2>1. Leave /\ pc # "idle" /\ AttemptEnded /\ UNCHANGED runs
    BY <1>8 DEF ObserveSinkFails, Remember, AttemptEnded
  <2>2. outcome # "none"
    BY <2>1 DEF TypeInv, Outcomes
  <2>3. Retry!End
    BY <2>1, <2>2, LeaveEnds
  <2>. QED BY <2>3 DEF Retry!Next
<1>9. CASE PlanRaises
  <2>1. Leave /\ pc = "planning" /\ UNCHANGED runs
    BY <1>9 DEF PlanRaises
  <2>2. Retry!End
    BY <2>1, LeaveEnds
  <2>. QED BY <2>2 DEF Retry!Next
<1>10. CASE Administration \/ UNCHANGED vars
  <2>1. UNCHANGED <<pc, runs, attempts, outcome, retried>>
    BY <1>10 DEF Administration, RegisterProcedure, UpdateProcedure, UseProcedure,
                 PromoteProcedure, RetireProcedure, Administer, locals, history, vars
  <2>. QED BY <2>1 DEF Retry!vars
<1>. QED BY NextCases, <1>1, <1>2, <1>3, <1>4, <1>5, <1>6, <1>7, <1>8, <1>9, <1>10

\* Whatever its collaborators do, run() deals with a task as the retry protocol says:
\* the safety part of ImplementsRetryProtocol.
THEOREM ImplementsProtocolSafely == Spec => Retry!Spec
<1>1. Init => Retry!Init
  <2> SUFFICES ASSUME Init PROVE Retry!Init
    OBVIOUS
  <2>1. pc = "idle" /\ attempts = 0 /\ outcome = "none" /\ retried = FALSE /\ runs = <<>>
    BY Zenon DEF Init
  <2>2. Len(runs) = 0
    BY <2>1, EmptySeq
  <2>. QED BY <2>1, <2>2 DEF Retry!Init
<1>. QED BY <1>1, StepsOfProtocol, AlwaysTyped, AttemptsCounted, ChainsKept, RetryKept, PTL
         DEF Spec, Retry!Spec
=============================================================================
