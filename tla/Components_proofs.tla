---------------------------- MODULE Components_proofs ----------------------------
(***************************************************************************)
(* What the operations of the Planner, the Router, the Observer and        *)
(* Procedural Memory return, for every configuration and every argument:   *)
(* the values AxisRuntime keeps, and for plans that they stay linear       *)
(* chains.                                                                 *)
(***************************************************************************)
EXTENDS TelemetryObserver, ProceduralMemory, Admission_proofs,
        SequenceTheorems, FiniteSetTheorems

-----------------------------------------------------------------------------
(* Sequences *)

LEMMA SeqFromFunction ==
  ASSUME NEW S, NEW n \in Nat, NEW f \in [1 .. n -> S]
  PROVE  f \in Seq(S)
BY SeqDef

LEMMA PushType ==
  ASSUME NEW S, NEW buffer \in Seq(S), NEW x \in S, NEW window \in Nat \ {0}
  PROVE  Push(buffer, x, window) \in Seq(S)
BY AppendProperties, HeadTailProperties DEF Push

-----------------------------------------------------------------------------
(* Plans *)

LEMMA OrderType ==
  ASSUME NEW S, NEW steps \in Seq(S), NEW o \in TopologicalOrders(steps)
  PROVE  /\ o \in [1 .. Len(steps) -> 1 .. Len(steps)]
         /\ o \in Seq(Nat) /\ Len(o) = Len(steps)
         /\ IsInjective(o) /\ Respects(steps, o)
<1>1. DOMAIN steps = 1 .. Len(steps) /\ Len(steps) \in Nat
  BY LenProperties
<1>2. o \in Injection(DOMAIN steps, DOMAIN steps) /\ Respects(steps, o)
  BY Zenon DEF TopologicalOrders, DependencyOrders
<1>3. o \in [1 .. Len(steps) -> 1 .. Len(steps)] /\ IsInjective(o)
  BY <1>1, <1>2, Zenon DEF Injection
<1>4. o \in [1 .. Len(steps) -> Nat]
  BY <1>3
<1>5. o \in Seq(Nat)
  BY <1>1, <1>4, SeqFromFunction
<1>6. Len(o) = Len(steps)
  BY <1>1, <1>4, <1>5, LenProperties
<1>. QED BY <1>2, <1>3, <1>5, <1>6

LEMMA ChainType ==
  ASSUME NEW actions \in Seq(Actions), NEW cap \in Nat
  PROVE  Chain(actions, cap) \in Seq(PlanStep)
<1> DEFINE step(i) == [id |-> i, action |-> actions[i],
                       deps |-> IF i = 1 THEN <<>> ELSE <<i - 1>>, cap |-> cap]
<1>1. Len(actions) \in Nat
  BY LenProperties
<1>2. ASSUME NEW i \in 1 .. Len(actions) PROVE step(i) \in PlanStep
  <2>1. actions[i] \in Actions
    BY ElementOfSeq
  <2>2. (IF i = 1 THEN <<>> ELSE <<i - 1>>) \in Seq(Nat)
    BY <1>1
  <2>. QED BY <1>1, <2>1, <2>2 DEF PlanStep, Steps
<1>3. Chain(actions, cap) = [i \in 1 .. Len(actions) |-> step(i)]
  BY DEF Chain
<1> HIDE DEF step
<1>4. Chain(actions, cap) \in [1 .. Len(actions) -> PlanStep]
  BY <1>2, <1>3
<1>. QED BY <1>1, <1>4, SeqFromFunction

LEMMA PhasesType ==
  ASSUME NEW strategy, NEW retrievalOpen
  PROVE  Phases(strategy, retrievalOpen) \in Seq(Actions)
<1>1. <<"retrieve_context">> \in Seq(Actions) /\ <<"invoke_primary_tool">> \in Seq(Actions)
      /\ <<"reason_about_task", "produce_final_answer">> \in Seq(Actions)
      /\ <<>> \in Seq(Actions)
  BY DEF Actions, DefaultActions
<1>. QED BY <1>1, ConcatProperties DEF Phases

LEMMA PerStepTokensType ==
  ASSUME NEW t \in Nat, NEW n \in Nat
  PROVE  PerStepTokens(t, n) \in Nat
<1> DEFINE m == IF n = 0 THEN 1 ELSE n
<1>1. m \in Nat /\ m > 0
  OBVIOUS
<1>2. PerStepTokens(t, n) = IF t \div m < MinStepTokens THEN MinStepTokens ELSE t \div m
  BY DEF PerStepTokens
<1>3. t \div m \in Nat
  <2> HIDE DEF m
  <2>. QED BY <1>1
<1>. QED BY <1>2, <1>3, PlannerConfig

LEMMA MakePlanType ==
  ASSUME NEW task \in Tasks, NEW selfModel \in SelfModels, NEW template \in Templates,
         ~Malformed(template), NEW t \in Nat, NEW retrievalOpen
  PROVE  MakePlan(task, selfModel, template, t, retrievalOpen) \in Plans
<1>1. ChooseStrategy(task, selfModel) \in Strategies
  <2>1. selfModel.caps[task.class] \in Capabilities
    BY DEF SelfModels, Tasks
  <2>2. /\ selfModel.caps[task.class].best \in Strategies \cup {"none"}
        /\ selfModel.leader \in Strategies \cup {"none"}
    BY <2>1 DEF Capabilities, SelfModels
  <2>. QED BY <2>2 DEF ChooseStrategy, HistoricalBest, Strategies
<1>2. ASSUME NEW s PROVE DefaultDecomposition(s, t, retrievalOpen) \in Seq(PlanStep)
  <2>1. Len(Phases(s, retrievalOpen)) \in Nat
    BY PhasesType, LenProperties
  <2>. QED BY <2>1, PhasesType, PerStepTokensType, ChainType DEF DefaultDecomposition
<1>3. InstantiateTemplate(template, t) \in Seq(PlanStep)
  <2>1. template.actions \in Seq(TemplateActions \cup {"missing"})
    BY DEF Templates
  <2>2. /\ Len(template.actions) \in Nat
        /\ template.actions \in [1 .. Len(template.actions) -> TemplateActions \cup {"missing"}]
    BY <2>1, LenProperties
  <2>3. template.actions \in [1 .. Len(template.actions) -> Actions]
    BY <2>2 DEF Malformed, Actions
  <2>4. template.actions \in Seq(Actions)
    BY <2>2, <2>3, SeqFromFunction
  <2>. QED BY <2>2, <2>4, PerStepTokensType, ChainType DEF InstantiateTemplate
<1>4. template.source \in Nat
  BY DEF Templates
<1>. QED BY <1>1, <1>2, <1>3, <1>4 DEF MakePlan, Plans

LEMMA ReplanType ==
  ASSUME NEW plan \in Plans, NEW failed, NEW fresh \in Nat
  PROVE  Replan(plan, failed, fresh) \in Plans
<1> DEFINE n == Len(plan.steps)
           new == [i \in DOMAIN plan.steps |-> ReplaceStep(plan.steps[i], failed, fresh)]
<1>1. plan.steps \in Seq(PlanStep) /\ plan.strategy \in Strategies /\ plan.source \in Nat
  BY DEF Plans
<1>2. n \in Nat /\ DOMAIN plan.steps = 1 .. n
  BY <1>1, LenProperties
<1>3. ASSUME NEW i \in 1 .. n PROVE ReplaceStep(plan.steps[i], failed, fresh) \in PlanStep
  <2> DEFINE s == plan.steps[i]
             deps == [k \in DOMAIN s.deps |->
                        IF s.deps[k] = failed /\ s.id # failed THEN fresh ELSE s.deps[k]]
  <2>1. s \in PlanStep
    BY <1>1, ElementOfSeq
  <2>2. s.deps \in Seq(Nat) /\ s.id \in Nat
    BY <2>1 DEF PlanStep, Steps
  <2>3. Len(s.deps) \in Nat /\ s.deps \in [1 .. Len(s.deps) -> Nat]
    BY <2>2, LenProperties
  <2>4. deps \in [1 .. Len(s.deps) -> Nat]
    BY <2>3
  <2>5. deps \in Seq(Nat)
    BY <2>3, <2>4, SeqFromFunction
  <2>6. ReplaceStep(s, failed, fresh) =
          [s EXCEPT !.id = IF s.id = failed THEN fresh ELSE s.id, !.deps = deps]
    BY DEF ReplaceStep
  <2> HIDE DEF s, deps
  <2>7. ReplaceStep(s, failed, fresh) \in PlanStep
    BY <2>1, <2>2, <2>5, <2>6 DEF PlanStep, Steps
  <2>. QED BY <2>7 DEF s
<1>4. new \in [1 .. n -> PlanStep]
  BY <1>2, <1>3
<1>5. new \in Seq(PlanStep)
  BY <1>2, <1>4, SeqFromFunction
<1>6. AlternativeStrategy(plan.strategy) \in Strategies
  BY DEF AlternativeStrategy, Strategies
<1>7. Replan(plan, failed, fresh)
        = [plan EXCEPT !.steps = new, !.strategy = AlternativeStrategy(plan.strategy)]
  BY DEF Replan
<1> HIDE DEF new
<1>. QED BY <1>1, <1>5, <1>6, <1>7 DEF Plans

-----------------------------------------------------------------------------
(* The plans the Planner makes are linear chains *)

\* Distinct ids, every step depends on the one before and on nothing else.
LinearChain(steps) ==
  /\ \A i, j \in DOMAIN steps : steps[i].id = steps[j].id => i = j
  /\ \A i \in DOMAIN steps :
       /\ DOMAIN steps[i].deps = IF i = 1 THEN {} ELSE {1}
       /\ i # 1 => steps[i].deps[1] = steps[i - 1].id

LEMMA ChainLinear ==
  ASSUME NEW actions \in Seq(Actions), NEW cap
  PROVE  /\ LinearChain(Chain(actions, cap))
         /\ Len(Chain(actions, cap)) = Len(actions)
         /\ \A i \in DOMAIN Chain(actions, cap) : Chain(actions, cap)[i].id = i
<1>1. Len(actions) \in Nat
  BY LenProperties
<1> DEFINE n == Len(actions)
<1>2. DOMAIN Chain(actions, cap) = 1 .. n
  BY DEF Chain
<1>3. \A i \in 1 .. n : /\ Chain(actions, cap)[i].id = i
                        /\ Chain(actions, cap)[i].deps = IF i = 1 THEN <<>> ELSE <<i - 1>>
  BY DEF Chain
<1>4. Len(Chain(actions, cap)) = n
  BY <1>1 DEF Chain
<1>5. ASSUME NEW i \in 1 .. n, i # 1 PROVE Chain(actions, cap)[i - 1].id = i - 1
  <2>1. i - 1 \in 1 .. n
    BY <1>1, <1>5
  <2>. QED BY <2>1, <1>3
<1>6. ASSUME NEW i \in 1 .. n
      PROVE  /\ DOMAIN Chain(actions, cap)[i].deps = IF i = 1 THEN {} ELSE {1}
             /\ i # 1 => Chain(actions, cap)[i].deps[1] = Chain(actions, cap)[i - 1].id
  <2>1. CASE i = 1
    <3>1. Chain(actions, cap)[i].deps = <<>>
      BY <1>3, <2>1
    <3>2. DOMAIN <<>> = 1 .. 0
      BY EmptySeq, LenProperties
    <3>. QED BY <2>1, <3>1, <3>2
  <2>2. CASE i # 1
    <3>1. Chain(actions, cap)[i].deps = <<i - 1>>
      BY <1>3, <2>2
    <3>2. DOMAIN <<i - 1>> = {1} /\ <<i - 1>>[1] = i - 1
      OBVIOUS
    <3>. QED BY <1>5, <2>2, <3>1, <3>2
  <2>. QED BY <2>1, <2>2
<1>. QED BY <1>2, <1>3, <1>4, <1>6 DEF LinearChain

LEMMA PlanLinear ==
  ASSUME NEW task \in Tasks, NEW selfModel \in SelfModels, NEW template \in Templates,
         ~Malformed(template), NEW t \in Nat, NEW retrievalOpen
  PROVE  LET steps == MakePlan(task, selfModel, template, t, retrievalOpen).steps
         IN  LinearChain(steps) /\ \A i \in DOMAIN steps : steps[i].id = i
<1>1. template.actions \in Seq(Actions)
  <2>1. template.actions \in Seq(TemplateActions \cup {"missing"})
    BY DEF Templates
  <2>2. /\ Len(template.actions) \in Nat
        /\ template.actions \in [1 .. Len(template.actions) -> TemplateActions \cup {"missing"}]
    BY <2>1, LenProperties
  <2>3. template.actions \in [1 .. Len(template.actions) -> Actions]
    BY <2>2 DEF Malformed, Actions
  <2>. QED BY <2>2, <2>3, SeqFromFunction
<1>2. PICK actions \in Seq(Actions) : \E cap :
        MakePlan(task, selfModel, template, t, retrievalOpen).steps = Chain(actions, cap)
  BY <1>1, PhasesType DEF MakePlan, DefaultDecomposition, InstantiateTemplate
<1>. QED BY <1>2, ChainLinear

\* Replacing a step of a chain by a fresh one leaves a chain.
LEMMA ReplanLinear ==
  ASSUME NEW plan \in Plans, LinearChain(plan.steps), NEW failed, NEW fresh \in Nat,
         \A i \in DOMAIN plan.steps : plan.steps[i].id # fresh
  PROVE  LET new == Replan(plan, failed, fresh).steps
         IN  /\ LinearChain(new)
             /\ DOMAIN new = DOMAIN plan.steps /\ Len(new) = Len(plan.steps)
             /\ \A i \in DOMAIN new : new[i].id \in {fresh, plan.steps[i].id}
<1> DEFINE old == plan.steps
           new == Replan(plan, failed, fresh).steps
           n   == Len(old)
           id(i) == IF old[i].id = failed THEN fresh ELSE old[i].id
<1>1. old \in Seq(PlanStep) /\ DOMAIN old = 1 .. n /\ n \in Nat
  BY LenProperties DEF Plans
<1>2. new = [i \in 1 .. n |-> ReplaceStep(old[i], failed, fresh)]
  BY <1>1 DEF Replan, Plans
<1>3. DOMAIN new = 1 .. n /\ Len(new) = n
  BY <1>1, <1>2
<1>4. ASSUME NEW i \in 1 .. n
      PROVE  /\ new[i].id = id(i)
             /\ new[i].deps = [k \in DOMAIN old[i].deps |->
                               IF old[i].deps[k] = failed /\ old[i].id # failed
                               THEN fresh ELSE old[i].deps[k]]
  <2> DEFINE deps == [k \in DOMAIN old[i].deps |->
                        IF old[i].deps[k] = failed /\ old[i].id # failed
                        THEN fresh ELSE old[i].deps[k]]
  <2>1. old[i] \in PlanStep
    BY <1>1, ElementOfSeq
  <2>2. new[i] = [old[i] EXCEPT !.id = id(i), !.deps = deps]
    BY <1>2 DEF ReplaceStep
  <2> HIDE DEF deps, old, new
  <2>3. new[i].id = id(i) /\ new[i].deps = deps
    BY <2>1, <2>2 DEF PlanStep, Steps
  <2>. QED BY <2>3 DEF deps
<1>5. \A i, j \in 1 .. n : old[i].id = old[j].id => i = j
  BY <1>1 DEF LinearChain
<1>6. \A i \in 1 .. n : /\ DOMAIN old[i].deps = IF i = 1 THEN {} ELSE {1}
                        /\ i # 1 => old[i].deps[1] = old[i - 1].id
  BY <1>1 DEF LinearChain
<1> HIDE DEF new, old
<1>7. ASSUME NEW i \in 1 .. n, NEW j \in 1 .. n, new[i].id = new[j].id PROVE i = j
  BY <1>4, <1>5, <1>7, <1>1 DEF old
<1>8. ASSUME NEW i \in 1 .. n
      PROVE  /\ DOMAIN new[i].deps = IF i = 1 THEN {} ELSE {1}
             /\ i # 1 => new[i].deps[1] = new[i - 1].id
  <2>1. DOMAIN new[i].deps = IF i = 1 THEN {} ELSE {1}
    BY <1>4, <1>6
  <2>2. ASSUME i # 1 PROVE new[i].deps[1] = new[i - 1].id
    <3>1. i - 1 \in 1 .. n /\ i - 1 # i
      BY <1>1, <2>2
    <3>2. 1 \in DOMAIN old[i].deps /\ old[i].deps[1] = old[i - 1].id
      BY <1>6, <2>2
    <3>3. new[i].deps[1] = IF old[i - 1].id = failed /\ old[i].id # failed
                           THEN fresh ELSE old[i - 1].id
      <4>1. new[i].deps = [k \in DOMAIN old[i].deps |->
                             IF old[i].deps[k] = failed /\ old[i].id # failed
                             THEN fresh ELSE old[i].deps[k]]
        BY <1>4
      <4>. QED BY <3>2, <4>1
    <3>4. old[i - 1].id = failed => old[i].id # failed
      BY <1>5, <3>1
    <3>5. new[i - 1].id = id(i - 1)
      BY <1>4, <3>1
    <3>. QED BY <3>3, <3>4, <3>5
  <2>. QED BY <2>1, <2>2
<1>9. LinearChain(new)
  BY <1>3, <1>7, <1>8 DEF LinearChain
<1>10. \A i \in DOMAIN new : new[i].id \in {fresh, old[i].id}
  BY <1>3, <1>4
<1>. QED BY <1>1, <1>3, <1>9, <1>10 DEF new, old

\* A chain can be executed: the order of the plan is a topological order.
LEMMA ChainExecutable ==
  ASSUME NEW steps \in Seq(PlanStep), LinearChain(steps)
  PROVE  TopologicalOrders(steps) # {}
<1> DEFINE o == [i \in DOMAIN steps |-> i]
<1>1. DOMAIN steps = 1 .. Len(steps) /\ Len(steps) \in Nat
  BY LenProperties
<1>2. \A i \in DOMAIN steps : ~ListsTwice(steps[i])
  BY <1>1 DEF ListsTwice, IsInjective, LinearChain
<1>3. o \in Injection(DOMAIN steps, DOMAIN steps)
  BY DEF Injection, IsInjective
<1>4. Respects(steps, o)
  <2> SUFFICES ASSUME NEW k \in DOMAIN steps, NEW d \in DOMAIN steps[k].deps
               PROVE  \E j \in 1 .. (k - 1) : steps[o[j]].id = steps[k].deps[d]
    BY DEF Respects
  <2>1. k # 1 /\ d = 1 /\ steps[k].deps[1] = steps[k - 1].id
    BY DEF LinearChain
  <2>2. k - 1 \in 1 .. (k - 1) /\ k - 1 \in DOMAIN steps
    BY <1>1, <2>1
  <2>. QED BY <2>1, <2>2
<1>5. o \in DependencyOrders(steps)
  BY <1>3, <1>4 DEF DependencyOrders
<1>. QED BY <1>2, <1>5 DEF TopologicalOrders

-----------------------------------------------------------------------------
(* The Observer *)

LEMMA IngestType ==
  ASSUME NEW obs \in Observers, NEW rec \in Records
  PROVE  Ingest(obs, rec) \in Observers
<1> DEFINE outcomes == [obs.outcomes EXCEPT ![rec.class] = Push(@, rec.outcome, OutcomeWindow)]
<1>1. /\ obs.total \in Nat /\ obs.records \in Seq(Records)
      /\ obs.outcomes \in [TaskClasses -> Seq(Outcomes)]
  BY DEF Observers
<1>2. rec.class \in TaskClasses /\ rec.outcome \in Outcomes
  BY DEF Records
<1>3. Push(obs.records, rec, RecordWindow) \in Seq(Records)
  BY <1>1, PushType, ObserverConfig
<1>4. Push(obs.outcomes[rec.class], rec.outcome, OutcomeWindow) \in Seq(Outcomes)
  BY <1>1, <1>2, PushType, ObserverConfig
<1>5. outcomes \in [TaskClasses -> Seq(Outcomes)]
  BY <1>1, <1>4
<1>6. Ingest(obs, rec) = [total |-> obs.total + 1,
                          records |-> Push(obs.records, rec, RecordWindow),
                          outcomes |-> outcomes]
  BY DEF Ingest
<1> HIDE DEF outcomes
<1>. QED BY <1>1, <1>3, <1>5, <1>6 DEF Observers

\* A rate is a rate, whatever the rounding.
LEMMA RateInRange ==
  ASSUME NEW wins \in Nat, NEW n \in Nat, n > 0, wins <= n
  PROVE  Rate(wins, n) \in Rates
<1> DEFINE scaled == 10000 * wins
           q == scaled \div n
           r == scaled % n
<1>1. scaled \in Nat /\ scaled <= n * 10000
  OBVIOUS
<1>2. q \in Nat /\ r \in Nat /\ r < n /\ scaled = n * q + r
  <2> HIDE DEF scaled
  <2>. QED BY <1>1
<1>3. Rate(wins, n) = IF 2 * r > n \/ (2 * r = n /\ q % 2 = 1) THEN q + 1 ELSE q
  BY DEF Rate
<1> HIDE DEF scaled, q, r
<1>4. n * q <= n * 10000
  <2>1. n * q \in Nat /\ n * 10000 \in Nat
    BY <1>2
  <2>. QED BY <1>1, <1>2, <2>1
<1>5. q <= 10000
  <2> SUFFICES ASSUME q >= 10001 PROVE FALSE
    BY <1>2
  <2>1. n * q >= n * 10001
    BY <1>2
  <2>. QED BY <1>2, <1>4, <2>1
<1>6. CASE q < 10000
  BY <1>2, <1>3, <1>6 DEF Rates
<1>7. CASE q = 10000
  <2>1. r = 0
    BY <1>1, <1>2, <1>7
  <2>. QED BY <1>3, <1>7, <2>1 DEF Rates
<1>. QED BY <1>2, <1>5, <1>6, <1>7

\* Counting the elements of a sequence.
LEMMA CountBounds ==
  ASSUME NEW S, NEW seq \in Seq(S), NEW P \in SUBSET DOMAIN seq
  PROVE  /\ IsFiniteSet(P) /\ Cardinality(P) \in Nat
         /\ Cardinality(P) <= Len(seq)
<1>1. DOMAIN seq = 1 .. Len(seq) /\ Len(seq) \in Nat
  BY LenProperties
<1>2. IsFiniteSet(1 .. Len(seq)) /\ Cardinality(1 .. Len(seq)) = Len(seq)
  <2> DEFINE n == Len(seq)
  <2>1. n \in Int /\ n >= 0
    BY <1>1
  <2> HIDE DEF n
  <2>2. IsFiniteSet(1 .. n) /\ Cardinality(1 .. n) = IF 1 > n THEN 0 ELSE n - 1 + 1
    BY <2>1, FS_Interval
  <2>3. Cardinality(1 .. n) = n
    BY <2>1, <2>2
  <2>. QED BY <2>2, <2>3 DEF n
<1>3. IsFiniteSet(P) /\ Cardinality(P) <= Cardinality(1 .. Len(seq))
  BY <1>1, <1>2, FS_Subset
<1>. QED BY <1>2, <1>3, FS_CardinalityType

LEMMA WinRateInRange ==
  ASSUME NEW obs \in Observers, NEW c \in TaskClasses, obs.outcomes[c] # <<>>
  PROVE  WinRate(obs, c) \in Rates
<1>1. obs.outcomes[c] \in Seq(Outcomes)
  BY DEF Observers
<1>2. Len(obs.outcomes[c]) \in Nat /\ Len(obs.outcomes[c]) > 0
  BY <1>1, EmptySeq
<1>3. Wins(obs.outcomes[c]) \in Nat /\ Wins(obs.outcomes[c]) <= Len(obs.outcomes[c])
  BY <1>1, CountBounds DEF Wins
<1>. QED BY <1>2, <1>3, RateInRange DEF WinRate

LEMMA SnapshotType ==
  ASSUME NEW obs \in Observers
  PROVE  Snapshot(obs) \in SelfModels
<1> DEFINE caps(c) == IF obs.outcomes[c] = <<>>
                      THEN [known |-> FALSE, rate |-> 0, best |-> "none"]
                      ELSE [known |-> TRUE, rate |-> WinRate(obs, c),
                            best |-> BestStrategy(obs, c)]
<1>1. ASSUME NEW c PROVE BestStrategy(obs, c) \in Strategies \cup {"none"}
  BY Zenon DEF BestStrategy
<1>2. Leader(obs) \in Strategies \cup {"none"}
  BY Zenon DEF Leader
<1>3. ASSUME NEW c \in TaskClasses PROVE caps(c) \in Capabilities
  <2>1. 0 \in Rates
    BY DEF Rates
  <2>. QED BY <1>1, <2>1, WinRateInRange DEF Capabilities
<1>4. Snapshot(obs) = [caps |-> [c \in TaskClasses |-> caps(c)],
                       leader |-> Leader(obs), builtAt |-> obs.total]
  BY DEF Snapshot
<1>5. obs.total \in Nat
  BY DEF Observers
<1> HIDE DEF caps
<1>. QED BY <1>2, <1>3, <1>4, <1>5 DEF SelfModels

-----------------------------------------------------------------------------
(* The Router and its log *)

LEMMA RouteType ==
  ASSUME NEW t \in Tasks, NEW m \in SelfModels
  PROVE  Route(t, m) \in Decisions
<1>1. m.caps[t.class] \in Capabilities /\ m.leader \in Strategies \cup {"none"}
  BY DEF SelfModels, Tasks
<1>2. m.caps[t.class].best \in Strategies \cup {"none"}
  BY <1>1 DEF Capabilities
<1>3. RoutedStrategy(t, m) \in Strategies
  BY <1>1, <1>2 DEF RoutedStrategy, FallbackStrategy, Strategies
<1>4. VerificationDepth(t, m) \in Depths
  BY DEF VerificationDepth, Depths
<1>5. EscalationThreshold[t.stakes] \in Nat
  BY DEF EscalationThreshold, Tasks, Stakes
<1>. QED BY <1>3, <1>4, <1>5 DEF Route, Decisions

LEMMA LogDecisionType ==
  ASSUME NEW l \in Seq(LogEntry), NEW run \in Nat
  PROVE  LogDecision(l, run) \in Seq(LogEntry)
<1>1. [run |-> run, outcome |-> "pending"] \in LogEntry
  BY DEF LogEntry
<1>. QED BY <1>1, AppendProperties DEF LogDecision

LEMMA RecordOutcomeType ==
  ASSUME NEW l \in Seq(LogEntry), NEW outcome \in Outcomes
  PROVE  RecordOutcome(l, outcome) \in Seq(LogEntry)
<1>1. CASE Pending(l) = {}
  BY <1>1 DEF RecordOutcome
<1>2. CASE Pending(l) # {}
  <2> DEFINE newest == CHOOSE i \in Pending(l) : \A j \in Pending(l) : j <= i
  <2>1. RecordOutcome(l, outcome) = [l EXCEPT ![newest].outcome = outcome]
    BY <1>2 DEF RecordOutcome
  <2>2. Len(l) \in Nat /\ l \in [1 .. Len(l) -> LogEntry]
    BY LenProperties
  <2> HIDE DEF newest
  <2>3. [l EXCEPT ![newest].outcome = outcome] \in [1 .. Len(l) -> LogEntry]
    BY <2>2 DEF LogEntry
  <2>. QED BY <2>1, <2>2, <2>3, SeqFromFunction
<1>. QED BY <1>1, <1>2

-----------------------------------------------------------------------------
(* Procedural Memory *)

LEMMA IndexType ==
  ASSUME NEW procs \in Seq(Procedures)
  PROVE  IndexForPlanner(procs) \in [TaskClasses -> Templates]
<1> DEFINE Best(c) == {p \in Validated(procs, c) : \A q \in Validated(procs, c) \ {p} :
                         \/ Better(procs[p], procs[q])
                         \/ ~Better(procs[q], procs[p]) /\ p < q}
           entry(c) == IF Best(c) = {} THEN NoTemplate
                       ELSE LET p == CHOOSE p \in Best(c) : TRUE
                            IN  [source |-> p, actions |-> procs[p].actions]
<1>1. DOMAIN procs = 1 .. Len(procs) /\ Len(procs) \in Nat
  BY LenProperties
<1>2. ASSUME NEW c PROVE entry(c) \in Templates
  <2>1. CASE Best(c) = {}
    BY <2>1, EmptySeq DEF NoTemplate, Templates
  <2>2. CASE Best(c) # {}
    <3>1. PICK p \in Best(c) : entry(c) = [source |-> p, actions |-> procs[p].actions]
      BY <2>2
    <3>2. p \in DOMAIN procs
      BY <3>1, Zenon DEF Validated
    <3>3. procs[p] \in Procedures /\ p \in Nat
      BY <1>1, <3>2, ElementOfSeq
    <3> HIDE DEF entry
    <3>. QED BY <3>1, <3>3 DEF Procedures, Templates
  <2>. QED BY <2>1, <2>2
<1>3. IndexForPlanner(procs) = [c \in TaskClasses |-> entry(c)]
  BY DEF IndexForPlanner
<1> HIDE DEF entry
<1>. QED BY <1>2, <1>3

LEMMA ProcedureWrites ==
  ASSUME NEW procs \in Seq(Procedures)
  PROVE  /\ \A c \in TaskClasses, a \in Seq(TemplateActions \cup {"missing"}) :
              Register(procs, c, a) \in Seq(Procedures)
         /\ \A p \in DOMAIN procs, a \in Seq(TemplateActions \cup {"missing"}) :
              UpdateSteps(procs, p, a) \in Seq(Procedures)
         /\ \A p \in DOMAIN procs, ok \in BOOLEAN : RecordUsage(procs, p, ok) \in Seq(Procedures)
         /\ \A p \in DOMAIN procs : /\ Promote(procs, p) \in Seq(Procedures)
                                    /\ Retire(procs, p) \in Seq(Procedures)
<1>1. Len(procs) \in Nat /\ procs \in [1 .. Len(procs) -> Procedures]
  BY LenProperties
<1>2. ASSUME NEW c \in TaskClasses, NEW a \in Seq(TemplateActions \cup {"missing"})
      PROVE  Register(procs, c, a) \in Seq(Procedures)
  <2>1. [class |-> c, actions |-> a, wins |-> 0, uses |-> 0, status |-> "candidate"]
          \in Procedures
    BY DEF Procedures, Statuses
  <2>. QED BY <2>1, AppendProperties DEF Register
<1>3. ASSUME NEW p \in DOMAIN procs, NEW a \in Seq(TemplateActions \cup {"missing"})
      PROVE  UpdateSteps(procs, p, a) \in [1 .. Len(procs) -> Procedures]
  BY <1>1 DEF UpdateSteps, Procedures
<1>4. ASSUME NEW p \in DOMAIN procs, NEW ok \in BOOLEAN
      PROVE  RecordUsage(procs, p, ok) \in [1 .. Len(procs) -> Procedures]
  <2> DEFINE wins  == IF ok THEN procs[p].wins + 1 ELSE procs[p].wins
             uses  == procs[p].uses + 1
             usage == [procs[p] EXCEPT !.wins = wins, !.uses = uses]
  <2>1. procs[p] \in Procedures
    BY <1>1
  <2>2. wins \in Nat /\ uses \in Nat
    BY <2>1 DEF Procedures
  <2>3. RecordUsage(procs, p, ok) = [procs EXCEPT ![p] = usage]
    BY <1>1, <2>1 DEF RecordUsage, Procedures
  <2> HIDE DEF wins, uses
  <2>4. usage \in Procedures
    BY <2>1, <2>2 DEF Procedures
  <2> HIDE DEF usage
  <2>. QED BY <1>1, <2>3, <2>4
<1>5. ASSUME NEW p \in DOMAIN procs
      PROVE  /\ Promote(procs, p) \in [1 .. Len(procs) -> Procedures]
             /\ Retire(procs, p) \in [1 .. Len(procs) -> Procedures]
  BY <1>1 DEF Promote, Retire, Procedures, Statuses
<1>. QED BY <1>1, <1>2, <1>3, <1>4, <1>5, SeqFromFunction
=============================================================================
