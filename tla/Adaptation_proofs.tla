--------------------------- MODULE Adaptation_proofs ---------------------------
(***************************************************************************)
(* The Adaptation Manager for any callers, proposals, windows and bounds:  *)
(* what a check rolls back, what it counts, and how long the breaker that  *)
(* trips on the count holds.                                               *)
(***************************************************************************)
EXTENDS Adaptation, SequenceTheorems, FiniteSetTheorems, TLAPS

-----------------------------------------------------------------------------
(* Win rates *)

LEMMA BufferType ==
  ASSUME NEW S, NEW buffer \in Seq(S), NEW x \in S, NEW window \in Nat \ {0}
  PROVE  Push(buffer, x, window) \in Seq(S)
BY AppendProperties, HeadTailProperties DEF Push

LEMMA PositionsFinite ==
  ASSUME NEW S, NEW seq \in Seq(S), NEW P \in SUBSET DOMAIN seq
  PROVE  IsFiniteSet(P) /\ Cardinality(P) \in Nat
<1>1. DOMAIN seq = 1 .. Len(seq) /\ Len(seq) \in Nat
  OBVIOUS
<1>2. IsFiniteSet(DOMAIN seq)
  BY <1>1, FS_Interval
<1>. QED BY <1>2, FS_Subset, FS_CardinalityType

LEMMA WinsType ==
  ASSUME TypeOK, NEW c, Measured(c)
  PROVE  /\ WinsOf(c) \in Nat \X (Nat \ {0})
         /\ WinsOf(c)[1] \in Nat /\ WinsOf(c)[2] \in Nat /\ WinsOf(c)[2] > 0
<1>1. outcomes[c] \in Seq(Outcomes) /\ outcomes[c] # <<>>
  BY DEF TypeOK, Measured
<1>2. Len(outcomes[c]) \in Nat \ {0}
  BY <1>1, EmptySeq, LenProperties
<1>3. Wins(outcomes[c]) \in Nat
  BY <1>1, PositionsFinite DEF Wins
<1>. QED BY <1>2, <1>3 DEF WinsOf

LEMMA RateAtDeployType ==
  ASSUME TypeOK, NEW c
  PROVE  /\ RateAtDeploy(c) \in Nat \X (Nat \ {0})
         /\ RateAtDeploy(c)[1] > 0 => Measured(c)
<1>1. <<0, 1>> \in Nat \X (Nat \ {0}) /\ <<0, 1>>[1] = 0
  OBVIOUS
<1>2. CASE Measured(c)
  BY <1>2, WinsType DEF RateAtDeploy
<1>3. CASE ~Measured(c)
  BY <1>1, <1>3 DEF RateAtDeploy
<1>. QED BY <1>2, <1>3

\* A class that never won when the change was deployed cannot be seen to drop.
LEMMA DropNeedsWins ==
  ASSUME TypeOK, NEW d \in Deployments, Dropped(d)
  PROVE  d.rate[1] > 0
<1> DEFINE now == WinsOf(d.proposal.target)
<1>1. d.rate[1] \in Nat /\ d.rate[2] \in Nat
  BY DEF Deployments
<1>2. now[1] \in Nat /\ now[2] \in Nat
  BY WinsType DEF Dropped
<1>3. 100 * (d.rate[1] * now[2] - now[1] * d.rate[2]) > RollbackDrop * d.rate[2] * now[2]
  BY DEF Dropped
<1> HIDE DEF now
<1>4. now[1] * d.rate[2] \in Nat /\ RollbackDrop * d.rate[2] \in Nat
  BY <1>1, <1>2, AdaptationConfig
<1>5. RollbackDrop * d.rate[2] * now[2] \in Nat
  BY <1>2, <1>4
<1>6. d.rate[1] * now[2] > 0
  BY <1>1, <1>2, <1>3, <1>4, <1>5
<1>. QED BY <1>1, <1>2, <1>6

\* Measured now, a class has not dropped since now.
LEMMA NoDropYet ==
  ASSUME TypeOK, NEW d, d.rate = RateAtDeploy(d.proposal.target)
  PROVE  ~Dropped(d)
<1> SUFFICES ASSUME Measured(d.proposal.target) PROVE ~Dropped(d)
  BY DEF Dropped
<1> DEFINE now == WinsOf(d.proposal.target)
<1>1. now[1] \in Nat /\ now[2] \in Nat
  BY WinsType
<1>2. d.rate = now
  BY DEF RateAtDeploy
<1>3. Dropped(d) => 100 * (now[1] * now[2] - now[1] * now[2]) > RollbackDrop * now[2] * now[2]
  BY <1>2 DEF Dropped
<1> HIDE DEF now
<1>4. now[1] * now[2] \in Nat /\ RollbackDrop * now[2] \in Nat
  BY <1>1, AdaptationConfig
<1>5. RollbackDrop * now[2] * now[2] \in Nat
  BY <1>1, <1>4
<1>. QED BY <1>3, <1>4, <1>5

-----------------------------------------------------------------------------
(* One check, one deployment *)

Rolled == {i \in Reached : Dropped(deployments[i])}

LEMMA CheckFacts ==
  ASSUME TypeOK, CheckRollbacks
  PROVE  /\ deployments' \in Seq(Deployments) /\ DOMAIN deployments' = DOMAIN deployments
         /\ \A i \in DOMAIN deployments :
              /\ deployments'[i].proposal = deployments[i].proposal
              /\ deployments'[i].rate = deployments[i].rate
              /\ deployments'[i].measured = deployments[i].measured
              /\ deployments'[i].rolledBack <=> deployments[i].rolledBack \/ i \in Rolled
<1> DEFINE new(i) == [deployments[i] EXCEPT !.rolledBack = deployments[i].rolledBack \/ i \in Rolled]
<1>1. deployments' = [i \in DOMAIN deployments |-> new(i)]
  BY DEF CheckRollbacks, Rolled
<1>2. Len(deployments) \in Nat /\ DOMAIN deployments = 1 .. Len(deployments)
      /\ \A i \in DOMAIN deployments : deployments[i] \in Deployments
  BY DEF TypeOK
<1>3. ASSUME NEW i \in DOMAIN deployments
      PROVE  /\ new(i) \in Deployments
             /\ new(i).proposal = deployments[i].proposal
             /\ new(i).rate = deployments[i].rate
             /\ new(i).measured = deployments[i].measured
             /\ new(i).rolledBack <=> deployments[i].rolledBack \/ i \in Rolled
  <2>1. deployments[i] \in Deployments
    BY <1>2
  <2> DEFINE flag == deployments[i].rolledBack \/ i \in Rolled
  <2>2. flag \in BOOLEAN
    OBVIOUS
  <2>3. new(i) = [deployments[i] EXCEPT !.rolledBack = flag]
    OBVIOUS
  <2>4. new(i).rolledBack <=> flag
    BY <2>1, <2>3, Zenon DEF Deployments
  <2> HIDE DEF flag
  <2>5. new(i) \in Deployments /\ new(i).proposal = deployments[i].proposal
        /\ new(i).rate = deployments[i].rate /\ new(i).measured = deployments[i].measured
    BY <2>1, <2>2, <2>3 DEF Deployments
  <2>. QED BY <2>4, <2>5 DEF flag
<1> HIDE DEF new
<1>4. deployments' \in [1 .. Len(deployments) -> Deployments]
  BY <1>1, <1>2, <1>3
<1>5. deployments' \in Seq(Deployments)
  BY <1>2, <1>4, SeqDef
<1>. QED BY <1>1, <1>3, <1>5

LEMMA RolledFacts ==
  ASSUME TypeOK
  PROVE  /\ Rolled \subseteq Watched /\ Watched \subseteq DOMAIN deployments
         /\ Rolled \cap Unreadable = {} /\ Rolled \cap RolledBack = {}
         /\ IsFiniteSet(Rolled) /\ Cardinality(Rolled) \in Nat
<1>1. Rolled \subseteq Watched /\ Watched \subseteq DOMAIN deployments /\ Rolled \subseteq Reached
  BY DEF Rolled, Reached, Watched
<1>2. \A i \in Rolled : i \in Nat /\ ~(i < i)
  BY <1>1 DEF TypeOK
<1>3. Rolled \cap Unreadable = {}
  BY <1>1, <1>2 DEF Reached
<1>4. Rolled \cap RolledBack = {}
  BY <1>1 DEF RolledBack, Watched
<1>. QED BY <1>1, <1>3, <1>4, PositionsFinite DEF TypeOK

LEMMA DeployFacts ==
  ASSUME TypeOK, Deploy
  PROVE  LET n == Len(deployments) + 1 IN
         /\ deployments' \in Seq(Deployments)
         /\ DOMAIN deployments' = DOMAIN deployments \cup {n} /\ n \notin DOMAIN deployments
         /\ n \in Nat /\ \A i \in DOMAIN deployments : i < n
         /\ \A i \in DOMAIN deployments : deployments'[i] = deployments[i]
         /\ deployments'[n].proposal = desk
         /\ deployments'[n].rate = RateAtDeploy(desk.target)
         /\ ~deployments'[n].rolledBack
         /\ deployments'[n].measured <=> Measured(desk.target)
<1> DEFINE d == [proposal |-> desk, rate |-> RateAtDeploy(desk.target), rolledBack |-> FALSE,
                 measured |-> Measured(desk.target)]
<1>1. desk \in Proposals
  BY DEF TypeOK, Deploy
<1>2. Measured(desk.target) \in BOOLEAN
  BY DEF Measured
<1>3. d \in Deployments
  BY <1>1, <1>2, RateAtDeployType, Zenon DEF Deployments
<1>4. d.proposal = desk /\ d.rate = RateAtDeploy(desk.target) /\ ~d.rolledBack
      /\ (d.measured <=> Measured(desk.target))
  BY Zenon
<1>5. deployments' = Append(deployments, d)
  BY DEF Deploy
<1> HIDE DEF d
<1>6. deployments \in Seq(Deployments) /\ Len(deployments) \in Nat
      /\ DOMAIN deployments = 1 .. Len(deployments)
  BY DEF TypeOK
<1>7. /\ deployments' \in Seq(Deployments)
      /\ DOMAIN deployments' = 1 .. (Len(deployments) + 1)
      /\ \A i \in DOMAIN deployments : deployments'[i] = deployments[i]
      /\ deployments'[Len(deployments) + 1] = d
  BY <1>3, <1>5, <1>6
<1>. QED BY <1>4, <1>6, <1>7

-----------------------------------------------------------------------------
(* Type correctness *)

LEMMA TypeStep == TypeOK /\ [Next]_vars => TypeOK'
<1> SUFFICES ASSUME TypeOK, [Next]_vars PROVE TypeOK'
  OBVIOUS
<1>1. ASSUME NEW c \in TaskClasses, NEW o \in Outcomes, NEW cause \in RootCauses,
             TaskCompleted(c, o, cause)
      PROVE  TypeOK'
  <2>1. outcomes' \in [TaskClasses -> Seq(Outcomes)]
    <3>1. Push(outcomes[c], o, OutcomeWindow) \in Seq(Outcomes)
      BY BufferType, ObserverConfig DEF TypeOK
    <3>. QED BY <1>1, <3>1 DEF TypeOK, TaskCompleted
  <2>2. failures' \in [TaskClasses -> Seq(RootCauses)]
    <3>1. Append(failures[c], cause) \in Seq(RootCauses)
      BY DEF TypeOK
    <3>. QED BY <1>1, <3>1 DEF TypeOK, TaskCompleted
  <2>3. total' \in 0 .. MaxTasks
    <3>1. total \in Nat /\ total < MaxTasks /\ total' = total + 1 /\ MaxTasks \in Nat
      BY <1>1, AdaptationConfig DEF TypeOK, TaskCompleted
    <3>. QED BY <3>1
  <2>4. checked' \in BOOLEAN
    BY <1>1 DEF TaskCompleted
  <2>. QED BY <1>1, <2>1, <2>2, <2>3, <2>4, Zenon DEF TypeOK, TaskCompleted, case, manager
<1>2. ASSUME NEW c \in TaskClasses, Diagnose(c) PROVE TypeOK'
  <2>1. PICK cause \in RootCauses :
          diagnosis' = [class |-> c, cause |-> cause,
                        count |-> Cardinality(Blamed(c, cause)), of |-> Len(failures[c])]
    BY <1>2 DEF Diagnose
  <2>2. Cardinality(Blamed(c, cause)) \in Nat /\ Len(failures[c]) \in Nat
    BY PositionsFinite DEF TypeOK, Blamed
  <2>3. diagnosis' \in [class : Targets, cause : RootCauses \cup {"none"}, count : Nat, of : Nat]
    BY <2>1, <2>2 DEF Targets
  <2>. QED BY <1>2, <2>3, Zenon DEF TypeOK, Diagnose, manager
<1>3. ASSUME NEW p \in Proposals, ToDesk(p) PROVE TypeOK'
  BY <1>3, Zenon DEF TypeOK, ToDesk, manager
<1>4. CASE Propose
  <2>1. diagnosis.class \in Targets /\ ChangeFor(diagnosis.cause) \in ChangeClasses
    BY DEF TypeOK, ChangeFor, ChangeClasses
  <2>2. [change |-> ChangeFor(diagnosis.cause), target |-> diagnosis.class,
         scoped |-> TRUE, trigger |-> TRUE, sealed |-> FALSE] \in Proposals
    BY <2>1, Zenon DEF Proposals
  <2>. QED BY <1>3, <1>4, <2>2 DEF Propose
<1>5. ASSUME NEW p \in Drafts, Draft(p) PROVE TypeOK'
  BY <1>3, <1>5, AdaptationConfig DEF Draft
<1>6. CASE Review
  BY <1>6, Zenon DEF TypeOK, Review, manager
<1>7. ASSUME NEW verdict \in {"passed", "failed"}, Evaluate(verdict) PROVE TypeOK'
  <2>1. report' \in {"none", "passed", "failed"}
    BY <1>7 DEF Evaluate
  <2>. QED BY <1>7, <2>1, Zenon DEF TypeOK, Evaluate, manager
<1>8. CASE Deploy
  <2>1. deployments' \in Seq(Deployments)
    BY <1>8, DeployFacts
  <2>. QED BY <1>8, <2>1, Zenon DEF TypeOK, Deploy, case
<1>9. CASE CheckRollbacks
  <2>1. deployments' \in Seq(Deployments)
    BY <1>9, CheckFacts
  <2>2. rollbacks' \in Seq(0 .. MaxTasks)
    <3> DEFINE k == Cardinality(Rolled)
               stamps == [j \in 1 .. k |-> total]
    <3>1. k \in Nat
      BY RolledFacts
    <3>2. rollbacks' = rollbacks \o stamps
      BY <1>9 DEF CheckRollbacks, Rolled
    <3> HIDE DEF k
    <3>3. stamps \in [1 .. k -> 0 .. MaxTasks]
      BY DEF TypeOK
    <3>4. stamps \in Seq(0 .. MaxTasks)
      BY <3>1, <3>3, SeqDef
    <3> HIDE DEF stamps
    <3>. QED BY <3>2, <3>4 DEF TypeOK
  <2>3. conservativeUntil' \in Nat
    <3>1. total \in Nat /\ conservativeUntil \in Nat /\ ConservativeTasks \in Nat
      BY AdaptationConfig DEF TypeOK
    <3>. QED BY <1>9, <3>1 DEF CheckRollbacks
  <2>4. checked' = TRUE /\ UNCHANGED <<total, outcomes, failures, case>>
    BY <1>9 DEF CheckRollbacks
  <2>. QED BY <2>1, <2>2, <2>3, <2>4, Zenon DEF TypeOK, case
<1>10. CASE UNCHANGED vars
  BY <1>10, Zenon DEF TypeOK, vars, case, manager
<1>. QED
  BY <1>1, <1>2, <1>4, <1>5, <1>6, <1>7, <1>8, <1>9, <1>10 DEF Next

\* Type correctness of adaptation: what callers do in whatever order leaves the manager
\* with well-formed deployments, rates and counts.
THEOREM AdaptationTyped == Spec => []TypeOK
<1>1. Init => TypeOK
  <2> SUFFICES ASSUME Init PROVE TypeOK
    OBVIOUS
  <2>1. total \in 0 .. MaxTasks /\ conservativeUntil \in Nat
    BY AdaptationConfig DEF Init
  <2>2. outcomes \in [TaskClasses -> Seq(Outcomes)] /\ failures \in [TaskClasses -> Seq(RootCauses)]
        /\ deployments \in Seq(Deployments) /\ rollbacks \in Seq(0 .. MaxTasks)
    BY DEF Init
  <2>3. diagnosis \in [class : Targets, cause : RootCauses \cup {"none"}, count : Nat, of : Nat]
    BY DEF Init, NoDiagnosis, Targets
  <2>. QED BY <2>1, <2>2, <2>3, Zenon DEF Init, TypeOK
<1>. QED BY <1>1, TypeStep, PTL DEF Spec

-----------------------------------------------------------------------------
(* The count of rollbacks *)

\* A step that is neither a deployment nor a check leaves the deployments alone.
LEMMA ManagerUnchanged ==
  ASSUME [Next]_vars, ~Deploy, ~CheckRollbacks
  PROVE  UNCHANGED manager
<1>1. ASSUME NEW p, ToDesk(p) PROVE UNCHANGED manager
  BY <1>1 DEF ToDesk
<1>. QED BY <1>1, Zenon DEF Next, vars, TaskCompleted, Diagnose, Propose, Draft, Review, Evaluate

LEMMA RolledBackSteps ==
  ASSUME TypeOK, [Next]_vars
  PROVE  /\ CheckRollbacks => RolledBack' = RolledBack \cup Rolled
         /\ ~CheckRollbacks => RolledBack' = RolledBack
<1>1. CASE CheckRollbacks
  <2>1. /\ DOMAIN deployments' = DOMAIN deployments
        /\ \A i \in DOMAIN deployments :
             deployments'[i].rolledBack <=> deployments[i].rolledBack \/ i \in Rolled
    BY <1>1, CheckFacts
  <2>2. Rolled \subseteq DOMAIN deployments
    BY RolledFacts
  <2>. QED BY <1>1, <2>1, <2>2, Zenon DEF RolledBack
<1>2. CASE ~CheckRollbacks /\ Deploy
  <2> DEFINE n == Len(deployments) + 1
  <2>1. /\ DOMAIN deployments' = DOMAIN deployments \cup {n}
        /\ \A i \in DOMAIN deployments : deployments'[i] = deployments[i]
        /\ ~deployments'[n].rolledBack
    BY <1>2, DeployFacts
  <2> HIDE DEF n
  <2>. QED BY <1>2, <2>1, Zenon DEF RolledBack
<1>3. CASE ~CheckRollbacks /\ ~Deploy
  BY <1>3, ManagerUnchanged, Zenon DEF RolledBack, manager
<1>. QED BY <1>1, <1>2, <1>3

LEMMA RolledBackFinite == TypeOK => IsFiniteSet(RolledBack) /\ Cardinality(RolledBack) \in Nat
BY PositionsFinite DEF TypeOK, RolledBack

\* A check stamps one time for each deployment it rolls back.
LEMMA CheckStamps ==
  ASSUME TypeOK, CheckRollbacks
  PROVE  /\ Len(rollbacks') = Len(rollbacks) + Cardinality(Rolled)
         /\ \A i \in DOMAIN rollbacks' :
              rollbacks'[i] = IF i \in DOMAIN rollbacks THEN rollbacks[i] ELSE total
<1> DEFINE k == Cardinality(Rolled)
           stamps == [j \in 1 .. k |-> total]
<1>1. k \in Nat
  BY RolledFacts
<1>2. rollbacks' = rollbacks \o stamps
  BY DEF CheckRollbacks, Rolled
<1> HIDE DEF k
<1>3. stamps \in [1 .. k -> 0 .. MaxTasks]
  BY DEF TypeOK
<1>4. stamps \in Seq(0 .. MaxTasks) /\ Len(stamps) = k /\ \A j \in 1 .. k : stamps[j] = total
  BY <1>1, <1>3, SeqDef
<1> HIDE DEF stamps
<1>5. rollbacks \in Seq(0 .. MaxTasks) /\ Len(rollbacks) \in Nat
      /\ DOMAIN rollbacks = 1 .. Len(rollbacks)
  BY DEF TypeOK
<1>6. /\ Len(rollbacks') = Len(rollbacks) + k
      /\ \A i \in 1 .. (Len(rollbacks) + k) :
           rollbacks'[i] = IF i <= Len(rollbacks) THEN rollbacks[i] ELSE stamps[i - Len(rollbacks)]
      /\ DOMAIN rollbacks' = 1 .. (Len(rollbacks) + k)
  BY <1>1, <1>2, <1>4, <1>5
<1>7. ASSUME NEW i \in DOMAIN rollbacks'
      PROVE  rollbacks'[i] = IF i \in DOMAIN rollbacks THEN rollbacks[i] ELSE total
  <2>1. i \in Nat /\ i >= 1 /\ i <= Len(rollbacks) + k
    BY <1>1, <1>5, <1>6
  <2>2. i > Len(rollbacks) => i - Len(rollbacks) \in 1 .. k
    BY <1>1, <1>5, <2>1
  <2>. QED BY <1>4, <1>5, <1>6, <2>1, <2>2
<1>. QED BY <1>6, <1>7 DEF k

\* The breaker counts every deployment that was rolled back once, however many checks
\* look at it and wherever they end.
THEOREM RollbacksCountedOnce == Spec => []RollbacksCounted
<1>1. Init => RollbacksCounted
  <2> SUFFICES ASSUME Init PROVE RollbacksCounted
    OBVIOUS
  <2>1. deployments = <<>> /\ Len(rollbacks) = 0
    BY DEF Init
  <2>2. RolledBack = {}
    BY <2>1 DEF RolledBack
  <2>. QED BY <2>1, <2>2, FS_EmptySet DEF RollbacksCounted
<1>2. TypeOK /\ RollbacksCounted /\ [Next]_vars => RollbacksCounted'
  <2> SUFFICES ASSUME TypeOK, RollbacksCounted, [Next]_vars PROVE RollbacksCounted'
    OBVIOUS
  <2>1. CASE CheckRollbacks
    <3>1. RolledBack' = RolledBack \cup Rolled
      BY <2>1, RolledBackSteps
    <3>2. IsFiniteSet(RolledBack) /\ IsFiniteSet(Rolled) /\ RolledBack \cap Rolled = {}
          /\ Cardinality(RolledBack) \in Nat /\ Cardinality(Rolled) \in Nat
      BY RolledBackFinite, RolledFacts
    <3>3. Cardinality(RolledBack \cap Rolled) = 0
      BY <3>2, FS_EmptySet
    <3>4. Cardinality(RolledBack \cup Rolled)
            = Cardinality(RolledBack) + Cardinality(Rolled) - Cardinality(RolledBack \cap Rolled)
      BY <3>2, FS_Union
    <3>5. Len(rollbacks') = Len(rollbacks) + Cardinality(Rolled)
      BY <2>1, CheckStamps
    <3>. QED BY <3>1, <3>2, <3>3, <3>4, <3>5 DEF RollbacksCounted
  <2>2. CASE ~CheckRollbacks
    <3>1. RolledBack' = RolledBack
      BY <2>2, RolledBackSteps
    <3>2. rollbacks' = rollbacks
      BY <2>2, ManagerUnchanged DEF Deploy, manager
    <3>. QED BY <3>1, <3>2 DEF RollbacksCounted
  <2>. QED BY <2>1, <2>2
<1>. QED BY <1>1, <1>2, AdaptationTyped, PTL DEF Spec

-----------------------------------------------------------------------------
(* What is rolled back, and what is not *)

\* The strengthening: a deployment of an unmeasured class starts from a rate of zero.
RatesMeasured ==
  \A i \in DOMAIN deployments : deployments[i].rate[1] > 0 => deployments[i].measured

LEMMA RatesMeasuredStep == TypeOK /\ RatesMeasured /\ [Next]_vars => RatesMeasured'
<1> SUFFICES ASSUME TypeOK, RatesMeasured, [Next]_vars PROVE RatesMeasured'
  OBVIOUS
<1>1. CASE CheckRollbacks
  BY <1>1, CheckFacts, Zenon DEF RatesMeasured
<1>2. CASE Deploy
  <2> DEFINE n == Len(deployments) + 1
  <2>1. /\ DOMAIN deployments' = DOMAIN deployments \cup {n}
        /\ \A i \in DOMAIN deployments : deployments'[i] = deployments[i]
        /\ deployments'[n].rate = RateAtDeploy(desk.target)
        /\ deployments'[n].measured <=> Measured(desk.target)
    BY <1>2, DeployFacts
  <2>2. RateAtDeploy(desk.target)[1] > 0 => Measured(desk.target)
    BY RateAtDeployType
  <2> HIDE DEF n
  <2>. QED BY <2>1, <2>2, Zenon DEF RatesMeasured
<1>3. CASE ~CheckRollbacks /\ ~Deploy
  BY <1>3, ManagerUnchanged, Zenon DEF RatesMeasured, manager
<1>. QED BY <1>1, <1>2, <1>3

\* Whatever is rolled back was measured when it was deployed, and won at times: nothing
\* rolls back a change to a class that had no telemetry then.
THEOREM MeasuredRollBack == Spec => []OnlyMeasuredRollBack
<1>1. Init => RatesMeasured /\ OnlyMeasuredRollBack
  BY DEF Init, RatesMeasured, OnlyMeasuredRollBack, RolledBack
<1>2. TypeOK /\ RatesMeasured /\ OnlyMeasuredRollBack /\ [Next]_vars => OnlyMeasuredRollBack'
  <2> SUFFICES ASSUME TypeOK, RatesMeasured, OnlyMeasuredRollBack, [Next]_vars
               PROVE  OnlyMeasuredRollBack'
    OBVIOUS
  <2>1. CASE CheckRollbacks
    <3>1. RolledBack' = RolledBack \cup Rolled
      BY <2>1, RolledBackSteps
    <3>2. RolledBack \subseteq DOMAIN deployments /\ Rolled \subseteq DOMAIN deployments
      BY RolledFacts DEF RolledBack
    <3>3. \A i \in DOMAIN deployments : deployments'[i].rate = deployments[i].rate
                                        /\ deployments'[i].measured = deployments[i].measured
      BY <2>1, CheckFacts
    <3>4. ASSUME NEW i \in Rolled PROVE deployments[i].rate[1] > 0
      <4>1. deployments[i] \in Deployments
        BY <3>2 DEF TypeOK
      <4>2. Dropped(deployments[i])
        BY DEF Rolled
      <4>. QED BY <4>1, <4>2, DropNeedsWins
    <3>5. \A i \in Rolled : deployments[i].measured
      BY <3>2, <3>4 DEF RatesMeasured
    <3>. QED BY <3>1, <3>2, <3>3, <3>4, <3>5, Zenon DEF OnlyMeasuredRollBack
  <2>2. CASE ~CheckRollbacks /\ Deploy
    <3>1. RolledBack' = RolledBack /\ RolledBack \subseteq DOMAIN deployments
      BY <2>2, RolledBackSteps DEF RolledBack
    <3>2. \A i \in DOMAIN deployments : deployments'[i] = deployments[i]
      BY <2>2, DeployFacts
    <3>. QED BY <3>1, <3>2, Zenon DEF OnlyMeasuredRollBack
  <2>3. CASE ~CheckRollbacks /\ ~Deploy
    BY <2>3, ManagerUnchanged, Zenon DEF OnlyMeasuredRollBack, RolledBack, manager
  <2>. QED BY <2>1, <2>2, <2>3
<1>. QED BY <1>1, <1>2, RatesMeasuredStep, AdaptationTyped, PTL DEF Spec

\* A check changes no trigger, and goes on watching what it did not roll back.
LEMMA UnreadableStays ==
  ASSUME TypeOK, CheckRollbacks
  PROVE  /\ Watched' \subseteq Watched /\ Unreadable' = Unreadable
         /\ \A i \in Watched : i \notin Rolled => i \in Watched'
<1>1. /\ DOMAIN deployments' = DOMAIN deployments
      /\ \A i \in DOMAIN deployments :
           /\ deployments'[i].proposal = deployments[i].proposal
           /\ deployments'[i].rolledBack <=> deployments[i].rolledBack \/ i \in Rolled
  BY CheckFacts
<1>2. Rolled \cap Unreadable = {} /\ Watched \subseteq DOMAIN deployments
  BY RolledFacts
<1>3. Watched' \subseteq Watched /\ \A i \in Watched : i \notin Rolled => i \in Watched'
  BY <1>1, Zenon DEF Watched
<1>4. Unreadable \subseteq Watched /\ Unreadable' \subseteq Watched'
  BY DEF Unreadable
<1>5. \A i \in Watched : deployments'[i].proposal = deployments[i].proposal
  BY <1>1, <1>2
<1>6. Unreadable' \subseteq Unreadable
  BY <1>3, <1>4, <1>5, Zenon DEF Unreadable
<1>7. Unreadable \subseteq Unreadable'
  BY <1>2, <1>3, <1>4, <1>5, Zenon DEF Unreadable
<1>. QED BY <1>3, <1>6, <1>7

\* A check leaves nothing standing that dropped, up to the first deployment whose trigger
\* it cannot read; until the next task, later deployments do not change that.
THEOREM ChecksRollBackDrops == Spec => []DropsRolledBack
<1>1. Init => DropsRolledBack
  BY DEF Init, DropsRolledBack
<1>2. TypeOK /\ DropsRolledBack /\ [Next]_vars => DropsRolledBack'
  <2> SUFFICES ASSUME TypeOK, DropsRolledBack, [Next]_vars PROVE DropsRolledBack'
    OBVIOUS
  <2>1. CASE CheckRollbacks
    <3>1. UNCHANGED outcomes
      BY <2>1 DEF CheckRollbacks
    <3>2. SUFFICES ASSUME NEW i \in Watched', Dropped(deployments[i])'
                   PROVE  \E j \in Unreadable : j <= i
      BY <2>1, UnreadableStays DEF DropsRolledBack
    <3>3. i \in Watched /\ i \in DOMAIN deployments
      BY <2>1, UnreadableStays, RolledFacts
    <3>4. /\ deployments'[i].proposal = deployments[i].proposal
          /\ deployments'[i].rate = deployments[i].rate
          /\ deployments'[i].rolledBack <=> deployments[i].rolledBack \/ i \in Rolled
      BY <2>1, <3>3, CheckFacts
    <3>5. Dropped(deployments[i])
      BY <3>1, <3>2, <3>4 DEF Dropped, Measured, WinsOf
    <3>6. i \notin Rolled
      BY <3>2, <3>4, Zenon DEF Watched
    <3>7. PICK j \in Unreadable : ~(i < j)
      BY <3>3, <3>5, <3>6 DEF Rolled, Reached
    <3>8. i \in Nat /\ j \in Nat
      BY <3>3 DEF Unreadable, Watched, TypeOK
    <3>. QED BY <3>7, <3>8
  <2>2. CASE Deploy
    <3> DEFINE n == Len(deployments) + 1
    <3>1. /\ DOMAIN deployments' = DOMAIN deployments \cup {n} /\ n \notin DOMAIN deployments
          /\ \A i \in DOMAIN deployments : deployments'[i] = deployments[i]
          /\ deployments'[n].proposal = desk
          /\ deployments'[n].rate = RateAtDeploy(desk.target)
          /\ ~deployments'[n].rolledBack
      BY <2>2, DeployFacts
    <3>2. UNCHANGED <<outcomes, checked>>
      BY <2>2 DEF Deploy
    <3> HIDE DEF n
    <3>3. Watched \subseteq Watched' /\ Watched' \subseteq Watched \cup {n}
      BY <3>1, Zenon DEF Watched
    <3>4. Unreadable \subseteq Unreadable'
      BY <3>1, <3>3, Zenon DEF Unreadable, Watched
    <3>5. ~Dropped(deployments'[n])
      BY <3>1, NoDropYet
    <3>6. SUFFICES ASSUME checked, NEW i \in Watched', Dropped(deployments[i])'
                   PROVE  \E j \in Unreadable : j <= i
      BY <3>2, <3>4 DEF DropsRolledBack
    <3>7. Dropped(deployments'[i])
      BY <3>2, <3>6 DEF Dropped, Measured, WinsOf
    <3>8. i \in Watched /\ deployments'[i] = deployments[i]
      BY <3>1, <3>3, <3>5, <3>7 DEF Watched
    <3>. QED BY <3>6, <3>7, <3>8 DEF DropsRolledBack
  <2>3. CASE ~CheckRollbacks /\ ~Deploy
    <3>1. UNCHANGED deployments
      BY <2>3, ManagerUnchanged DEF manager
    <3>2. checked' => checked /\ UNCHANGED outcomes
      <4>1. ASSUME NEW p, ToDesk(p) PROVE UNCHANGED <<checked, outcomes>>
        BY <4>1 DEF ToDesk
      <4>. QED BY <2>3, <4>1, Zenon
             DEF Next, vars, TaskCompleted, Diagnose, Propose, Draft, Review, Evaluate
    <3>. QED BY <3>1, <3>2
           DEF DropsRolledBack, Watched, Unreadable, Dropped, Measured, WinsOf
  <2>. QED BY <2>1, <2>2, <2>3
<1>. QED BY <1>1, <1>2, AdaptationTyped, PTL DEF Spec

-----------------------------------------------------------------------------
(* The circuit breaker *)

\* The rollbacks at which the code finds enough of them on its list, whatever their age.
Counted == {i \in DOMAIN rollbacks : i >= BreakerRollbacks}

\* The strengthening: no rollback is later than now, and while every deployment can be
\* checked the breaker holds until long enough after each rollback that was one too many.
BreakerInv ==
  /\ \A i \in DOMAIN rollbacks : rollbacks[i] <= total
  /\ Unreadable = {} =>
       \A i \in Counted : rollbacks[i] + ConservativeTasks <= conservativeUntil

LEMMA BreakerStep == TypeOK /\ BreakerInv /\ [Next]_vars => BreakerInv'
<1> SUFFICES ASSUME TypeOK, BreakerInv, [Next]_vars PROVE BreakerInv'
  OBVIOUS
<1>t. /\ total \in Nat /\ ConservativeTasks \in Nat /\ BreakerRollbacks \in Nat
      /\ DOMAIN rollbacks = 1 .. Len(rollbacks) /\ Len(rollbacks) \in Nat
      /\ \A i \in DOMAIN rollbacks : rollbacks[i] \in Nat
  BY AdaptationConfig DEF TypeOK
<1>1. CASE CheckRollbacks
  <2>1. /\ Len(rollbacks') = Len(rollbacks) + Cardinality(Rolled)
        /\ \A i \in DOMAIN rollbacks' :
             rollbacks'[i] = IF i \in DOMAIN rollbacks THEN rollbacks[i] ELSE total
    BY <1>1, CheckStamps
  <2>2. total' = total /\ Unreadable' = Unreadable
        /\ conservativeUntil' = IF Unreadable = {} /\ Tripped(Len(rollbacks'))
                                THEN total + ConservativeTasks ELSE conservativeUntil
    BY <1>1, UnreadableStays DEF CheckRollbacks
  <2>3. \A i \in DOMAIN rollbacks' : rollbacks'[i] \in Nat /\ rollbacks'[i] <= total
    BY <1>t, <2>1 DEF BreakerInv
  <2>4. ASSUME Unreadable = {}, NEW i \in Counted'
        PROVE  rollbacks'[i] + ConservativeTasks <= conservativeUntil'
    <3>1. i \in DOMAIN rollbacks' /\ i >= BreakerRollbacks
      BY DEF Counted
    <3>2. rollbacks' \in Seq(0 .. MaxTasks)
      BY TypeStep DEF TypeOK
    <3>3. i \in Nat /\ i <= Len(rollbacks') /\ Len(rollbacks') \in Nat
      BY <3>1, <3>2
    <3>4. Tripped(Len(rollbacks'))
      BY <1>t, <3>1, <3>3 DEF Tripped
    <3>. QED BY <1>t, <2>2, <2>3, <2>4, <3>1, <3>4
  <2>. QED BY <2>2, <2>3, <2>4 DEF BreakerInv
<1>2. CASE Deploy
  <2> DEFINE n == Len(deployments) + 1
  <2>1. /\ DOMAIN deployments' = DOMAIN deployments \cup {n}
        /\ \A i \in DOMAIN deployments : deployments'[i] = deployments[i]
    BY <1>2, DeployFacts
  <2>2. UNCHANGED <<total, rollbacks, conservativeUntil>>
    BY <1>2 DEF Deploy
  <2> HIDE DEF n
  <2>3. Unreadable \subseteq Unreadable'
    BY <2>1, Zenon DEF Unreadable, Watched
  <2>. QED BY <2>2, <2>3 DEF BreakerInv, Counted
<1>3. CASE ~CheckRollbacks /\ ~Deploy
  <2>1. UNCHANGED <<deployments, rollbacks, conservativeUntil>>
    BY <1>3, ManagerUnchanged DEF manager
  <2>2. total' = total \/ total' = total + 1
    <3>1. ASSUME NEW p, ToDesk(p) PROVE UNCHANGED total
      BY <3>1 DEF ToDesk
    <3>. QED BY <1>3, <3>1, Zenon
           DEF Next, vars, TaskCompleted, Diagnose, Propose, Draft, Review, Evaluate
  <2>3. \A i \in DOMAIN rollbacks : rollbacks[i] <= total'
    BY <1>t, <2>2 DEF BreakerInv
  <2>4. Unreadable' = Unreadable /\ Counted' = Counted
    BY <2>1 DEF Unreadable, Watched, Counted
  <2>. QED BY <2>1, <2>3, <2>4 DEF BreakerInv
<1>. QED BY <1>1, <1>2, <1>3

\* As long as every deployment can be checked, no Class 3 proposal is made within
\* ConservativeTasks tasks of the last of BreakerRollbacks rollbacks within the window.
THEOREM BreakerAlwaysHolds == Spec => BreakerHolds
<1>1. Init => BreakerInv
  BY DEF Init, BreakerInv, Counted
<1>2. TypeOK /\ BreakerInv /\ [Next]_vars
        => [Propose /\ desk'.change = "class_3" /\ Unreadable = {} =>
              \A i \in Tripping : total >= rollbacks[i] + ConservativeTasks]_vars
  <2> SUFFICES ASSUME TypeOK, BreakerInv, Propose, desk'.change = "class_3", Unreadable = {},
                      NEW i \in Tripping
               PROVE  total >= rollbacks[i] + ConservativeTasks
    OBVIOUS
  <2>1. desk'.change = ChangeFor(diagnosis.cause)
    BY DEF Propose, ToDesk
  <2>2. ~Conservative
    BY <2>1 DEF Propose
  <2>3. rollbacks[i] + ConservativeTasks <= conservativeUntil
    BY DEF BreakerInv, Counted, Tripping
  <2>4. total \in Nat /\ conservativeUntil \in Nat /\ rollbacks[i] \in Nat
        /\ ConservativeTasks \in Nat
    BY AdaptationConfig DEF TypeOK, Tripping
  <2>. QED BY <2>2, <2>3, <2>4 DEF Conservative
<1>. QED BY <1>1, <1>2, BreakerStep, AdaptationTyped, PTL DEF Spec, BreakerHolds
=============================================================================
