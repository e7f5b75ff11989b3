----------------------------- MODULE PolicyRouter -----------------------------
(***************************************************************************)
(* The Policy Router (src/axis/policy_router.py): the routing decision for *)
(* a task, and the routing log that pairs each decision with the outcome   *)
(* of its run.  The log is the training data of the learned router.        *)
(*                                                                         *)
(* A log entry carries the number of the run that made it; the code keeps  *)
(* only the decision and must find the right entry by position.            *)
(***************************************************************************)
EXTENDS AxisTypes, Sequences

Depths    == {"skip", "spot_check", "full"}
Decisions == [strategy : Strategies, depth : Depths \cup {"none"}, escalation : Nat]
LogEntry  == [run : Nat, outcome : Outcomes \cup {"pending"}]

\* routing_decision = None, when the runtime has no router
NoDecision == [strategy |-> "analytical", depth |-> "none", escalation |-> 0]

\* _fallback_strategy: the strategy ranked first by historical win rate
FallbackStrategy(selfModel) ==
  IF selfModel.leader = "none" THEN "analytical" ELSE selfModel.leader

RoutedStrategy(task, selfModel) ==
  LET best == selfModel.caps[task.class].best
  IN  IF best = "none" THEN FallbackStrategy(selfModel) ELSE best

\* Broken variant: the win rate is looked at before the stakes.
VerificationDepthRateFirst(task, selfModel) ==
  LET rate == DomainWinRate(selfModel, task.class)
  IN  IF rate > 8500 THEN "skip"
      ELSE IF task.stakes \in {"critical", "high"} THEN "full" ELSE "spot_check"

VerificationDepth(task, selfModel) ==
  LET rate == DomainWinRate(selfModel, task.class)
  IN  IF task.stakes \in {"critical", "high"} \/ rate < 6000 THEN "full"
      ELSE IF task.stakes = "low" /\ rate > 8500 THEN "skip" ELSE "spot_check"

\* Verifier score, in percent, below which a task of these stakes is to be
\* re-planned.
EscalationThreshold == [low |-> 45, medium |-> 60, high |-> 75, critical |-> 85]

Route(task, selfModel) ==
  [strategy   |-> RoutedStrategy(task, selfModel),
   depth      |-> VerificationDepth(task, selfModel),
   escalation |-> EscalationThreshold[task.stakes]]

\* What the runtime makes of the depth: "skip" closes the verification gate of the
\* Scheduler, "full" opens it.
ApplyDepth(gates, depth) ==
  [retrieval    |-> gates.retrieval,
   verification |-> (gates.verification /\ depth # "skip") \/ depth = "full",
   exploration  |-> gates.exploration]

LogDecision(log, run) == Append(log, [run |-> run, outcome |-> "pending"])

Pending(log) == {i \in DOMAIN log : log[i].outcome = "pending"}

\* Broken variant: the oldest pending entry is taken.
RecordOutcomeOldest(log, outcome) ==
  IF Pending(log) = {} THEN log
  ELSE LET oldest == CHOOSE i \in Pending(log) : \A j \in Pending(log) : i <= j
       IN  [log EXCEPT ![oldest].outcome = outcome]

\* Broken variant: the log is searched from its start, past entries that have an outcome.
RecordOutcomeFirst(log, outcome) ==
  IF Pending(log) = {} THEN log ELSE [log EXCEPT ![1].outcome = outcome]

\* record_outcome: the task id is ignored, the newest pending entry is taken.
RecordOutcome(log, outcome) ==
  IF Pending(log) = {} THEN log
  ELSE LET newest == CHOOSE i \in Pending(log) : \A j \in Pending(log) : j <= i
       IN  [log EXCEPT ![newest].outcome = outcome]
=============================================================================
