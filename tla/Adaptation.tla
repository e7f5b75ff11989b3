------------------------------ MODULE Adaptation ------------------------------
(***************************************************************************)
(* The Adaptation Manager (src/axis/adaptation.py) behind the review of    *)
(* the Safety Monitor (src/axis/safety.py): failures are diagnosed, a      *)
(* change is proposed, reviewed, evaluated and deployed, deployments whose *)
(* class then wins less are marked as rolled back, and enough rollbacks    *)
(* trip a circuit breaker.                                                 *)
(*                                                                         *)
(* Nothing in src/ drives these calls: a caller makes them, between tasks, *)
(* in any order.  CallerWaitsFor says what the caller itself waits for     *)
(* before it calls deploy(), which looks at nothing.                       *)
(***************************************************************************)
EXTENDS TelemetryObserver

CONSTANTS
  FailureClusterMin,   \* failure_cluster_min
  RollbackDrop,        \* rollback_win_rate_drop, in percent
  BreakerRollbacks,    \* circuit_breaker_rollbacks
  BreakerWindow,       \* circuit_breaker_window_tasks
  ConservativeTasks,   \* conservative_mode_duration_tasks
  HasHarness,          \* an eval_harness was passed
  CallerWaitsFor,      \* what callers insist on before they deploy
  RootCauses,          \* bound: the causes failures are told apart by
  Drafts,              \* bound: the proposals callers write themselves
  MaxTasks,            \* bound: how many tasks complete
  MaxDeployments       \* bound: how many deployments are made

Targets       == TaskClasses \cup {"none"}
ChangeClasses == {"class_2", "class_3", "class_4"}
Proposals == [change  : ChangeClasses,
              target  : Targets,
              scoped  : BOOLEAN,     \* affected_task_classes is not empty
              trigger : BOOLEAN,     \* rollback_trigger is not empty
              sealed  : BOOLEAN]     \* the payload touches sealed configuration
NoProposal == [change |-> "none"]

ASSUME AdaptationConfig ==
  /\ FailureClusterMin \in Nat \ {0} /\ RollbackDrop \in 0 .. 100
  /\ BreakerRollbacks \in Nat \ {0}
  /\ BreakerWindow \in Nat /\ ConservativeTasks \in Nat
  /\ HasHarness \in BOOLEAN
  /\ CallerWaitsFor \subseteq {"review", "evaluation"}
  /\ Drafts \subseteq Proposals
  /\ MaxTasks \in Nat /\ MaxDeployments \in Nat

VARIABLES
  total,               \* observer._tasks_total
  outcomes,            \* observer._outcomes_by_class
  failures,            \* the failure episodes of a class, as their root causes; none is evicted
  diagnosis,           \* what diagnose() returned last
  desk,                \* the proposal at hand
  reviewed,            \* review_proposal() let it pass, and wrote it to the audit log
  report,              \* what evaluate() said of it: "none", "passed" or "failed"
  deployments,         \* with, as history, whether the class was measured and the mode at deploy()
  rollbacks,           \* _rollbacks; task counts stand for the wall-clock times
  conservativeUntil,   \* _conservative_until
  checked              \* history: check_rollbacks() was called since the last task

manager == <<deployments, rollbacks, conservativeUntil>>
case    == <<diagnosis, desk, reviewed, report>>
vars    == <<total, outcomes, failures, case, manager, checked>>

NoDiagnosis == [class |-> "none", cause |-> "none", count |-> 0, of |-> 0]

Conservative == total < conservativeUntil

Init ==
  /\ total = 0
  /\ outcomes = [c \in TaskClasses |-> <<>>] /\ failures = [c \in TaskClasses |-> <<>>]
  /\ diagnosis = NoDiagnosis /\ desk = NoProposal /\ reviewed = FALSE /\ report = "none"
  /\ deployments = <<>> /\ rollbacks = <<>> /\ conservativeUntil = 0
  /\ checked = FALSE

-----------------------------------------------------------------------------
(* The runtime: a task completes, is ingested and becomes an episode *)

TaskCompleted(c, outcome, cause) ==
  /\ total < MaxTasks /\ total' = total + 1
  /\ outcomes' = [outcomes EXCEPT ![c] = Push(@, outcome, OutcomeWindow)]
  /\ failures' = IF outcome = "failure" THEN [failures EXCEPT ![c] = Append(@, cause)]
                 ELSE failures
  /\ checked' = FALSE
  /\ UNCHANGED <<case, manager>>

-----------------------------------------------------------------------------
(* Diagnosis and proposal *)

Blamed(c, cause) == {i \in DOMAIN failures[c] : failures[c][i] = cause}

\* Counter.most_common(1): of the causes found most often, the one met first.
Dominates(c, cause, other) ==
  \/ Cardinality(Blamed(c, cause)) > Cardinality(Blamed(c, other))
  \/ /\ Cardinality(Blamed(c, cause)) = Cardinality(Blamed(c, other))
     /\ \E i \in Blamed(c, cause) : \A j \in Blamed(c, other) : i < j

Diagnose(c) ==
  /\ Len(failures[c]) >= FailureClusterMin
  /\ \E cause \in RootCauses :
       LET count == Cardinality(Blamed(c, cause)) IN
       /\ count > 0
       /\ \A other \in RootCauses \ {cause} : Dominates(c, cause, other)
       /\ 2 * count >= Len(failures[c])
       /\ diagnosis' = [class |-> c, cause |-> cause, count |-> count, of |-> Len(failures[c])]
  /\ UNCHANGED <<total, outcomes, failures, desk, reviewed, report, manager, checked>>

\* Two root causes are answered by a policy, all the others by a change of memory.
ChangeFor(cause) ==
  IF cause \in {"retrieval_failure", "strategy_mismatch"} THEN "class_3" ELSE "class_2"

ToDesk(proposal) ==
  /\ desk' = proposal /\ reviewed' = FALSE /\ report' = "none"
  /\ UNCHANGED <<total, outcomes, failures, diagnosis, manager, checked>>

Propose ==
  /\ diagnosis # NoDiagnosis
  /\ ChangeFor(diagnosis.cause) = "class_3" => ~Conservative
  /\ ToDesk([change |-> ChangeFor(diagnosis.cause), target |-> diagnosis.class,
             scoped |-> TRUE, trigger |-> TRUE, sealed |-> FALSE])

\* The caller builds a Proposal itself, as the tests do.
Draft(proposal) == ToDesk(proposal)

-----------------------------------------------------------------------------
(* Review, evaluation, deployment *)

\* SafetyMonitor.review_proposal, but for the floors of objective weights
Permitted(p) ==
  /\ p.change # "class_4"
  /\ p.change = "class_3" => p.scoped /\ p.trigger
  /\ ~p.sealed

Review ==
  /\ desk # NoProposal /\ Permitted(desk)
  /\ reviewed' = TRUE
  /\ UNCHANGED <<total, outcomes, failures, diagnosis, desk, report, manager, checked>>

\* evaluate() runs the suite on two runtimes; without a harness it returns nothing.
Evaluate(verdict) ==
  /\ desk # NoProposal /\ HasHarness
  /\ report' = verdict
  /\ UNCHANGED <<total, outcomes, failures, diagnosis, desk, reviewed, manager, checked>>

\* A win rate is kept as the pair of wins and outcomes, so that nothing is rounded.
Measured(c) == c \in TaskClasses /\ outcomes[c] # <<>>
WinsOf(c)   == <<Wins(outcomes[c]), Len(outcomes[c])>>

\* Broken variants: a class without a measured win rate is taken to win half the
\* time, or divides by zero.
RateAtDeployHalf(c)   == IF Measured(c) THEN WinsOf(c) ELSE <<1, 2>>
RateAtDeployUnset(c)  == IF Measured(c) THEN WinsOf(c) ELSE <<0, 0>>

\* metrics["win_rate_by_class"].get(target or "", 0.0)
RateAtDeploy(c) == IF Measured(c) THEN WinsOf(c) ELSE <<0, 1>>

CallerReady ==
  /\ "review" \in CallerWaitsFor => reviewed
  /\ "evaluation" \in CallerWaitsFor /\ desk.change = "class_3" => report = "passed"

\* deploy() itself has no condition; the proposal stays at hand and may be deployed again.
Deploy ==
  /\ desk # NoProposal /\ CallerReady /\ Len(deployments) < MaxDeployments
  /\ deployments' = Append(deployments,
       [proposal |-> desk, rate |-> RateAtDeploy(desk.target), rolledBack |-> FALSE,
        measured |-> Measured(desk.target)])
  /\ UNCHANGED <<total, outcomes, failures, case, rollbacks, conservativeUntil, checked>>

-----------------------------------------------------------------------------
(* Rollback and circuit breaker *)

\* win_rate_at_deploy - current > threshold; no outcomes, no drop.  A drop of exactly the
\* threshold, which binary64 may round to either side, counts as none.
Dropped(d) ==
  /\ Measured(d.proposal.target)
  /\ LET now == WinsOf(d.proposal.target) IN
     100 * (d.rate[1] * now[2] - now[1] * d.rate[2]) > RollbackDrop * d.rate[2] * now[2]

\* Broken variant: a deployment that was rolled back is looked at again.
WatchedForever == {i \in DOMAIN deployments : deployments[i].proposal.target # "none"}

Watched == {i \in DOMAIN deployments : /\ ~deployments[i].rolledBack
                                       /\ deployments[i].proposal.target # "none"}

\* rollback_trigger["threshold"] raises a KeyError on an empty trigger: the loop ends
\* there, and with it check_rollbacks().
Unreadable == {i \in Watched : ~deployments[i].proposal.trigger}

\* Broken variant: the loop ends with the first deployment it looks at.
ReachedFirst == {i \in Watched : \A j \in Watched : i <= j}

Reached == {i \in Watched : \A j \in Unreadable : i < j}

\* Broken variant: one rollback more than configured is tolerated.
TrippedLate(count) == count > BreakerRollbacks

\* "recent" filters nothing: every rollback ever made counts, at every check.
Tripped(count) == count >= BreakerRollbacks

CheckRollbacks ==
  LET rolled == {i \in Reached : Dropped(deployments[i])} IN
  /\ deployments' = [i \in DOMAIN deployments |->
       [deployments[i] EXCEPT !.rolledBack = @ \/ i \in rolled]]
  /\ rollbacks' = rollbacks \o [k \in 1 .. Cardinality(rolled) |-> total]
  /\ conservativeUntil' = IF Unreadable = {} /\ Tripped(Len(rollbacks'))
                          THEN total + ConservativeTasks ELSE conservativeUntil
  /\ checked' = TRUE
  /\ UNCHANGED <<total, outcomes, failures, case>>

-----------------------------------------------------------------------------
Next ==
  \/ \E c \in TaskClasses, o \in Outcomes, cause \in RootCauses : TaskCompleted(c, o, cause)
  \/ \E c \in TaskClasses : Diagnose(c)
  \/ Propose
  \/ \E p \in Drafts : Draft(p)
  \/ Review
  \/ \E verdict \in {"passed", "failed"} : Evaluate(verdict)
  \/ Deploy
  \/ CheckRollbacks

Spec == Init /\ [][Next]_vars

-----------------------------------------------------------------------------
(* Properties *)

Deployments == [proposal : Proposals, rate : Nat \X (Nat \ {0}), rolledBack : BOOLEAN,
                measured : BOOLEAN]

TypeOK ==
  /\ total \in 0 .. MaxTasks
  /\ outcomes \in [TaskClasses -> Seq(Outcomes)] /\ failures \in [TaskClasses -> Seq(RootCauses)]
  /\ diagnosis \in [class : Targets, cause : RootCauses \cup {"none"}, count : Nat, of : Nat]
  /\ desk \in Proposals \cup {NoProposal}
  /\ reviewed \in BOOLEAN /\ report \in {"none", "passed", "failed"}
  /\ deployments \in Seq(Deployments) /\ rollbacks \in Seq(0 .. MaxTasks)
  /\ conservativeUntil \in Nat
  /\ checked \in BOOLEAN

RolledBack == {i \in DOMAIN deployments : deployments[i].rolledBack}

\* check_rollbacks(): the breaker counts what was rolled back, each deployment once,
\* over any number of checks and through checks that end in a KeyError.
RollbacksCounted == Len(rollbacks) = Cardinality(RolledBack)

\* deploy(), check_rollbacks(): a class without telemetry counts as never winning, so a
\* deployment to it is never rolled back, however badly the class does afterwards.
OnlyMeasuredRollBack ==
  \A i \in RolledBack : deployments[i].measured /\ deployments[i].rate[1] > 0

\* check_rollbacks(): a check leaves no deployment standing whose class dropped,
\* unless one that came before it, or it itself, has no trigger to read.
DropsRolledBack ==
  checked => \A i \in Watched : Dropped(deployments[i]) => \E j \in Unreadable : j <= i

\* The rollbacks that complete BreakerRollbacks of them within BreakerWindow tasks.
Tripping == {i \in DOMAIN rollbacks :
               /\ i >= BreakerRollbacks
               /\ rollbacks[i] - rollbacks[i - BreakerRollbacks + 1] <= BreakerWindow}

\* check_rollbacks(), propose(): from a rollback that is to trip the breaker on, and for
\* ConservativeTasks tasks after it, propose() makes no Class 3 proposal, as long as
\* every deployment can be checked.
BreakerHolds ==
  [][Propose /\ desk'.change = "class_3" /\ Unreadable = {} =>
       \A i \in Tripping : total >= rollbacks[i] + ConservativeTasks]_vars

-----------------------------------------------------------------------------
(* A statement of the repository that the code does not keep *)

\* adaptation.py:15-16, "3 rollbacks within 500 tasks -> conservative mode (Class 2 only)
\* for the next 1000 tasks": the Manager is in conservative mode only for ConservativeTasks
\* tasks after a rollback that completed so many within the window.
ConservativeAsDocumented ==
  Conservative => \E i \in Tripping : total < rollbacks[i] + ConservativeTasks
=============================================================================
