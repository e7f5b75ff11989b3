---------------------------- MODULE ObjectiveStack ----------------------------
(***************************************************************************)
(* The Objective Stack (src/axis/objectives.py, with its defaults from     *)
(* src/axis/config.py): the weights a task is judged by, and the choice    *)
(* between candidates that pull in different directions.  Weights are in   *)
(* percent and not normalised: the code divides all of them by their sum.  *)
(***************************************************************************)
EXTENDS AxisTypes, Sequences, FiniteSetsExt

Defaults == [truthfulness |-> 30, task_success |-> 25, calibration |-> 15, helpfulness |-> 10,
             efficiency |-> 8, latency |-> 5, robustness |-> 4, originality |-> 2,
             learning_value |-> 1]
Objectives == DOMAIN Defaults

\* DEFAULT_DOMAIN_OVERRIDES; a class without an entry keeps the defaults.
DomainOverrides ==
  [medical          |-> [truthfulness |-> 45, calibration |-> 25, originality |-> 0],
   creative_writing |-> [originality |-> 20, truthfulness |-> 10, task_success |-> 30],
   real_time_ops    |-> [latency |-> 25, efficiency |-> 15, truthfulness |-> 20],
   research         |-> [learning_value |-> 10, robustness |-> 10, truthfulness |-> 25]]

DomainWeights(class) ==
  [o \in Objectives |->
     IF class \in DOMAIN DomainOverrides /\ o \in DOMAIN DomainOverrides[class]
     THEN DomainOverrides[class][o] ELSE Defaults[o]]

NotNegative(n) == IF n < 0 THEN 0 ELSE n

\* Broken variant: high stakes cost latency as much again as critical ones.
AdjustedSwapped(w, stakes) ==
  CASE stakes = "low"      -> [w EXCEPT !.latency = @ + 5, !.calibration = NotNegative(@ - 5)]
    [] stakes = "medium"   -> w
    [] stakes = "high"     -> [w EXCEPT !.truthfulness = @ + 20, !.calibration = @ + 10,
                                        !.latency = 0]
    [] stakes = "critical" -> [w EXCEPT !.truthfulness = @ + 10, !.calibration = @ + 5,
                                        !.latency = NotNegative(@ - 5)]

\* _apply_stakes_adjustment
Adjusted(w, stakes) ==
  CASE stakes = "low"      -> [w EXCEPT !.latency = @ + 5, !.calibration = NotNegative(@ - 5)]
    [] stakes = "medium"   -> w
    [] stakes = "high"     -> [w EXCEPT !.truthfulness = @ + 10, !.calibration = @ + 5,
                                        !.latency = NotNegative(@ - 5)]
    [] stakes = "critical" -> [w EXCEPT !.truthfulness = @ + 20, !.calibration = @ + 10,
                                        !.latency = 0]

WeightsFor(class, stakes) == Adjusted(DomainWeights(class), stakes)
TotalWeight(w) == SumFunction(w)

-----------------------------------------------------------------------------
(* Conflict resolution *)

\* A candidate: its scores in percent (an objective it does not name scores 0.0, a name
\* without a weight counts for nothing and is left out), its variance, and whether
\* hard_constraint_fn lets it pass.
IsCandidate(c) ==
  /\ DOMAIN c.scores \subseteq Objectives
  /\ c.scores \in [DOMAIN c.scores -> Int]
  /\ c.variance \in Nat /\ c.permitted \in BOOLEAN

\* _weighted_score
Score(candidate, w) ==
  SumFunction([o \in DOMAIN candidate.scores |-> w[o] * candidate.scores[o]])

\* sorted(..., reverse=True) keeps the order of equals.
RanksBefore(candidates, w, i, j) ==
  \/ Score(candidates[i], w) > Score(candidates[j], w)
  \/ Score(candidates[i], w) = Score(candidates[j], w) /\ i < j

\* The best of a set of candidates.
First(candidates, w, S) ==
  CHOOSE i \in S : \A j \in S \ {i} : RanksBefore(candidates, w, i, j)

\* Broken variant: lower variance wins however far behind.
WithinReachAlways(top, runner) == TRUE

\* (top - runner) / top < 0.05
WithinReach(top, runner) == top > 0 /\ 20 * (top - runner) < top

\* resolve(): the candidate chosen, 0 when it raises because none is permitted.
Resolve(candidates, w) ==
  LET permitted == {i \in DOMAIN candidates : candidates[i].permitted}
      top       == First(candidates, w, permitted)
      runner    == First(candidates, w, permitted \ {top})
  IN  IF permitted = {} THEN 0
      ELSE IF /\ permitted # {top}
              /\ WithinReach(Score(candidates[top], w), Score(candidates[runner], w))
              /\ candidates[runner].variance < candidates[top].variance
           THEN runner
           ELSE top
=============================================================================
