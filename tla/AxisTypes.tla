------------------------------ MODULE AxisTypes ------------------------------
(***************************************************************************)
(* The vocabulary shared by every component (src/axis/types.py): strategy, *)
(* stakes and outcome enumerations, tasks, and the part of the Self-Model  *)
(* the control flow reads.                                                 *)
(*                                                                         *)
(* Rates are integers in basis points: the Observer rounds every rate to   *)
(* four digits before anybody reads it, so 0.8333 is 8333 here.            *)
(***************************************************************************)
EXTENDS Integers

CONSTANT TaskClasses        \* the task classes callers submit

Strategies == {"analytical", "creative", "retrieval_first", "tool_first", "hybrid"}
Stakes     == {"low", "medium", "high", "critical"}
Outcomes   == {"success", "partial", "failure"}
Rates      == 0 .. 10000

\* A unit of work; complexity in percent, and not yet clamped to 0 .. 100.
Tasks == [class : TaskClasses, stakes : Stakes, complexity : Int]

(***************************************************************************)
(* The Self-Model as the Planner, Scheduler and Router read it: per task   *)
(* class the measured win rate and best strategy ("none" while fewer than  *)
(* the minimum of samples back one), the strategy ranked first by win rate *)
(* ("none" when no strategy was ever recorded), and the number of tasks    *)
(* the Observer had ingested when the model was built ("update_source").   *)
(* known is FALSE for a class that has no "capabilities" entry.            *)
(***************************************************************************)
Capabilities == [known : BOOLEAN, rate : Rates, best : Strategies \cup {"none"}]
SelfModels   == [caps : [TaskClasses -> Capabilities],
                 leader : Strategies \cup {"none"},
                 builtAt : Nat]

\* config.DEFAULT_SELF_MODEL: no capabilities, tool_first has the best win rate.
DefaultSelfModel ==
  [caps    |-> [c \in TaskClasses |-> [known |-> FALSE, rate |-> 0, best |-> "none"]],
   leader  |-> "tool_first",
   builtAt |-> 0]

\* Broken variant: a class nobody has seen yet is trusted.
DomainWinRateTrusting(selfModel, class) ==
  IF selfModel.caps[class].known THEN selfModel.caps[class].rate ELSE 10000

\* cap.get("win_rate", 0.5)
DomainWinRate(selfModel, class) ==
  IF selfModel.caps[class].known THEN selfModel.caps[class].rate ELSE 5000
=============================================================================
