------------------------------- MODULE Admission -------------------------------
(***************************************************************************)
(* Admission control (src/axis/runtime.py, run() up to the call of the     *)
(* Planner): what the Scheduler and the Policy Router together grant a     *)
(* task, a pure function of the task, the Self-Model and the novelty.      *)
(***************************************************************************)
EXTENDS Scheduler, PolicyRouter

\* A Self-Model that believes the same of every class.
Believing(capability) ==
  [caps |-> [c \in TaskClasses |-> capability], leader |-> "tool_first", builtAt |-> 0]

\* The gates the Scheduler grants, and what the runtime makes of them by the routing decision.
Granted(task, belief, novelty) == GatesFor(task, Believing(belief), novelty)
Gated(task, belief, novelty) ==
  ApplyDepth(Granted(task, belief, novelty), Route(task, Believing(belief)).depth)

\* The stakes below others.
Below == [low |-> {}, medium |-> {"low"}, high |-> {"low", "medium"},
          critical |-> {"low", "medium", "high"}]

Lowered(task, stakes) == [task EXCEPT !.stakes = stakes]
=============================================================================
