------------------------------ MODULE PlanOrder ------------------------------
(***************************************************************************)
(* The orders Plan.topological_order (src/axis/types.py) returns.  Module  *)
(* TopologicalOrder holds the algorithm and shows that it returns one of   *)
(* them or raises; the Executor is modelled on these orders alone.         *)
(***************************************************************************)
EXTENDS Integers, Sequences, Functions

\* A PlanStep: its id, what it does, the ids it depends on, its token cap.
Steps(Actions) == [id : Nat, action : Actions, deps : Seq(Nat), cap : Nat]

\* Positions of the steps that `step` lists as dependencies.
DependsOn(step, other) == \E k \in DOMAIN step.deps : step.deps[k] = other.id

\* A dependency listed twice is counted twice and released once.
ListsTwice(step) == ~IsInjective(step.deps)

\* In o, every step comes after all the steps it depends on.
Respects(steps, o) ==
  \A k \in DOMAIN o : \A d \in DOMAIN steps[o[k]].deps :
    \E j \in 1 .. (k - 1) : steps[o[j]].id = steps[o[k]].deps[d]

\* o lists every step once, in such an order.
DependencyOrders(steps) ==
  {o \in Injection(DOMAIN steps, DOMAIN steps) : Respects(steps, o)}

(***************************************************************************)
(* The orders topological_order may return.  It raises when there is none: *)
(* for a cycle or a dependency on an unknown step, and, although the plan  *)
(* then may have dependency orders, for a dependency listed twice.  For    *)
(* the linear chains the Planner builds there is exactly one order.        *)
(***************************************************************************)
TopologicalOrders(steps) ==
  IF \E i \in DOMAIN steps : ListsTwice(steps[i]) THEN {} ELSE DependencyOrders(steps)
=============================================================================
