---------------------------- MODULE TopologicalOrder ----------------------------
(***************************************************************************)
(* The algorithm of Plan.topological_order (src/axis/types.py): count the  *)
(* dependencies of every step, then pop steps without any from a FIFO      *)
(* queue, releasing the steps that depend on the one popped.  Steps are    *)
(* their positions in the plan.                                            *)
(***************************************************************************)
EXTENDS PlanOrder, FiniteSets

CONSTANTS
  Action,         \* the one action the steps of these plans have
  MaxSteps,       \* bound: steps of a plan
  MaxDeps         \* bound: dependencies a step lists

ASSUME OrderConfig == MaxSteps \in Nat /\ MaxDeps \in Nat

VARIABLES
  steps,      \* the plan
  pc,         \* "counting", "popping", "returned" or "raised"
  counted,    \* steps whose dependencies have been counted
  indeg,      \* dependencies of each step not popped yet
  queue,      \* steps ready to be popped
  order       \* steps popped

vars == <<steps, pc, counted, indeg, queue, order>>

Known(id) == \E i \in DOMAIN steps : steps[i].id = id

\* Plans of up to MaxSteps steps with ids 1, 2, ...; a dependency on MaxSteps + 1
\* is always unknown.
Lists(n) == UNION {[1 .. m -> 1 .. (n + 1)] : m \in 0 .. MaxDeps}
PlansOf(n) ==
  {[i \in 1 .. n |-> [id |-> i, action |-> Action, deps |-> deps[i], cap |-> 1]] :
     deps \in [1 .. n -> Lists(n)]}

Init ==
  /\ steps \in UNION {PlansOf(n) : n \in 0 .. MaxSteps}
  /\ pc = "counting" /\ counted = 0
  /\ indeg = [i \in DOMAIN steps |-> 0]
  /\ queue = <<>> /\ order = <<>>

\* Broken variant: however many dependencies a step has, they count as one.
CountOnce ==
  /\ pc = "counting" /\ counted < Len(steps)
  /\ \A d \in DOMAIN steps[counted + 1].deps : Known(steps[counted + 1].deps[d])
  /\ indeg' = [indeg EXCEPT ![counted + 1] = IF steps[counted + 1].deps = <<>> THEN 0 ELSE 1]
  /\ counted' = counted + 1
  /\ UNCHANGED <<steps, pc, queue, order>>

\* One iteration of the first loop.
Count ==
  /\ pc = "counting" /\ counted < Len(steps)
  /\ LET s == counted + 1
     IN  /\ \A d \in DOMAIN steps[s].deps : Known(steps[s].deps[d])
         /\ indeg' = [indeg EXCEPT ![s] = Len(steps[s].deps)]
         /\ counted' = s
  /\ UNCHANGED <<steps, pc, queue, order>>

UnknownDependency ==
  /\ pc = "counting" /\ counted < Len(steps)
  /\ \E d \in DOMAIN steps[counted + 1].deps : ~Known(steps[counted + 1].deps[d])
  /\ pc' = "raised"
  /\ UNCHANGED <<steps, counted, indeg, queue, order>>

\* The steps of S in the order of the plan: the one such list, in a set.
InPlanOrder(S) ==
  {list \in Bijection(1 .. Cardinality(S), S) : \A j, k \in DOMAIN list : j < k => list[j] < list[k]}

\* Broken variant: one root is assumed.
FillQueueOneRoot ==
  /\ pc = "counting" /\ counted = Len(steps)
  /\ pc' = "popping"
  /\ queue' = IF \E i \in DOMAIN steps : indeg[i] = 0
              THEN <<CHOOSE i \in DOMAIN steps : indeg[i] = 0>> ELSE <<>>
  /\ UNCHANGED <<steps, counted, indeg, order>>

FillQueue ==
  /\ pc = "counting" /\ counted = Len(steps)
  /\ pc' = "popping"
  /\ queue' \in InPlanOrder({i \in DOMAIN steps : indeg[i] = 0})
  /\ UNCHANGED <<steps, counted, indeg, order>>

\* Broken variant: every step is released, whatever it depends on.
PopReleasesAll ==
  /\ pc = "popping" /\ queue # <<>>
  /\ indeg' = [i \in DOMAIN steps |-> indeg[i] - 1]
  /\ \E released \in InPlanOrder({i \in DOMAIN steps : indeg[i] = 1}) :
       queue' = Tail(queue) \o released
  /\ order' = Append(order, Head(queue))
  /\ UNCHANGED <<steps, pc, counted>>

\* One iteration of the second loop: a step that lists the popped one, once or
\* twice, is released by one.
Pop ==
  /\ pc = "popping" /\ queue # <<>>
  /\ LET waiting == {i \in DOMAIN steps : DependsOn(steps[i], steps[Head(queue)])}
     IN  /\ indeg' = [i \in DOMAIN steps |-> IF i \in waiting THEN indeg[i] - 1 ELSE indeg[i]]
         /\ \E released \in InPlanOrder({i \in waiting : indeg[i] = 1}) :
              queue' = Tail(queue) \o released
  /\ order' = Append(order, Head(queue))
  /\ UNCHANGED <<steps, pc, counted>>

\* Broken variant: the cycle is not reported.
FinishSilently ==
  /\ pc = "popping" /\ queue = <<>>
  /\ Len(order) = Len(steps) /\ pc' = "returned"
  /\ UNCHANGED <<steps, counted, indeg, queue, order>>

Finish ==
  /\ pc = "popping" /\ queue = <<>>
  /\ pc' = IF Len(order) = Len(steps) THEN "returned" ELSE "raised"
  /\ UNCHANGED <<steps, counted, indeg, queue, order>>

Next == Count \/ UnknownDependency \/ FillQueue \/ Pop \/ Finish

Spec == Init /\ [][Next]_vars /\ WF_vars(Next)

-----------------------------------------------------------------------------
TypeOK ==
  /\ pc \in {"counting", "popping", "returned", "raised"}
  /\ counted \in 0 .. Len(steps)
  /\ indeg \in [DOMAIN steps -> Nat]
  /\ queue \in Seq(DOMAIN steps) /\ order \in Seq(DOMAIN steps)

\* What is returned is one of the orders PlanOrder allows the Executor to walk.
ReturnsOrder == pc = "returned" => order \in TopologicalOrders(steps)

\* topological_order() raises on a plan in which no step lists a dependency twice only
\* when there is no order of its steps that respects the dependencies.
RaisesOnlyWithCause ==
  pc = "raised" /\ (\A i \in DOMAIN steps : ~ListsTwice(steps[i])) => DependencyOrders(steps) = {}

\* "Return steps in a dependency-respecting order.  Raises on cycle.": what is raised for
\* is a cycle, or a step nobody knows, and never a plan that has such an order.
RaisesOnlyWithoutOrder == pc = "raised" => DependencyOrders(steps) = {}

\* Every call returns or raises.
Terminates == <>(pc \in {"returned", "raised"})
=============================================================================
