------------------------------ MODULE WorldModel ------------------------------
(***************************************************************************)
(* The World Model (src/axis/world_model.py): typed states, the predicates *)
(* and assignments of action schemas, and forward simulation of a sequence *)
(* of actions.  A predicate or an assignment is parsed already: an         *)
(* operator, a key and, for "eq", "ne" and "set", a value.                 *)
(***************************************************************************)
EXTENDS Integers, Sequences, SequencesExt

CONSTANTS
  Keys,            \* keys of a TypedState
  Texts,           \* values as texts
  ActionNames,     \* actions plans name, registered or not
  Schemas          \* WorldModel._schemas, by action: registered ones only

\* A key is absent, True, or holds a text; str() of the first two is "None" and "True".
Values == [kind : {"absent", "true"}] \cup [kind : {"text"}, text : Texts]
Absent == [kind |-> "absent"]
True   == [kind |-> "true"]
TextOf(v) == IF v.kind = "absent" THEN "None" ELSE IF v.kind = "true" THEN "True" ELSE v.text
Truthy(v) == v.kind # "absent" /\ TextOf(v) # ""

Predicates  == [op : {"holds", "not"}, key : Keys]
               \cup [op : {"eq", "ne"}, key : Keys, text : Texts \cup {"None", "True"}]
Assignments == [op : {"make", "drop"}, key : Keys] \cup [op : {"set"}, key : Keys, text : Texts]

ASSUME SchemasConfig ==
  /\ DOMAIN Schemas \subseteq ActionNames
  /\ \A a \in DOMAIN Schemas : /\ Schemas[a].pre \in Seq(Predicates)
                             /\ Schemas[a].success \in Seq(Assignments)
                             /\ Schemas[a].failure \in Seq(Assignments)

States == [Keys -> Values]

\* TypedState.satisfies
Satisfies(state, p) ==
  \/ p.op = "holds" /\ Truthy(state[p.key])
  \/ p.op = "not"   /\ ~Truthy(state[p.key])
  \/ p.op = "eq"    /\ TextOf(state[p.key]) = p.text
  \/ p.op = "ne"    /\ TextOf(state[p.key]) # p.text

Assigned(a) ==
  IF a.op = "set" THEN [kind |-> "text", text |-> a.text]
  ELSE IF a.op = "make" THEN True ELSE Absent

\* Broken variant: the assignments are applied last to first.
ApplyBackwards(state, assignments) ==
  FoldLeft(LAMBDA s, a : [s EXCEPT ![a.key] = Assigned(a)], state, Reverse(assignments))

\* TypedState.apply
Apply(state, assignments) ==
  FoldLeft(LAMBDA s, a : [s EXCEPT ![a.key] = Assigned(a)], state, assignments)

PreconditionsMet(action, state) ==
  /\ action \in DOMAIN Schemas
  /\ \A k \in DOMAIN Schemas[action].pre : Satisfies(state, Schemas[action].pre[k])

\* simulate(): the state it leads to, and whether it succeeded.
Simulate(state, action, succeeds) ==
  IF ~PreconditionsMet(action, state) THEN [to |-> state, succeeded |-> FALSE]
  ELSE [to |-> Apply(state, IF succeeds THEN Schemas[action].success
                            ELSE Schemas[action].failure),
        succeeded |-> succeeds]

\* simulate_sequence() raises when it comes to an action nobody registered, and stops
\* at the first one that does not succeed.
Walk(start, actions) ==
  FoldLeft(LAMBDA run, a :
             IF run.verdict # "feasible" THEN run
             ELSE IF a \notin DOMAIN Schemas THEN [run EXCEPT !.verdict = "raised"]
             ELSE LET t == Simulate(run.state, a, TRUE)
                  IN  [state   |-> t.to,
                       verdict |-> IF t.succeeded THEN "feasible" ELSE "infeasible"],
           [state |-> start, verdict |-> "feasible"], actions)

\* plan_is_feasible(): "feasible", "infeasible" or "raised"
PlanIsFeasible(start, actions) == Walk(start, actions).verdict

(***************************************************************************)
(* counterfactual_sequences(): the candidates within the bound, each with  *)
(* its verdict; one that raises takes the others down with it.  The sum of *)
(* their latencies is left out.                                            *)
(***************************************************************************)
CounterfactualSequences(start, candidates, limit) ==
  LET tried == SubSeq(candidates, 1, IF limit < Len(candidates) THEN limit ELSE Len(candidates))
      found == [k \in DOMAIN tried |-> PlanIsFeasible(start, tried[k])]
  IN  IF \E k \in DOMAIN found : found[k] = "raised" THEN <<"raised">> ELSE found
=============================================================================
