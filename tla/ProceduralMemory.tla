---------------------------- MODULE ProceduralMemory ----------------------------
(***************************************************************************)
(* Procedural Memory (src/axis/memory/procedural.py) as the registry of    *)
(* plan templates, and the view of it the Memory Manager hands to the      *)
(* Planner.  A procedure's id is its position in the registry; success     *)
(* rates are exact ratios wins / uses.  Deletion is left out.              *)
(***************************************************************************)
EXTENDS Planner

Statuses == {"candidate", "validated", "retired"}

Procedures == [class   : TaskClasses,
               actions : Seq(TemplateActions \cup {"missing"}),
               wins    : Nat,
               uses    : Nat,
               status  : Statuses]

Register(procs, class, actions) ==
  Append(procs, [class |-> class, actions |-> actions,
                 wins |-> 0, uses |-> 0, status |-> "candidate"])

UpdateSteps(procs, p, actions) == [procs EXCEPT ![p].actions = actions]

RecordUsage(procs, p, success) ==
  [procs EXCEPT ![p].wins = IF success THEN @ + 1 ELSE @, ![p].uses = @ + 1]

Promote(procs, p) == [procs EXCEPT ![p].status = "validated"]
Retire(procs, p)  == [procs EXCEPT ![p].status = "retired"]

-----------------------------------------------------------------------------

Validated(procs, class) ==
  {p \in DOMAIN procs : procs[p].class = class /\ procs[p].status = "validated"}

\* success_rate of p > success_rate of q; it is 0.0 before the first use.
Better(p, q) == p.wins * q.uses > q.wins * p.uses \/ (p.wins > 0 /\ q.uses = 0)

\* procedural_index_for_planner: a later procedure replaces an earlier one only
\* with a strictly higher success rate.
IndexForPlanner(procs) ==
  [c \in TaskClasses |->
     LET best == {p \in Validated(procs, c) : \A q \in Validated(procs, c) \ {p} :
                    \/ Better(procs[p], procs[q])
                    \/ ~Better(procs[q], procs[p]) /\ p < q}
     IN  IF best = {} THEN NoTemplate
         ELSE LET p == CHOOSE p \in best : TRUE
              IN  [source |-> p, actions |-> procs[p].actions]]
=============================================================================
