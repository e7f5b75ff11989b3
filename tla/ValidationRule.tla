---------------------------- MODULE ValidationRule ----------------------------
(***************************************************************************)
(* The merge rule of the federation (src/axis/multi_instance.py), without  *)
(* reports, lists or rates: a procedure starts as a candidate, instances   *)
(* come to support it on one task class or another, and a check validates  *)
(* candidates and nothing else.  It must validate those that a quorum      *)
(* supports on the same class, may validate those that a quorum supports   *)
(* over all classes, and leaves the others alone.  What was retired or     *)
(* deleted stays so.                                                       *)
(***************************************************************************)
CONSTANTS
  Procedures,        \* identities of procedures
  Supporters,        \* who may support them
  Classes,           \* what they may support them on
  Quorums            \* the sets of supporters that are enough

VARIABLES
  standing,    \* of each procedure: "unknown", "candidate", "validated", "retired", "deleted"
  support      \* of each procedure: who has supported it so far, and on which class

vars == <<standing, support>>

Init ==
  /\ standing = [p \in Procedures |-> "unknown"]
  /\ support = [p \in Procedures |-> {}]

Become(p, status) == standing' = [standing EXCEPT ![p] = status] /\ UNCHANGED support

Propose(p) == standing[p] = "unknown" /\ Become(p, "candidate")

Support(p, i, c) ==
  /\ standing[p] # "unknown"
  /\ support' = [support EXCEPT ![p] = @ \cup {<<i, c>>}]
  /\ UNCHANGED standing

SupportersOn(p, classes) == {s[1] : s \in {s \in support[p] : s[2] \in classes}}

Candidates == {p \in Procedures : standing[p] = "candidate"}
Owed     == {p \in Candidates : \E c \in Classes : SupportersOn(p, {c}) \in Quorums}
Entitled == {p \in Candidates : SupportersOn(p, Classes) \in Quorums}

Validate ==
  \E chosen \in SUBSET Entitled :
    /\ Owed \subseteq chosen
    /\ standing' = [p \in Procedures |-> IF p \in chosen THEN "validated" ELSE standing[p]]
    /\ UNCHANGED support

Retire(p) == standing[p] \in {"candidate", "validated"} /\ Become(p, "retired")
Delete(p) == standing[p] # "unknown" /\ Become(p, "deleted")

Next ==
  \/ \E p \in Procedures : Propose(p) \/ Retire(p) \/ Delete(p)
  \/ \E p \in Procedures, i \in Supporters, c \in Classes : Support(p, i, c)
  \/ Validate

Spec == Init /\ [][Next]_vars
=============================================================================
