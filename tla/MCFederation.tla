----------------------------- MODULE MCFederation -----------------------------
(***************************************************************************)
(* Which instances and task classes may be exchanged for one another.      *)
(***************************************************************************)
EXTENDS Federation, TLC

\* Instances that build no Memory Manager differ in their reports only, and no class is
\* treated differently from another.
Exchangeable == Permutations(Instances \ Adopters) \cup Permutations(TaskClasses)
=============================================================================
