----------------------------- MODULE MCAdaptation -----------------------------
(***************************************************************************)
(* Proposals callers write by hand, as the tests of the repository do.     *)
(***************************************************************************)
EXTENDS Adaptation

Complete == [change |-> "class_3", target |-> "c", scoped |-> TRUE, trigger |-> TRUE,
             sealed |-> FALSE]

\* Class 2 proposals pass the review without a trigger; nothing permits a Class 4 one,
\* and without a target no rollback is looked for.
Untriggered == [Complete EXCEPT !.change = "class_2", !.trigger = FALSE]
Parameter   == [Complete EXCEPT !.change = "class_4", !.target = "none"]

NoDrafts  == {}
AnyDrafts == {Complete, Untriggered, Parameter}
=============================================================================
