----------------------------- MODULE MCAxisRuntime -----------------------------
(***************************************************************************)
(* Values for the constants of AxisRuntime that a .cfg cannot spell.       *)
(***************************************************************************)
EXTENDS AxisRuntime

MCStakesMultiplier == [low |-> 7, medium |-> 10, high |-> 15, critical |-> 20]
MCSplit == [planning |-> 15, execution |-> 55, verification |-> 15]

\* "c" and "d" are classes without a budget of their own.
MCTaskBudgets    == [general |-> 4000]
SmallTaskBudgets == [general |-> 650]

\* With the small budget and a step at its cap of 256 tokens, the execution share lasts for
\* one step at low stakes, two at medium, three at high and all four at critical ones.
OneOfEachStakes ==
  {[class |-> "c", stakes |-> s, complexity |-> IF s = "low" THEN 0 ELSE 50] : s \in Stakes}
MediumAndHigh ==
  {[class |-> "c", stakes |-> "medium", complexity |-> 50],
   [class |-> "d", stakes |-> "high", complexity |-> 50]}

\* A nonsensical count, which charges nothing, and one beyond any cap.
NoTokens   == {-1}
MoreTokens == {40000}

\* What a template may look like: empty, well-formed, or of a kind that makes plan() raise.
MCTemplates == {<<>>, <<"act", "act">>, <<"act", "missing">>}
Raising     == {<<"act", "missing">>}

\* A Planner built without templates, or with one of any kind for each class.
Unbuilt  == {[c \in TaskClasses |-> NoTemplate]}
AnyBuild == [TaskClasses -> {NoTemplate} \cup {[source |-> 1, actions |-> a] : a \in MCTemplates}]
=============================================================================
