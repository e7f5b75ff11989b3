----------------------------- MODULE RetryProtocol -----------------------------
(***************************************************************************)
(* What the runtime promises the caller of run(), with no component in     *)
(* sight: tasks are served one at a time; an attempt ends with an outcome; *)
(* a failed attempt may be followed by another one; an answer that did not *)
(* fail may be sent back for review once, after which nothing is retried;  *)
(* the attempts of a task never exceed MaxAttempts; and the service of a   *)
(* task ends with a result in hand or without any attempt having run.      *)
(***************************************************************************)
EXTENDS Integers

CONSTANT MaxAttempts        \* how often the plan of one task is executed at most

VARIABLES
  active,     \* a task is being served
  tries,      \* attempts started for it
  answer,     \* outcome of the last attempt, "none" before there is one
  sentBack,   \* the answer was sent back for review
  served      \* tasks whose service has ended

vars == <<active, tries, answer, sentBack, served>>

Init ==
  /\ active = FALSE
  /\ tries = 0 /\ answer = "none" /\ sentBack = FALSE
  /\ served = 0

Begin ==
  /\ ~active
  /\ active' = TRUE
  /\ UNCHANGED <<tries, answer, sentBack, served>>

StartAttempt ==
  /\ active /\ tries < MaxAttempts
  /\ tries' = tries + 1
  /\ answer' = "none"
  /\ UNCHANGED <<active, served>>

FirstAttempt == tries = 0 /\ StartAttempt /\ UNCHANGED sentBack

RetryFailure ==
  /\ answer = "failure" /\ ~sentBack
  /\ StartAttempt /\ UNCHANGED sentBack

SendBack ==
  /\ answer \in {"success", "partial"} /\ ~sentBack
  /\ StartAttempt /\ sentBack' = TRUE

EndAttempt ==
  /\ active /\ tries > 0 /\ answer = "none"
  /\ answer' \in {"success", "partial", "failure"}
  /\ UNCHANGED <<active, tries, sentBack, served>>

End ==
  /\ active
  /\ answer # "none" \/ tries = 0
  /\ active' = FALSE /\ served' = served + 1
  /\ tries' = 0 /\ answer' = "none" /\ sentBack' = FALSE

Next ==
  \/ Begin \/ FirstAttempt \/ RetryFailure \/ SendBack \/ EndAttempt \/ End

Spec == Init /\ [][Next]_vars

\* A task that is being served is served to the end.
FairSpec == Spec /\ WF_vars(Next /\ active)
=============================================================================
