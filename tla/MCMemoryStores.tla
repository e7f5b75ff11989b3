---------------------------- MODULE MCMemoryStores ----------------------------
(***************************************************************************)
(* What the recorded episodes are about: successes of a strategy, of which *)
(* lessons are made, and its failures, which are worth less to keep.       *)
(***************************************************************************)
EXTENDS MemoryStores

MCRecorded == {[class |-> "c", strategy |-> "s", outcome |-> o] : o \in {"success", "failure"}}
=============================================================================
