---------------------------- MODULE SelfModelMerge ----------------------------
(***************************************************************************)
(* aggregate_self_model() of the federated coordinator                     *)
(* (src/axis/multi_instance.py) for one task class: the win rates of the   *)
(* instances, each rounded to a basis point in its Self-Model, averaged by *)
(* sample size and rounded again.                                          *)
(***************************************************************************)
EXTENDS Integers, FiniteSetsExt

\* round(): the nearest integer to num / den, ties to even.
Rounded(num, den) ==
  LET floor == num \div den
      twice == 2 * (num % den)
  IN  IF twice > den \/ (twice = den /\ floor % 2 = 1) THEN floor + 1 ELSE floor

\* What the observer of an instance holds of the class: wins among its outcomes.
AllSamples == {s \in [wins : Nat, size : Nat] : s.wins <= s.size}

\* The instances with a capability entry: classes without outcomes have none.
Contributing(observers) == {i \in DOMAIN observers : observers[i].size > 0}

SnapshotRate(sample) == Rounded(10000 * sample.wins, sample.size)

PooledSize(observers) == SumFunction([i \in Contributing(observers) |-> observers[i].size])

\* Broken variant: every instance counts the same.
MergedRateUnweighted(observers) ==
  Rounded(SumFunction([i \in Contributing(observers) |-> SnapshotRate(observers[i])]),
          Cardinality(Contributing(observers)))

MergedRate(observers) ==
  Rounded(SumFunction([i \in Contributing(observers) |->
                         SnapshotRate(observers[i]) * observers[i].size]),
          PooledSize(observers))
=============================================================================
