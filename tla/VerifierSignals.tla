---------------------------- MODULE VerifierSignals ----------------------------
(***************************************************************************)
(* The signals of the Verifier (src/axis/verifier.py) behind its score:    *)
(* the support its claims have in the evidence of a run, and how the       *)
(* signals add up.  A claim is the set of its words; confidence and        *)
(* severity are in percent.  There is an output: an empty one has support  *)
(* 0.0, whatever the tools returned.  Module AxisRuntime has the score     *)
(* itself as a nondeterministic value under the bound of its friction.     *)
(***************************************************************************)
EXTENDS Integers, Sequences, FiniteSets

\* The words the claims are held against: those of the tool calls and of the output of every
\* step.  The last step is no exception, though its output is the one that makes the claims.
Corpus(claims, surfaced) == surfaced \cup UNION {claims[k] : k \in DOMAIN claims}

\* Half of the words are enough; a claim without any word is not supported.
Supported(claim, corpus) ==
  claim # {} /\ 2 * Cardinality(claim \cap corpus) >= Cardinality(claim)

SupportedClaims(claims, corpus) == {k \in DOMAIN claims : Supported(claims[k], corpus)}

\* Broken variant: beyond the cap no penalty is taken.
FrictionPenaltyDropped(friction) == IF friction > 5 THEN 0 ELSE 10 * friction

\* min(0.5, 0.1 friction), in percent
FrictionPenalty(friction) == IF friction > 5 THEN 50 ELSE 10 * friction

\* 0.40 confidence + 0.35 support + 0.25 coherence - the penalty, times
\* 10000 and the number of claims; no claims count as supported.
ScaledScore(confidence, claims, corpus, severity, friction) ==
  LET n       == IF claims = <<>> THEN 1 ELSE Len(claims)
      support == IF claims = <<>> THEN 1 ELSE Cardinality(SupportedClaims(claims, corpus))
  IN  40 * confidence * n + 3500 * support + 25 * (100 - severity) * n
        - 100 * FrictionPenalty(friction) * n

\* score >= pass_threshold, the threshold in percent; clamping to 0 .. 1 changes nothing.
SignalsPass(confidence, claims, corpus, severity, friction, threshold) ==
  ScaledScore(confidence, claims, corpus, severity, friction)
    >= 100 * threshold * (IF claims = <<>> THEN 1 ELSE Len(claims))
=============================================================================
