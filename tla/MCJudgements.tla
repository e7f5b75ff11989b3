----------------------------- MODULE MCJudgements -----------------------------
(***************************************************************************)
(* Small questions for every judgement: the default configuration          *)
(* (src/axis/config.py) and the tasks at which one of its thresholds is    *)
(* crossed, suites of up to four cases, plans over three registered        *)
(* actions, candidates around the margin of 5%.                            *)
(***************************************************************************)
EXTENDS Judgements

MCTaskBudgets ==
  [general |-> 4000, code_debug |-> 6000, analysis |-> 8000, creative |-> 5000,
   planning |-> 4000, math_symbolic |-> 5000, legal_reasoning |-> 10000,
   medical |-> 10000, research |-> 9000]
MCStakesMultiplier == [low |-> 7, medium |-> 10, high |-> 15, critical |-> 20]
MCSplit == [planning |-> 15, execution |-> 55, verification |-> 15]

\* "chat" has no budget of its own; the complexities are below, at, between and
\* above the bounds they are clamped to.
MCRequests == {[class |-> c, stakes |-> s, complexity |-> x] :
                 c \in {"chat", "general", "analysis", "medical"}, s \in Stakes,
                 x \in {-100, 0, 5, 33, 100, 150}}
MCBeliefs ==
  {[known |-> FALSE, rate |-> 0, best |-> "none"]} \cup
  {[known |-> TRUE, rate |-> r, best |-> "none"] :
     r \in {0, 5999, 6000, 6999, 7000, 8499, 8500, 8501, 10000}}
MCNovelties == {3000, 5000}

Case(type, expected, limit) ==
  [type |-> type, expected |-> expected, limit |-> limit, tolerance |-> 25]
Trace(outcome, tokens, predicted) ==
  [outcome |-> outcome, tokens |-> tokens, predicted |-> predicted]

Good  == Trace("success", 100, 75)      \* at the tolerance of a calibration case
Dear  == Trace("success", 125, 75)
Bad   == Trace("failure", 100, 75)
Blind == Trace("success", 80, -1)       \* no prediction
MCOtherTraces == {Good, Dear, Bad, Blind}

\* The target case bounds no cost, the adjacent one does.
Tried(case, candidates) ==
  {[case |-> case, baseline |-> b, candidate |-> c] : b \in {Good, Bad}, c \in candidates}
Target   == Tried(Case("target_task", "success", -1), {Good, Dear, Bad, Blind})
Adjacent == Tried(Case("adjacent_task", "success", 110), {Good, Dear, Blind})
Honest   == Tried(Case("calibration", "any", -1), {Good, Bad, Blind})

\* Two cases of a type are the least of which a drop can be significant.
MCSuites ==
  {<<t>> \o a \o h : t \in Target, a \in {<<>>} \cup [1 .. 2 -> Adjacent],
                     h \in {<<>>} \cup [1 .. 2 -> Honest]}
  \cup {<<t>> \o a : t \in Target, a \in [1 .. 3 -> Adjacent]}

MCSchemas ==
  [fetch |-> [pre     |-> <<[op |-> "not", key |-> "file"]>>,
              success |-> <<[op |-> "set", key |-> "file", text |-> "v"]>>,
              failure |-> <<>>],
   edit  |-> [pre     |-> <<[op |-> "eq", key |-> "file", text |-> "v"],
                            [op |-> "ne", key |-> "lock", text |-> "True"]>>,
              success |-> <<[op |-> "drop", key |-> "lock"],
                            [op |-> "set", key |-> "file", text |-> ""],
                            [op |-> "make", key |-> "lock"]>>,
              failure |-> <<[op |-> "drop", key |-> "file"]>>],
   free  |-> [pre     |-> <<[op |-> "holds", key |-> "lock"]>>,
              success |-> <<[op |-> "make", key |-> "lock"], [op |-> "drop", key |-> "lock"]>>,
              failure |-> <<>>]]

\* The third is exactly 5% behind the first where latency has no weight.
ScoresOf(truth, speed) == [truthfulness |-> truth, latency |-> speed]
Offers ==
  [scores : {ScoresOf(100, 0), ScoresOf(96, 0), ScoresOf(95, 0), ScoresOf(60, 100)},
   variance : {1, 2}, permitted : {TRUE}]
  \cup {[scores |-> ScoresOf(100, 100), variance |-> 1, permitted |-> FALSE]}
MCCandidateSets == UNION {[1 .. n -> Offers] : n \in 1 .. 3}

MCClaims == {{}, {"a"}, {"a", "b"}, {"b", "c", "d"}}
MCSamples == {s \in [wins : 0 .. 6, size : 0 .. 6] : s.wins <= s.size}
=============================================================================
