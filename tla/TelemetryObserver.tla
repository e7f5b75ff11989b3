--------------------------- MODULE TelemetryObserver ---------------------------
(***************************************************************************)
(* The Telemetry Observer (src/axis/telemetry.py) as far as the runtime    *)
(* reads it back: the ring buffers behind win rates and strategies, the    *)
(* refresh trigger, and the Self-Model built from them.  Latency, cost,    *)
(* calibration, failure and tool buffers feed no decision of the runtime   *)
(* and are left out.                                                       *)
(***************************************************************************)
EXTENDS AxisTypes, Sequences, FiniteSets

CONSTANTS
  RecordWindow,     \* windows["strategy_bias"]: length of _records_all
  OutcomeWindow,    \* windows["win_rate_per_class"]
  RefreshEvery,     \* self_model_refresh_every
  DriftSamples,     \* 2 * recent_n: fewer samples never raise a drift flag
  MinBestSamples    \* samples a best_strategy needs (3 in the code)

ASSUME ObserverConfig ==
  /\ RecordWindow \in Nat \ {0}
  /\ OutcomeWindow \in Nat \ {0}
  /\ RefreshEvery \in Nat \ {0}
  /\ DriftSamples \in Nat /\ DriftSamples <= OutcomeWindow
  /\ MinBestSamples \in Nat \ {0}

Records == [run : Nat, class : TaskClasses, strategy : Strategies, outcome : Outcomes]

Observers == [total    : Nat,
              records  : Seq(Records),
              outcomes : [TaskClasses -> Seq(Outcomes)]]

NewObserver == [total |-> 0, records |-> <<>>, outcomes |-> [c \in TaskClasses |-> <<>>]]

\* deque(maxlen=window).append(x)
Push(buffer, x, window) ==
  LET longer == Append(buffer, x)
  IN  IF Len(longer) > window THEN Tail(longer) ELSE longer

\* Broken variant: outcomes are kept for the window of the records.
IngestWrongWindow(obs, rec) ==
  [total    |-> obs.total + 1,
   records  |-> Push(obs.records, rec, RecordWindow),
   outcomes |-> [obs.outcomes EXCEPT ![rec.class] = Push(@, rec.outcome, RecordWindow)]]

\* ingest, up to the write to the sink
Ingest(obs, rec) ==
  [total    |-> obs.total + 1,
   records  |-> Push(obs.records, rec, RecordWindow),
   outcomes |-> [obs.outcomes EXCEPT ![rec.class] = Push(@, rec.outcome, OutcomeWindow)]]

-----------------------------------------------------------------------------
(* Rates *)

(***************************************************************************)
(* round(wins / n, 4) in basis points, ties to even.  The tie rule is that *)
(* of the code for n < 160; beyond, a tie need not be a binary64 number.   *)
(***************************************************************************)
Rate(wins, n) ==
  LET floor == (10000 * wins) \div n
      twice == 2 * ((10000 * wins) % n)
  IN  IF twice > n \/ (twice = n /\ floor % 2 = 1) THEN floor + 1 ELSE floor

Wins(outcomes) == Cardinality({i \in DOMAIN outcomes : outcomes[i] = "success"})

WinRate(obs, class) == Rate(Wins(obs.outcomes[class]), Len(obs.outcomes[class]))

\* Positions of the records of one strategy in a set of classes, and those won.
Selections(obs, classes, strategy) ==
  {i \in DOMAIN obs.records : /\ obs.records[i].class \in classes
                              /\ obs.records[i].strategy = strategy}
Won(obs, positions) == {i \in positions : obs.records[i].outcome = "success"}

\* The dicts list strategies in the order they first occur in the buffer.
SeenBefore(obs, classes, s, t) ==
  \E i \in Selections(obs, classes, s) : \A j \in Selections(obs, classes, t) : i < j

-----------------------------------------------------------------------------
(* Self-Model *)

\* best_strategy: strictly the highest unrounded win rate, the first one seen
\* among equals, of the strategies with enough samples.
BeatsInClass(obs, class, s, t) ==
  LET S == Selections(obs, {class}, s)
      T == Selections(obs, {class}, t)
      left  == Cardinality(Won(obs, S)) * Cardinality(T)
      right == Cardinality(Won(obs, T)) * Cardinality(S)
  IN  left > right \/ (left = right /\ SeenBefore(obs, {class}, s, t))

BestStrategy(obs, class) ==
  LET sampled == {s \in Strategies :
                    Cardinality(Selections(obs, {class}, s)) >= MinBestSamples}
      best    == {s \in sampled : \A t \in sampled \ {s} : BeatsInClass(obs, class, s, t)}
  IN  IF best = {} THEN "none" ELSE CHOOSE s \in best : TRUE

\* strategy_effectiveness, ranked: the sort is stable and rates are rounded.
StrategyWinRate(obs, s) ==
  LET S == Selections(obs, TaskClasses, s)
  IN  Rate(Cardinality(Won(obs, S)), Cardinality(S))

Leader(obs) ==
  LET seen == {s \in Strategies : Selections(obs, TaskClasses, s) # {}}
      best == {s \in seen : \A t \in seen \ {s} :
                 \/ StrategyWinRate(obs, s) > StrategyWinRate(obs, t)
                 \/ /\ StrategyWinRate(obs, s) = StrategyWinRate(obs, t)
                    /\ SeenBefore(obs, TaskClasses, s, t)}
  IN  IF best = {} THEN "none" ELSE CHOOSE s \in best : TRUE

Snapshot(obs) ==
  [caps    |-> [c \in TaskClasses |->
                  IF obs.outcomes[c] = <<>>
                  THEN [known |-> FALSE, rate |-> 0, best |-> "none"]
                  ELSE [known |-> TRUE,
                        rate  |-> WinRate(obs, c),
                        best  |-> BestStrategy(obs, c)]],
   leader  |-> Leader(obs),
   builtAt |-> obs.total]

-----------------------------------------------------------------------------
\* Broken variant: a refresh is due only when drift confirms it.
ShouldRefreshOnDrift(obs) ==
  IF obs.total % RefreshEvery = 0 /\ \E c \in TaskClasses : Len(obs.outcomes[c]) >= DriftSamples
  THEN BOOLEAN ELSE {FALSE}

(***************************************************************************)
(* should_refresh_self_model.  Every RefreshEvery tasks it is TRUE; in     *)
(* between it is the verdict of the drift test, a function of measured     *)
(* latencies too, which may go either way once a class has DriftSamples.   *)
(* The latency buffers are at least as long as those of the outcomes, so   *)
(* a class with DriftSamples latencies has that many outcomes.             *)
(***************************************************************************)
ShouldRefresh(obs) ==
  IF obs.total % RefreshEvery = 0 THEN {TRUE}
  ELSE IF \E c \in TaskClasses : Len(obs.outcomes[c]) >= DriftSamples
       THEN BOOLEAN ELSE {FALSE}
=============================================================================
