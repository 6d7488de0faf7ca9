----------------------------- MODULE SignalViews -----------------------------
(***************************************************************************)
(* Bounded per-symbol history and the queries a signal may ask of it       *)
(* (crates/asof-causality/src/state.rs, ids.rs, asof-signals/src/lib.rs).  *)
(*                                                                         *)
(* One buffer of MaxInputs observations serves sentiment and score         *)
(* features alike, so an observation without a sentiment can push one that *)
(* has it out of the history.                                              *)
(***************************************************************************)
EXTENDS Events, SignalMath, Positions

CONSTANT Signal   \* the configured signal, one of SignalConfigs

SignalConfigs ==
       [kind : {"last-feature-sentiment"}]
  \cup [kind : {"windowed-feature-sentiment"}, window : Nat]
  \cup [kind : {"windowed-zscore"}, window : Nat, threshold : Int]
  \cup [kind : {"vol-adjusted-momentum"}, fast : Nat, slow : Nat,
        min_trend : Int, divisor : Int]

ASSUME ViewAssumption == Signal \in SignalConfigs

(***************************************************************************)
(* FeatureObservation: what apply() keeps of a feature row.                *)
(***************************************************************************)
Observation ==
  [ sentiment     : Sentiments \cup {Absent},
    score         : Scores \cup {Absent},
    key           : Nat,
    received_time : Nat,
    seq           : Nat ]

ObservationOf(e) ==
  [ sentiment     |-> e.sentiment,
    score         |-> e.score,
    key           |-> EventKey(e),
    received_time |-> e.received_time,
    seq           |-> e.seq ]

(***************************************************************************)
(* SymbolState::push: a full buffer drops its oldest observation.          *)
(***************************************************************************)
\* Seeded error: a full buffer ignores what arrives.
PushKeepingOldest(recent, o) ==
  IF Len(recent) < MaxInputs THEN Append(recent, o) ELSE recent

Push(recent, o) ==
  IF Len(recent) < MaxInputs THEN Append(recent, o) ELSE Append(Tail(recent), o)

HasSentiment(o) == o.sentiment # Absent

HasScore(o) == o.score # Absent

Clamp(x, low, high) == IF x < low THEN low ELSE IF x > high THEN high ELSE x

(***************************************************************************)
(* What the configured signal looks at, and the value it computes.         *)
(***************************************************************************)
Relevant(o) ==
  IF Signal.kind \in {"last-feature-sentiment", "windowed-feature-sentiment"}
  THEN HasSentiment(o) ELSE HasScore(o)

SlowWindow == Clamp(Signal.slow, 1, MaxInputs)

SignalWindow ==
  CASE Signal.kind = "last-feature-sentiment" -> 1
    [] Signal.kind = "windowed-feature-sentiment" -> Signal.window
    [] Signal.kind = "windowed-zscore" -> Signal.window
    [] Signal.kind = "vol-adjusted-momentum" -> SlowWindow

NumberOf(obs, sentiment) ==
  Cardinality({ i \in DOMAIN obs : obs[i].sentiment = sentiment })

ScoresOf(obs) == [i \in DOMAIN obs |-> obs[i].score]

SignalValue(obs) ==
  CASE Signal.kind \in {"last-feature-sentiment", "windowed-feature-sentiment"} ->
         Signum(NumberOf(obs, 1) - NumberOf(obs, -1))
    [] Signal.kind = "windowed-zscore" -> ZScoreSignal(ScoresOf(obs), Signal.threshold)
    [] Signal.kind = "vol-adjusted-momentum" ->
         MomentumSignal(ScoresOf(obs), Clamp(Signal.fast, 1, SlowWindow), SlowWindow,
                        Signal.min_trend, Signal.divisor)

(***************************************************************************)
(* recent_observations_matching: the last `window' observations with the   *)
(* field the signal reads, oldest first.  Filtering comes before counting. *)
(***************************************************************************)
\* Seeded error: the last observations are taken first, then filtered.
RecentThenMatching(recent) ==
  LET newest == LastPositions(DOMAIN recent, Clamp(SignalWindow, 1, MaxInputs))
  IN  Listed(recent, { p \in newest : Relevant(recent[p]) })

RecentMatching(recent) ==
  LET matching == { p \in DOMAIN recent : Relevant(recent[p]) }
  IN  Listed(recent, LastPositions(matching, Clamp(SignalWindow, 1, MaxInputs)))

(***************************************************************************)
(* The observation with the largest (received_time, seq, key).             *)
(***************************************************************************)
ObservationKey(o) == <<o.received_time, o.seq, o.key>>

\* Seeded error: the last observation of the window stands for the largest.
LastObservation(obs) == obs[Len(obs)]

MaxObservation(obs) ==
  CHOOSE o \in { obs[i] : i \in DOMAIN obs } :
    \A i \in DOMAIN obs : ~Precedes(ObservationKey(o), ObservationKey(obs[i]))

(***************************************************************************)
(* InputSet::from_ordered_keys: the first occurrence of every key, at most *)
(* MaxInputs of them.                                                      *)
(***************************************************************************)
FromOrderedKeys(keys) ==
  LET first == { i \in DOMAIN keys : \A j \in DOMAIN keys : keys[j] = keys[i] => i <= j }
  IN  Listed(keys, { i \in first : Rank(first, i) <= MaxInputs })

(***************************************************************************)
(* The SignalEvaluation of the view a prediction is given.                 *)
(***************************************************************************)
EmptySnapshot ==
  [ signal_value |-> 0, inputs |-> <<>>, max_time |-> 0, max_seq |-> 0, max_key |-> Absent ]

SnapshotOf(obs) ==
  LET latest == MaxObservation(obs) IN
  [ signal_value |-> SignalValue(obs),
    inputs       |-> FromOrderedKeys([i \in DOMAIN obs |-> obs[i].key]),
    max_time     |-> latest.received_time,
    max_seq      |-> latest.seq,
    max_key      |-> latest.key ]

Evaluate(recent) ==
  IF RecentMatching(recent) = <<>> THEN EmptySnapshot
  ELSE SnapshotOf(RecentMatching(recent))
=============================================================================
