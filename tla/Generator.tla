------------------------------ MODULE Generator ------------------------------
(***************************************************************************)
(* The generator of adversarial feeds                                      *)
(* (crates/asof-causality/src/generator.rs).                               *)
(*                                                                         *)
(* Every draw of the SplitMix64 generator is a free choice among the       *)
(* values it can be mapped to; a rate is 0, 1 or in between, and only in   *)
(* between is the draw free.  Row identifiers are numbers instead of       *)
(* labels: what matters of them is that they differ.                       *)
(*                                                                         *)
(* Times are u64 and max_lag is any u64 (asof-cli/src/main.rs:1018-1022):  *)
(* the sums of a round wrap in a release build, which has no overflow      *)
(* checks (Cargo.toml:21-24), and panic in a debug build.                  *)
(***************************************************************************)
EXTENDS PromisedLog

CONSTANTS
  Configs,      \* the GenerateConfig records to try
  SymbolNames,  \* symbol_name: the label of every symbol index
  MaxTime,      \* u64::MAX
  Draws         \* the values of range_u64() to try, those below its bound

Rates == {"zero", "some", "one"}

AtLeastOne(n) == IF n = 0 THEN 1 ELSE n

\* The sentinels are 1 to 7; round n of the loop has a number for every kind of row.
SentinelIds == 1..7

IdOfRound(n, kind) == 10 * n + kind

\* So many rows do not fit in memory that their observed times would wrap.
ObservedTimesFit(c) == 2000 + 10 * AtLeastOne(c.events) <= MaxTime

ASSUME GeneratorAssumption ==
  /\ Configs \subseteq
       [ events : Nat, symbols : Nat, late_rate : Rates, correction_rate : Rates,
         outcome_rate : Rates, prediction_interval : Nat, max_lag : Nat,
         correction_heavy : BOOLEAN, shuffle : BOOLEAN ]
  /\ SymbolNames \in Seq(Symbols)
  /\ \A c \in Configs :
       /\ AtLeastOne(c.symbols) <= Len(SymbolNames)
       /\ \A n \in 1..AtLeastOne(c.events), kind \in 0..3 : IdOfRound(n, kind) \in EventIds
  /\ SentinelIds \subseteq EventIds
  /\ MaxTime \in Nat
  /\ \A c \in Configs : c.max_lag <= MaxTime /\ ObservedTimesFit(c)
  /\ Draws \subseteq Nat /\ 0 \in Draws

VARIABLES
  config,    \* the GenerateConfig
  phase,     \* "sentinels", "data", "shuffle", "done" or "panicked"
  events,    \* the rows so far, in physical order
  index,     \* data events generated so far
  swaps,     \* positions the shuffle still has to visit
  stats      \* GenerationStats

vars == <<config, phase, events, index, swaps, stats>>

MaxLag == AtLeastOne(config.max_lag)

\* Addition of u64 in a release build.
Wrapped(n) == n % (MaxTime + 1)

\* SplitMix64::range_u64
RangeU64(bound) == { d \in Draws : d < bound }

\* SplitMix64::chance
Chance(rate) == IF rate = "zero" THEN {FALSE} ELSE IF rate = "one" THEN {TRUE} ELSE BOOLEAN

\* next_received_sequence_number() counts the rows.
Row(id, observed, received, role, symbol, sentiment) ==
  [ id |-> id, observed_time |-> observed, received_time |-> received, seq |-> 0,
    role |-> role, symbol |-> symbol, sentiment |-> sentiment, score |-> Absent ]

\* Seeded error: the rows of a round share one number.
NumberedAlike(rows, more) ==
  rows \o [ n \in DOMAIN more |-> [more[n] EXCEPT !.seq = Len(rows) + 1] ]

Numbered(rows, more) ==
  rows \o [ n \in DOMAIN more |-> [more[n] EXCEPT !.seq = Len(rows) + n] ]

(***************************************************************************)
(* add_sentinel_events(): a late feature around a prediction and, when the *)
(* feed has corrections, a late correction around another.                 *)
(***************************************************************************)
PredictionRow(id, time, symbol) == Row(id, time, time, "prediction", symbol, Absent)

\* Seeded error: the late sentinel arrives when it is observed.
LateSentinelOnTime == Row(2, 1000, 1000, "feature", SymbolNames[1], 1)

LateSentinel == Row(2, 1000, 1020, "feature", SymbolNames[1], 1)

CorrectionSentinel == Row(5, 1040, 1060, "feature_correction", SymbolNames[1], -1)

HasCorrections == config.correction_rate # "zero" \/ config.correction_heavy

Sentinels ==
  << PredictionRow(1, 1000, SymbolNames[1]), LateSentinel,
     PredictionRow(3, 1010, SymbolNames[1]), PredictionRow(4, 1030, SymbolNames[1]) >>
  \o (IF HasCorrections
      THEN << CorrectionSentinel, PredictionRow(6, 1050, SymbolNames[1]),
              PredictionRow(7, 1070, SymbolNames[1]) >>
      ELSE <<>>)

InitialStats ==
  [ features |-> 1, predictions |-> IF HasCorrections THEN 5 ELSE 3,
    corrections |-> IF HasCorrections THEN 1 ELSE 0, outcomes |-> 0,
    late_updates |-> IF HasCorrections THEN 2 ELSE 1 ]

Init ==
  /\ config \in Configs
  /\ phase = "sentinels"
  /\ events = <<>>
  /\ index = 0
  /\ swaps = 0
  /\ stats = [features |-> 0, predictions |-> 0, corrections |-> 0, outcomes |-> 0,
              late_updates |-> 0]

AddSentinels ==
  /\ phase = "sentinels"
  /\ events' = Numbered(<<>>, Sentinels)
  /\ stats' = InitialStats
  /\ phase' = "data"
  /\ UNCHANGED <<config, index, swaps>>

(***************************************************************************)
(* One round of the loop: a feature, at every interval a prediction, and   *)
(* perhaps a correction of the feature and an outcome.                     *)
(***************************************************************************)
Lags(late) == IF late THEN { Wrapped(2 + d) : d \in RangeU64(MaxLag) } ELSE {0}

Observed == 2000 + index * 10

IdOf(kind) == IdOfRound(index + 1, kind)

Received(lag) == Wrapped(Observed + lag)

FeatureRow(symbol, lag, sentiment) ==
  Row(IdOf(0), Observed, Received(lag), "feature", symbol, sentiment)

\* Seeded error: the delay of a correction counts from the observation.
CorrectionRowFromObservation(symbol, lag, delay, sentiment) ==
  Row(IdOf(2), Observed + 2, Wrapped(Observed + 1 + delay), "feature_correction", symbol,
      sentiment)

CorrectionRow(symbol, lag, delay, sentiment) ==
  Row(IdOf(2), Observed + 2, Wrapped(Received(lag) + 1 + delay), "feature_correction", symbol,
      sentiment)

OutcomeTime == Wrapped(Observed + MaxLag + 1)

OutcomeRow(symbol) == Row(IdOf(3), OutcomeTime, OutcomeTime, "outcome", symbol, Absent)

Predicts == index % AtLeastOne(config.prediction_interval) = 0

Only(condition, row) == IF condition THEN <<row>> ELSE <<>>

CountIf(condition) == IF condition THEN 1 ELSE 0

\* Seeded error: a correction counts as late only when its feature is.
LateCorrectionLikeFeature(row, lag) == lag > 0

LateCorrection(row, lag) == row.received_time > row.observed_time

GenerateRound ==
  /\ phase = "data"
  /\ index < AtLeastOne(config.events)
  /\ \E n \in 1..AtLeastOne(config.symbols), late \in Chance(config.late_rate),
        sentiment \in Sentiments, delay \in RangeU64(MaxLag), corrected \in Sentiments,
        corrects \in Chance(config.correction_rate), pays \in Chance(config.outcome_rate) :
     \E lag \in Lags(late) :
       LET symbol     == SymbolNames[n]
           correction == CorrectionRow(symbol, lag, delay, corrected)
       IN  /\ events' = Numbered(events,
                          << FeatureRow(symbol, lag, sentiment) >>
                          \o Only(Predicts, PredictionRow(IdOf(1), Observed + 1, symbol))
                          \o Only(corrects, correction)
                          \o Only(pays, OutcomeRow(symbol)))
           /\ stats' = [ features     |-> stats.features + 1,
                         predictions  |-> stats.predictions + CountIf(Predicts),
                         corrections  |-> stats.corrections + CountIf(corrects),
                         outcomes     |-> stats.outcomes + CountIf(pays),
                         late_updates |-> stats.late_updates + CountIf(late)
                           + CountIf(corrects /\ LateCorrection(correction, lag)) ]
  /\ index' = index + 1
  /\ UNCHANGED <<config, phase, swaps>>

\* Some sum of a round with these draws is more than a u64.
Overflows(late, draw, corrects, delay, pays) ==
  LET lag == IF late THEN 2 + draw ELSE 0
  IN  \/ Observed + lag > MaxTime
      \/ corrects /\ Observed + lag + 1 + delay > MaxTime
      \/ pays /\ Observed + MaxLag + 1 > MaxTime

\* A debug build stops at the sum that overflows, and there is no feed.
Panic ==
  /\ phase = "data"
  /\ index < AtLeastOne(config.events)
  /\ \E late \in Chance(config.late_rate), corrects \in Chance(config.correction_rate),
        pays \in Chance(config.outcome_rate), draw, delay \in RangeU64(MaxLag) :
       Overflows(late, draw, corrects, delay, pays)
  /\ phase' = "panicked"
  /\ UNCHANGED <<config, events, index, swaps, stats>>

StartShuffle ==
  /\ phase = "data"
  /\ index = AtLeastOne(config.events)
  /\ phase' = IF config.shuffle THEN "shuffle" ELSE "done"
  /\ swaps' = IF config.shuffle THEN Len(events) ELSE 0
  /\ UNCHANGED <<config, events, index, stats>>

\* shuffle(): the last position not visited yet is swapped with one up to it.
Swap ==
  /\ phase = "shuffle"
  /\ swaps > 1
  /\ \E n \in 1..swaps :
       events' = [events EXCEPT ![swaps] = events[n], ![n] = events[swaps]]
  /\ swaps' = swaps - 1
  /\ UNCHANGED <<config, phase, index, stats>>

EndShuffle ==
  /\ phase = "shuffle"
  /\ swaps <= 1
  /\ phase' = "done"
  /\ UNCHANGED <<config, events, index, swaps, stats>>

Returned == phase \in {"done", "panicked"} /\ UNCHANGED vars

Next ==
  \/ AddSentinels \/ GenerateRound \/ Panic \/ StartShuffle \/ Swap \/ EndShuffle
  \/ Returned

Spec == Init /\ [][Next]_vars

-----------------------------------------------------------------------------
(***************************************************************************)
(* Replay accepts every generated feed, whatever is drawn, wherever the    *)
(* shuffle puts it and whether or not its times wrap (generator.rs:135-254 *)
(* against replay.rs:162-200).                                             *)
(***************************************************************************)
GeneratedFeedIsAccepted == phase = "done" => ~Refused(events)

\* No sum of this configuration wraps, whatever is drawn.  --max-lag is not
\* bounded by the code, so what needs this is a promise for such lags only.
Roomy == 2000 + 10 * (AtLeastOne(config.events) - 1) + 2 * MaxLag + 1 <= MaxTime

(***************************************************************************)
(* Every generated feed sets a trap: the prediction between observation    *)
(* and receipt of the late sentinel cites the sentinel in the observed-    *)
(* time replay, whatever the lags, and cites nothing in the received-time  *)
(* replay unless a row of the rounds wraps to before it, so no feed leaves *)
(* the checks without a late row to find (generator.rs:256-328).           *)
(***************************************************************************)
RecordOf(log, id) == log[CHOOSE n \in DOMAIN log : log[n].key = KeyOf[id]]

SentinelsSetATrap ==
  phase = "done" =>
    /\ RecordOf(LogOf(events, "ObservedTimeLeaky"), 3).max_key = KeyOf[2]
    /\ RecordOf(LogOf(events, "ObservedTimeLeaky"), 3).max_time > 1010
    /\ HasCorrections => RecordOf(LogOf(events, "ObservedTimeLeaky"), 6).max_key = KeyOf[5]
    /\ Roomy =>
         /\ RecordOf(LogOf(events, "ReceivedTime"), 3).inputs = <<>>
         /\ RecordOf(LogOf(events, "ReceivedTime"), 4).inputs = <<KeyOf[2]>>
         /\ HasCorrections => RecordOf(LogOf(events, "ReceivedTime"), 6).max_key = KeyOf[2]

(***************************************************************************)
(* The statistics printed beside the feed count its rows and, unless a     *)
(* time wraps, the late ones among them, although the corrections of       *)
(* punctual features may be late and those received within two ticks are   *)
(* not (generator.rs:199-232).                                             *)
(***************************************************************************)
CountOf(Test(_)) == Cardinality({ i \in DOMAIN events : Test(events[i]) })

StatsMatchRows ==
  phase # "sentinels" =>
    /\ stats.features = CountOf(LAMBDA e : e.role = "feature")
    /\ stats.predictions = CountOf(IsPrediction)
    /\ stats.corrections = CountOf(LAMBDA e : e.role = "feature_correction")
    /\ stats.outcomes = CountOf(LAMBDA e : e.role = "outcome")
    /\ Roomy =>
         stats.late_updates =
           CountOf(LAMBDA e : UpdatesSignalState(e) /\ e.received_time > e.observed_time)

(***************************************************************************)
(* A correction becomes available after the feature it corrects, however   *)
(* late that is and wherever the shuffle puts both, as long as no sum      *)
(* wraps; with a max_lag that leaves less room a release build wraps and a *)
(* correction can come first (generator.rs:181-217).                       *)
(***************************************************************************)
CorrectionsFollowTheirFeature ==
  Roomy =>
    \A i, j \in DOMAIN events :
      /\ events[i].id >= 10
      /\ events[j].id = events[i].id + 2
      /\ events[i].role = "feature"
      /\ events[j].role = "feature_correction"
      => ReceivedBefore(events[i], events[j])
=============================================================================
