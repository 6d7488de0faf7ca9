------------------------------ MODULE LeakReport ------------------------------
(***************************************************************************)
(* What is printed of a prediction log: the transcript and the digest over *)
(* it (crates/asof-causality/src/log.rs, ids.rs), and the report of the    *)
(* negative control on what an observed-time replay leaked                 *)
(* (crates/asof-cli/src/main.rs).                                          *)
(*                                                                         *)
(* A digest is taken for the text it is computed from.  An id may hold     *)
(* commas, so a list of ids is the sequence of all their comma-free parts. *)
(***************************************************************************)
EXTENDS EventText, Positions

CONSTANT IdParts   \* the parts between the commas of an id

ASSUME IdPartsAssumption == DOMAIN IdParts = DOMAIN IdOf

\* EventLabels: the row of an event key, and the label of a symbol id.
RowOf(rows, key) ==
  rows[CHOOSE n \in DOMAIN rows : EventKey(EventOf(rows[n])) = key]

LabelFor(rows, key) == RowOf(rows, key).event_id

LabelForSymbol(rows, symbol) ==
  rows[CHOOSE n \in DOMAIN rows : SymbolIdOf[rows[n].symbol] = symbol].symbol

(***************************************************************************)
(* canonical_line() and transcript(): the recipe hash is not part of it.   *)
(***************************************************************************)
FormatReplayKey(rows, time, seq, key) == <<time, seq, LabelFor(rows, key)>>

InputSetText(rows, inputs) ==
  IF inputs = <<>> THEN <<"-">>
  ELSE FlattenSeq([ n \in DOMAIN inputs |-> IdParts[LabelFor(rows, inputs[n])] ])

MaxInputReplayKey(rows, record) ==
  IF record.max_key = Absent THEN <<"-">>
  ELSE FormatReplayKey(rows, record.max_time, record.max_seq, record.max_key)

\* Seeded error: the inputs are not part of the line.
LineWithoutInputs(rows, record) ==
  << FormatReplayKey(rows, record.time, record.seq, record.key),
     LabelForSymbol(rows, record.symbol), record.signal_value >>

CanonicalLine(rows, record) ==
  << FormatReplayKey(rows, record.time, record.seq, record.key),
     LabelForSymbol(rows, record.symbol), record.signal_value,
     InputSetText(rows, record.inputs), MaxInputReplayKey(rows, record) >>

Transcript(rows, log) == [ n \in DOMAIN log |-> CanonicalLine(rows, log[n]) ]

ViolatesReplayKeyOrder(rows, record) ==
  /\ record.max_key # Absent
  /\ Precedes(<<record.time, record.seq, IdOf[LabelFor(rows, record.key)]>>,
              <<record.max_time, record.max_seq, IdOf[LabelFor(rows, record.max_key)]>>)

ImpossibleIn(rows, log) ==
  Listed(log, { n \in DOMAIN log : ViolatesReplayKeyOrder(rows, log[n]) })

(***************************************************************************)
(* leak_class(), leak_violation() and leak_interpretation() of a leaked    *)
(* record and its largest input.                                           *)
(***************************************************************************)
\* Seeded error: simultaneous by the clock of the source.
ObservedTogether(prediction, input) == input.observed_time = prediction.observed_time

ReceivedTogether(prediction, input) == input.received_time = prediction.received_time

LeakClass(prediction, input) ==
  CASE ReceivedTogether(prediction, input) -> "same-timestamp received sequence"
    [] ~ReceivedTogether(prediction, input) /\ input.role = "feature_correction" ->
         "late correction"
    [] OTHER -> "late arrival"

SaturatingSub(x, y) == IF x < y THEN 0 ELSE x - y

Leak(prediction, input) ==
  [ prediction |-> prediction.event_id,
    input      |-> input.event_id,
    class      |-> LeakClass(prediction, input),
    delta      |-> SaturatingSub(input.received_time, prediction.received_time) ]

LeakedPredictions(rows, log) ==
  [ n \in DOMAIN ImpossibleIn(rows, log) |->
      LET record == ImpossibleIn(rows, log)[n] IN
      Leak(RowOf(rows, record.key), RowOf(rows, record.max_key)) ]

(***************************************************************************)
(* print_engine_summary() of both engines, print_leaked_predictions() and  *)
(* print_negative_control_diagnostic().                                    *)
(***************************************************************************)
EngineSummary(rows, log) ==
  [ transcript_hash |-> Transcript(rows, log),
    impossible      |-> Len(ImpossibleIn(rows, log)),
    verdict         |-> IF ImpossibleIn(rows, log) = <<>> THEN "PASS" ELSE "FAIL" ]

NegativeControlReport(rows, received, observed) ==
  LET leaks == LeakedPredictions(rows, observed) IN
  [ correct |-> EngineSummary(rows, received),
    broken  |-> EngineSummary(rows, observed),
    leaks   |-> leaks,
    classes |-> Cardinality({ leaks[n].class : n \in DOMAIN leaks }) ]
=============================================================================
