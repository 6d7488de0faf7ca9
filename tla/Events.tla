------------------------------- MODULE Events -------------------------------
(***************************************************************************)
(* Two-clock event rows (crates/asof-causality/src/event.rs, ids.rs).      *)
(*                                                                         *)
(* An event carries the time it was observed at its source, the time it    *)
(* became available to replay, and a sequence number that breaks ties      *)
(* within a receipt time.  Event identifiers are numbers, which gives them *)
(* the total order the code takes from comparing strings.  The payload is  *)
(* reduced to the two fields the code reads, `sentiment' and `score': a    *)
(* field is missing (Absent), unparsable (Malformed) or has a value.       *)
(***************************************************************************)
EXTENDS Integers, Sequences

CONSTANTS
  EventIds,    \* event identifiers
  Symbols,     \* symbol labels
  Scores,      \* score values a payload may hold, in units of the fixed scale
  Absent,      \* Option::None
  Malformed,   \* a payload field that does not parse
  KeyOf,       \* EventKey::from_label: a hash, so two ids may share a key
  SymbolIdOf,  \* SymbolId::from_label: a hash, so two labels may share an id
  MaxInputs,   \* MAX_INPUTS_PER_PREDICTION (8)
  MutatedScore \* the score written by with_mutated_future_payload (-999)

ASSUME EventsAssumption ==
  /\ EventIds \subseteq Nat
  /\ Scores \subseteq Int
  /\ KeyOf \in [EventIds -> Nat]
  /\ SymbolIdOf \in [Symbols -> Nat]
  /\ MutatedScore \in Scores
  /\ Absent \notin Int
  /\ Malformed \notin Int
  /\ Absent # Malformed

ASSUME InputsAssumption == MaxInputs \in Nat \ {0}

Roles == {"feature", "feature_correction", "prediction", "outcome"}

FeatureRoles == {"feature", "feature_correction"}

Sentiments == {-1, 0, 1}

Event ==
  [ id            : EventIds,
    observed_time : Nat,
    received_time : Nat,
    seq           : Nat,
    role          : Roles,
    symbol        : Symbols,
    sentiment     : Sentiments \cup {Absent, Malformed},
    score         : Scores \cup {Absent, Malformed} ]

UpdatesSignalState(e) == e.role \in FeatureRoles

IsPrediction(e) == e.role = "prediction"

EventKey(e) == KeyOf[e.id]

(***************************************************************************)
(* The derived lexicographic order of ReplayKey.                           *)
(***************************************************************************)
Precedes(k, l) ==
  \/ k[1] < l[1]
  \/ k[1] = l[1] /\ k[2] < l[2]
  \/ k[1] = l[1] /\ k[2] = l[2] /\ k[3] < l[3]

ReplayKey(e) == <<e.received_time, e.seq, e.id>>

ObservedKey(e) == <<e.observed_time, e.seq, e.id>>

ReceivedBefore(e, f) == Precedes(ReplayKey(e), ReplayKey(f))

(***************************************************************************)
(* feature_values(): both fields are parsed, and a feature row must carry  *)
(* at least one of them.                                                   *)
(***************************************************************************)
\* Seeded error: a field that does not parse is taken for a value.
PayloadOkUnparsed(e) == e.sentiment # Absent \/ e.score # Absent

PayloadOk(e) ==
  /\ e.sentiment # Malformed
  /\ e.score # Malformed
  /\ e.sentiment # Absent \/ e.score # Absent

(***************************************************************************)
(* with_mutated_future_payload(): the copy of a feature row keeps only the *)
(* extreme score when it had a score field, else only a negative           *)
(* sentiment.  Other roles get a payload field nothing reads.              *)
(***************************************************************************)
WithMutatedFuturePayload(e) ==
  IF ~UpdatesSignalState(e) THEN e
  ELSE IF e.score # Absent
       THEN [e EXCEPT !.sentiment = Absent, !.score = MutatedScore]
       ELSE [e EXCEPT !.sentiment = -1]
=============================================================================
