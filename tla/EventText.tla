------------------------------ MODULE EventText ------------------------------
(***************************************************************************)
(* Events as lines of a pipe-delimited file: Event::from_pipe_record(),    *)
(* Event::to_pipe_record() and the payload accessors of                    *)
(* crates/asof-causality/src/event.rs, and                                 *)
(* GeneratedStream::to_pipe_string() of generator.rs.                      *)
(*                                                                         *)
(* A line is the sequence of the cells between its bars.  A cell is its    *)
(* trimmed text, for every reader trims what it takes.  From the seventh   *)
(* cell on a cell belongs to the payload and is the nonempty sequence of   *)
(* the parts between its commas; a part without an equal sign has no       *)
(* value.                                                                  *)
(***************************************************************************)
EXTENDS Events, SequencesExt

CONSTANTS
  IdOf,        \* event id texts, as the numbers that order them the same way
  ReadNumber,  \* the texts u64::from_str accepts, with their values
  ShowNumber,  \* the text a number is written as
  ReadScore,   \* the texts parse_fixed_decimal() accepts, with their values
  Comments,    \* cells that begin with a hash
  Glued,       \* a piece of text with a bar inside
  Header       \* the comment lines of to_pipe_string()

ASSUME EventTextAssumption ==
  /\ \A t \in DOMAIN IdOf : IdOf[t] \in EventIds
  /\ \A t, u \in DOMAIN IdOf : IdOf[t] = IdOf[u] => t = u
  /\ \A t \in DOMAIN ReadNumber : ReadNumber[t] \in Nat \cap DOMAIN ShowNumber
  /\ \A n \in DOMAIN ShowNumber :
       ShowNumber[n] \in DOMAIN ReadNumber /\ ReadNumber[ShowNumber[n]] = n
  /\ \A t \in DOMAIN ReadScore : ReadScore[t] \in Scores
  /\ "-999" \in DOMAIN ReadScore /\ ReadScore["-999"] = MutatedScore
  /\ Absent \notin DOMAIN ReadScore \cup {"negative"}
  /\ Header \in Seq(Seq(Comments) \ {<<>>})

RoleNamed ==
  [ feature            |-> "feature",            news       |-> "feature",
    feature_correction |-> "feature_correction", correction |-> "feature_correction",
    prediction         |-> "prediction",         predict    |-> "prediction",
    outcome            |-> "outcome",            label      |-> "outcome" ]

SentimentNamed ==
  [ text \in {"negative", "-1", "neutral", "0", "positive", "1"} |->
      CASE text \in {"negative", "-1"} -> -1
        [] text \in {"neutral", "0"} -> 0
        [] text \in {"positive", "1"} -> 1 ]

(***************************************************************************)
(* from_pipe_record(): at least seven cells, and the first cell that does  *)
(* not read as its field names the error.                                  *)
(***************************************************************************)
FieldNames ==
  <<"event_id", "observed_time", "received_time", "received_sequence_number", "role", "symbol">>

Fits(field, text) ==
  /\ field \in {"event_id", "symbol"} => text # ""
  /\ field = "role" => text \in DOMAIN RoleNamed
  /\ field \in {"observed_time", "received_time", "received_sequence_number"} =>
       text \in DOMAIN ReadNumber

Misfits(line) == { n \in DOMAIN FieldNames : ~Fits(FieldNames[n], line[n]) }

IsRecord(line) == Len(line) > Len(FieldNames) /\ Misfits(line) = {}

RecordError(line) ==
  IF Len(line) <= Len(FieldNames) THEN "WrongFieldCount" ELSE FieldNames[Min(Misfits(line))]

\* splitn(7): bars after the sixth are text of the payload.
JoinedAtBar(left, right) ==
  LET end == Last(left)
      joint == IF end.value # Absent THEN [end EXCEPT !.value = Glued]
               ELSE [Head(right) EXCEPT !.key = Glued]
  IN  Front(left) \o <<joint>> \o Tail(right)

Payload(line) ==
  IF Len(line) = 7 THEN line[7] ELSE FoldLeft(JoinedAtBar, line[7], SubSeq(line, 8, Len(line)))

FromPipeRecord(line) ==
  [ event_id      |-> line[1],
    observed_time |-> ReadNumber[line[2]],
    received_time |-> ReadNumber[line[3]],
    seq           |-> ReadNumber[line[4]],
    role          |-> RoleNamed[line[5]],
    symbol        |-> line[6],
    payload       |-> Payload(line) ]

\* parse_pipe_events() passes over these.
Skipped(line) == line[1] \in Comments \/ line = <<"">>

(***************************************************************************)
(* payload_field(): the first part with the key and a value decides.       *)
(***************************************************************************)
PayloadField(payload, key) ==
  LET hits == { n \in DOMAIN payload : payload[n].key = key /\ payload[n].value # Absent } IN
  IF hits = {} THEN Absent
  ELSE payload[CHOOSE n \in hits : \A k \in hits : n <= k].value

ReadField(row, key, values) ==
  LET text == PayloadField(row.payload, key) IN
  IF row.role \notin FeatureRoles \/ text = Absent THEN Absent
  ELSE IF text \in DOMAIN values THEN values[text] ELSE Malformed

\* The event replay sees in a row.
EventOf(row) ==
  [ id            |-> IdOf[row.event_id],
    observed_time |-> row.observed_time,
    received_time |-> row.received_time,
    seq           |-> row.seq,
    role          |-> row.role,
    symbol        |-> row.symbol,
    sentiment     |-> ReadField(row, "sentiment", SentimentNamed),
    score         |-> ReadField(row, "score", ReadScore) ]

(***************************************************************************)
(* with_mutated_future_payload(), on the text of the payload.              *)
(***************************************************************************)
Part(key, value) == [key |-> key, value |-> value]

\* Seeded error: the extreme value is put behind what the payload says.
AppendedPayload(row) ==
  IF row.role \notin FeatureRoles THEN Append(row.payload, Part("mutated", "true"))
  ELSE IF PayloadField(row.payload, "score") # Absent
       THEN row.payload \o <<Part("score", "-999"), Part("mutated", "true")>>
       ELSE row.payload \o <<Part("sentiment", "negative"), Part("mutated", "true")>>

MutatedPayload(row) ==
  IF row.role \notin FeatureRoles THEN Append(row.payload, Part("mutated", "true"))
  ELSE IF PayloadField(row.payload, "score") # Absent
       THEN <<Part("score", "-999"), Part("mutated", "true")>>
       ELSE <<Part("sentiment", "negative"), Part("mutated", "true")>>

MutatedRow(row) == [row EXCEPT !.payload = MutatedPayload(row)]

(***************************************************************************)
(* to_pipe_record() and to_pipe_string(): three lines of comment come      *)
(* first.                                                                  *)
(***************************************************************************)
\* Seeded error: the two times change places.
SwappedPipeRecord(row) ==
  << row.event_id, ShowNumber[row.received_time], ShowNumber[row.observed_time],
     ShowNumber[row.seq], row.role, row.symbol, row.payload >>

ToPipeRecord(row) ==
  << row.event_id, ShowNumber[row.observed_time], ShowNumber[row.received_time],
     ShowNumber[row.seq], row.role, row.symbol, row.payload >>

ToPipeString(rows) == Header \o [ n \in DOMAIN rows |-> ToPipeRecord(rows[n]) ]
=============================================================================
