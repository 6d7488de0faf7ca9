-------------------------------- MODULE Audit --------------------------------
(***************************************************************************)
(* The audit command (crates/asof-cli/src/main.rs, audit()): a file is     *)
(* replayed, predictions that another system stored are matched with the   *)
(* log, outcomes are attached, one line per record is written, and the     *)
(* exit status says whether the stored predictions are certified.          *)
(*                                                                         *)
(* A call of replay is taken for what AsOfReplay promises of it.  The      *)
(* recipe hash is an injective digest of the cited keys in order, and is   *)
(* represented by them.  The stored predictions come from a producer and   *)
(* may have been edited since.                                             *)
(***************************************************************************)
EXTENDS PromisedLog

CONSTANTS
  Feeds,        \* the files to audit, sequences of events
  Invocations   \* AuditArgs, with what is in the files they name

Producers == {"none", "replay", "live", "leaky", "outage"}

Edits == {"none", "no_hashes", "line_lost", "line_repeated", "line_added", "symbol_changed", "torn"}

OutcomeFiles == {"none", "json", "pipe", "json_incomplete", "repeated", "foreign", "bad_number"}

ASSUME AuditAssumption ==
  /\ Feeds \subseteq Seq(Event)
  /\ Invocations \subseteq
       [ producer : Producers, edit : Edits, outcomes : OutcomeFiles,
         allow_missing : BOOLEAN, out : BOOLEAN ]
  /\ Absent \notin BOOLEAN
  /\ Absent \notin Seq(Nat)

VARIABLES
  events,     \* the file
  args,       \* the invocation
  phase,      \* "replay", "stored", "outcomes", "write", "exit", "passed" or "failed"
  error,      \* what failed, or "none"
  log,        \* the replayed log
  stored,     \* the stored predictions, or Absent
  outcomes,   \* the outcomes by key
  written     \* the lines written, or Absent

vars == <<events, args, phase, error, log, stored, outcomes, written>>

\* AuditKey: the symbol and the replay key of a prediction.
AuditKey(record) == <<record.symbol, record.time, record.seq, record.key>>

-----------------------------------------------------------------------------
(***************************************************************************)
(* The producers of stored predictions: this program, a live system that   *)
(* has only received the rows before each prediction, one that replays by  *)
(* observed time, and one that lost its first feature.                     *)
(***************************************************************************)
PredictionRows == Listed(events, { i \in DOMAIN events : IsPrediction(events[i]) })

ReceivedUpTo(p) ==
  Listed(events, { i \in DOMAIN events : events[i] = p \/ ReceivedBefore(events[i], p) })

WithoutFirstFeature ==
  LET features == { i \in DOMAIN events : UpdatesSignalState(events[i]) }
  IN  Listed(events, { i \in DOMAIN events : i \in features => \E j \in features : j < i })

LiveRecord(p) ==
  LET own == LogOf(ReceivedUpTo(p), "ReceivedTime") IN own[Len(own)]

ProducedBy(producer) ==
  IF producer = "live"
  THEN [ n \in DOMAIN PredictionRows |-> LiveRecord(PredictionRows[n]) ]
  ELSE LogOf(IF producer = "outage" THEN WithoutFirstFeature ELSE events,
             IF producer = "leaky" THEN "ObservedTimeLeaky" ELSE "ReceivedTime")

StoredLine(record) ==
  [key |-> AuditKey(record), value |-> record.signal_value, hash |-> record.inputs]

Foreign == <<0, 0, 0, 0>>

\* The lines of the file of stored predictions; the value of a torn line does not parse.
Edited(all) ==
  CASE args.edit = "none" -> all
    [] args.edit = "no_hashes" -> [ n \in DOMAIN all |-> [all[n] EXCEPT !.hash = Absent] ]
    [] args.edit = "line_lost" -> IF all = <<>> THEN all ELSE Tail(all)
    [] args.edit = "line_repeated" -> all \o all
    [] args.edit = "line_added" -> Append(all, [key |-> Foreign, value |-> 0, hash |-> <<>>])
    [] args.edit = "symbol_changed" ->
         [ n \in DOMAIN all |-> IF n = 1 THEN [all[n] EXCEPT !.key[1] = 0] ELSE all[n] ]
    [] args.edit = "torn" -> Append(all, [key |-> Foreign, value |-> Malformed, hash |-> Absent])

StoredFile(producer) ==
  IF producer = "none" THEN Absent
  ELSE Edited([ n \in DOMAIN PredictionRows |-> StoredLine(ProducedBy(producer)[n]) ])

\* The outcome of a prediction, in the row of a file.
OutcomeOf(record) == [role |-> "outcome", key |-> AuditKey(record), return_bps |-> 1]

OutcomeRows ==
  LET all  == [ n \in DOMAIN log |-> OutcomeOf(log[n]) ]
      more == CASE args.outcomes = "pipe" ->
                     << [role |-> "feature", key |-> Foreign, return_bps |-> 1],
                        [role |-> "outcome", key |-> Absent, return_bps |-> 1],
                        [role |-> "outcome", key |-> Foreign, return_bps |-> Absent] >>
                [] args.outcomes = "json_incomplete" ->
                     << [role |-> "outcome", key |-> Foreign, return_bps |-> Absent] >>
                [] args.outcomes = "foreign" ->
                     << [role |-> "outcome", key |-> Foreign, return_bps |-> 1] >>
                [] args.outcomes = "bad_number" ->
                     << [role |-> "outcome", key |-> Foreign, return_bps |-> Malformed] >>
                [] args.outcomes = "repeated" -> all
                [] OTHER -> <<>>
  IN  IF args.outcomes = "none" THEN <<>> ELSE all \o more

AsPipe == args.outcomes \in {"pipe", "bad_number"}

-----------------------------------------------------------------------------
KeysOf(rows) == { rows[n].key : n \in DOMAIN rows }

Repeats(rows) == Cardinality(KeysOf(rows)) < Len(rows)

\* parse_stored_predictions_jsonl()
StoredIsBad(lines) == (\A n \in DOMAIN lines : lines[n].value # Malformed) => Repeats(lines)

\* parse_outcome_pipe() passes over rows without the fields of an outcome.
Attachable(row) == row.role = "outcome" /\ row.key # Absent /\ row.return_bps # Absent

Kept(rows) ==
  IF AsPipe THEN Listed(rows, { n \in DOMAIN rows : Attachable(rows[n]) }) ELSE rows

OutcomesAreBad(rows) ==
  (\A n \in DOMAIN Kept(rows) : Kept(rows)[n].return_bps # Malformed /\ Attachable(Kept(rows)[n]))
  => Repeats(Kept(rows))

(***************************************************************************)
(* stored_record_matches(), format_audit_record_json() and                 *)
(* summarize_audit().                                                      *)
(***************************************************************************)
\* Seeded error: the recipe is not compared.
MatchesByValue(line, record) == line.value = record.signal_value

Matches(line, record) ==
  /\ line.value = record.signal_value
  /\ IF line.hash = Absent THEN args.allow_missing ELSE line.hash = record.inputs

Certified(record) ==
  \E n \in DOMAIN stored : stored[n].key = AuditKey(record) /\ Matches(stored[n], record)

LabelFor(key) == events[CHOOSE i \in DOMAIN events : EventKey(events[i]) = key].id

IsCausal(record) ==
  record.max_key # Absent =>
    ~Precedes(<<record.time, record.seq, LabelFor(record.key)>>,
              <<record.max_time, record.max_seq, LabelFor(record.max_key)>>)

AuditLine(record) ==
  [ key     |-> AuditKey(record),
    causal  |-> IsCausal(record),
    matched |-> IF stored = Absent THEN Absent ELSE Certified(record),
    outcome |-> IF AuditKey(record) \in KeysOf(outcomes)
                THEN outcomes[CHOOSE n \in DOMAIN outcomes : outcomes[n].key = AuditKey(record)].return_bps
                ELSE Absent ]

AuditLines == [ n \in DOMAIN log |-> AuditLine(log[n]) ]

\* Seeded error: a record without inputs is not expected.
ExpectedKeysOfCited == { AuditKey(log[n]) : n \in { k \in DOMAIN log : log[k].inputs # <<>> } }

ExpectedKeys == { AuditKey(log[n]) : n \in DOMAIN log }

Summary ==
  [ non_causal |-> Cardinality({ n \in DOMAIN log : ~IsCausal(log[n]) }),
    mismatched |-> IF stored = Absent THEN 0
                   ELSE Cardinality({ n \in DOMAIN log : ~Certified(log[n]) }),
    extra      |-> IF stored = Absent THEN 0
                   ELSE Cardinality(KeysOf(stored) \ ExpectedKeys),
    attached   |-> Cardinality(KeysOf(outcomes) \cap ExpectedKeys) ]

\* Seeded error: extra predictions do not count.
PassesWithExtra == Summary.non_causal = 0 /\ Summary.mismatched = 0

Passes == Summary.non_causal = 0 /\ Summary.mismatched = 0 /\ Summary.extra = 0

-----------------------------------------------------------------------------
Init ==
  /\ events \in Feeds
  /\ args \in Invocations
  /\ phase = "replay"
  /\ error = "none"
  /\ log = <<>>
  /\ stored = Absent
  /\ outcomes = <<>>
  /\ written = Absent

Fail(with) ==
  /\ phase' = "failed"
  /\ error' = with
  /\ UNCHANGED <<events, args, log, stored, outcomes, written>>

ReplayEvents ==
  /\ phase = "replay"
  /\ \/ Refused(events) /\ Fail("replay")
     \/ /\ ~Refused(events)
        /\ log' = LogOf(events, "ReceivedTime")
        /\ phase' = "stored"
        /\ UNCHANGED <<events, args, error, stored, outcomes, written>>

LoadStored ==
  /\ phase = "stored"
  /\ \E lines \in {StoredFile(args.producer)} :
     \/ lines # Absent /\ StoredIsBad(lines) /\ Fail("stored")
     \/ /\ lines # Absent => ~StoredIsBad(lines)
        /\ stored' = lines
        /\ phase' = "outcomes"
        /\ UNCHANGED <<events, args, error, log, outcomes, written>>

LoadOutcomes ==
  /\ phase = "outcomes"
  /\ \E rows \in {OutcomeRows} :
     \/ OutcomesAreBad(rows) /\ Fail("outcomes")
     \/ /\ ~OutcomesAreBad(rows)
        /\ outcomes' = Kept(rows)
        /\ phase' = "write"
        /\ UNCHANGED <<events, args, error, log, stored, written>>

\* The lines go to the output file, which may fail, or to standard output.
Write ==
  /\ phase = "write"
  /\ \/ args.out /\ Fail("write")
     \/ /\ written' = AuditLines
        /\ phase' = "exit"
        /\ UNCHANGED <<events, args, error, log, stored, outcomes>>

Exit ==
  /\ phase = "exit"
  /\ \/ ~Passes /\ Fail("audit")
     \/ Passes /\ phase' = "passed"
               /\ UNCHANGED <<events, args, error, log, stored, outcomes, written>>

Returned == phase \in {"passed", "failed"} /\ UNCHANGED vars

Next == ReplayEvents \/ LoadStored \/ LoadOutcomes \/ Write \/ Exit \/ Returned

Spec == Init /\ [][Next]_vars

-----------------------------------------------------------------------------
(***************************************************************************)
(* A green audit certifies the producer: it stored one line for every      *)
(* prediction and no other, and every recipe it stored cites only rows     *)
(* received before its prediction (docs/audit-artifacts.md:132-138;        *)
(* main.rs:1167-1172, 1281-1294).                                          *)
(***************************************************************************)
RowWithKey(key) == events[CHOOSE i \in DOMAIN events : EventKey(events[i]) = key]

GreenCertifiesTheProducer ==
  phase = "passed" /\ stored # Absent =>
    /\ Len(stored) = Len(PredictionRows)
    /\ \A i \in DOMAIN PredictionRows : \E n \in DOMAIN stored :
         stored[n].key[4] = EventKey(PredictionRows[i])
    /\ \A n \in DOMAIN stored : stored[n].hash # Absent =>
         \A k \in DOMAIN stored[n].hash :
           ReceivedBefore(RowWithKey(stored[n].hash[k]), RowWithKey(stored[n].key[4]))

(***************************************************************************)
(* An honest producer is never accused: predictions made live, each from   *)
(* no more than the rows received before it, pass the audit of the whole   *)
(* file, whatever rows arrived later (main.rs:1296-1369).                  *)
(***************************************************************************)
HonestProducerPasses ==
  args.producer \in {"live", "replay"} /\ args.edit = "none" => error \notin {"stored", "audit"}

(***************************************************************************)
(* The exit status and the summary say what the lines say: the audit       *)
(* passes when every line is causal and matched and nothing else was       *)
(* stored, and reports as many outcomes as the lines carry.  Both are      *)
(* computed separately, and an audit that fails has written its evidence   *)
(* (main.rs:113-152, 1228-1369).                                           *)
(***************************************************************************)
ExitAgreesWithLines ==
  phase = "passed" \/ error = "audit" =>
    /\ Len(written) = Len(log)
    /\ (phase = "passed") =
         /\ \A n \in DOMAIN written : written[n].causal /\ written[n].matched # FALSE
         /\ stored # Absent =>
              \A m \in DOMAIN stored : \E n \in DOMAIN written : written[n].key = stored[m].key
    /\ Summary.attached = Cardinality({ n \in DOMAIN written : written[n].outcome # Absent })
=============================================================================
