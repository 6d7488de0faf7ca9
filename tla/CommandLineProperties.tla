------------------------- MODULE CommandLineProperties -------------------------
(***************************************************************************)
(* What the command line promises its user.                                *)
(***************************************************************************)
EXTENDS CommandLine

(***************************************************************************)
(* The order of flags on a command line means nothing: two neighbouring    *)
(* groups that set different things can change places without changing a   *)
(* setting.  The presets of a scenario in particular never undo a flag     *)
(* that was given before it (main.rs:685-857, 966-1053).  It is claimed of *)
(* lines accepted in both orders: with `--out --scenario' before another   *)
(* word it is not, because the scenario is searched for among all words    *)
(* first.                                                                  *)
(***************************************************************************)
GroupStarts == Args!Starts(Command, Given)

GroupEnd(n) == CHOOSE k \in GroupStarts \cup {Len(Given) + 1} :
                 k > n /\ \A j \in GroupStarts : j > n => k <= j

SetBy(n) ==
  IF Given[n] \in DOMAIN Args!FlagsOf(Command)
  THEN Args!FlagsOf(Command)[Given[n]].sets ELSE "a path"

Swapped(i, j) ==
  SubSeq(Given, 1, i - 1) \o SubSeq(Given, j, GroupEnd(j) - 1)
    \o SubSeq(Given, i, j - 1) \o SubSeq(Given, GroupEnd(j), Len(Given))

OrderOfFlagsIsFree ==
  phase = "start" /\ Command \in Parsed /\ Args!Accepted(Command, Given) =>
    \A i, j \in GroupStarts :
      GroupEnd(i) = j /\ SetBy(i) # SetBy(j) /\ Args!Accepted(Command, Swapped(i, j)) =>
        Args!Settings(Command, Swapped(i, j)) = Args!Settings(Command, Given)

(***************************************************************************)
(* A file is read exactly or refused: an error names the first physical    *)
(* line that is neither skipped nor a record, and what was read is written *)
(* by to_pipe_string() as text that reads back as the same rows            *)
(* (replay.rs:203-220, event.rs:277-317, generator.rs:109-134).  A record  *)
(* is what the code takes for one: bars after the sixth belong to the      *)
(* payload (splitn(7), event.rs:283), although docs/architecture.md:109    *)
(* refuses such a row; see DataRowsHaveSevenFields.                        *)
(***************************************************************************)
IsReadable(line) == Skipped(line) \/ IsRecord(line)

FileIsReadExactly ==
  /\ error.line # Absent =>
       /\ ~IsReadable(text[error.line])
       /\ \A n \in 1..(error.line - 1) : IsReadable(text[n])
  /\ phase \notin {"start", "loading"} =>
       LET printed == ToPipeString(rows)
           data    == Listed(printed, { n \in DOMAIN printed : ~Skipped(printed[n]) })
       IN  /\ \A n \in DOMAIN printed : IsReadable(printed[n])
           /\ [ n \in DOMAIN data |-> FromPipeRecord(data[n]) ] = rows

(***************************************************************************)
(* What docs/architecture.md:108-119 says of the same reader: every data   *)
(* row must have exactly seven fields between bars, and a malformed row    *)
(* aborts the run, so a process that read a file and succeeded found       *)
(* seven.  The code refuses rows with fewer only (event.rs:283-289).       *)
(***************************************************************************)
DataRowsHaveSevenFields ==
  phase = "done" /\ Command \in Args!FileCommands =>
    \A n \in DOMAIN text : Skipped(text[n]) \/ Len(text[n]) = 7

(***************************************************************************)
(* Mutating the text of a future payload is the mutation the checks are    *)
(* proved about: whatever a payload holds, the mutated text reads as the   *)
(* extreme value and as nothing else (event.rs:326-392, 634-640).          *)
(***************************************************************************)
MutationReachesSignal ==
  \A n \in DOMAIN rows :
    EventOf(MutatedRow(rows[n])) = WithMutatedFuturePayload(EventOf(rows[n]))

(***************************************************************************)
(* What the negative control prints is true and complete: the leaked       *)
(* records are those that cite any row received after their prediction,    *)
(* and the explanation names a row that was received later, at the same    *)
(* time by its sequence number alone and else by the delta shown           *)
(* (main.rs:3367-3494, docs/architecture.md:286-297).                      *)
(***************************************************************************)
Reported == IsNegativeControl /\ phase = "done"

CitesLaterRow(record) ==
  \E n \in DOMAIN record.inputs :
    ReceivedBefore(EventOf(RowOf(rows, record.key)), EventOf(RowOf(rows, record.inputs[n])))

RowNamed(id) == rows[CHOOSE n \in DOMAIN rows : rows[n].event_id = id]

IsExplained(leak) ==
  LET prediction == RowNamed(leak.prediction)
      input      == RowNamed(leak.input)
  IN  IF leak.class = "same-timestamp received sequence"
      THEN input.received_time = prediction.received_time /\ input.seq > prediction.seq
      ELSE /\ leak.delta > 0
           /\ prediction.received_time + leak.delta = input.received_time
           /\ leak.class = "late correction" <=> input.role = "feature_correction"

LeaksAreExplained ==
  Reported =>
    /\ \A n \in DOMAIN Report.leaks : IsExplained(Report.leaks[n])
    /\ { Report.leaks[n].prediction : n \in DOMAIN Report.leaks } =
         { LabelFor(rows, observed[n].key) : n \in { k \in DOMAIN observed : CitesLaterRow(observed[k]) } }

(***************************************************************************)
(* Equal transcript digests of the two engines mean that the broken one    *)
(* leaked nothing on this file, so a reader may compare the digests alone  *)
(* (log.rs:36-56, 129-152; docs/measurements.md:45).                       *)
(***************************************************************************)
EqualDigestsMeanNoLeak ==
  Reported /\ Report.correct.transcript_hash = Report.broken.transcript_hash =>
    \A n \in DOMAIN observed : ~CitesLaterRow(observed[n])

(***************************************************************************)
(* The two loops of the benchmark, written apart, did the same work, for   *)
(* any number of events and symbols, none included: every name of the map  *)
(* and its slot of the vector hold the same sentiment, and the checksums   *)
(* are equal (bench.rs:16-69).                                             *)
(***************************************************************************)
BenchesAgree ==
  Command = "bench" /\ phase = "done" =>
    /\ Len(bench.results) = 2
    /\ bench.results[1].checksum = bench.results[2].checksum
    /\ \A slot \in 0..(SymbolCount(settings) - 1) :
         bench.results[1].state[SymbolName(slot)] = bench.results[2].state[slot + 1]
=============================================================================
