------------------------------ MODULE CommandLine ------------------------------
(***************************************************************************)
(* One process of asof, from its arguments to its exit                     *)
(* (crates/asof-cli/src/main.rs with parse_pipe_events() of                *)
(* crates/asof-causality/src/replay.rs, the signal registry of             *)
(* crates/asof-signals and bench.rs).                                      *)
(*                                                                         *)
(* replay, negative-control and bench run to their end here; the others    *)
(* are handed over to the modules of their own once their arguments and    *)
(* their file are read.  A replay is taken for what AsOfReplay promises.   *)
(***************************************************************************)
EXTENDS LeakReport, SignalMath

CONSTANTS
  Invocations,   \* argument lists, each with the contents of the file it names
  MissingFiles,  \* paths at which there is no file
  ReadRate, Dashed

VARIABLES
  words,     \* the arguments of the process
  text,      \* the contents of the file the arguments name
  phase,     \* what the process does next
  error,     \* why it failed, and the line of the file if that is why
  settings,  \* what the arguments were parsed to
  cursor,    \* the next line to read
  rows,      \* the events read so far
  received,  \* the log of the received-time replay
  observed,  \* the log of the observed-time replay
  bench      \* the loop being measured and the results so far

IsSequence(s) == s \in Seq({ s[n] : n \in DOMAIN s })

\* What is in the files of the instance is in its tables.
ASSUME CommandAssumption ==
  \A invocation \in Invocations :
    /\ IsSequence(invocation[1])
    /\ IsSequence(invocation[2])
    /\ \A n \in DOMAIN invocation[2] :
         ~Skipped(invocation[2][n]) /\ IsRecord(invocation[2][n]) =>
           invocation[2][n][1] \in DOMAIN IdOf /\ invocation[2][n][6] \in Symbols

vars == <<words, text, phase, error, settings, cursor, rows, received, observed, bench>>

Args == INSTANCE CommandArguments

Command == IF words = <<>> THEN "" ELSE Head(words)

Given == IF words = <<>> THEN <<>> ELSE Tail(words)

IsNegativeControl == Command \in {"negative-control", "compare-leaky"}

(***************************************************************************)
(* RegisteredSignal: the four built-in signals with their defaults.        *)
(***************************************************************************)
Registered ==
  [ name \in Args!SignalNames |->
      CASE name = "last-feature-sentiment" -> [kind |-> name]
        [] name = "windowed-feature-sentiment" -> [kind |-> name, window |-> 5]
        [] name = "windowed-zscore" -> [kind |-> name, window |-> 5, threshold |-> FixedScale]
        [] name = "vol-adjusted-momentum" ->
             [kind |-> name, fast |-> 2, slow |-> 4, min_trend |-> 0, divisor |-> 2] ]

ReplayOf(feed, by, config) == INSTANCE AsOfReplay
  WITH file <- feed, order <- by, log <- <<>>, verdict <- "open", Signal <- config

Feed == [ n \in DOMAIN rows |-> EventOf(rows[n]) ]

LogBy(by, config) ==
  LET predictions == ReplayOf(Feed, by, config)!Predictions IN
  [ n \in DOMAIN predictions |-> ReplayOf(Feed, by, config)!Promised(predictions[n]) ]

IsRefused(config) == ReplayOf(Feed, "ReceivedTime", config)!Defective

NoError == [kind |-> "none", line |-> Absent]

Init ==
  /\ \E invocation \in Invocations : words = invocation[1] /\ text = invocation[2]
  /\ phase = "start"
  /\ error = NoError
  /\ settings = <<>>
  /\ cursor = 1
  /\ rows = <<>>
  /\ received = <<>>
  /\ observed = <<>>
  /\ bench = <<>>

Fail(kind, line) ==
  /\ phase' = "failed"
  /\ error' = [kind |-> kind, line |-> line]

(***************************************************************************)
(* run(): the command decides who takes the rest of the words; an unknown  *)
(* command prints the help and succeeds.                                   *)
(***************************************************************************)
Parsed == Args!FileCommands \cup Args!GeneratingCommands \cup {"bench"}

PrintHelp ==
  /\ phase = "start"
  /\ Command \notin Parsed \cup {"sensitivity"}
  /\ phase' = "done"
  /\ UNCHANGED <<words, text, error, settings, cursor, rows, received, observed, bench>>

HandOverWords ==
  /\ phase = "start"
  /\ Command = "sensitivity"
  /\ phase' = "handed over"
  /\ UNCHANGED <<words, text, error, settings, cursor, rows, received, observed, bench>>

RefuseArguments ==
  /\ phase = "start"
  /\ Command \in Parsed
  /\ ~Args!Accepted(Command, Given)
  /\ Fail(Args!ArgumentError(Command, Given), Absent)
  /\ UNCHANGED <<words, text, settings, cursor, rows, received, observed, bench>>

NextPhase ==
  CASE Command \in Args!FileCommands -> "loading"
    [] Command \in Args!GeneratingCommands -> "handed over"
    [] Command = "bench" -> "benching"

(***************************************************************************)
(* run_representation_benchmark(): the two loops are written apart, the    *)
(* first over a map from names, the second over a vector of slots, and     *)
(* there is at least one symbol.  Slots of the vector count from 1 here.   *)
(***************************************************************************)
SymbolCount(parsed) == IF parsed.symbols = 0 THEN 1 ELSE parsed.symbols

SentimentValue(index) == (index % 3) - 1

SymbolName(slot) == <<"SYM", slot>>

MapLoop(symbols) ==
  [ representation |-> "string map", index |-> 0, checksum |-> 0,
    state |-> [ name \in { SymbolName(slot) : slot \in 0..(symbols - 1) } |-> 0 ] ]

\* An event whose name the map does not have is passed over.
MapAfterEvent(loop, symbols) ==
  LET name  == SymbolName(loop.index % symbols)
      state == [loop.state EXCEPT ![name] = SentimentValue(loop.index)]
  IN  [loop EXCEPT !.index = @ + 1, !.state = state,
                   !.checksum = IF name \in DOMAIN state THEN @ + state[name] ELSE @]

VectorLoop(symbols) ==
  [ representation |-> "symbol slot vec", index |-> 0, checksum |-> 0,
    state |-> [ slot \in 1..symbols |-> 0 ] ]

\* Seeded error: the slot is counted before it is written.
VectorCountedFirst(loop, symbols) ==
  LET slot == (loop.index % symbols) + 1
  IN  [loop EXCEPT !.index = @ + 1, !.state[slot] = SentimentValue(loop.index),
                   !.checksum = @ + loop.state[slot]]

VectorAfterEvent(loop, symbols) ==
  LET slot  == (loop.index % symbols) + 1
      state == [loop.state EXCEPT ![slot] = SentimentValue(loop.index)]
  IN  [loop EXCEPT !.index = @ + 1, !.state = state, !.checksum = @ + state[slot]]

TakeArguments ==
  /\ phase = "start"
  /\ Command \in Parsed
  /\ Args!Accepted(Command, Given)
  /\ settings' = Args!Settings(Command, Given)
  /\ phase' = NextPhase
  /\ bench' = IF Command = "bench"
              THEN [results |-> <<>>, loop |-> MapLoop(SymbolCount(settings'))] ELSE bench
  /\ UNCHANGED <<words, text, error, cursor, rows, received, observed>>

(***************************************************************************)
(* load_events() and parse_pipe_events(): line by line, comments and blank *)
(* lines are passed over but counted.                                      *)
(***************************************************************************)
FileMissing ==
  /\ phase = "loading"
  /\ cursor = 1
  /\ settings.path \in MissingFiles
  /\ Fail("Io", Absent)
  /\ UNCHANGED <<words, text, settings, cursor, rows, received, observed, bench>>

AtLine ==
  /\ phase = "loading"
  /\ settings.path \notin MissingFiles
  /\ cursor <= Len(text)

SkipLine ==
  /\ AtLine
  /\ Skipped(text[cursor])
  /\ cursor' = cursor + 1
  /\ UNCHANGED <<words, text, phase, error, settings, rows, received, observed, bench>>

ReadRow ==
  /\ AtLine
  /\ ~Skipped(text[cursor])
  /\ IsRecord(text[cursor])
  /\ rows' = Append(rows, FromPipeRecord(text[cursor]))
  /\ cursor' = cursor + 1
  /\ UNCHANGED <<words, text, phase, error, settings, received, observed, bench>>

\* Seeded error: the line is counted among the rows.
RowNumber == Len(rows) + 1

LineNumber == cursor

RefuseLine ==
  /\ AtLine
  /\ ~Skipped(text[cursor])
  /\ ~IsRecord(text[cursor])
  /\ Fail(RecordError(text[cursor]), LineNumber)
  /\ UNCHANGED <<words, text, settings, cursor, rows, received, observed, bench>>

EndOfFile ==
  /\ phase = "loading"
  /\ settings.path \notin MissingFiles
  /\ cursor > Len(text)
  /\ phase' = IF Command \in {"check", "audit"} THEN "handed over" ELSE "replaying"
  /\ UNCHANGED <<words, text, error, settings, cursor, rows, received, observed, bench>>

(***************************************************************************)
(* replay() and negative_control(): both replays take the same file, and   *)
(* the second is not reached when the first refuses it.                    *)
(***************************************************************************)
RefuseFile ==
  /\ phase = "replaying"
  /\ \E name \in DOMAIN Registered :
       /\ settings.signal = name
       /\ IsRefused(Registered[name])
  /\ Fail("Replay", Absent)
  /\ UNCHANGED <<words, text, settings, cursor, rows, received, observed, bench>>

ReplayFile ==
  /\ phase = "replaying"
  /\ \E name \in DOMAIN Registered :
       /\ settings.signal = name
       /\ ~IsRefused(Registered[name])
       /\ received' = LogBy("ReceivedTime", Registered[name])
       /\ observed' = IF IsNegativeControl
                      THEN LogBy("ObservedTimeLeaky", Registered[name]) ELSE observed
  /\ phase' = IF IsNegativeControl THEN "reporting" ELSE "done"
  /\ UNCHANGED <<words, text, error, settings, cursor, rows, bench>>

Report == NegativeControlReport(rows, received, observed)

\* The report is printed first; the process fails when the correct engine leaks.
PrintReport ==
  /\ phase = "reporting"
  /\ IF Report.correct.impossible = 0 THEN phase' = "done" /\ error' = error
     ELSE Fail("Impossible", Absent)
  /\ UNCHANGED <<words, text, settings, cursor, rows, received, observed, bench>>

\* bench_string_map(), event by event, and its result.
MapEvent ==
  /\ phase = "benching"
  /\ bench.loop.representation = "string map"
  /\ bench.loop.index < settings.events
  /\ bench' = [bench EXCEPT !.loop = MapAfterEvent(@, SymbolCount(settings))]
  /\ UNCHANGED <<words, text, phase, error, settings, cursor, rows, received, observed>>

MapResult ==
  /\ phase = "benching"
  /\ bench.loop.representation = "string map"
  /\ bench.loop.index = settings.events
  /\ bench' = [results |-> <<bench.loop>>, loop |-> VectorLoop(SymbolCount(settings))]
  /\ UNCHANGED <<words, text, phase, error, settings, cursor, rows, received, observed>>

\* bench_symbol_slot_vec(), after it.
VectorEvent ==
  /\ phase = "benching"
  /\ bench.loop.representation = "symbol slot vec"
  /\ bench.loop.index < settings.events
  /\ bench' = [bench EXCEPT !.loop = VectorAfterEvent(@, SymbolCount(settings))]
  /\ UNCHANGED <<words, text, phase, error, settings, cursor, rows, received, observed>>

VectorResult ==
  /\ phase = "benching"
  /\ bench.loop.representation = "symbol slot vec"
  /\ bench.loop.index = settings.events
  /\ bench' = [bench EXCEPT !.results = Append(@, bench.loop)]
  /\ phase' = "done"
  /\ UNCHANGED <<words, text, error, settings, cursor, rows, received, observed>>

\* The process has exited, or another module goes on.
Exited == phase \in {"done", "failed", "handed over"} /\ UNCHANGED vars

Next ==
  \/ PrintHelp \/ HandOverWords \/ RefuseArguments \/ TakeArguments
  \/ FileMissing \/ SkipLine \/ ReadRow \/ RefuseLine \/ EndOfFile
  \/ RefuseFile \/ ReplayFile \/ PrintReport
  \/ MapEvent \/ MapResult \/ VectorEvent \/ VectorResult
  \/ Exited

Spec == Init /\ [][Next]_vars
=============================================================================
