--------------------------- MODULE CommandArguments ---------------------------
(***************************************************************************)
(* The arguments of the commands of asof (crates/asof-cli/src/main.rs),    *)
(* the sensitivity command excepted: SweepArguments has those.             *)
(*                                                                         *)
(* The code walks along the words and stops at the first it cannot take.   *)
(* The words fall into groups, a flag with the value it takes or a word    *)
(* of its own, and the settings are read off the groups.  Rates are in     *)
(* percent.                                                                *)
(***************************************************************************)
EXTENDS Naturals, SequencesExt, Positions

CONSTANTS
  ReadNumber,  \* the texts u64::from_str accepts, with their values
  ReadRate,    \* the texts f64::from_str accepts, with their values
  Dashed,      \* words that begin with two dashes
  Absent       \* Option::None

SignalNames ==
  { "last-feature-sentiment", "windowed-feature-sentiment", "windowed-zscore",
    "vol-adjusted-momentum" }

ScenarioNamed ==
  [ name \in {"clean", "late-heavy", "feature-correction-heavy", "correction-heavy"} |->
      IF name = "correction-heavy" THEN "feature-correction-heavy" ELSE name ]

\* GenerateConfig::for_scenario
Preset(scenario) ==
  LET heavy == scenario = "feature-correction-heavy"
      clean == scenario = "clean"
  IN  [ scenario                |-> scenario,
        events                  |-> IF clean THEN 10000 ELSE 100000,
        symbols                 |-> IF clean THEN 128 ELSE 1024,
        late_rate               |-> IF clean THEN 0 ELSE IF heavy THEN 10 ELSE 30,
        feature_correction_rate |-> IF clean THEN 0 ELSE IF heavy THEN 25 ELSE 5,
        outcome_rate            |-> 1,
        prediction_interval     |-> 10,
        max_lag                 |-> IF clean THEN 100 ELSE 300,
        seed                    |-> 42,
        shuffle                 |-> ~clean ]

(***************************************************************************)
(* The flags of a command: what a flag sets, and how its value is read or, *)
(* for a switch, what it gives.                                            *)
(***************************************************************************)
Takes(sets, reads) == [sets |-> sets, reads |-> reads]

Gives(sets, value) == [sets |-> sets, reads |-> "nothing", gives |-> value]

SignalFlag == [ word \in {"--signal"} |-> Takes("signal", "signal") ]

CheckFlags ==
  [ word \in {"--signal", "--max-cutoffs", "--exhaustive"} |->
      CASE word = "--signal" -> SignalFlag[word]
        [] word = "--max-cutoffs" -> Takes("cutoffs", "positive")
        [] word = "--exhaustive" -> Gives("cutoffs", Absent) ]

AuditFlags ==
  [ word \in {"--signal", "--out", "--outcomes", "--allow-missing-recipe-hash"} |->
      CASE word = "--signal" -> SignalFlag[word]
        [] word = "--out" -> Takes("out", "any")
        [] word = "--outcomes" -> Takes("outcomes", "any")
        [] word = "--allow-missing-recipe-hash" -> Gives("allow_missing", TRUE) ]

BenchFlags ==
  [ word \in {"--events", "--symbols"} |->
      Takes(IF word = "--events" THEN "events" ELSE "symbols", "number") ]

GenerateWords ==
  { "--events", "--symbols", "--scenario", "--late-rate", "--feature-correction-rate",
    "--correction-rate", "--outcome-rate", "--label-rate", "--prediction-interval",
    "--max-lag", "--seed", "--out", "--ordered", "--shuffle" }

GenerateFlags ==
  [ word \in GenerateWords |->
      CASE word \in {"--events", "--symbols"} -> BenchFlags[word]
        [] word = "--scenario" -> Takes("scenario", "any")
        [] word = "--late-rate" -> Takes("late_rate", "rate")
        [] word \in {"--feature-correction-rate", "--correction-rate"} ->
             Takes("feature_correction_rate", "rate")
        [] word \in {"--outcome-rate", "--label-rate"} -> Takes("outcome_rate", "rate")
        [] word = "--prediction-interval" -> Takes("prediction_interval", "number")
        [] word = "--max-lag" -> Takes("max_lag", "number")
        [] word = "--seed" -> Takes("seed", "number")
        [] word = "--out" -> Takes("out", "any")
        [] word = "--ordered" -> Gives("shuffle", FALSE)
        [] word = "--shuffle" -> Gives("shuffle", TRUE) ]

SuiteFlags ==
  [ word \in GenerateWords \cup {"--signal"} |->
      IF word = "--signal" THEN SignalFlag[word] ELSE GenerateFlags[word] ]

FileCommands == {"replay", "check", "audit", "negative-control", "compare-leaky"}

GeneratingCommands == {"generate", "run-suite"}

FlagsOf(command) ==
  CASE command = "check" -> CheckFlags
    [] command = "audit" -> AuditFlags
    [] command = "bench" -> BenchFlags
    [] command = "generate" -> GenerateFlags
    [] command = "run-suite" -> SuiteFlags
    [] OTHER -> SignalFlag

(***************************************************************************)
(* The groups, each at the position of its first word.                     *)
(***************************************************************************)
TakesValue(flags, word) == word \in DOMAIN flags /\ flags[word].reads # "nothing"

Starts(command, words) ==
  LET starts[n \in DOMAIN words] ==
        ~(n > 1 /\ starts[n - 1] /\ TakesValue(FlagsOf(command), words[n - 1]))
  IN  { n \in DOMAIN words : starts[n] }

Readable(reads, text) ==
  CASE reads = "any" -> TRUE
    [] reads = "signal" -> text \in SignalNames
    [] reads = "rate" -> text \in DOMAIN ReadRate
    [] reads = "number" -> text \in DOMAIN ReadNumber
    [] reads = "positive" -> text \in DOMAIN ReadNumber /\ ReadNumber[text] # 0

Problem(command, words, n) ==
  LET flags == FlagsOf(command) IN
  IF words[n] \notin DOMAIN flags
  THEN IF words[n] \in Dashed \/ command \notin FileCommands THEN "UnknownArgument" ELSE "none"
  ELSE IF ~TakesValue(flags, words[n]) THEN "none"
  ELSE IF n = Len(words) THEN "MissingValue"
  ELSE IF ~Readable(flags[words[n]].reads, words[n + 1]) THEN "BadValue" ELSE "none"

Problems(command, words) ==
  { n \in Starts(command, words) : Problem(command, words, n) # "none" }

(***************************************************************************)
(* The value of a setting: the last group that sets it, or the default.    *)
(* A scenario is looked for before the walk and the first one counts.      *)
(***************************************************************************)
ScenarioAt(words) ==
  { n \in DOMAIN words : n < Len(words) /\ words[n] = "--scenario" }

ScenarioText(words) ==
  IF ScenarioAt(words) = {} THEN "late-heavy" ELSE words[Min(ScenarioAt(words)) + 1]

\* Seeded error: a scenario replaces what was set before it.
SettersAfterScenario(command, words, setting) ==
  LET flags == FlagsOf(command) IN
  { n \in Starts(command, words) :
      /\ words[n] \in DOMAIN flags
      /\ flags[words[n]].sets = setting
      /\ command \in GeneratingCommands => \A k \in ScenarioAt(words) : k <= n }

Setters(command, words, setting) ==
  LET flags == FlagsOf(command) IN
  { n \in Starts(command, words) : words[n] \in DOMAIN flags /\ flags[words[n]].sets = setting }

ValueAt(command, words, n) ==
  LET flag == FlagsOf(command)[words[n]] IN
  CASE flag.reads = "nothing" -> flag.gives
    [] flag.reads \in {"number", "positive"} -> ReadNumber[words[n + 1]]
    [] flag.reads = "rate" -> ReadRate[words[n + 1]]
    [] flag.reads \in {"any", "signal"} -> words[n + 1]

Paths(command, words) ==
  LET bare == { n \in Starts(command, words) : words[n] \notin DOMAIN FlagsOf(command) } IN
  Listed(words, bare)

PathGiven(paths, n) == IF n <= Len(paths) THEN paths[n] ELSE Absent

BenchDefaults == [events |-> 1000000, symbols |-> 1024]

Defaults(command, words) ==
  LET paths == Paths(command, words)
      path  == IF paths # <<>> THEN Last(paths)
               ELSE IF command \in {"replay", "check"} THEN "examples/late-arrival.pipe"
               ELSE "examples/lookahead-negative-control.pipe"
      signal == "last-feature-sentiment"
  IN  CASE command = "check" -> [path |-> path, signal |-> signal, cutoffs |-> 32]
        [] command = "audit" ->
             [ path          |-> IF paths = <<>> THEN "examples/late-arrival.pipe" ELSE paths[1],
               stored        |-> PathGiven(paths, 2),
               outcomes      |-> PathGiven(paths, 3),
               signal        |-> signal,
               out           |-> Absent,
               allow_missing |-> FALSE ]
        [] command = "bench" -> BenchDefaults
        [] command \in GeneratingCommands ->
             Preset(ScenarioNamed[ScenarioText(words)]) @@ [out |-> Absent, signal |-> signal]
        [] OTHER -> [path |-> path, signal |-> signal]

Settings(command, words) ==
  LET defaults == Defaults(command, words) IN
  [ setting \in DOMAIN defaults |->
      LET setters == Setters(command, words, setting) IN
      IF setting = "scenario" \/ setters = {} THEN defaults[setting]
      ELSE ValueAt(command, words, Max(setters)) ]

(***************************************************************************)
(* The first error, in the order the code meets them.                      *)
(***************************************************************************)
ArgumentError(command, words) ==
  LET problems == Problems(command, words)
      paths    == Paths(command, words)
  IN  IF command \in GeneratingCommands /\ ScenarioText(words) \notin DOMAIN ScenarioNamed
      THEN "UnknownScenario"
      ELSE IF problems # {} THEN Problem(command, words, Min(problems))
      ELSE IF command = "audit" /\ Len(paths) > 3 THEN "TooManyPaths"
      ELSE IF command = "audit" /\ Len(paths) = 3 /\ Setters(command, words, "outcomes") # {}
      THEN "OutcomesTwice" ELSE "none"

Accepted(command, words) == ArgumentError(command, words) = "none"
=============================================================================
