# Verification of asof-causality

`asof-causality` is a deterministic, single-threaded batch verifier. It reads rows
that carry two clocks (when something was observed, when it became available),
replays them in the order of availability, asks a signal for a value at every
prediction row, and keeps a log of which rows each value was computed from.
Around the replay stand checks that perturb the input and compare logs, a
sensitivity sweep over arrival policies, a generator of test feeds and a command
line that writes audit artifacts.

The promise is one sentence: *a prediction is a function of the rows that were
available before it, and of nothing else*. Most of this project says what that
means, checks that the code keeps it, and proves it for the engine.

## The system

| Part | Source | State | Operations |
|---|---|---|---|
| Event model | `asof-causality/src/event.rs`, `ids.rs` | none (values) | parse and print a row, replay key, observed key, feature values, mutated copy |
| Symbol catalog | `catalog.rs` | two maps and two vectors | `intern`, `from_events`, `symbol_labels` |
| State and views | `state.rs`, `ids.rs` | per symbol, the last 8 feature observations | `apply`, and the four snapshots of `AsOfView` |
| Replay engine | `replay.rs` | sorted copy, catalog, state, log, outcome count | `replay`, `replay_with_order` |
| Prediction log | `log.rs` | records, event and symbol labels | `append`, `impossible_predictions`, transcript and digests |
| Signals | `asof-signals/src/lib.rs`, `signal.rs` | configuration | `evaluate`, registry parsing |
| Checks | `checks.rs` | one report per family | prefix equivalence, future mutation, late arrival, corrections, outcome separation, determinism, audit invariant |
| Sensitivity | `sensitivity.rs` | baseline and one run per policy | transform a feed by an arrival policy, replay, diff |
| Generator | `generator.rs` | a SplitMix64 state, feed under construction | `generate_events` |
| Benchmark | `bench.rs` | a map by name and a vector of slots, with a checksum each | two loops over the same values, timed |
| Command line | `asof-cli/src/main.rs` | arguments, the rows of a file, files of a run directory | `replay`, `check`, `audit`, `negative-control`, `sensitivity`, `run-suite`, `bench`, `generate` |

How they interact: the command line parses a file into rows and calls one of the
others; checks, sensitivity, audit and the negative control call `replay` several times on derived
feeds and compare the logs; replay calls the catalog once per row, then the state
store or the signal once per row; a signal sees only an `AsOfView` of the state.
There are no threads, callbacks, network calls or timeouts. What is hard here is
ordering (two clocks, three-part keys, ties), bounded history (evictions shared by
two kinds of features), hash identities that may collide, failure in the middle of
a multi-step call, checks that can pass vacuously, and, for the run directory, a
run that dies between two of its files.

What makes each part correct:

* **Catalog** - a bijection between slots, labels and ids; a slot never moves.
* **State** - a slot holds exactly the newest features applied for its symbol;
  a window filters before it counts; the reported maximum is the maximum.
* **Replay** - a record is a function of the set of rows before its prediction; a
  call that fails publishes nothing; it fails only for a defect of the file.
* **Log** - the audit flag of a record agrees with all of its cited inputs.
* **Signals** - the numeric signals agree with exact arithmetic, treat rising and
  falling scores alike, and stay neutral instead of wrapping around.
* **Checks** - no family fails on the honest engine or passes on a refused file, and
  the audit family fails on a signal that lies about its inputs.
* **Sensitivity** - what a sweep reports is caused by the rows it moved, and the
  policies of an accepted command line are usable.
* **Generator** - a generated feed is always accepted by replay and, where its times fit
  in a `u64`, holds a row that tells the two clocks apart.
* **Audit** - a green audit certifies the producer of the stored predictions, and an
  honest producer is never accused.
* **Run directory** - a manifest describes the files beside it.
* **Command line** - arguments mean the same in any order; a file is read exactly or
  refused at the right line; what is printed about leaks, lags and admissions is what
  the replays did; dates and days agree.
* **Benchmark** - both representations do the same work.

## Modules

| Module | Models |
|---|---|
| `Events` | rows, keys, orders, payload acceptance (`event.rs`, `ids.rs`) |
| `SymbolCatalog` | `intern` and the catalog it maintains |
| `SignalMath` | z-score and momentum in integers of a given width |
| `SignalViews` | history buffer, windows, input sets, what a snapshot answers |
| `ReplayEngine` | one call of `replay_with_order`, step by step, and the audit predicate |
| `AsOfReplay` | the abstract promise: records from sets of earlier rows |
| `PromisedLog` | a call of replay from another part, taken for what `AsOfReplay` promises |
| `Positions` | elements of a sequence at chosen positions, as the code filters them |
| `ReplayProperties` | what a replay must satisfy, with the refinement mapping |
| `Scores` | score texts read and shown, and both numeric signals on them |
| `Checks` | the eight families of adversarial checks and their report |
| `ArrivalPolicy` | which rows a policy moves, and to when |
| `SweepArguments` | from the arguments of `sensitivity` to its list of policies |
| `Sensitivity` | the sweep: baseline, one replay per policy, the diff, its errors |
| `Generator` | `generate_events`, with every draw a free choice |
| `Audit` | the `audit` command: replay, stored predictions, outcomes, lines, exit status |
| `RunDirectory` | the files `run-suite` and `sensitivity` write, one after the other |
| `LateArrivalCurve` | the curve drawn from a finished sweep: admissions, removed lags, the note at its end |
| `Calendar` | dates, days and minutes as the command computes them |
| `EventText` | rows as lines of a pipe file, payload fields, the mutated payload |
| `CommandArguments` | the flags of every command but `sensitivity`, their defaults and errors |
| `LeakReport` | transcript lines, and the report of the negative control |
| `CommandLine` | one process: dispatch, arguments, reading the file, `replay`, `negative-control`, `bench` |
| `CommandLineProperties` | what the command line promises |
| `MC*` | an instance of each for TLC |
| `SymbolCatalog_proofs`, `SignalViews_proofs`, `ReplayEngine_proofs`, `Checks_proofs`, `Generator_proofs`, `Audit_proofs` | theorems about the module they are named after |
| `Sensitivity_proofs` | theorems about `Sensitivity` and `LateArrivalCurve` |
| `AsOfCli_proofs` | theorems about `CommandLine`, `RunDirectory`, `Calendar` and `Scores` |

The composition follows the code. `ReplayEngine` extends `SignalViews` (which extends
`Events` and `SignalMath`) and brings in `SymbolCatalog` with `INSTANCE`. `Checks`,
`Sensitivity`, `Generator` and `Audit` call replay many times on derived feeds; they
extend `PromisedLog`, which takes a call for what `AsOfReplay` promises of it, by a
parametrised instance (`Replay(feed, by) == INSTANCE AsOfReplay WITH ...`). That the
engine keeps the promise (`ImplementsAsOf`) is checked by the runs `replay` and
`replay_scores` and proved. `CommandLine` does the same with the signal that the arguments chose, on rows that it
has read from text (`EventText!EventOf` is the step from a row of text to a row of
`Events`), and hands the process over to `Checks`, `Audit`, `Generator` or
`Sensitivity` where the code calls them.

### How the model corresponds to the code

*Rows.* An event identifier is a number, which has the total order that the code
takes from strings. A payload is the pair of fields the code reads, `sentiment`
and `score`, each absent, malformed or a value. `KeyOf` and `SymbolIdOf` are the
64-bit FNV-1a hashes, arbitrary functions here, so that collisions happen.

*A replay* is a behaviour with phases `validate`, `sort`, `intern`, `replay`, then
`done` or `failed`. `Validate`, `Sort`, `Intern` (once per row) and `StartReplay`
are the code before the loop; `ApplyFeature`, `RejectPayload`, `Predict` and
`ObserveOutcome` are its loop body, one per role and outcome; `Finish` is the
`Ok` at the end, and `Returned` lets the finished call stand still. `status` is the
error the `Result` carries. `Sort` is a function of the file because ids, and with
them keys, are unique after validation.

*The state store* is `recent`, a sequence of histories indexed by slot (slots
count from 1 here). A prediction evaluates the configured signal on the history
of its slot; the four snapshot functions of `AsOfView` are one operator,
`Evaluate`, over what they share: the last `window` observations that have the
field the signal reads. `last-feature-sentiment` is the window of one.

*Left out of a record*: the feature recipe hash (a hash of the signal
configuration and the cited keys, which are both in the model) and the rendering
as text. Where a caller compares recipe hashes, the model compares the cited keys
in order.

*The promise* (`AsOfReplay`) has no sort, no catalog and no buffers. It defines the
record of a prediction from the *set* of earlier rows of its symbol, so an engine
that implements it is deterministic, independent of the arrangement of the file,
of later rows and of outcome rows. `Refuse` is allowed only for a defective file,
`Publish` only with a complete log and a file without defect.

*The checks* run one family per step, in the order of the code, and append its
verdict to `report`. Besides the honest signal there is one that cites a fixed key
whatever it saw, as the lying signal of the code's own tests does.

*A sweep* is a behaviour with phases `parse` (only for the command), `validate`,
`baseline`, `compare`, then `done` or `failed`; `ComparePolicy` handles one policy.
The parser of the command takes one argument after the other; the model keeps those
that bear on the policies. Shares are in basis points, as in the code, and a policy
name is the sequence of its parts, so that two names are equal when the code's are.

*The generator* has one action per loop body: the sentinels, a round of the data
loop, one swap of the shuffle. The random numbers are existentially quantified, so
every seed is covered and the distribution is not. Times are `u64` and so is
`--max-lag`, which the command does not bound: every sum of times is taken modulo
`MaxTime + 1`, as a release build takes it, and `Panic` is the debug build, which stops
at the first sum that overflows. `Draws` are the numbers that a draw may come from.

*The audit* has one action per stage of the command. What is in the files it reads
comes from `Invocations`: a producer of stored predictions (this program, a live
system that knows only what it has received, one that looks ahead, one that lost a
row), an edit of its file, and a file of outcomes.

*The run directory* takes `fs::write` for what it does, truncating a file and then
filling it, with a kill or an error possible at every point. The hash of a file
stands for its content.

*The command line* is one process. `words` are its arguments; `TakeArguments` and
`RefuseArguments` read them at once, because the walk over the words changes nothing
else and its first error ends it. A flag is a record of what it sets and how its value
is read. Then `SkipLine`, `ReadRow` and `RefuseLine` walk over the file, one line per
step. A line is the sequence of the cells between its bars, a cell its trimmed text,
and a payload the sequence of the parts between its commas; which texts are numbers or
scores, and their values, are tables in the instance (`ReadNumber`, `ReadScore`), with
`+2` and `03` among the numbers as in Rust. A digest is taken for the text it is
computed from, so equal digests are equal transcripts, and an id that holds a comma is
the sequence of its parts, as `InputSet::format_with` joins them.

*The curve* is a function of a finished sweep and has no step of its own. Which times
read as dates is a table too (`MinutesOf`); the reading itself is in `Calendar`, whose
state is a date and the days elapsed, and whose only step is that a day passes.

*The benchmark* is two loops written apart, as in the code: `MapEvent` updates a map
from names, `VectorEvent` a vector of slots, each by a definition of its own, and
`MapResult` and `VectorResult` hand their counts and checksums over.

*Scores.* The width of `i64` is 8 bits and the scale one digit in the instance, and
the `i128` bound is a million, so that both ends of both ranges are reached.

## What the runs check

| Run | Bounds | Shows |
|---|---|---|
| `replay` | files of 1 to 5 out of 13 rows, two arrangements, one repeated row; history 2; both orders; both outcome options | types, no look-ahead, exact histories, exact audit flags, `ImplementsAsOf` |
| `replay_scores` | files of 1 to 5 out of 8 rows of one symbol; history 3; momentum signal | `ImplementsAsOf` where a window over scores is filtered out of a history it shares with sentiments |
| `parts` | texts of up to 1 + 3 digits, the ends of the range, and up to 4 of 8 scores; every day from 1900 to 2305; 6 labels with 4 hashes in every call sequence | reading and showing are exact inverses to the nearest unit; both numeric signals agree with exact arithmetic; dates, days and month lengths agree; the catalog is a bijection, and slots are stable |
| `checks` | files of 1 to 5 out of 11 rows; 4 sampling limits; the honest signal and 3 lying ones | no false alarm, nothing passes on a refused file, lies into the future are caught, samples are full |
| `contrast_claim` | the same files | a finding, below |
| `sensitivity` | files of 1 to 5 out of 10 rows, 4 command lines and 3 lists; for one file every command line of up to 3 of 14 arguments | changes are attributable to moved rows, aborts to a policy, generated lists are usable, and the curve says what the replays did |
| `generator` | 8 configurations, every shuffle; the largest time is 2099 and lags are small, the last that leaves room for every sum, one above it and the largest; 8 draws, those among them that wrap a time to a chosen place | replay accepts every feed, wrapped or not; the sentinels set their trap, corrections come after their features and the statistics count, where the sums fit |
| `audit` | files of 1 to 5 out of 9 rows; 4 producers, 7 edits, 7 outcome files | green certifies, honest producers pass, exit status and lines agree |
| `run_directory` | 4 invocations, up to 3 runs, a failure or kill at any point | a returned run is linked to its files, a manifest comes last |
| `certificate_claim` | the same | a finding, below |
| `command_line` | every command with up to 3 groups of arguments on one file; `replay` and `negative-control` on files of up to 3 of 15 lines, in two arrangements | arguments mean the same in any order, files are read exactly, mutated text is mutated for the signal, leaks are explained, equal digests mean no leak, both benchmarks agree |
| `field_count_claim` | the same, on files of one line | a finding, below |

*Why the bounds are enough.* The rows of each instance were chosen so that every
branch has a row that takes it. For `MCReplay`: two ids with one key (4 and 11), two
labels with one id (A and C), a prediction that ties with a feature in the received
time and one in the observed time, a feature with only a score that evicts one with
a sentiment, a malformed feature, a correction, an outcome, features observed early
and received late (10 and 13). Five rows are enough for a history of two to overflow
before a prediction and to leave a row after it. In the sweep, rows land on each
other's positions, on time zero and above the bound of the clock. Two runs in one
directory are the shortest history in which a stale artifact can be mistaken for a
new one; the third run lets it be overwritten. The parts of `parts` share no state, and
each runs where the others rest. For the command line, three groups are
a flag, its rival and something between them, and the fifteen lines hold each field
error, each alias, repeated and unreadable payload keys, bars in a payload, ids with
commas, a comment that looks like a row, and rows that leak late, by correction and at
equal times. The calendar repeats every 400 years and is walked for 405.

The properties worth reading first:

* `NoLookahead`: every input of every record of a received-time replay is a feature
  of the same symbol that was received before the prediction, by the whole key.
* `FlagIsExact`: the audit compares one key per record, the largest, and in both
  orders that suffices.
* `LyingSignalFailsTheAudit`: the audit family fails exactly when a cited key is
  neither that of an earlier row nor the prediction's own.
* `ChangesAreAttributable`: a new input need not be a moved row (a moved row can let
  an old one back into the window), but then it was available all along.
* `AbortHasCause`: policies keep sequence numbers, so two rows may land on one
  position and replay refuses the feed; this and a time out of range are the only
  causes, and the error for unmatched predictions cannot be reached.
* `LeaksAreExplained`: the report of the negative control finds leaks by the largest
  cited key and explains each by the times of two rows; it names every record that
  cites any later row, and what it says of the row it blames is true.
* `EqualDigestsMeanNoLeak`: the transcript is not injective (it leaves the recipe hash
  out and joins ids that may hold commas), and its digests are still enough to compare
  the two engines.
* `OrderOfFlagsIsFree`: groups of arguments that set different things can be swapped.
  It is claimed of lines that are accepted in both orders; `--out --scenario` before
  another word is not, because the scenario is searched for among all words first.
* `CurveCountsAdmissions`, `ShiftsShownAreReal`: the counts and amounts of the curve
  against the logs and the moved rows themselves.
* `HonestProducerPasses`: a prediction made live equals the one replayed from the
  whole file later.

*Outcome options.* The outcome family of the checks compares two logs that the
promise makes equal; it is the run `replay` that covers both options.

*Fairness.* No property assumes any. Each process is one thread, nothing in it waits, and
every loop runs over a finite collection or towards a fixed bound: that a call returns
holds by the shape of the code and is not claimed.

*Deadlock* is checked in every run.

*Mutants.* Every checked property has a seeded error in the module it depends on
(the operators whose comment starts "Seeded error"); with the error in place of
the definition, TLC finds the property violated.

### Findings

* `contrast_claim`: the contrast family tries only the first prediction between the
  observation and the receipt of each late row. When that one is unchanged it reports
  "not applicable: fixture did not contain a late event that changes an in-between
  SignalEvaluation" (`checks.rs:347`, `docs/success-criteria.md:26`), although a later
  in-between prediction may change. TLC shows a file of five rows.
* `certificate_claim`: the manifest of a suite holds no hash of `summary.md`
  (`main.rs:3923`), so the statement "It proves the artifacts belong together"
  (`docs/audit-artifacts.md:103`) does not hold of that file. The property speaks of
  directories in which no run is at work: a second run truncates the summary and then
  fails or is killed, and the first manifest verifies beside a torn summary.
* `field_count_claim`: `from_pipe_record` cuts a line at its first six bars
  (`event.rs:283`), so a row of more than seven fields is accepted and its last bars
  belong to the payload, while "every data row must have exactly seven pipe-delimited
  fields" and a malformed row aborts the run (`docs/architecture.md:109`, `117-119`). TLC
  replays a file of one prediction whose payload holds a bar. `FileIsReadExactly` takes
  a record for what the code takes for one, and says of such a row only that it is read
  and printed without loss.

Three smaller observations, which no run is spent on. When no replay of the curve admits
a new input, the note at its end says "100% exposure = 1 unique prediction/input
admissions" and the axis ends at 1, because the count is raised to one before it is
divided by (`main.rs:1720`); `CurveCountsAdmissions` claims the note only where the
count is positive. And when all times read as dates, the amounts called "effective lag
removed" (`main.rs:1947`) are shares of the lag in minutes, while the replay moves the
row by a share of the difference of the two numbers `yyyymmddhhmm`, which is another
amount whenever the lag crosses an hour; `ShiftsShownAreReal` claims raw amounts only.
And `generate` takes any `u64` for `--max-lag`, although the sums it forms reach
`2000 + 10 * (events - 1) + 2 * max_lag + 1`. Where that is more than a `u64` holds, a debug
build may panic and a release build may wrap: a correction can then be received before its
feature, the count of late rows is off, and a row of the data can be received between the
sentinels, whose prediction then cites it. `CorrectionsFollowTheirFeature`, `StatsMatchRows`
(for late rows) and `SentinelsSetATrap` (for the replay by received time) claim their
property where the sums fit (`Roomy`); each is false without that proviso, on the
configurations of the run. No document states a bound.

## What is proved

All proofs hold for every value of the constants that satisfies the named
assumptions: any rows, any files, any hash functions, any history capacity, any
signal; any arguments and policies; any jobs and artifacts; any first day. The
assumptions are typing conditions (`EventsAssumption`, `InputsAssumption`,
`ViewAssumption`, `WidthAssumption`, `ReplayAssumption`, `ChecksAssumption`,
`SensitivityAssumption`, `AuditAssumption`, `CommandAssumption`, `ScaleAssumption`,
`FeedAssumption`, `SignalAssumption`, `CurveAssumption`) unless one is named
below, and TLC evaluates each on a run. That
`Absent` and `Malformed` are no numbers (for the sweep no pairs of numbers, for the audit
no booleans or sequences) says that the tables stand for Rust's `Option`.

| Theorem | Property |
|---|---|
| `SymbolCatalog_proofs!Consistency`, `Stability` | `CatalogConsistent`, `SlotsAreStable` |
| `ReplayEngine_proofs!TypeCorrectness`, `HistoryCorrectness`, `NeverLooksAhead`, `AuditIsExact` | `TypeOK`, `HistoryIsNewestFeatures`, `NoLookahead`, `FlagIsExact` |
| `ReplayEngine_proofs!KeepsThePromise` | `ImplementsAsOf`: the engine refines `AsOfReplay` |
| `Checks_proofs!HonestSignalIsCleared`, `NoFamilyClearsARefusedFile`, `AuditCatchesExactlyTheLies`, `SampleNeverShrinks` | `HonestSignalPasses`, `RefusalFailsEveryFamily`, `LyingSignalFailsTheAudit`, `SampleIsFullAndEndsLast` |
| `Sensitivity_proofs!LeakedRowsStayBetween`, `OnlyThePolicyAborts`, `NoFlipWithoutRecipe`, `EveryChangeHasAMovedRow` | `LeaksStayBetween`, `AbortHasCause`, `FlipComesWithRecipe`, `ChangesAreAttributable` |
| `Sensitivity_proofs!CommandLinesAreUsable` | `CommandLineIsUsable` |
| `Sensitivity_proofs!CurveIsCounted`, `ShiftsAreReal` | `CurveCountsAdmissions`, `ShiftsShownAreReal` |
| `Sensitivity_proofs!LeakStaysBetween`, `LeakIsMonotone`, `LeaksNeverOutOfRange` | the arithmetic of a leaked lag, for every time and share |
| `Generator_proofs!StatisticsCountTheRows`, `CorrectionsComeAfter`, `GeneratedFeedsAreAccepted`, `GeneratedFeedsSetATrap` | `StatsMatchRows`, `CorrectionsFollowTheirFeature`, `GeneratedFeedIsAccepted`, `SentinelsSetATrap` |
| `Audit_proofs!HonestProducersAreCleared`, `GreenAuditsCertify`, `ExitSaysWhatLinesSay` | `HonestProducerPasses`, `GreenCertifiesTheProducer`, `ExitAgreesWithLines` |
| `AsOfCli_proofs!ReturnedLinked`, `ManifestLast`, `CalendarCorrectness` | `ReturnedRunIsLinked`, `ManifestIsLast`, `CalendarAgrees` |
| `AsOfCli_proofs!ExactReading`, `TextMutation` | `FileIsReadExactly`, `MutationReachesSignal` |
| `AsOfCli_proofs!LeakExplanation`, `EqualDigests` | `LeaksAreExplained`, `EqualDigestsMeanNoLeak` |
| `AsOfCli_proofs!BenchAgreement` | `BenchesAgree` |
| `AsOfCli_proofs!FlagsAreFree` | `OrderOfFlagsIsFree` |
| `AsOfCli_proofs!ReadingIsNearest`, `ShowingLosesNothing` | `ScoresAreNearest`, `ShownScoresReadBack` |
| `AsOfCli_proofs!ZScoresAreExact`, `MomentumFavoursNeither` | `ZScoreIsExact`, `MomentumIsFair` |

The inductive invariants are theorems of their own (`SweepInvariant`,
`GeneratorInvariant`, `AuditInvariant`, `DirectoryInvariant`, `ReadInvariant`,
`BenchInvariant`, `ControlInvariant`, `ScoresInvariant`).

*The catalog.* The invariant is the property itself with the types of the catalog's
parts; the step is that an accepted new label has a fresh id.

*The engine.* `NoLookahead` is not inductive: that an input was received before a
prediction follows from where both stand in the sorted copy. The invariant `IInv`
therefore carries, besides types: what each phase has done (`ByPhase`), that the sorted
copy rises (`Arranged`), that the catalog is sound and knows the symbols walked over
(`Interning`, which uses the catalog's theorems through `INSTANCE`), that histories are
bounded and hold the newest features, and that every record cites keys of earlier rows
(`Provenance`). `NoLookahead` follows because validation made the keys unique. The sorted
copy is a rising rearrangement by counting: the number of rows before a row is an
injection into `0..N-1`, hence a surjection.

*The promise.* `RInv` adds to `IInv` what the refinement needs: the sorted copy has the
rows of the file and no others (`Covered`), the catalog is a catalog of the file, every
payload walked over could be read, and record `n` of the log is what `AsOfReplay` promises
of the `n`-th prediction (`Recorded`). The heart of it is that a bounded buffer filled in
order, filtered, cut to the window and sorted by rank is the same sequence as the one
defined from the *set* of earlier rows. Initial states map to initial states; `Predict`
maps to `Record`, `Finish` to `Publish`, a failing step to `Refuse` (which is
where it is shown that a replay fails only for a defect), and the others to stuttering.
`FlagIsExact` follows from `RInv`: the largest key among the rows a record cites is the
key of one of them, and keys are ordered, so one comparison stands for all.

*What follows from the promise.* The other commands use logs, not steps, so their proofs
rest on lemmas about `AsOfReplay` collected in `SignalViews_proofs`: a record is a
function of the rows visible to its prediction; a log lists the records of the predictions
in their order; a file is refused exactly when two rows share a key or a position, two
symbols share an id, or a payload cannot be read (`Clean`); every selection from an
accepted file is accepted.

*The checks.* Every family compares the log of a derived feed with the log of the file up
to a cutoff. The past of a log is the log of the past, so rows after the cutoff, and what
a mutation changes in them, cannot matter; a derived feed is accepted because it selects
from the file, changes payloads to readable ones, or adds a row with a free sequence
number, which exists by the pigeonhole principle. The sampled indices rise strictly, which
is an argument about the rounding division. The invariant `CInv` says of each row of the
report that its verdict is the one the file and the signal deserve.

*The sweep.* The command line is taken one argument at a time; the invariant `SInv` carries
that every policy has the shape a constructor gives it, that results are the comparisons
of their policies and that an error has its cause. A moved feed has the same rows but for
their receipt times, and the same predictions, so every record of the baseline is found
again by its key: the error for unmatched predictions is unreachable. When the recipe of a
record changes, some row became visible or invisible to its prediction, and only rows the
policy moves can.

`CommandLinesAreUsable` has an invariant of its own, `LineInv`: while the arguments are
read, every policy comes from one of them, and different arguments make different
policies; afterwards the list is made of these and of the generated ones. A generated list
rises strictly to its bound because a rounded division grows with its dividend and is
exact at the last step, and because leaving out repetitions keeps the first of each run of
equal shares. The shares of a name can be read off it, so generated names differ, and they
differ from the names of the arguments in their first part. The insertion before the leaky
policy is followed place by place (`IsInserted`).

*The curve.* `CurveAssumption` says that the reading of a time in the file is a number of
minutes or absent. `CurveInv` adds to the two invariants of the sweep that every result is
the whole comparison of its policy, its log included, that a finished sweep has one per
policy, and that shares of late lags were generated only for a file with late rows. A drawn
curve is then made of the shares of one generated list (`IsReady`). The model states a sort
by rank, an element being the `n`-th when `n - 1` come before it; that this is a
rearrangement in which the keys do not fall is the counting argument of the engine once
more (`SortedByKeys`). The shares rise already, so the points stay as they were made; each
admits what its log uses and the baseline did not, because the list of changes holds one
detail for every record that differs and none for another (`UsesAreNew`,
`FlipsAreCounted`). The sets admitted up to a point grow and are subsets of the pairs of
keys of the file, hence their sizes grow too. The amounts are one per late row, in rising
order, each the share of a lag that the replay took away (`LagIsRemoved`); the nearest
ranks lie inside and in order for every number of rows, and at least half of the rows lie
on either side of the median.

*The generator.* The invariant `GInv` speaks of the *set* of rows, which a swap of the
shuffle leaves as it is, and of numbers and ids being apart. The statistics are proved by
counting what a round adds. `max_lag` is any `u64` in these theorems. What depends on the
order of times, that corrections follow their features, that no row of a round is received
before 2000 and that the late rows are counted, is carried for `Roomy` configurations, in
which no sum of a round wraps; the rest, acceptance among it, holds whether or not times
wrapped. `GeneratedFeedsAreAccepted` assumes `NoCollision`: the hashes
tell the generated labels apart. That is what the code relies on, and TLC's instance
satisfies it; a collision is the only reason a generated feed can be refused.
`GeneratedFeedsSetATrap` also assumes `ReadsSentiments`, since generated rows carry
sentiments and no scores.

*The audit.* The invariant `AInv` says that what was read or computed is still the function
of the file and the invocation that it was. Two facts carry the proofs. The last record of
a log of what was received up to a prediction is the record that the log of the whole file
has for it (`LiveRecordIsReplayed`), which is the claim `HonestProducerPasses` makes of a
live system. And audit keys tell records apart, so that counting distinct keys, as the
summary does, is counting lines, and a verdict made of counts says what the lines say
(`PassesIsGreen`, `LinesSayTheVerdict`).

*The run directory and the calendar.* `DirectoryAssumption` is needed for: a job writes no
artifact twice and none named like the manifest. The properties speak of the moment a run
returns or a manifest is filled; the invariant says what is on the disk before: every file
a run has passed holds its text, whatever the runs before it left. For dates
(`CalendarAssumption`: the first day can be read, its distance is right, and the last year
is before 9999) the run counts the days of four centuries and the theorem reaches the last
year a reading can have. The invariant is that the date can be read and that the days that
passed are its distance. The step goes month by month, with February by the place of the
year in its era of 400; the way back from days to a date takes a year apart as
`100 * c + 4 * s + t`, which makes each of its truncating divisions a linear fact.

*The command line.* `CommandAssumption` says what the tables must cover: the lines of a
file are sequences, and the first and sixth cell of a line that is taken for a row are an
id and a symbol. `EventTextAssumption` says what the tables of texts are: an id stands for
one text, a printed number reads back as itself, the mutated score `-999` can be read, and
no cell of the header is a comment.

`ReadInv` follows the walk over the file: every line before the cursor can be read, the rows
are typed rows of text, and a refused line is the first one that cannot be read. Three
facts then give `FileIsReadExactly`: what a line is read as depends on the line alone, the
rows are those of the lines that are no comments, and a printed row reads back as an equal
row although bars in a payload are cells again. `MutationReachesSignal` holds
because a mutated feature row has one readable field and loses the others, while any other
row keeps its payload and gains a field that nothing reads.

The report of the negative control compares one key per record with one row, and the text
of `received` with that of `observed`. The theorems say what both amount to. The signal is
chosen by the arguments, so the two replays are instances with a parameter, and what is
needed of them is proved for every signal: a record cites rows of the feed, and the largest
input it states is the one of them received last (`Cites`, and `Answered` for a whole log).
`ControlInv` carries that both logs answer and that the honest one has no impossible record.
A record cites a row received later exactly if its largest input is one; the row with that
key is the one blamed, because an accepted file has distinct keys. For equal digests, equal
lines of text agree on the position of the prediction and on the largest input, whatever
commas their ids hold; the honest line is not impossible, so the other is not, and then no
smaller input can have come later.

The loops of the benchmark are not compared with each other until they have ended.
`BenchInv` says of each, by its own steps (`MapGoesOn`, `VectorGoesOn`), what it holds after
`n` events: under every key the last sentiment of its symbol, and a checksum of `n` events.
Symbols have keys of their own in both (`KeysApart`, `KeysOfLoops`), and two results after as
many events are then compared (`LoopsAgree`).

The order of flags is about two walks over two arrangements of the same words.
`AreGroups` says which positions open a group in terms of the words alone, and by
induction over positions there is one such set, so the set the walk finds can be compared
with the set that the swap would give. If both lines are accepted, every flag that takes
a value has one and no group reaches past the end: the swap then moves whole groups, and
the swapped set is that of the swapped line (`GroupsMatch`). The search for the scenario
sees words, not groups. `SettingsMatch` needs that it finds the same name in both lines,
which follows because in an accepted line a `--scenario` counts as a flag and not as
another flag's value. What is left is that the first or last group that sets a field, and
the list of paths, are the same when two neighbours that set different things change
places.

*The numeric path.* The theorems hold for every number of digits of the scale, every pair
of widths with the narrow one below the wide one, and every feed. `ScoresInv` says that
each score is the value of its text and that a text was refused because it cannot be read;
the rest is arithmetic. The value of digits, a power of ten and a sum are recursive
functions, which the provers know nothing about as they stand. Each is therefore followed
through the sequence of its partial results (`IsRun`, `StepByStep`); the values at which a
claim about one of these holds form a set with 0 that is closed under one more (`UpTo`),
so no theorem that quantifies over operators is needed.

* *Reading.* Digits of two texts joined are the first value times a power of ten plus the
  second (`DigitsJoin`), so cutting the fraction at the scale loses less than a unit, and
  the digit after the cut says on which side of the middle the text lies. Two integers
  nearest to one text are equal, which is why no `i64` is left when a text is refused.
* *Showing.* Dividing once by a power of ten is dividing digit by digit; the zeros cut
  from the end are put back by the padding of the reader.
* *Momentum.* Truncating division keeps the order of its dividends and mirrors with their
  sign, so the means and the trend of mirrored scores are mirrored, and a trend that is
  not zero has the sign of the exact one.
* *Z-score.* The sum of the squares of `N * x - T` is `N` times the variance as the
  property states it (`SpreadIsVariance`), and the comparison of the code is that of the
  property with both sides multiplied by `N` (`SidesDivided`). `Roomy` bounds the largest
  score, and with it every intermediate value, so nothing overflows (`RoomIsEnough`).

*Only model-checked.* Nothing: every property of a passing run is also proved. The claims
of the three findings are false.

## Plan

Order of the modules, the most important behaviour first: the engine and its promise,
the catalog, the checks, the sweep, the generator, the audit, the run directory, the
numeric path, the command line with the text of rows, the curve and the calendar. All
of these exist, and all of the invariants the runs check are proved. What is
left is one more abstract specification worth stating: the sweep as a function of the
feed and a policy, independent of the other policies of its list.

## Not modelled

* The characters of a cell: a text is what its reader makes of it. The digits of a
  score are modelled in `Scores`, the digits of a date in `Calendar`.
* The hashes themselves, including the recipe hash and the digest of a configuration:
  they are taken to be injective. Collisions of keys and ids are modelled.
* The other charts, tables, JSON and Markdown layout, paths, the git and toolchain
  context of a manifest: formatting, input and output.
* Time: the benchmark is modelled without what it measures.
* The example scripts: they fetch public data and produce fixtures.
* Two processes in one run directory at once: the code has no lock and no document
  promises anything for that case.
