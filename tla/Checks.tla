-------------------------------- MODULE Checks --------------------------------
(***************************************************************************)
(* The adversarial checks (crates/asof-causality/src/checks.rs): eight     *)
(* families, run one after the other on one file, each of which replays    *)
(* the file and feeds derived from it and compares or inspects the logs.   *)
(*                                                                         *)
(* A call of replay is taken for what AsOfReplay promises of it.  The      *)
(* signal is the caller's, so that it may lie about provenance: a signal   *)
(* that cites one fixed key, as the LyingSignal of the code's own tests    *)
(* does, is checked beside the honest one.                                 *)
(***************************************************************************)
EXTENDS PromisedLog, SequencesExt

CONSTANTS
  Feeds,         \* the files to check
  CutoffLimits,  \* values of CheckOptions::max_cutoffs: Absent, or a number
  Citations      \* Absent for the honest signal, or the key a lying one cites

ASSUME ChecksAssumption ==
  /\ Feeds \subseteq Seq(Event)
  /\ CutoffLimits \subseteq Nat \cup {Absent}
  /\ Citations \subseteq Nat \cup {Absent}

VARIABLES
  events,       \* the file
  max_cutoffs,  \* CheckOptions::max_cutoffs
  cites,        \* the signal under test
  report        \* CheckReport::results so far

vars == <<events, max_cutoffs, cites, report>>

(***************************************************************************)
(* full_predictions(): the log of a received-time replay, or its refusal.  *)
(***************************************************************************)
Told(record) ==
  IF cites = Absent THEN record ELSE [record EXCEPT !.signal_value = 1, !.inputs = <<cites>>]

ToldBy(log) == [ n \in DOMAIN log |-> Told(log[n]) ]

FullPredictions(feed) == ToldBy(LogOf(feed, "ReceivedTime"))

\* Seeded error: the prefix stops short of the rows received at the cutoff.
BeforeCutoff(time, cutoff) == time < cutoff

AtOrBefore(time, cutoff) == time <= cutoff

PredictionsAtOrBefore(log, cutoff) ==
  Listed(log, { n \in DOMAIN log : log[n].time <= cutoff })

(***************************************************************************)
(* selected_prediction_cutoffs(): all distinct prediction times, or an     *)
(* even sample of them that begins at the first and ends at the last.      *)
(***************************************************************************)
PredictionCutoffs ==
  { events[i].received_time : i \in { n \in DOMAIN events : IsPrediction(events[n]) } }

\* CheckOptions::sampled
Sampled(limit) == IF limit = 0 THEN 1 ELSE limit

\* Seeded error: the sample is spread over one cutoff too many.
SampleIndexShort(i, last, limit) == (i * last) \div limit

SampleIndex(i, last, limit) == (i * last) \div (limit - 1)

\* The n-th cutoff in the order of time.
CutoffAt(n) == CHOOSE t \in PredictionCutoffs : Rank(PredictionCutoffs, t) = n

SelectedCutoffs ==
  LET total == Cardinality(PredictionCutoffs)
  IN  IF max_cutoffs = Absent THEN PredictionCutoffs
      ELSE IF total <= Sampled(max_cutoffs) THEN PredictionCutoffs
      ELSE IF Sampled(max_cutoffs) = 1 THEN { CutoffAt(total) }
      ELSE { CutoffAt(SampleIndex(i, total - 1, max_cutoffs) + 1) : i \in 0..(max_cutoffs - 1) }

\* prediction_cutoff_count() and selected_cutoff_count(): what the summary names.
ReportedCutoffs(limit) ==
  LET total == Cardinality(PredictionCutoffs) IN
  IF total = 0 \/ limit = 0 THEN 0
  ELSE IF total <= limit THEN total
  ELSE IF limit = 1 THEN 1
  ELSE Cardinality({ SampleIndex(i, total - 1, limit) : i \in 0..(limit - 1) })

(***************************************************************************)
(* The families that compare logs.                                         *)
(***************************************************************************)
SamePast(feed, cutoff) ==
  /\ ~Refused(feed)
  /\ PredictionsAtOrBefore(FullPredictions(events), cutoff)
       = PredictionsAtOrBefore(FullPredictions(feed), cutoff)

PrefixUpTo(cutoff) ==
  Listed(events, { i \in DOMAIN events : AtOrBefore(events[i].received_time, cutoff) })

PrefixEquivalence ==
  /\ ~Refused(events)
  /\ \A cutoff \in SelectedCutoffs : SamePast(PrefixUpTo(cutoff), cutoff)

MutatedAfter(cutoff) ==
  [ i \in DOMAIN events |->
      IF events[i].received_time > cutoff THEN WithMutatedFuturePayload(events[i])
                                          ELSE events[i] ]

FutureMutation ==
  /\ ~Refused(events)
  /\ \A cutoff \in SelectedCutoffs : SamePast(MutatedAfter(cutoff), cutoff)

\* What AsOfReplay promises has no outcome option in it: both replays give one log.
OutcomeSeparation == ~Refused(events)

DeterministicReplay ==
  /\ ~Refused(events)
  /\ ~Refused(Reverse(events))
  /\ FullPredictions(events) = FullPredictions(Reverse(events))

(***************************************************************************)
(* The families that inspect provenance.  event_by_key is a map, so the    *)
(* last event of a key wins; an accepted file has one event per key.       *)
(***************************************************************************)
Keyed(key) == { i \in DOMAIN events : EventKey(events[i]) = key }

EventByKey(key) == events[Max(Keyed(key))]

\* Every input of every record, beside the record.
Citing(log) ==
  UNION { { <<log[n], log[n].inputs[k]>> : k \in DOMAIN log[n].inputs } : n \in DOMAIN log }

LateUse(record, key) ==
  /\ Keyed(key) # {}
  /\ EventByKey(key).observed_time <= record.time
  /\ ReceivedBefore(EventByKey(record.key), EventByKey(key))

\* Seeded error: a file that is refused has no late arrivals.
LateArrivalIgnoringRefusal ==
  Refused(events) \/ \A use \in Citing(FullPredictions(events)) : ~LateUse(use[1], use[2])

LateArrival ==
  /\ ~Refused(events)
  /\ \A use \in Citing(FullPredictions(events)) : ~LateUse(use[1], use[2])

FeatureCorrectionAppendOnly ==
  /\ ~Refused(events)
  /\ \A use \in Citing(FullPredictions(events)) :
       /\ Keyed(use[2]) # {}
       /\ EventByKey(use[2]).role = "feature_correction"
       => EventByKey(use[2]).received_time <= use[1].time

\* Seeded error: the audit compares receipt times and forgets the tie-breakers.
AuditInvariantByTime ==
  /\ ~Refused(events)
  /\ \A use \in Citing(FullPredictions(events)) :
       /\ Keyed(use[2]) # {}
       /\ EventByKey(use[2]).received_time <= use[1].time

AuditInvariant ==
  /\ ~Refused(events)
  /\ \A use \in Citing(FullPredictions(events)) :
       /\ Keyed(use[2]) # {}
       /\ ~ReceivedBefore(EventByKey(use[1].key), EventByKey(use[2]))

(***************************************************************************)
(* on_time_vs_late_contrast(): every feature row that some prediction of   *)
(* its symbol stands between is moved to the time it was observed, before  *)
(* the first such prediction; the first move that changes the value there  *)
(* ends the search.                                                        *)
(***************************************************************************)
InBetween(e, record) ==
  /\ record.symbol = SymbolIdOf[e.symbol]
  /\ e.observed_time <= record.time
  /\ record.time < e.received_time

Between(e, log) == { n \in DOMAIN log : InBetween(e, log[n]) }

Target(e) == FullPredictions(events)[Min(Between(e, FullPredictions(events)))]

\* available_received_sequence_number()
UsedSequenceNumbers(e) ==
  { events[i].seq : i \in { n \in DOMAIN events :
      events[n].id # e.id /\ events[n].received_time = e.observed_time } }

FreeSequenceNumber(e) ==
  Min({ n \in 0..Len(events) : n \notin UsedSequenceNumbers(e) })

CanBeOnTime(e) ==
  /\ UpdatesSignalState(e)
  /\ Between(e, FullPredictions(events)) # {}
  /\ e.observed_time = Target(e).time => FreeSequenceNumber(e) < Target(e).seq

OnTime(e) ==
  [ i \in DOMAIN events |->
      IF events[i].id = e.id
      THEN [e EXCEPT !.received_time = e.observed_time, !.seq = FreeSequenceNumber(e)]
      ELSE events[i] ]

MatchingRecords(e) ==
  { n \in DOMAIN FullPredictions(OnTime(e)) :
      /\ FullPredictions(OnTime(e))[n].symbol = Target(e).symbol
      /\ FullPredictions(OnTime(e))[n].time = Target(e).time }

MoveFails(e) == Refused(OnTime(e)) \/ MatchingRecords(e) = {}

MoveChangesValue(e) ==
  FullPredictions(OnTime(e))[Min(MatchingRecords(e))].signal_value # Target(e).signal_value

Contrast ==
  LET movable  == { i \in DOMAIN events : CanBeOnTime(events[i]) }
      decisive == { i \in movable : MoveFails(events[i]) \/ MoveChangesValue(events[i]) }
  IN  IF Refused(events) THEN "fail"
      ELSE IF decisive = {} THEN "not_applicable"
      ELSE IF MoveFails(events[Min(decisive)]) THEN "fail" ELSE "pass"

(***************************************************************************)
(* run_adversarial_checks_with_options_for_signal(): no family stops the   *)
(* next, whatever its result.                                              *)
(***************************************************************************)
Families ==
  << "prefix_equivalence", "future_mutation", "late_arrival", "on_time_vs_late_contrast",
     "feature_correction_append_only", "outcome_separation", "deterministic_replay",
     "audit_invariant" >>

Init ==
  /\ events \in Feeds
  /\ max_cutoffs \in CutoffLimits
  /\ cites \in Citations
  /\ report = <<>>

Reports(name, result) ==
  /\ Len(report) < Len(Families)
  /\ Families[Len(report) + 1] = name
  /\ report' = Append(report, [name |-> name, result |-> result])
  /\ UNCHANGED <<events, max_cutoffs, cites>>

Verdict(holds) == IF holds THEN "pass" ELSE "fail"

Complete == Len(report) = Len(Families)

\* The report has been returned.
Returned == Complete /\ UNCHANGED vars

Next ==
  \/ Reports("prefix_equivalence", Verdict(PrefixEquivalence))
  \/ Reports("future_mutation", Verdict(FutureMutation))
  \/ Reports("late_arrival", Verdict(LateArrival))
  \/ Reports("on_time_vs_late_contrast", Contrast)
  \/ Reports("feature_correction_append_only", Verdict(FeatureCorrectionAppendOnly))
  \/ Reports("outcome_separation", Verdict(OutcomeSeparation))
  \/ Reports("deterministic_replay", Verdict(DeterministicReplay))
  \/ Reports("audit_invariant", Verdict(AuditInvariant))
  \/ Returned

Spec == Init /\ [][Next]_vars

-----------------------------------------------------------------------------
\* CheckResult::passed of a family that has run
Passed(name) == \E n \in DOMAIN report : report[n].name = name /\ report[n].result # "fail"

Failed(name) == \E n \in DOMAIN report : report[n].name = name /\ report[n].result = "fail"

(***************************************************************************)
(* No false alarm: with an honest signal, every family passes on every     *)
(* file that replay accepts, with every number of cutoffs.  That includes  *)
(* the contrast family, whose moved feeds must be accepted and must still  *)
(* hold the target prediction (checks.rs:40-60, 276-349).                  *)
(***************************************************************************)
HonestSignalPasses ==
  cites = Absent /\ ~Refused(events) => \A n \in DOMAIN report : report[n].result # "fail"

(***************************************************************************)
(* A file that replay refuses fails every family, not only the first one:  *)
(* no check takes a missing log for a clean one (checks.rs:62-75; the test *)
(* replay_errors_become_failed_check_results asks it of some family).      *)
(***************************************************************************)
RefusalFailsEveryFamily ==
  Refused(events) => \A n \in DOMAIN report : report[n].result = "fail"

(***************************************************************************)
(* A signal that cites a row received after a prediction, or no row of the *)
(* file at all, fails the audit, and with a row before every prediction it *)
(* does not; the narrower provenance families fail only when the audit     *)
(* does, and the families that compare logs never notice (checks.rs:227-   *)
(* 274, 351-386, 450-495).                                                 *)
(***************************************************************************)
CitesTheFuture ==
  \E i \in DOMAIN events :
    /\ IsPrediction(events[i])
    /\ ~\E j \in DOMAIN events : EventKey(events[j]) = cites /\ ReceivedBefore(events[j], events[i])
    /\ EventKey(events[i]) # cites

LyingSignalFailsTheAudit ==
  Complete /\ cites # Absent /\ ~Refused(events) =>
    /\ Failed("audit_invariant") <=> CitesTheFuture
    /\ Failed("late_arrival") \/ Failed("feature_correction_append_only")
         => Failed("audit_invariant")
    /\ Passed("prefix_equivalence") /\ Passed("future_mutation")
    /\ Passed("deterministic_replay")

(***************************************************************************)
(* The sampled cutoffs are exactly as many as asked for and as the summary *)
(* names, and the last cutoff, whose prefix is the longest, is among them  *)
(* (checks.rs:99-129, main.rs:3541-3583).                                  *)
(***************************************************************************)
SampleIsFullAndEndsLast ==
  /\ SelectedCutoffs \subseteq PredictionCutoffs
  /\ PredictionCutoffs # {} => Max(PredictionCutoffs) \in SelectedCutoffs
  /\ Cardinality(SelectedCutoffs) =
       IF max_cutoffs = Absent \/ Cardinality(PredictionCutoffs) <= Sampled(max_cutoffs)
       THEN Cardinality(PredictionCutoffs) ELSE Sampled(max_cutoffs)
  /\ max_cutoffs # Absent =>
       Cardinality(SelectedCutoffs) = ReportedCutoffs(Sampled(max_cutoffs))

(***************************************************************************)
(* What the contrast family says of itself: "not applicable: fixture did   *)
(* not contain a late event that changes an in-between SignalEvaluation"   *)
(* (checks.rs:345-348).                                                    *)
(***************************************************************************)
LateEventMatters(e) ==
  /\ CanBeOnTime(e)
  /\ ~Refused(OnTime(e))
  /\ \E n \in Between(e, FullPredictions(events)) :
       LET before == FullPredictions(events)[n]
           after  == FullPredictions(OnTime(e))[n]
       IN  before.key = after.key /\ before.signal_value # after.signal_value

NotApplicableMeansNoLateEventMatters ==
  \A n \in DOMAIN report : report[n].result = "not_applicable" =>
    \A i \in DOMAIN events : ~LateEventMatters(events[i])
=============================================================================
