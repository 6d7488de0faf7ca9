----------------------------- MODULE Sensitivity -----------------------------
(***************************************************************************)
(* The sensitivity sweep (crates/asof-causality/src/sensitivity.rs): one   *)
(* file is replayed as it is, then once per policy after its rows were     *)
(* made available at other times, and every comparison log is diffed       *)
(* against the baseline.  The policies come from the arguments of the      *)
(* command (crates/asof-cli/src/main.rs) or from a caller of the library.  *)
(*                                                                         *)
(* A call of replay is taken for what AsOfReplay promises of it.  The      *)
(* recipe hash of a record is an injective digest of its cited inputs in   *)
(* order, and is represented by them.                                      *)
(***************************************************************************)
EXTENDS PromisedLog, SweepArguments, SequencesExt

CONSTANTS
  Commands,     \* calls of the command: a file and its sequence of arguments
  LibraryCalls  \* calls of the library: the events and the list of policies

ASSUME SensitivityAssumption ==
  /\ \A call \in Commands :
       /\ call.events \in Seq(Event)
       /\ call.args \in Seq(ToSet(call.args))
       /\ \A n \in DOMAIN call.args : IsArgument(call.args[n])
  /\ \A call \in LibraryCalls :
       /\ call.events \in Seq(Event)
       /\ call.policies \in Seq(ToSet(call.policies))
       /\ \A n \in DOMAIN call.policies : IsPolicy(call.policies[n])
  /\ Absent \notin Nat \X Nat

VARIABLES
  events,    \* the file
  args,      \* the command line, or Absent for a call of the library
  parsed,    \* SensitivityArgs as far as the arguments were read
  policies,  \* the comparison policies
  phase,     \* "parse", "validate", "baseline", "compare", "done" or "failed"
  error,     \* the SensitivityError, or "none"
  baseline,  \* the log of the unchanged file
  results    \* one result per policy compared so far

vars == <<events, args, parsed, policies, phase, error, baseline, results>>

OutOfRange(policy) ==
  \E i \in DOMAIN events :
    Moves(policy, events[i]) /\ ~FitsTime(MovedTime(policy, events[i]))

Transformed(policy) ==
  [ i \in DOMAIN events |->
      IF Moves(policy, events[i])
      THEN [events[i] EXCEPT !.received_time = MovedTime(policy, events[i])]
      ELSE events[i] ]

EventsTransformed(policy) ==
  Cardinality({ i \in DOMAIN events : Transformed(policy)[i] # events[i] })

(***************************************************************************)
(* diff_against_baseline(): records are matched by prediction key.         *)
(***************************************************************************)
KeysOf(log) == { log[n].key : n \in DOMAIN log }

RecordFor(log, key) == log[CHOOSE n \in DOMAIN log : log[n].key = key]

\* Seeded error: the recipe of a record is its newest input only.
RecipeOfNewest(record) == record.max_key

Recipe(record) == record.inputs

InputsOf(record) == { record.inputs[k] : k \in DOMAIN record.inputs }

DetailOf(old, new) ==
  [ key            |-> old.key,
    new_inputs     |-> InputsOf(new) \ InputsOf(old),
    signal_changed |-> old.signal_value # new.signal_value,
    recipe_changed |-> Recipe(old) # Recipe(new) ]

IsChange(detail) ==
  detail.signal_changed \/ detail.recipe_changed \/ detail.new_inputs # {}

DetailsOf(log) ==
  LET all == [ n \in DOMAIN baseline |-> DetailOf(baseline[n], RecordFor(log, baseline[n].key)) ]
  IN  Listed(all, { n \in DOMAIN all : IsChange(all[n]) })

SummaryOf(details) ==
  LET Those(Test(_)) == { n \in DOMAIN details : Test(details[n]) } IN
  [ predictions       |-> Len(baseline),
    signal_change     |-> Cardinality(Those(LAMBDA d : d.signal_changed)),
    recipe_change     |-> Cardinality(Those(LAMBDA d : d.recipe_changed)),
    new_inputs        |-> Cardinality(Those(LAMBDA d : d.new_inputs # {})),
    new_input_uses    |-> FoldLeft(LAMBDA uses, d : uses + Cardinality(d.new_inputs), 0, details),
    unique_new_inputs |-> Cardinality(UNION { details[n].new_inputs : n \in DOMAIN details }) ]

ResultOf(policy, log) ==
  [ transformed |-> EventsTransformed(policy),
    log         |-> log,
    details     |-> DetailsOf(log),
    summary     |-> SummaryOf(DetailsOf(log)) ]

(***************************************************************************)
(* run_sensitivity_sweep(): the first error ends the sweep.                *)
(***************************************************************************)
NamesOf(list) == { list[n].name : n \in DOMAIN list }

DuplicateName(list) ==
  <<"strict_received_time">> \in NamesOf(list) \/ Cardinality(NamesOf(list)) < Len(list)

Init ==
  /\ \/ /\ \E call \in Commands : events = call.events /\ args = call.args
        /\ policies = <<>>
        /\ phase = "parse"
     \/ /\ \E call \in LibraryCalls : events = call.events /\ policies = call.policies
        /\ args = Absent
        /\ phase = "validate"
  /\ parsed = Unparsed
  /\ error = "none"
  /\ baseline = <<>>
  /\ results = <<>>

Fail(with) ==
  /\ phase' = "failed"
  /\ error' = with
  /\ UNCHANGED <<events, args, parsed, policies, baseline, results>>

ParseArgument ==
  /\ phase = "parse"
  /\ parsed.error = "none"
  /\ parsed.read < Len(args)
  /\ parsed' = AfterArgument(parsed, args[parsed.read + 1])
  /\ UNCHANGED <<events, args, policies, phase, error, baseline, results>>

\* sensitivity(): the parsed arguments are completed from the file.
CompleteArguments ==
  /\ phase = "parse"
  /\ \/ parsed.error # "none" /\ Fail(parsed.error)
     \/ /\ parsed.error = "none"
        /\ parsed.read = Len(args)
        /\ LET ready == WithLateArrivals(ParsedArgs(args, parsed), events) IN
           IF ready.error # "none"
           THEN Fail(ready.error)
           ELSE /\ policies' = ready.policies
                /\ phase' = "validate"
                /\ UNCHANGED <<events, args, parsed, error, baseline, results>>

Validate ==
  /\ phase = "validate"
  /\ \/ policies = <<>> /\ Fail("NoComparisonPolicies")
     \/ policies # <<>> /\ DuplicateName(policies) /\ Fail("DuplicatePolicyName")
     \/ /\ policies # <<>>
        /\ ~DuplicateName(policies)
        /\ phase' = "baseline"
        /\ UNCHANGED <<events, args, parsed, policies, error, baseline, results>>

RunBaseline ==
  /\ phase = "baseline"
  /\ \/ Refused(events) /\ Fail("Replay")
     \/ /\ ~Refused(events)
        /\ baseline' = LogOf(events, "ReceivedTime")
        /\ phase' = "compare"
        /\ UNCHANGED <<events, args, parsed, policies, error, results>>

Current == policies[Len(results) + 1]

Comparing == phase = "compare" /\ Len(results) < Len(policies)

RejectPolicy ==
  /\ Comparing
  /\ \/ OutOfRange(Current) /\ Fail("TimestampShiftOutOfRange")
     \/ /\ ~OutOfRange(Current)
        /\ Refused(Transformed(Current))
        /\ Fail("Replay")

ComparePolicy ==
  /\ Comparing
  /\ ~OutOfRange(Current)
  /\ ~Refused(Transformed(Current))
  /\ LET log == LogOf(Transformed(Current), OrderOf(Current)) IN
     IF KeysOf(log) # KeysOf(baseline)
     THEN Fail("PredictionKeyMismatch")
     ELSE /\ results' = Append(results, ResultOf(Current, log))
          /\ UNCHANGED <<events, args, parsed, policies, phase, error, baseline>>

Finish ==
  /\ phase = "compare"
  /\ Len(results) = Len(policies)
  /\ phase' = "done"
  /\ UNCHANGED <<events, args, parsed, policies, error, baseline, results>>

\* The sweep has returned.
Returned == phase \in {"done", "failed"} /\ UNCHANGED vars

Next ==
  \/ ParseArgument \/ CompleteArguments \/ Validate \/ RunBaseline
  \/ RejectPolicy \/ ComparePolicy \/ Finish \/ Returned

Spec == Init /\ [][Next]_vars

-----------------------------------------------------------------------------
(***************************************************************************)
(* A sweep makes a late row available earlier, never before it was         *)
(* observed, and a larger share never makes it later; rows that are not    *)
(* late stay where they were (sensitivity.rs:390-403).                     *)
(***************************************************************************)
LeakPolicies == { n \in DOMAIN policies : policies[n].kind \in {"fraction", "bucket", "cumulative"} }

LeaksStayBetween ==
  phase = "compare" =>
    \A n \in LeakPolicies : \A i \in DOMAIN events :
      LET moved == Transformed(policies[n])[i].received_time IN
      /\ IF IsLate(events[i])
         THEN events[i].observed_time <= moved /\ moved <= events[i].received_time
         ELSE moved = events[i].received_time
      /\ \A m \in LeakPolicies :
           policies[m].kind = "fraction" /\ policies[n].kind = "fraction"
             /\ policies[m].pct <= policies[n].pct
           => moved <= Transformed(policies[m])[i].received_time

(***************************************************************************)
(* A change of a record is attributable: some feature row of its symbol    *)
(* was moved, and stands before the prediction in one of the two feeds;    *)
(* and an input that was not available in the baseline is a moved row      *)
(* (docs/success-criteria.md: an attributable curve; sensitivity.rs:419-   *)
(* 494).                                                                   *)
(***************************************************************************)
RowWithKey(key) == CHOOSE i \in DOMAIN events : EventKey(events[i]) = key

Moved(policy) == { i \in DOMAIN events : Transformed(policy)[i] # events[i] }

ChangesAreAttributable ==
  \A n \in DOMAIN results : \A d \in DOMAIN results[n].details :
    LET detail == results[n].details[d]
        p      == RowWithKey(detail.key)
    IN  policies[n].kind # "order" =>
          /\ \E i \in Moved(policies[n]) :
               /\ UpdatesSignalState(events[i])
               /\ events[i].symbol = events[p].symbol
               /\ \/ ReceivedBefore(events[i], events[p])
                  \/ ReceivedBefore(Transformed(policies[n])[i], Transformed(policies[n])[p])
          /\ \A key \in detail.new_inputs :
               \/ ReceivedBefore(events[RowWithKey(key)], events[p])
               \/ RowWithKey(key) \in Moved(policies[n])

(***************************************************************************)
(* A value never flips without a change of the recipe: the cited inputs,   *)
(* in order, determine the value, also where a policy changed nothing but  *)
(* their order (sensitivity.rs:443-471).                                   *)
(***************************************************************************)
FlipComesWithRecipe ==
  \A n \in DOMAIN results : \A d \in DOMAIN results[n].details :
    results[n].details[d].recipe_changed

(***************************************************************************)
(* A sweep of an accepted file over distinct policies is aborted only by   *)
(* the policy it names: by a time out of range, or by two rows that now    *)
(* share a receipt position.  Predictions are never lost, so the error for *)
(* unmatched prediction keys is unreachable (sensitivity.rs:343-366, 378-  *)
(* 388, 503-526).                                                          *)
(***************************************************************************)
Collides(feed) ==
  \E i, j \in DOMAIN feed :
    /\ i # j
    /\ feed[i].received_time = feed[j].received_time
    /\ feed[i].seq = feed[j].seq

AbortHasCause ==
  phase = "failed" /\ policies # <<>> /\ ~DuplicateName(policies) /\ ~Refused(events)
  => /\ Len(results) < Len(policies)
     /\ \/ /\ error = "TimestampShiftOutOfRange"
           /\ \E i \in DOMAIN events : LET time == MovedTime(Current, events[i]) IN
                Moves(Current, events[i]) /\ (time < 0 \/ time > MaxTime)
        \/ error = "Replay" /\ Collides(Transformed(Current))

(***************************************************************************)
(* An accepted command line makes a usable sweep: unless an argument is    *)
(* given twice, the sweep is not refused for its list of policies; the     *)
(* shares of each generated list rise strictly and end at their bound,     *)
(* and nothing comes after the leaky policy but what was given after it    *)
(* (main.rs:424-473, 559-653).                                             *)
(***************************************************************************)
SharesOf(stem) ==
  LET those == Listed(policies, { n \in DOMAIN policies : policies[n].name[1] = stem })
  IN  [ n \in DOMAIN those |-> those[n].pct ]

\* Where the range of a command line ends, or the whole lag.
EndOf(stem) ==
  IF stem = "lookahead" /\ Has(args, "range")
  THEN args[CHOOSE n \in DOMAIN args : args[n].flag = "range"].value[2]
  ELSE FullBps

CommandLineIsUsable ==
  args # Absent =>
    /\ (\A m, n \in DOMAIN args : args[m] = args[n] => m = n)
       => error \notin {"NoComparisonPolicies", "DuplicatePolicyName"}
    /\ \A stem \in {"lookahead", "late_arrivals_cumulative"} :
         LET shares == SharesOf(stem) IN
         /\ \A m, n \in DOMAIN shares : m < n => shares[m] < shares[n]
         /\ shares # <<>> => shares[Len(shares)] = EndOf(stem)
    /\ \A m, n \in DOMAIN policies :
         IsLeaky(policies[m]) /\ m < n => policies[n].kind # "fraction"
=============================================================================
