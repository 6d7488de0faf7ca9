--------------------------- MODULE SweepArguments ---------------------------
(***************************************************************************)
(* From the arguments of the sensitivity command to its list of comparison *)
(* policies (parse_sensitivity_args() and append_late_arrival_policies()   *)
(* of crates/asof-cli/src/main.rs).                                        *)
(*                                                                         *)
(* An argument is a flag with the value it was parsed to; the arguments    *)
(* that do not bear on the policies are left out.                          *)
(***************************************************************************)
EXTENDS ArrivalPolicy, Positions, SequencesExt

Flags == {"scenario", "leaky", "range", "buckets", "steps", "shift"}

IsArgument(arg) ==
  /\ arg = [flag |-> arg.flag, value |-> arg.value]
  /\ arg.flag \in Flags
  /\ arg.flag \in {"leaky", "buckets"} => arg.value = TRUE
  /\ arg.flag = "range" => arg.value \in (0..FullBps) \X (0..FullBps)
  /\ arg.flag = "steps" => arg.value \in Nat
  /\ arg.flag = "shift" => arg.value \in Int

(***************************************************************************)
(* The generated lists: shares nearest to an even spacing, without zero    *)
(* and without repetition.                                                 *)
(***************************************************************************)
Rounded(product, steps) == (product + steps \div 2) \div steps

\* Seeded error: only zero is left out.
WithoutZero(shares) == Listed(shares, { n \in DOMAIN shares : shares[n] # 0 })

WithoutRepetition(shares) ==
  Listed(shares, { n \in DOMAIN shares : shares[n] # 0 /\ (n > 1 => shares[n - 1] # shares[n]) })

LookaheadShares(range, steps) ==
  WithoutRepetition([ n \in 1..(steps + 1) |->
                        range[1] + Rounded((range[2] - range[1]) * (n - 1), steps) ])

CumulativeShares(steps) ==
  WithoutRepetition([ n \in 1..steps |-> Rounded(n * FullBps, steps) ])

\* format_percent_bps_for_name(): the whole percents and the digits after them.
PercentName(pct) ==
  LET hundredths == pct % 100 IN
  <<pct \div 100>> \o (IF hundredths = 0 THEN <<>>
                       ELSE IF hundredths % 10 = 0 THEN <<hundredths \div 10>>
                       ELSE <<hundredths \div 10, hundredths % 10>>)

FractionPolicies(stem, shares) ==
  [ n \in DOMAIN shares |-> LeakLagFraction(<<stem>> \o PercentName(shares[n]), shares[n]) ]

IsLeaky(policy) == policy.name = <<"observed_time_leaky">>

\* Seeded error: the generated policies are put after the leaky one.
AppendedPolicies(list, generated) == list \o generated

\* The generated policies go before the leaky one.
WithGenerated(list, generated) ==
  LET leaky == SelectInSeq(list, IsLeaky) IN
  IF leaky = 0 THEN list \o generated
  ELSE SubSeq(list, 1, leaky - 1) \o generated \o SubSeq(list, leaky, Len(list))

(***************************************************************************)
(* parse_sensitivity_args(): one argument after the other.                 *)
(***************************************************************************)
Unparsed ==
  [ read |-> 0, scenario |-> Absent, range |-> Absent, buckets |-> FALSE, steps |-> 20,
    policies |-> <<>>, error |-> "none" ]

Taken(parsed, arg) ==
  CASE arg.flag = "scenario" -> [parsed EXCEPT !.scenario = arg.value]
    [] arg.flag = "leaky" -> [parsed EXCEPT !.policies = Append(@, ObservedTimeLeaky)]
    [] arg.flag = "range" ->
         IF parsed.range = Absent /\ arg.value[1] <= arg.value[2]
         THEN [parsed EXCEPT !.range = arg.value]
         ELSE [parsed EXCEPT !.error = "Range"]
    [] arg.flag = "buckets" -> [parsed EXCEPT !.buckets = TRUE]
    [] arg.flag = "steps" ->
         IF arg.value = 0 THEN [parsed EXCEPT !.error = "Steps"]
         ELSE [parsed EXCEPT !.steps = arg.value]
    [] arg.flag = "shift" ->
         [parsed EXCEPT !.policies =
            Append(@, ShiftFeatures(<<"shift_features", arg.value>>, arg.value))]

AfterArgument(parsed, arg) == [Taken(parsed, arg) EXCEPT !.read = @ + 1]

Has(args, flag) == \E n \in DOMAIN args : args[n].flag = flag

ScenarioOf(parsed) ==
  IF parsed.scenario # Absent THEN parsed.scenario
  ELSE IF parsed.buckets THEN "late-arrivals"
  ELSE IF parsed.range # Absent THEN "lookahead" ELSE "custom"

\* What a scenario implies.
Completed(parsed) ==
  [ parsed EXCEPT
      !.scenario = ScenarioOf(parsed),
      !.buckets = @ \/ ScenarioOf(parsed) = "late-arrivals",
      !.range = IF @ = Absent /\ ScenarioOf(parsed) = "lookahead" THEN <<0, FullBps>> ELSE @ ]

Conflicts(parsed) ==
  \/ ScenarioOf(parsed) = "lookahead" /\ parsed.buckets
  \/ ScenarioOf(parsed) = "late-arrivals" /\ parsed.range # Absent

WithLookahead(args, parsed) ==
  IF parsed.range # Absent
  THEN LET shares == LookaheadShares(parsed.range, parsed.steps) IN
       IF shares = <<>> THEN [parsed EXCEPT !.error = "EmptyRange"]
       ELSE [parsed EXCEPT !.policies = WithGenerated(@, FractionPolicies("lookahead", shares))]
  ELSE IF Has(args, "steps") /\ parsed.scenario # "late-arrivals"
       THEN [parsed EXCEPT !.error = "StepsWithoutRange"] ELSE parsed

\* What remains when all arguments are taken.
ParsedArgs(args, taken) ==
  LET ready == WithLookahead(args, Completed(taken)) IN
  IF Conflicts(taken) THEN [taken EXCEPT !.error = "Conflict"]
  ELSE IF ready.error = "none" /\ ready.policies = <<>> /\ ~ready.buckets
       THEN [ready EXCEPT !.error = "NoPolicy"] ELSE ready

\* append_late_arrival_policies(), once the file is read.
HasLateArrivals(feed) ==
  \E n \in DOMAIN feed : UpdatesSignalState(feed[n]) /\ IsLate(feed[n])

WithLateArrivals(parsed, feed) ==
  IF parsed.error # "none" \/ ~parsed.buckets THEN parsed
  ELSE IF ~HasLateArrivals(feed) THEN [parsed EXCEPT !.error = "NoLateArrivals"]
  ELSE [parsed EXCEPT !.policies =
          WithGenerated(@, FractionPolicies("late_arrivals_cumulative",
                                            CumulativeShares(parsed.steps)))]
=============================================================================
