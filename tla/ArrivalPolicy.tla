---------------------------- MODULE ArrivalPolicy ----------------------------
(***************************************************************************)
(* Arrival policies: which rows a policy makes available at another time,  *)
(* and when (crates/asof-causality/src/sensitivity.rs).  Shares of a lag   *)
(* are in basis points, and a policy name is the sequence of its parts.    *)
(***************************************************************************)
EXTENDS Events

CONSTANT MaxTime    \* u64::MAX

ASSUME TimeAssumption == MaxTime \in Nat

FullBps == 10000

(***************************************************************************)
(* PolicyPoint: the name and the kind of a policy, as its constructors     *)
(* make it.                                                                *)
(***************************************************************************)
LagKinds == {"fraction", "bucket", "cumulative"}

IsPolicy(policy) ==
  /\ policy.kind \in LagKinds \cup {"shift", "order"}
  /\ policy.kind # "order" => policy.roles = FeatureRoles
  /\ policy.kind = "order" => policy.order = "ObservedTimeLeaky"
  /\ policy.kind = "shift" => policy.shift \in Int
  /\ policy.kind \in LagKinds => policy.pct \in 0..FullBps

ShiftFeatures(name, shift) ==
  [name |-> name, kind |-> "shift", roles |-> FeatureRoles, shift |-> shift]

Capped(pct) == IF pct > FullBps THEN FullBps ELSE pct

LeakLagFraction(name, pct) ==
  [name |-> name, kind |-> "fraction", roles |-> FeatureRoles, pct |-> Capped(pct)]

LeakLagBucket(name, min_lag, max_lag, pct) ==
  [name |-> name, kind |-> "bucket", roles |-> FeatureRoles, pct |-> Capped(pct),
   min_lag |-> min_lag, max_lag |-> max_lag]

LeakLagCumulative(name, max_lag, pct) ==
  [name |-> name, kind |-> "cumulative", roles |-> FeatureRoles, pct |-> Capped(pct),
   max_lag |-> max_lag]

ObservedTimeLeaky ==
  [name |-> <<"observed_time_leaky">>, kind |-> "order", order |-> "ObservedTimeLeaky"]

(***************************************************************************)
(* leak_received_time_toward_observed_time(): the lag shrinks by a share   *)
(* in basis points, rounded to nearest.                                    *)
(***************************************************************************)
\* Seeded error: the leaked share is rounded up.
LeakedRoundedUp(observed, received, pct) ==
  IF received <= observed \/ pct = 0 THEN received
  ELSE received - (((received - observed) * pct + FullBps) \div FullBps)

Leaked(observed, received, pct) ==
  IF received <= observed \/ pct = 0 THEN received
  ELSE received - (((received - observed) * pct + 5000) \div FullBps)

(***************************************************************************)
(* transform_events_for_policy(): which rows a policy moves, and to when.  *)
(***************************************************************************)
IsLate(e) == e.received_time > e.observed_time

Lag(e) == e.received_time - e.observed_time

InCohort(policy, e) ==
  CASE policy.kind = "bucket" ->
         /\ IsLate(e)
         /\ Lag(e) >= policy.min_lag
         /\ policy.max_lag # Absent => Lag(e) < policy.max_lag
    [] policy.kind = "cumulative" ->
         IsLate(e) /\ (policy.max_lag # Absent => Lag(e) <= policy.max_lag)
    [] policy.kind \in {"shift", "fraction"} -> TRUE
    [] policy.kind = "order" -> FALSE

Moves(policy, e) == InCohort(policy, e) /\ e.role \in policy.roles

MovedTime(policy, e) ==
  IF policy.kind = "shift" THEN e.received_time + policy.shift
  ELSE Leaked(e.observed_time, e.received_time, policy.pct)

\* Seeded error: time zero counts as out of range.
FitsTimePositive(time) == 0 < time /\ time <= MaxTime

FitsTime(time) == 0 <= time /\ time <= MaxTime

\* Seeded error: moved feeds are replayed by observed time.
OrderOfMovedLeaky(policy) == IF policy.kind = "order" THEN policy.order ELSE "ObservedTimeLeaky"

OrderOf(policy) == IF policy.kind = "order" THEN policy.order ELSE "ReceivedTime"
=============================================================================
