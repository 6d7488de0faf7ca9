--------------------------- MODULE LateArrivalCurve ---------------------------
(***************************************************************************)
(* The late-arrival curve the sensitivity command draws from a finished    *)
(* sweep (format_cumulative_late_arrival_curve_svg() and                   *)
(* late_arrival_shift_stats() of crates/asof-cli/src/main.rs): one point   *)
(* per generated share of the lags, with the uses of new inputs admitted   *)
(* up to there and the lags that were removed.  Only what the drawing      *)
(* says is modelled, not the drawing.                                      *)
(***************************************************************************)
EXTENDS Sensitivity

\* The minutes a time stands for when its digits are read as a date and an hour,
\* or Absent.  The module Calendar has the reading itself.
CONSTANT MinutesOf

ASSUME CurveAssumption ==
  \A call \in Commands : \A n \in DOMAIN call.events :
    {MinutesOf[call.events[n].observed_time], MinutesOf[call.events[n].received_time]}
      \subseteq Int \cup {Absent}

(***************************************************************************)
(* A stable sort by keys: the element that n - 1 others come before is the *)
(* n-th.                                                                   *)
(***************************************************************************)
KeysBefore(keys, i) ==
  { j \in DOMAIN keys : keys[j] < keys[i] \/ (keys[j] = keys[i] /\ j < i) }

SortedBy(keys, s) ==
  [ n \in DOMAIN s |-> s[CHOOSE i \in DOMAIN s : Cardinality(KeysBefore(keys, i)) = n - 1] ]

IsCumulative(policy) ==
  policy.name[1] = "late_arrivals_cumulative" /\ policy.kind \in {"fraction", "cumulative"}

(***************************************************************************)
(* late_arrival_shift_stats(): the lags a share removes.  The command has  *)
(* its own copy of the rule that moves the rows.                           *)
(***************************************************************************)
LateRows(policy) ==
  Listed(events, { i \in DOMAIN events : events[i].role \in policy.roles /\ IsLate(events[i]) })

IsCalendar(rows) ==
  \A n \in DOMAIN rows :
    Absent \notin {MinutesOf[rows[n].observed_time], MinutesOf[rows[n].received_time]}

LagShown(rows, n) ==
  IF IsCalendar(rows)
  THEN MinutesOf[rows[n].received_time] - MinutesOf[rows[n].observed_time]
  ELSE Lag(rows[n])

\* Seeded error: the share is rounded down.
LagFractionRoundedDown(lag, pct) == (lag * Capped(pct)) \div FullBps

LagFraction(lag, pct) == (lag * Capped(pct) + 5000) \div FullBps

NearestRank(sorted, percentile) == sorted[1 + ((Len(sorted) - 1) * percentile + 50) \div 100]

ShiftStats(policy) ==
  LET rows    == LateRows(policy)
      amounts == [ n \in DOMAIN rows |-> LagFraction(LagShown(rows, n), policy.pct) ]
      shifts  == SortedBy(amounts, amounts)
  IN  IF rows = <<>> THEN Absent
      ELSE [ unit   |-> IF IsCalendar(rows) THEN "minutes" ELSE "raw",
             count  |-> Len(shifts),
             min    |-> shifts[1],
             median |-> NearestRank(shifts, 50),
             p90    |-> NearestRank(shifts, 90),
             max    |-> shifts[Len(shifts)] ]

(***************************************************************************)
(* The points, from the unchanged file on, by rising share.                *)
(***************************************************************************)
CumulativeResults ==
  Listed([ n \in DOMAIN results |-> n ], { n \in DOMAIN results : IsCumulative(policies[n]) })

\* The uses of new inputs a replay admitted: prediction and input.
AdmittedIn(result) ==
  UNION { {detail.key} \X detail.new_inputs : detail \in ToSet(result.details) }

PointOf(n) ==
  [ x        |-> policies[n].pct,
    admitted |-> AdmittedIn(results[n]),
    uses     |-> results[n].summary.new_input_uses,
    changed  |-> results[n].summary.signal_change,
    shifts   |-> IF policies[n].kind = "fraction" THEN ShiftStats(policies[n]) ELSE Absent ]

BaselinePoint == [x |-> 0, admitted |-> {}, uses |-> 0, changed |-> 0, shifts |-> Absent]

Points ==
  LET all == <<BaselinePoint>> \o
               [ k \in DOMAIN CumulativeResults |-> PointOf(CumulativeResults[k]) ]
  IN  SortedBy([ k \in DOMAIN all |-> all[k].x ], all)

\* Seeded error: a use admitted by two replays counts twice.
UsesUpTo(points, k) == FoldLeft(LAMBDA sum, p : sum + p.uses, 0, SubSeq(points, 1, k))

Exposure(points, k) == Cardinality(UNION { points[j].admitted : j \in 1..k })

Curve ==
  LET points == Points IN
  [ k \in DOMAIN points |->
      [ x          |-> points[k].x,
        admissions |-> Exposure(points, k),
        changed    |-> points[k].changed,
        shifts     |-> points[k].shifts ] ]

\* What the note below the title says of the end of the curve.
EndpointNote ==
  LET last == Curve[Len(Curve)] IN
  [ exposure    |-> IF last.admissions = 0 THEN 1 ELSE last.admissions,
    changed     |-> last.changed,
    predictions |-> Len(baseline) ]

IsDrawn == phase = "done" /\ args # Absent /\ CumulativeResults # <<>>

-----------------------------------------------------------------------------
(***************************************************************************)
(* Every point counts each use of an input once that some replay up to its *)
(* share made and the unchanged file did not, so the curve never falls;    *)
(* and it ends at the replay that left no lag, with the number of          *)
(* predictions whose value that replay changed (main.rs:1626-1770).        *)
(***************************************************************************)
NewUses(log) ==
  UNION { {log[n].key} \X (InputsOf(log[n]) \ InputsOf(RecordFor(baseline, log[n].key)))
            : n \in DOMAIN log }

ChangedIn(log) ==
  { n \in DOMAIN log : log[n].signal_value # RecordFor(baseline, log[n].key).signal_value }

CurveCountsAdmissions ==
  IsDrawn =>
    LET curve == Curve
        UpTo(share) == { n \in ToSet(CumulativeResults) : policies[n].pct <= share }
    IN  /\ curve[1].x = 0 /\ curve[1].admissions = 0
        /\ \A k \in 2..Len(curve) :
             /\ curve[k - 1].x < curve[k].x
             /\ curve[k - 1].admissions <= curve[k].admissions
             /\ curve[k].admissions =
                  Cardinality(UNION { NewUses(results[n].log) : n \in UpTo(curve[k].x) })
        /\ \E n \in ToSet(CumulativeResults) :
             /\ \A e \in ToSet(Transformed(policies[n])) : ~(UpdatesSignalState(e) /\ IsLate(e))
             /\ EndpointNote.changed = Cardinality(ChangedIn(results[n].log))
        /\ curve[Len(curve)].admissions > 0 =>
             EndpointNote.exposure = curve[Len(curve)].admissions

(***************************************************************************)
(* The lags a point says were removed are those its replay removed: the    *)
(* copy of the rounding rule in the command agrees with the rule that      *)
(* moves the rows.  Where all times read as dates the amounts are minutes, *)
(* and only their order and number are claimed (main.rs:1929-2033;         *)
(* sensitivity.rs:390-403).                                                *)
(***************************************************************************)
LateIndexes == { i \in DOMAIN events : UpdatesSignalState(events[i]) /\ IsLate(events[i]) }

ShiftsShownAreReal ==
  IsDrawn =>
    \A n \in ToSet(CumulativeResults) :
      LET shown == ShiftStats(policies[n])
          moved == Transformed(policies[n])
          removed == [ i \in LateIndexes |-> events[i].received_time - moved[i].received_time ]
          amounts == { removed[i] : i \in LateIndexes }
      IN  /\ shown.count = Cardinality(LateIndexes)
          /\ shown.min <= shown.median /\ shown.median <= shown.p90 /\ shown.p90 <= shown.max
          /\ shown.unit = "raw" =>
               /\ {shown.min, shown.median, shown.p90, shown.max} \subseteq amounts
               /\ \A i \in LateIndexes : shown.min <= removed[i] /\ removed[i] <= shown.max
               /\ 2 * Cardinality({ i \in LateIndexes : removed[i] <= shown.median }) >= shown.count
               /\ 2 * Cardinality({ i \in LateIndexes : removed[i] >= shown.median }) >= shown.count
=============================================================================
