---------------------------- MODULE MCSensitivity ----------------------------
(***************************************************************************)
(* Small instances of the sensitivity sweep.                               *)
(***************************************************************************)
EXTENDS LateArrivalCurve

CONSTANTS A, B, FeedSize

LOCAL INSTANCE SequencesExt
LOCAL INSTANCE FiniteSetsExt

MCSymbols == {A, B}
MCIds == 1..10
MCKeyOf == [i \in MCIds |-> i]
MCSymbolIdOf == [s \in MCSymbols |-> IF s = A THEN 1 ELSE 2]
MCMutatedScore == -9
MCScores == {MCMutatedScore, 2}
MCSignal == [kind |-> "windowed-feature-sentiment", window |-> 2]

\* Three of the times read as dates.
MCMinutesOf ==
  [time \in 0..9 |-> IF time = 1 THEN 0 ELSE IF time = 5 THEN 3 ELSE IF time = 7 THEN 4 ELSE Absent]

Row(id, observed, received, seq, role, symbol, sentiment, score) ==
  [ id |-> id, observed_time |-> observed, received_time |-> received, seq |-> seq,
    role |-> role, symbol |-> symbol, sentiment |-> sentiment, score |-> score ]

Catalogue ==
  << Row(1, 4, 4, 1, "prediction", A, Absent, Absent),
     Row(2, 0, 1, 0, "feature", A, 1, Absent),
     Row(3, 2, 3, 0, "feature", A, 1, Absent),
     Row(4, 1, 5, 0, "feature_correction", A, -1, Absent),
     Row(5, 1, 7, 2, "feature", A, -1, 2),
     Row(6, 6, 6, 0, "prediction", A, Absent, Absent),
     Row(7, 4, 4, 2, "prediction", B, Absent, Absent),
     Row(8, 3, 8, 0, "feature", B, 1, Absent),
     Row(9, 2, 2, 0, "feature", A, Absent, Malformed),
     Row(10, 1, 5, 3, "feature", A, Absent, 2) >>

Arranged(ids) == [i \in 1..Cardinality(ids) |-> Catalogue[SetToSortSeq(ids, <)[i]]]

MCFeeds == { Arranged(ids) : ids \in UNION { kSubset(k, MCIds) : k \in 1..FeedSize } }

Arg(flag, value) == [flag |-> flag, value |-> value]
Shift(by) == Arg("shift", by)
Leaky == Arg("leaky", TRUE)
Buckets == Arg("buckets", TRUE)
Scenario(name) == Arg("scenario", name)
Steps(n) == Arg("steps", n)
LookaheadRange(from, to) == Arg("range", <<from, to>>)

\* Command lines for every file, and every short one for one file.
CommandLines ==
  { << Shift(1), Shift(-1) >>,
    << Leaky, Shift(-2), Shift(2) >>,
    << Scenario("lookahead"), Steps(3) >>,
    << Leaky, Steps(2), Buckets >> }

ShortCommandLines ==
  LET arguments == { Shift(2), Shift(-1), Leaky, Buckets, Scenario("custom"),
                     Scenario("lookahead"), Scenario("late-arrivals"), Steps(2), Steps(5),
                     Steps(0), LookaheadRange(105, 151), LookaheadRange(149, 151),
                     LookaheadRange(0, 0), LookaheadRange(7500, 2500) }
  IN  UNION { [1..k -> arguments] : k \in 0..3 }

Command(feed, line) == [events |-> feed, args |-> line]

MCCommands ==
  { Command(feed, line) : feed \in MCFeeds, line \in CommandLines }
    \cup { Command(Arranged({2, 4, 6}), line) : line \in ShortCommandLines }
    \cup { Command(Arranged({2, 4, 6}), line \o <<Steps(5)>>) :
              line \in { << Scenario("custom"), Buckets, LookaheadRange(0, 3000), Leaky >>,
                        << Leaky, Leaky, LookaheadRange(0, 3000), Shift(0) >> } }

LibraryLists ==
  { <<>>,
    << LeakLagBucket(<<"young">>, 0, 3, 10000), LeakLagBucket(<<"old">>, 3, Absent, 5000),
       LeakLagCumulative(<<"up_to_4">>, 4, 10001) >>,
    << ShiftFeatures(<<"strict_received_time">>, 1) >> }

MCLibraryCalls ==
  { [events |-> feed, policies |-> list] : feed \in MCFeeds, list \in LibraryLists }
=============================================================================
