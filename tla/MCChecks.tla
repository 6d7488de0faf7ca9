------------------------------ MODULE MCChecks ------------------------------
(***************************************************************************)
(* Small instances of the adversarial checks.                              *)
(***************************************************************************)
EXTENDS Checks

CONSTANTS A, B, FeedSize

LOCAL INSTANCE SequencesExt
LOCAL INSTANCE FiniteSetsExt

MCSymbols == {A, B}
MCIds == 1..11
MCKeyOf == [i \in MCIds |-> i]
MCSymbolIdOf == [s \in MCSymbols |-> IF s = A THEN 1 ELSE 2]
MCMutatedScore == -9
MCScores == {MCMutatedScore, 2}
MCSignal == [kind |-> "windowed-feature-sentiment", window |-> 3]
\* A signal that cites a row of the file, or a row that may be missing from it.
MCCitations == {Absent, 3, 4, 77}
MCLimits == {Absent, 0, 2, 3}

Row(id, observed, received, seq, role, symbol, sentiment, score) ==
  [ id |-> id, observed_time |-> observed, received_time |-> received, seq |-> seq,
    role |-> role, symbol |-> symbol, sentiment |-> sentiment, score |-> score ]

Catalogue ==
  << Row( 1, 2, 2, 1, "prediction", A, Absent, Absent),
     Row( 2, 0, 0, 0, "feature", A, 1, Absent),
     Row( 3, 2, 5, 0, "feature", A, 1, Absent),
     Row( 4, 1, 2, 2, "feature_correction", A, -1, Absent),
     Row( 5, 3, 3, 0, "feature", A, -1, 2),
     Row( 6, 4, 4, 0, "prediction", A, Absent, Absent),
     Row( 7, 2, 2, 0, "prediction", A, Absent, Absent),
     Row( 8, 3, 3, 1, "prediction", B, Absent, Absent),
     Row( 9, 6, 6, 0, "feature", B, Absent, Absent),
     Row(10, 2, 2, 3, "outcome", A, Absent, Absent),
     Row(11, 7, 7, 0, "prediction", A, Absent, Absent) >>

Arranged(ids) == [i \in 1..Cardinality(ids) |-> Catalogue[SetToSortSeq(ids, <)[i]]]

MCFeeds == { Arranged(ids) : ids \in UNION { kSubset(k, MCIds) : k \in 1..FeedSize } }
=============================================================================
