------------------------------ MODULE MCReplay ------------------------------
(***************************************************************************)
(* Small instances of the replay: a catalogue of rows, and every file that *)
(* takes up to FileSize of them in two arrangements, once with a row       *)
(* repeated.                                                               *)
(***************************************************************************)
EXTENDS ReplayProperties

CONSTANTS A, B, C, FileSize

LOCAL INSTANCE SequencesExt
LOCAL INSTANCE FiniteSetsExt

MCSymbols == {A, B, C}
MCIds == 1..13
\* Ids 11 and 4 share a key, labels C and A share an id.
MCKeyOf == [i \in MCIds |-> IF i = 11 THEN 4 ELSE i]
MCSymbolIdOf == [s \in MCSymbols |-> IF s = B THEN 2 ELSE 1]
MCMutatedScore == -9
MCScores == {MCMutatedScore, -2, 3}
MCMomentumSignal ==
  [kind |-> "vol-adjusted-momentum", fast |-> 1, slow |-> 2, min_trend |-> 0, divisor |-> 2]
MCSentimentSignal == [kind |-> "windowed-feature-sentiment", window |-> 2]

Row(id, observed, received, seq, role, symbol, sentiment, score) ==
  [ id |-> id, observed_time |-> observed, received_time |-> received, seq |-> seq,
    role |-> role, symbol |-> symbol, sentiment |-> sentiment, score |-> score ]

Catalogue ==
  << Row( 1, 2, 2, 4, "prediction", A, Absent, Absent),
     Row( 2, 1, 1, 1, "feature", A, 1, Absent),
     Row( 3, 1, 2, 1, "feature", A, -1, 3),
     Row( 4, 1, 2, 2, "feature_correction", A, Absent, -2),
     Row( 5, 1, 1, 2, "prediction", A, Absent, Absent),
     Row( 6, 1, 3, 1, "feature", B, 1, Absent),
     Row( 7, 2, 2, 5, "prediction", B, Absent, Absent),
     Row( 8, 0, 3, 2, "outcome", A, Absent, Absent),
     Row( 9, 1, 1, 3, "feature", A, 1, Malformed),
     Row(10, 0, 2, 3, "feature", A, 0, Absent),
     Row(11, 2, 3, 3, "feature", B, -1, Absent),
     Row(12, 3, 3, 3, "feature", C, 1, Absent),
     Row(13, 0, 4, 1, "feature", A, -1, Absent) >>

Arranged(ids) == [i \in 1..Cardinality(ids) |-> Catalogue[SetToSortSeq(ids, <)[i]]]

FilesFrom(ids) ==
  LET files == { Arranged(chosen) : chosen \in UNION { kSubset(k, ids) : k \in 1..FileSize } } IN
  files \cup { Reverse(f) : f \in files }
        \cup { Append(f, f[1]) : f \in { g \in files : Len(g) < FileSize } }

MCFiles == FilesFrom(MCIds)

\* The rows of one symbol, scores among them.
MCScoreFiles == FilesFrom({1, 2, 3, 4, 5, 8, 9, 10})
=============================================================================
