------------------------------- MODULE MCAudit -------------------------------
(***************************************************************************)
(* Small instances of the audit: every producer with every edit, and every *)
(* outcome file.                                                           *)
(***************************************************************************)
EXTENDS Audit

CONSTANTS A, B, FeedSize

LOCAL INSTANCE SequencesExt
LOCAL INSTANCE FiniteSetsExt

MCSymbols == {A, B}
MCIds == 1..9
MCKeyOf == [i \in MCIds |-> i]
MCSymbolIdOf == [s \in MCSymbols |-> IF s = A THEN 1 ELSE 2]
MCMutatedScore == -9
MCScores == {MCMutatedScore}
MCSignal == [kind |-> "windowed-feature-sentiment", window |-> 2]

Row(id, observed, received, seq, role, symbol, sentiment) ==
  [ id |-> id, observed_time |-> observed, received_time |-> received, seq |-> seq,
    role |-> role, symbol |-> symbol, sentiment |-> sentiment, score |-> Absent ]

Catalogue ==
  << Row(1, 4, 4, 1, "prediction", A, Absent),
     Row(2, 0, 1, 0, "feature", A, 1),
     Row(3, 2, 4, 0, "feature", A, 1),
     Row(4, 1, 5, 0, "feature_correction", A, -1),
     Row(5, 3, 7, 2, "feature", A, 1),
     Row(6, 6, 6, 0, "prediction", A, Absent),
     Row(7, 4, 4, 2, "prediction", B, Absent),
     Row(8, 3, 4, 3, "feature", B, 1),
     Row(9, 2, 2, 0, "feature", A, Malformed) >>

Arranged(ids) == [i \in 1..Cardinality(ids) |-> Catalogue[SetToSortSeq(ids, <)[i]]]

MCFeeds == { Arranged(ids) : ids \in UNION { kSubset(k, MCIds) : k \in 1..FeedSize } }

Invocation(producer, edit, outcome_file, allow, to_file) ==
  [ producer |-> producer, edit |-> edit, outcomes |-> outcome_file,
    allow_missing |-> allow, out |-> to_file ]

MCInvocations ==
  { Invocation(p, e, "none", allow, FALSE) :
      p \in Producers \ {"none"}, e \in Edits, allow \in BOOLEAN }
  \cup { Invocation(p, "none", o, FALSE, TRUE) : p \in {"none", "replay", "leaky"}, o \in OutcomeFiles }
=============================================================================
