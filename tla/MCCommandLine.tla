----------------------------- MODULE MCCommandLine -----------------------------
(***************************************************************************)
(* Every command with up to three groups of arguments on one file, and the *)
(* commands that read a file on many files: up to FileSize of the lines    *)
(* below in two arrangements.                                              *)
(***************************************************************************)
EXTENDS CommandLineProperties

CONSTANT FileSize

MCIds == 1..9
MCIdOf ==
  "a" :> 1 @@ "a,b" :> 2 @@ "b" :> 3 @@ "c1" :> 4 @@ "n1" :> 5 @@ "n2" :> 6 @@ "o1" :> 7
    @@ "p1" :> 8 @@ "p2" :> 9
MCIdParts == [ id \in DOMAIN MCIdOf |-> IF id = "a,b" THEN <<"a", "b">> ELSE <<id>> ]
MCReadNumber ==
  "0" :> 0 @@ "1" :> 1 @@ "2" :> 2 @@ "3" :> 3 @@ "4" :> 4 @@ "5" :> 5 @@ "+2" :> 2 @@ "03" :> 3
MCShowNumber ==
  0 :> "0" @@ 1 :> "1" @@ 2 :> "2" @@ 3 :> "3" @@ 4 :> "4" @@ 5 :> "5"
MCMutatedScore == -999
MCReadScore == "-999" :> -999 @@ "3" :> 3
MCScores == {-999, 3}
MCSymbols == {"AAPL", "MSFT"}
MCKeyOf == [ id \in MCIds |-> id ]
MCSymbolIdOf == "AAPL" :> 1 @@ "MSFT" :> 2
MCComments == {"# generated_by=asof", "#n9"}
MCHeader == << <<"# generated_by=asof">>, <<"# generated_by=asof">>, <<"# generated_by=asof">> >>
MCDashed == {"--signal", "--out", "--seed", "--bogus"}
MCReadRate == "0" :> 0 @@ "1" :> 100 @@ "0.5" :> 50

Bare(key) == Part(key, Absent)

Nothing == <<Bare("")>>

Positive == <<Part("sentiment", "positive")>>

Lines ==
  << <<"n1", "2", "3", "0", "feature", "AAPL", Positive>>,
     <<"n2", "2", "2", "+2", "news", "AAPL",
       <<Bare("note"), Part("sentiment", "-1"), Part("sentiment", "positive")>>>>,
     <<"c1", "1", "4", "1", "correction", "AAPL",
       <<Part("sentiment", "neutral"), Part("score", "3"), Part("score", "9.9.9")>>>>,
     <<"p1", "2", "2", "1", "predict", "AAPL", Nothing>>,
     <<"p2", "3", "03", "2", "prediction", "AAPL", <<Part("x", "1")>>, <<Part("y", "2")>>>>,
     <<"o1", "0", "2", "3", "label", "MSFT", <<Part("return_bps", "1"), Part("y", "2")>>>>,
     <<"a,b", "2", "3", "4", "feature", "AAPL", Positive>>,
     <<"a", "1", "5", "1", "feature_correction", "AAPL", <<Part("score", "3")>>, Positive>>,
     <<"b", "1", "2", "4", "feature", "MSFT", <<Bare("note"), Part("mutated", "true")>>>>,
     <<"#n9", "1", "1", "1", "feature", "AAPL", Positive>>,
     <<"">>,
     <<"n1", "1">>,
     <<"n1", "x", "1", "1", "feature", "AAPL", Positive>>,
     <<"", "1", "1", "1", "feature", "AAPL", Positive>>,
     <<"n1", "1", "1", "1", "Feature", "", Positive>> >>

Arranged(chosen) == [n \in 1..Cardinality(chosen) |-> Lines[SetToSortSeq(chosen, <)[n]]]

MCTexts ==
  LET files == { Arranged(chosen) : chosen \in UNION { kSubset(k, DOMAIN Lines) : k \in 0..FileSize } }
  IN  files \cup { Reverse(file) : file \in files }

OneText == Arranged({1, 2, 4, 5, 11})

GenerateGroups ==
  { <<"--scenario", "clean">>, <<"--scenario", "correction-heavy">>, <<"--scenario", "none">>,
    <<"--events", "5">>, <<"--events", "many">>, <<"--late-rate", "0.5">>, <<"--late-rate", "1">>,
    <<"--correction-rate", "1">>, <<"--label-rate", "0">>, <<"--outcome-rate", "1">>,
    <<"--prediction-interval", "2">>, <<"--max-lag", "3">>, <<"--symbols", "0">>,
    <<"--ordered">>, <<"--shuffle">>, <<"--out", "--scenario">>, <<"--out", "f">>,
    <<"--seed", "1">>, <<"--seed">>, <<"--signal", "windowed-zscore">>, <<"f">> }

FileGroups ==
  { <<"f">>, <<"g">>, <<"absent">>, <<"--signal", "windowed-zscore">>,
    <<"--signal", "windowed-feature-sentiment">>, <<"--signal", "zscore">>,
    <<"--max-cutoffs", "0">>, <<"--max-cutoffs", "4">>, <<"--exhaustive">>, <<"--out", "f">>,
    <<"--outcomes", "g">>, <<"--allow-missing-recipe-hash">>, <<"--bogus">>, <<"--signal">> }

BenchGroups ==
  { <<"--events", "5">>, <<"--events", "0">>, <<"--symbols", "0">>, <<"--symbols", "2">>,
    <<"--symbols", "4">>, <<"f">> }

UpToThree(command, groups) ==
  { <<command>> \o FlattenSeq(chosen) : chosen \in UNION { [1..k -> groups] : k \in 0..3 } }

BenchLines ==
  { line \in UpToThree("bench", BenchGroups) : \E n \in DOMAIN line : line[n] = "--events" }

ManyArguments ==
  UNION { UpToThree(command, FileGroups) : command \in {"replay", "check", "audit"} }
    \cup UNION { UpToThree(command, GenerateGroups) : command \in {"generate", "run-suite"} }
    \cup BenchLines \cup { <<>>, <<"help">>, <<"sensitivity", "f">>, <<"compare-leaky">> }
    \cup { <<"audit", "f", "g", "absent", "f">> }

ManyFiles ==
  { <<"negative-control">>, <<"negative-control", "--signal", "windowed-feature-sentiment", "f">>,
    <<"replay", "f">> }

\* Many files go with few arguments, and many arguments with one file.
MCInvocations == (ManyArguments \X {OneText}) \cup (ManyFiles \X MCTexts)
=============================================================================
