----------------------------- MODULE MCGenerator -----------------------------
(***************************************************************************)
(* Small instances of the generator: two data events without a shuffle,    *)
(* one data event with every shuffle, and lags at, one above and far above *)
(* the largest that leaves room for every sum.                             *)
(***************************************************************************)
EXTENDS Generator

CONSTANTS A, B

MCSymbols == {A, B}
MCSymbolNames == <<A, B>>
MCIds == SentinelIds \cup { IdOfRound(n, kind) : n \in 1..2, kind \in 0..3 }
MCKeyOf == [i \in MCIds |-> i]
MCSymbolIdOf == [s \in MCSymbols |-> IF s = A THEN 1 ELSE 2]
MCMutatedScore == -9
MCScores == {MCMutatedScore}
MCSignal == [kind |-> "windowed-feature-sentiment", window |-> 2]

Config(size, late, correction, outcome, interval, lag, heavy, shuffle) ==
  [ events |-> size, symbols |-> size, late_rate |-> late, correction_rate |-> correction,
    outcome_rate |-> outcome, prediction_interval |-> interval, max_lag |-> lag,
    correction_heavy |-> heavy, shuffle |-> shuffle ]

\* Times end at 2099, so a lag of 49 is the last with room for one round.
MCMaxTime == 2099

\* 1103 and 2097 wrap a time to the sentinels and to just before the rounds,
\* and 2098 wraps the lag itself.
MCDraws == {0, 1, 2, 48, 49, 1103, 2097, 2098}

MCConfigs ==
  { Config(2, "some", "some", "some", 1, 1, FALSE, FALSE),
    Config(2, "one", "one", "zero", 2, 2, TRUE, FALSE),
    Config(1, "some", "zero", "zero", 0, 2, FALSE, TRUE),
    Config(0, "zero", "zero", "one", 1, 0, FALSE, TRUE),
    Config(1, "some", "some", "zero", 1, 3, TRUE, FALSE),
    Config(1, "some", "some", "some", 1, 49, FALSE, FALSE),
    Config(1, "some", "some", "some", 1, 50, FALSE, FALSE),
    Config(1, "some", "some", "some", 1, MCMaxTime, TRUE, FALSE) }
=============================================================================
