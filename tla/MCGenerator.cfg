CONSTANTS
  A = A
  B = B
  Absent = Absent
  Malformed = Malformed
  EventIds <- MCIds
  Symbols <- MCSymbols
  SymbolNames <- MCSymbolNames
  Scores <- MCScores
  KeyOf <- MCKeyOf
  SymbolIdOf <- MCSymbolIdOf
  MutatedScore <- MCMutatedScore
  FixedScale = 1
  WideMax = 100000
  NarrowMax = 1000
  MaxInputs = 3
  Signal <- MCSignal
  MaxTime <- MCMaxTime
  Draws <- MCDraws
  Configs <- MCConfigs
SPECIFICATION Spec
INVARIANTS GeneratedFeedIsAccepted SentinelsSetATrap StatsMatchRows CorrectionsFollowTheirFeature
