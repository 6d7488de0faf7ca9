CONSTANTS
  A = A
  B = B
  FeedSize = 5
  Absent = Absent
  Malformed = Malformed
  EventIds <- MCIds
  Symbols <- MCSymbols
  Scores <- MCScores
  KeyOf <- MCKeyOf
  SymbolIdOf <- MCSymbolIdOf
  MutatedScore <- MCMutatedScore
  FixedScale = 1
  WideMax = 100000
  NarrowMax = 1000
  MaxInputs = 3
  Signal <- MCSignal
  Feeds <- MCFeeds
  CutoffLimits = {Absent}
  Citations = {Absent}
SPECIFICATION Spec
INVARIANTS NotApplicableMeansNoLateEventMatters
