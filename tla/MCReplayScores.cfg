CONSTANTS
  A = A
  B = B
  C = C
  FileSize = 5
  Absent = Absent
  Malformed = Malformed
  EventIds <- MCIds
  Symbols <- MCSymbols
  Scores <- MCScores
  KeyOf <- MCKeyOf
  SymbolIdOf <- MCSymbolIdOf
  MutatedScore <- MCMutatedScore
  FixedScale = 1
  WideMax = 100000
  NarrowMax = 1000
  MaxInputs = 3
  Signal <- MCMomentumSignal
  Files <- MCScoreFiles
  Orders <- ReplayOrders
  OutcomeOptions = {TRUE, FALSE}
SPECIFICATION Spec
PROPERTIES ImplementsAsOf
