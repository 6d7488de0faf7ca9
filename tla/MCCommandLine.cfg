CONSTANTS
  FileSize = 3
  Absent = Absent
  Malformed = Malformed
  Glued = Glued
  EventIds <- MCIds
  Symbols <- MCSymbols
  Scores <- MCScores
  KeyOf <- MCKeyOf
  SymbolIdOf <- MCSymbolIdOf
  MutatedScore <- MCMutatedScore
  IdOf <- MCIdOf
  IdParts <- MCIdParts
  ReadNumber <- MCReadNumber
  ShowNumber <- MCShowNumber
  ReadScore <- MCReadScore
  ReadRate <- MCReadRate
  Comments <- MCComments
  Header <- MCHeader
  Dashed <- MCDashed
  MissingFiles = {"absent"}
  Invocations <- MCInvocations
  MaxInputs = 8
  FixedScale = 1
  WideMax = 1000000000
  NarrowMax = 1000000
SPECIFICATION Spec
INVARIANTS OrderOfFlagsIsFree FileIsReadExactly MutationReachesSignal LeaksAreExplained
  EqualDigestsMeanNoLeak BenchesAgree
