CONSTANTS
  NonDigit = NonDigit
  FixedScale = 10
  ScaleDigits = 1
  NarrowMax = 127
  WideMax = 1000000
  Threshold = 10
  Fast = 2
  Slow = 4
  MinTrend = 0
  Divisor = 2
  Feeds <- MCFeeds
  FirstDay <- MCFirstDay
  FirstElapsed <- MCFirstElapsed
  LastYear = 2305
  Labels <- MCLabels
  LabelHash <- MCLabelHash
SPECIFICATION MCSpec
INVARIANTS ScoresAreNearest ShownScoresReadBack ZScoreIsExact MomentumIsFair CalendarAgrees
  CatalogConsistent
PROPERTIES SlotsAreStable
