SPECIFICATION SeriesSpec
CONSTANTS
  Members = {m1}
  Rules <- MCRules
  TargetSets <- MCTargetSets
  Horizon = 1
  MaxDay = 2
  MaxSeq = 3
  MaxRevision = 3
  MaxTouches = 1
PROPERTY EditCancelsNothing
CHECK_DEADLOCK FALSE
