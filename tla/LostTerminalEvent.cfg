CONSTANTS
  MaxEvents = 6
  Limit = 2
  MaxDrops = 3
  SameLoop = FALSE
SPECIFICATION FairSpec
INVARIANT EndedMeansComplete
CHECK_DEADLOCK FALSE
