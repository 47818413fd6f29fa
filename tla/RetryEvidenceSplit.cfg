SPECIFICATION FairSpec
CONSTANTS
  Case <- SplitCases
  Shows <- Seen
  Guess <- ModelCalls
  MaxSteps = 12
  MaxFailures = 1
  MaxCrashes = 0
INVARIANT
  SynthesisDegrades
CHECK_DEADLOCK FALSE
