SPECIFICATION FairSpec
CONSTANTS
  p1 = p1
  p2 = p2
  scripted = scripted
  NoOwner = NoOwner
  Executor = {p1, p2}
  Tool = {scripted}
  ToolPhase <- OneToolPhase
  EndPhase = 5
  MaxAttempts = 2
  LeaseTtl = 1
  Skew <- InSync2
  MaxHeartbeats = 0
CHECK_DEADLOCK FALSE
PROPERTIES
  EventuallyTerminal
  NoLiveLeaseTaken
