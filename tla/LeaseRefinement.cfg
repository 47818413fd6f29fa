SPECIFICATION Spec
CONSTANTS
  p1 = p1
  p2 = p2
  scripted = scripted
  planned = planned
  NoOwner = NoOwner
  Executor = {p1, p2}
  Tool = {scripted, planned}
  ToolPhase <- MCToolPhase
  EndPhase = 5
  MaxAttempts = 2
  LeaseTtl = 1
  Skew <- FastFirst
  MaxHeartbeats = 0
CHECK_DEADLOCK FALSE
INVARIANTS
  CheckpointCoversCompleted
  ReportIsConsistent
PROPERTIES
  CompletedStepsFixed
  ImplementsTask
