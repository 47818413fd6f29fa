SPECIFICATION Spec
CONSTANTS
  p1 = p1
  p2 = p2
  scripted = scripted
  NoOwner = NoOwner
  Executor = {p1, p2}
  Tool = {scripted}
  ToolPhase <- OneToolPhase
  EndPhase = 5
  MaxAttempts = 2
  LeaseTtl = 1
  Skew <- FastFirst
  MaxHeartbeats = 1
CHECK_DEADLOCK FALSE
INVARIANTS
  TypeOK
  OwnerIsLatestClaimant
  SelfCheckErrors
PROPERTIES
  NoStaleWrite
  TerminalIsFinal
