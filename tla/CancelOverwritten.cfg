CONSTANTS
  Procs = {p1, p2}
  Requests <- OneRequest
  NoSuite = NoSuite
  Test = {caseA, caseB}
  caseA = caseA
  caseB = caseB
  Results <- FewKinds
  MaxRequests = 1
  MaxStops = 0
  MaxFaults = 0
SPECIFICATION Spec
PROPERTY CancelledIsFinal
CHECK_DEADLOCK FALSE
