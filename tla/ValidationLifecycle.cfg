CONSTANTS
  Procs = {p1}
  Requests <- Conflicting
  NoSuite = NoSuite
  Test = {caseA, caseB}
  caseA = caseA
  caseB = caseB
  Results <- EveryKind
  MaxRequests = 2
  MaxStops = 2
  MaxFaults = 1
SPECIFICATION FairSpec
INVARIANT ComparedSidesAreDone
PROPERTIES
  ImplementsPromise
  TakenRunEnds
CHECK_DEADLOCK FALSE
