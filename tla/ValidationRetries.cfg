SPECIFICATION AllSpec
CONSTANTS
  Procs = {p1, p2}
  Requests <- Conflicting
  NoSuite = NoSuite
  Test = {caseA, caseB}
  caseA = caseA
  caseB = caseB
  Results <- FewKinds
  MaxRequests = 3
  MaxStops = 1
  MaxFaults = 0
  Key = {k1, k2}
  Caller = {c1, c2}
  MaxSuites = 2
  MaxVersions = 3
  MaxCrashes = 1
  Request = {r1, r2, r3}
  NoDiagnosis = NoDiagnosis
  Side = {BASE, CANDIDATE}
  Unreadable = Unreadable
  BadTime = BadTime
  o1 = o1
  o2 = o2
  s1 = s1
  s2 = s2
  w1 = w1
  w2 = w2
  Report <- JUnitFiles
  Want <- Wanted
  Stock <- OneOfEach
  Order = {o1, o2}
  Sku = {s1, s2}
  Worker = {w1, w2}
  PayAttempts = 2
  MaxLate = 2
SYMMETRY Threads
INVARIANTS
  AcceptedIsExecuted
  RunsOnce
  OneResultPerKey
  OneDiagnosisAnswered
  SandboxIsClean
  StockAccounted
  StatusIsTrue
PROPERTY RefundIsFinal
CHECK_DEADLOCK FALSE
