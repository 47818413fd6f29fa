CONSTANTS
  MaxEvents = 6
  Limit = 2
  MaxDrops = 3
  SameLoop = TRUE
  Task = {t1}
  Worker = {w1, w2}
  MaxEvent = 2
  Batch = 1
  MaxFailures = 2
  MaxLosses = 1
  a = a
  b = b
  d = d
  x = x
  Path = {a, b, d, x}
  Commit = {1, 2, 3}
  Caller = {1, 2, 3}
  MaxFiles = 2
  MaxGitFailures = 1
  Notification = {n1, n2, n3}
  Courier = {w1, w2}
  Capacity = 1
  HistoryLimit = 2
  MaxFaults = 2
  MaxSteps = 12
  MaxCallFailures = 1
  MaxCrashes = 1
  Navigation <- Watched
  Tree <- Commits
  ProcessOf <- TwoProcesses
  Case <- LongCases
  Shows <- Seen
  Guess <- ModelCalls
  Process = {p1, p2}
  MaxIds = 4
  PageSize = 2
SPECIFICATION AllSpec
INVARIANTS
  EventsInOrder
  EndedMeansComplete
  NavigationIsCurrent
  OutboxesAreTrue
PROPERTIES
  StreamedToTheEnd
  IndexedAndReceived
  EventuallyReported
CHECK_DEADLOCK FALSE
