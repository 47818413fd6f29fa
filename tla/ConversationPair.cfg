SPECIFICATION AllSpec
CONSTANTS
  d1 = d1
  d2 = d2
  a1 = a1
  a2 = a2
  a3 = a3
  NoAttempt = NoAttempt
  Diagnosis = {d1, d2}
  Tool = {k1}
  Attempt = {a1, a2, a3}
  DiagnosisOf <- TwoDiagnoses
  MaxMessages = 4
  UserTurn <- Questions
  Fact = {f1, f2}
  Reference = {v1}
  Compactor = {c1, c2}
  SameLoop = TRUE
  MaxCompactions = 3
  Service <- Services
  DependsOn <- Catalog
  Call <- Calls
  Names <- Listed
  Candidates <- Downstream
  SqlCalls = {"explain"}
  Target <- Asked
  Trigger <- AskedBy
  Findings <- Suspects
  Case <- LabCases
  Shows <- Seen
  Guess <- ModelCalls
  Outside = "outside"
  MaxAttempts = 2
  MaxInterrupted = 1
  Provider = "openai"
  Retries = 2
  MaxIterations = 5
  Disabler = {u1, u2}
  Request = {r1, r2}
  Nobody = Nobody
  Old = Old
  MaxFaults = 2
  MaxSteps = 12
  MaxCallFailures = 1
  MaxCrashes = 1
SYMMETRY Alike
INVARIANTS
  RecordTypesOK
  EvidenceHasMessage
  TranscriptInOrder
  NothingForgotten
  ActiveStateIsLatest
  TablesAgree
  CompletedIsShown
  CallsAreAccounted
  ChatIsRecorded
  ObservationIsSound
  IncidentFound
CHECK_DEADLOCK FALSE
