SPECIFICATION Spec
CONSTANTS
  d1 = d1
  d2 = d2
  a1 = a1
  a2 = a2
  a3 = a3
  NoAttempt = NoAttempt
  Diagnosis = {d1, d2}
  Tool = {k1}
  Attempt = {a1, a2, a3}
  DiagnosisOf <- TwoDiagnoses
PROPERTIES
  OwnConversationOnly
CHECK_DEADLOCK FALSE
