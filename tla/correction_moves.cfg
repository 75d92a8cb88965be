SPECIFICATION Spec
CONSTANTS
  Client = {c1}
  a = a
  b = b
  Question = {a, b}
  Orders <- Shifting
  MaxRequests = 1
  MaxFinal = 2
  MaxReconcile = 0
  MaxFaults = 0
INVARIANTS
  CorrectionStands
CHECK_DEADLOCK FALSE
