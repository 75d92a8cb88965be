SPECIFICATION Spec
CONSTANTS
  Client = {c1, c2}
  a = a
  b = b
  Question = {a}
  Orders <- Same
  MaxRequests = 3
  MaxFinal = 2
  MaxReconcile = 1
  MaxFaults = 1
SYMMETRY ClientSymmetry
INVARIANTS
  TypeOK
  CorrectionStands
  CriticalIsQueued
CHECK_DEADLOCK FALSE
