SPECIFICATION Spec
CONSTANTS
  Worker = {w1, w2}
  PageCount = 2
  MaxReprocess = 1
  MaxFaults = 1
  FaultKind = {"kill", "outage", "database", "api"}
SYMMETRY WorkerSymmetry
INVARIANTS
  LiveOnce
  QuestionsRebuilt
  NoOrphanPage
  LastPageIsNoticed
CHECK_DEADLOCK FALSE
