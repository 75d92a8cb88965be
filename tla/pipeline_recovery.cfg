SPECIFICATION Spec
CONSTANTS
  Worker = {w1, w2}
  PageCount = 2
  MaxReprocess = 0
  MaxFaults = 2
  FaultKind = {"ingest", "page", "outage", "database", "crash", "kill", "api"}
SYMMETRY WorkerSymmetry
INVARIANTS
  OneBatchPerArming
  NoOrphanPage
  LastPageIsNoticed
CHECK_DEADLOCK FALSE
