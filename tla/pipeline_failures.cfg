SPECIFICATION FairSpec
CONSTANTS
  Worker = {w1, w2}
  PageCount = 3
  MaxReprocess = 0
  MaxFaults = 2
  FaultKind = {"ingest", "page", "finalize", "kill", "database"}
INVARIANTS
  TypeOK
  FinalizeAfterAllPages
  CompletedIsWhole
PROPERTIES
  EventuallyFinal
  
CHECK_DEADLOCK FALSE
