SPECIFICATION FairSpec
CONSTANTS
  Client = {c1, c2, c3}
  MaxConcurrency = 2
  MaxFaults = 3
INVARIANTS
  TypeOK
  OvershootIsBounded
PROPERTIES
  ExtractionEnds
