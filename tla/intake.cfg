SPECIFICATION MCSpec
CONSTANTS
  Request = {r1, r2, r3}
  Limit = 1
  Window = 2
  MaxTime = 3
  MaxRestarts = 1
  MaxFaults = 1
  File <- MCFile
  MCUploads = 2
  MCUploadTime = 1
SYMMETRY RequestSymmetry
INVARIANTS
  TypeOK
  AdmittedPerWindow
  RefusedOnlyWhenBusy
  RepliesTellWhatIsLeft
  RowsHaveTheirFiles
  RowsHaveTheirDocument
CHECK_DEADLOCK FALSE
