SPECIFICATION Spec
CONSTANTS
  Worker = {w1, w2}
  Request = {}
  Operation = {}
  Paper <- OneQuestion
  Readings <- OneReading
  LinkAtUpload = {TRUE}
  MaxFinal = 1
  MaxFaults = 0
INVARIANTS
  AnswersFollowKey
CHECK_DEADLOCK FALSE
