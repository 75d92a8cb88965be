SPECIFICATION FairSpec
CONSTANTS
  Worker = {w1}
  Request = {r1}
  Operation = {"link", "unlink", "reconcile"}
  Paper <- OneQuestion
  Readings <- TwoReadings
  LinkAtUpload = {TRUE, FALSE}
  MaxFinal = 1
  MaxFaults = 1
INVARIANTS
  TypeOK
  SerialAnswersFollowKey
PROPERTIES
  EventuallyAnswered
CHECK_DEADLOCK FALSE
