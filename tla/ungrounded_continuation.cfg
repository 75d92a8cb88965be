SPECIFICATION Spec
CONSTANTS
  QuestionCount = 2
  OptionCount = 2
  MaxPages = 2
  MaxSpurious = 0
  MaxUngrounded = 1
  Layouts = {}
INVARIANTS
  UngroundedIsReviewed
CHECK_DEADLOCK FALSE
