SPECIFICATION Spec
CONSTANTS
  QuestionCount = 3
  OptionCount = 2
  MaxPages = 4
  MaxSpurious = 1
  MaxUngrounded = 0
  Layouts = {"none", "one line", "two lines", "stacked"}
INVARIANTS
  TypeOK
  NothingLost
  CertainStitchIsTrue
  LabelsInOrder
  CleanIsTrue
  LinesAsPrinted
  MixedIsNotExtracted
  WholeIsExtracted
CHECK_DEADLOCK FALSE
