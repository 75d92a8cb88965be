SPECIFICATION Spec
CONSTANTS
  Headings <- MCHeadings
  KeyValues <- MCKeyValues
  Printed <- MCPrinted
  KeyLine <- MCKeyLine
  MaxLines = 3
  MaxLinked = 2
INVARIANTS
  AnswersAreOptions
  OrderIsIrrelevant
  SharedNumberNeedsSection
  StatusesTell
  AnswersAsPrinted
CHECK_DEADLOCK FALSE
