CONSTANTS
  QLEN = 2
  MaxLines = 3
SPECIFICATION Spec
CHECK_DEADLOCK FALSE
INVARIANTS
  TypeOK
  SenderIsThere
  UntakenKept
PROPERTIES
  MarksAreFresh
