CONSTANTS
  MaxN = 2
  Capacity = 4
  Output = 1
  Width = 2
  MaxLines = 4
  MaxCommands = 4
  MaxBatch = 1
SPECIFICATION FairSpec
CHECK_DEADLOCK FALSE
INVARIANTS
  TypeOK
  OnePipePerLine
  OnTime
  InputCanEnd
PROPERTIES
  PromptReturns
