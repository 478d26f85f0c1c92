CONSTANTS
  QLEN = 2
  MaxLines = 4
SPECIFICATION Spec
CHECK_DEADLOCK FALSE
INVARIANTS
  ReceivesWhatWasPiped
