CONSTANTS
  BufLen = 2
  MaxBytes = 2
SPECIFICATION Spec
CHECK_DEADLOCK FALSE
INVARIANTS
  StreamIntact
