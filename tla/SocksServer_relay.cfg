CONSTANTS
  BufLen = 2
  MaxBytes = 3
  Digits = {1}
  MaxLines = 2
SPECIFICATION SSpec
CHECK_DEADLOCK FALSE
INVARIANTS
  STypeOK
  BytesCounted
  EndAfterData
  NamedIsPermitted
  StarsAreExact
PROPERTIES
  SessionEnds
  ImplementsChannel
