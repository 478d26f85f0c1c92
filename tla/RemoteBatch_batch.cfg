CONSTANTS
  b1 = b1
  b2 = b2
  Pages = {b1, b2}
  Slots = {0, 1}
  Forms <- MCForms
  MaxSessions = 2
  MaxLines = 3
SPECIFICATION FairSpec
CHECK_DEADLOCK FALSE
INVARIANTS
  TypeOK
  RunsTheFile
  OwnConnection
PROPERTIES
  FileIsSent
  PageEnds
  Reaped
  Undisturbed
