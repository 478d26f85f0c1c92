CONSTANTS
  QLEN = 1
  Pids = {p1, p2, p3}
  Server = server
  Names = {a}
  NoName = noname
  NoPid = nopid
  OldPid = oldpid
  Interrupts = FALSE
  MaxCmds = 1
SPECIFICATION FairSpec
CHECK_DEADLOCK FALSE
INVARIANTS
  MutualExclusion
  LockReleased
PROPERTIES
  LockProgress
