CONSTANTS
  QLEN = 2
  Pids = {p1, p2, p3}
  Server = server
  Names = {}
  NoName = noname
  NoPid = nopid
  OldPid = oldpid
  Interrupts = TRUE
  MaxCmds = 2
SPECIFICATION Spec
CHECK_DEADLOCK FALSE
SYMMETRY Sym
INVARIANTS
  LockExcludes
