CONSTANTS
  QLEN = 2
  Pids = {p1, p2}
  Server = server
  Names = {a}
  NoName = noname
  NoPid = nopid
  OldPid = oldpid
  Interrupts = FALSE
  MaxCmds = 2
SPECIFICATION Spec
CHECK_DEADLOCK FALSE
INVARIANTS
  NamesUnique
