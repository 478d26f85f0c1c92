CONSTANTS
  QLEN = 2
  Clients = {c1, c2}
  MaxFd = 10
  MaxN = 1
  MaxInputs = 5
SPECIFICATION FairSpec
CHECK_DEADLOCK FALSE
INVARIANTS
  TypeOK
  SocketHasUser
  PipesHaveUsers
  OnTime
  PipeIsComplete
PROPERTIES
  ServesAgain
