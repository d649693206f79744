SPECIFICATION FairSpec
CONSTANTS
  Conns = {1, 2}
  Fds = {4, 5}
  Cmds = {k1, k2}
  PoolCtx = {p1}
  Requests <- AllRequests
  MaxReq = 2
  MaxSent = 2
  MaxMsg = 1
  Greeting = TRUE
  NULL = NULL
CHECK_DEADLOCK FALSE
PROPERTIES
  EveryRequestAnswered
  GoneConnectionsAreClosed
INVARIANTS
  TypeOK
  
  CallbacksHoldLiveCmds
  DescriptorsAreWatched
  
