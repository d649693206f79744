SPECIFICATION Spec
CONSTANTS
  Conns = {1, 2}
  Fds = {4, 5}
  Cmds = {k1, k2, k3}
  PoolCtx = {p1, p2}
  Requests <- KeepAlive
  MaxReq = 2
  MaxSent = 4
  MaxMsg = 2
  Greeting = FALSE
  NULL = NULL
CHECK_DEADLOCK FALSE
INVARIANTS
  CmdFdIsUnset
