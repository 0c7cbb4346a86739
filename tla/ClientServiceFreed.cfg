\* A packet handler closes the connection and the loop reads on.
SPECIFICATION Spec
CONSTANTS
  Conns = {c1}
  NoConn = NoConn
  ThreadCount = 1
  Fds <- FewFds
  AllocCanFail = FALSE
  WritesReported = TRUE
INVARIANT
  ReadsLive
CHECK_DEADLOCK FALSE
