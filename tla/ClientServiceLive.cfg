SPECIFICATION QuietSpec
CONSTANTS
  Conns = {c1, c2}
  NoConn = NoConn
  ThreadCount = 2
  Fds <- FewFds
  AllocCanFail = TRUE
  WritesReported = TRUE
PROPERTIES
  TickEnds
CHECK_DEADLOCK FALSE
