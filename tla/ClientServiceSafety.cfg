SPECIFICATION Spec
CONSTANTS
  Conns = {c1, c2, c3}
  NoConn = NoConn
  ThreadCount = 2
  Fds <- FewFds
  AllocCanFail = TRUE
  WritesReported = TRUE
SYMMETRY ConnSymmetry
INVARIANTS
  TypeOK
  CountMatches
  ListedAlive
  BatchesReadable
  NoSharing
  SocketsOwn
PROPERTIES
  ImplementsRounds
CHECK_DEADLOCK FALSE
