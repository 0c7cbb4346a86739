SPECIFICATION Spec
CONSTANTS
  Workers = {w1, w2, w3}
  Jobs = {j1, j2, j3, j4}
  NoJob = NoJob
  CreateCanFail = TRUE
  JobCanExit = TRUE
SYMMETRY WorkerSymmetry
INVARIANTS
  TypeOK
  CountersExact
  JobsAccounted
  IdleMeansDone
  QueuedJobHasWorker
  SleeperHasSignaller
CHECK_DEADLOCK FALSE
