SPECIFICATION FairSpec
CONSTANTS
  Workers = {w1, w2}
  Jobs = {j1, j2, j3}
  NoJob = NoJob
  CreateCanFail = FALSE
  JobCanExit = FALSE
PROPERTIES
  ImplementsBarrierFair
  WaitReturns
  DestroyReturns
CHECK_DEADLOCK FALSE
