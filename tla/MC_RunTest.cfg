CONSTANTS
  t1 = t1
  t2 = t2
  t3 = t3
  t4 = t4
  Tasks <- MCTasks
  Gen <- MCGen
  CanFail <- MCCanFail
  Capacity = 2
SPECIFICATION Spec
CHECK_DEADLOCK FALSE
INVARIANTS
  TypeOK
  CapacityRespected
  TokenAccounting
  NoLiveProcessAfterResult
  SweepCompletion
PROPERTIES
  SweepEnds
  AbsSpec
