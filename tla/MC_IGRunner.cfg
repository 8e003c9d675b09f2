CONSTANTS
  t1 = t1
  t2 = t2
  t3 = t3
  t4 = t4
  t5 = t5
  Tasks <- MCTasks
  Round <- MCRound
  Gen <- MCGen
  CanFail <- MCCanFail
  NRounds = 2
  Capacity = 2
SPECIFICATION Spec
CHECK_DEADLOCK FALSE
INVARIANTS
  TypeOK
  CapacityRespected
  OutputOpenOnlyWhileAdmitted
  RoundsInOrder
  SweepCompletion
PROPERTIES
  SweepEnds
  AbsSpec
