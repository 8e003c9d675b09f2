CONSTANTS
  a1 = a1
  a2 = a2
  a3 = a3
  w1 = w1
  w2 = w2
  Apps <- MCApps
  Workers <- MCWorkers
  Bad <- MCBad
  NS = 2
  Redirected = FALSE
SPECIFICATION Spec
CHECK_DEADLOCK FALSE
INVARIANTS
  TypeOK
  TableAtExit
