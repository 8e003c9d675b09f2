\* Output paths of every job main() hands to gather.
CONSTANTS
  a1 = a1
  a2 = a2
  WaysLists <- MCWaysLists
  EntriesLists <- MCEntriesLists
  TrainWaysLists <- MCWaysLists
  TrainEntriesLists <- MCEntriesLists
  RunLists <- MCRunLists
  AppLists <- MCAppLists
SPECIFICATION Spec
INVARIANTS OutputPathsDistinct
CHECK_DEADLOCK FALSE
