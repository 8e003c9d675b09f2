\* Program names lru and lru2 with total ways 24 and 4.
CONSTANTS
  a1 = a1
  a2 = a2
  WaysLists <- MCDigitWaysLists
  EntriesLists <- MCEntriesLists
  TrainWaysLists <- MCDigitWaysLists
  TrainEntriesLists <- MCEntriesLists
  RunLists <- MCDigitRunLists
  AppLists <- MCAppLists
SPECIFICATION Spec
INVARIANTS OutputPathsDistinct
CHECK_DEADLOCK FALSE
