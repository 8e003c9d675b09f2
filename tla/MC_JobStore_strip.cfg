\* Train values with blanks against the stripped totals.
CONSTANTS
  a1 = a1
  a2 = a2
  WaysLists <- MCWaysLists
  EntriesLists <- MCEntriesLists
  TrainWaysLists <- MCWaysLists
  TrainEntriesLists <- MCEntriesLists
  RunLists <- MCRunLists
  AppLists <- MCAppLists
SPECIFICATION Spec
INVARIANTS NoMatchingComboSkipped
CHECK_DEADLOCK FALSE
