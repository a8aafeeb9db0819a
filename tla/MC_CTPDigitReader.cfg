CONSTANTS
  Trees <- MCTrees
  Drivers <- MCDrivers
SPECIFICATION Spec
INVARIANTS
  SelectedDigitsExact
  EntriesInOrder
CHECK_DEADLOCK FALSE
