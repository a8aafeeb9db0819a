CONSTANTS
  Entries <- MCEntriesEarly
  RunStartTab <- MCTab
  DetOrder <- MCDetOrder
  DetMask = {"ITS", "TPC"}
  ImposeMS = {0, 1000}
  OrbitUS = 400
  OrbitBits = 5
SPECIFICATION Spec
INVARIANT RepairedTimesMonotone
CHECK_DEADLOCK FALSE
