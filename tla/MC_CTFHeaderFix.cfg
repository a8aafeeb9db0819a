CONSTANTS
  Entries <- MCEntries
  RunStartTab <- MCTab
  DetOrder <- MCDetOrder
  DetMask = {"ITS", "TPC"}
  ImposeMS = {0, 1000}
  OrbitUS = 400
  OrbitBits = 5
SPECIFICATION Spec
INVARIANTS
  NeverFabricated
  LocalCountersConsecutive
  DetectorOutputsExact
CHECK_DEADLOCK FALSE
