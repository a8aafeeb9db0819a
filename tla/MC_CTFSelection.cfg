CONSTANTS
  Runs = {1, 2, 3}
  RunInfo <- MCRunInfo
  RunThreshold = 2
  ISTimeStamp = 50
  OrbitUS = 400
  OrbitBits = 5
  Files <- MCFiles
  TFSeqs <- MCTFSeqs
SPECIFICATION Spec
INVARIANTS
  TypeOK
  SelectedIffOverlaps
  LoadVerdict
CHECK_DEADLOCK FALSE
