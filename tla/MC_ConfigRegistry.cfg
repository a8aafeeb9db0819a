CONSTANTS
  Stores <- MCStores
  Provs <- MCProvs
  Keys <- MCKeys
  Vals = {"3"}
  VecKey = "v"
  ArrKey = "m"
  MaxDepth = 2
  TestVectors <- MCVectors
  TestArrays <- MCArrays
SPECIFICATION Spec
INVARIANT RoundTrip
PROPERTY OverrideIsolated
