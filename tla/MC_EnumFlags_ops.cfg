CONSTANTS
  NFlags = 5
  Width = 8
  Base = 2
  StrInputs <- MCStrNoAll
  DataInputs <- MCData
  ObjInputs <- MCObjects
SPECIFICATION Spec
PROPERTIES SetStringExact ThrowLeavesFlags
