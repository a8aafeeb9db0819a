\* select-ctf-ids combined with an IRFrame selection that may reject a TF.
CONSTANTS
  FileEntries <- MCFileEntries
  MaxLoops = 2
  MaxFileCache = 2
  CtfIDs <- MCCtfIDsLast
  MaxTFs <- MCUnbounded
  MaxTFsPerFile <- MCUnbounded
  UseIRSelection = TRUE
  RemoteFetch = FALSE
  FailThreshold = 0
SPECIFICATION Spec
INVARIANT EmittedOnlySelected
