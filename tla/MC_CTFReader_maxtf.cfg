\* max-tf 2 with an IRFrame selection that may reject a TF.
CONSTANTS
  FileEntries <- MCFileEntries
  MaxLoops = 2
  MaxFileCache = 2
  CtfIDs <- MCNoIDs
  MaxTFs = 2
  MaxTFsPerFile <- MCUnbounded
  UseIRSelection = TRUE
  RemoteFetch = FALSE
  FailThreshold = 0
SPECIFICATION Spec
INVARIANT LimitMeansMaxAccepted
