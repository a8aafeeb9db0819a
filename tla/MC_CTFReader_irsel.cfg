\* IRFrame selection may reject any TF, remote copies may fail and the second
\* failure is fatal; two loops over three files with max-tf 3.
CONSTANTS
  FileEntries <- MCFileEntries
  MaxLoops = 2
  MaxFileCache = 2
  CtfIDs <- MCNoIDs
  MaxTFs = 3
  MaxTFsPerFile <- MCUnbounded
  UseIRSelection = TRUE
  RemoteFetch = TRUE
  FailThreshold = 1
SPECIFICATION Spec
INVARIANTS EmittedEntriesValid AcceptedWithinLimit
PROPERTIES Termination TFStreamSpec
