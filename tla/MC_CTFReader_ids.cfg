\* select-ctf-ids 1,2 over two loops of three files, with remote copies that
\* may fail below the threshold (none of them is fatal).
CONSTANTS
  FileEntries <- MCFileEntries
  MaxLoops = 2
  MaxFileCache = 2
  CtfIDs <- MCCtfIDs
  MaxTFs <- MCUnbounded
  MaxTFsPerFile <- MCUnbounded
  UseIRSelection = FALSE
  RemoteFetch = TRUE
  FailThreshold = 0
SPECIFICATION Spec
INVARIANTS TypeOK OpenFileIsHead EmittedInSelectionOrder
PROPERTIES Termination
