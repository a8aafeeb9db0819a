CONSTANTS
  MaxPlatforms = 2
  DeviceLists <- MCDeviceLists
  NStreams = 2
  ConstNeeded = 2
SPECIFICATION Spec
INVARIANTS
  SelectionSound
  QueuesProfiledWithTimers
  ExitReleasesAll
CHECK_DEADLOCK FALSE
