SPECIFICATION Spec
CONSTANTS
  MaxHandle = 1
  Chunks = 2
  Cap = 2
  DropOldest = TRUE
  RecoveryMode = TRUE
  MaxReplay = 3
  MaxExpired = 0
  MaxCleanups = 0
  MaxDiskFails = 0
  MaxDfsFails = 0
  MaxCrashes = 1
INVARIANTS NoChunkTwice
CHECK_DEADLOCK FALSE
