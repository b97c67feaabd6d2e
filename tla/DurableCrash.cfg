SPECIFICATION Spec
CONSTANTS
  MaxHandle = 1
  Chunks = 2
  Cap = 2
  DropOldest = TRUE
  RecoveryMode = TRUE
  MaxReplay = 3
  MaxExpired = 1
  MaxCleanups = 1
  MaxDiskFails = 0
  MaxDfsFails = 0
  MaxCrashes = 1
INVARIANTS TypeOK UploadExact
PROPERTIES UploadedOnce
CHECK_DEADLOCK FALSE
