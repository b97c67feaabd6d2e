SPECIFICATION FairSpec
CONSTANTS
  MaxHandle = 2
  Chunks = 2
  Cap = 2
  DropOldest = TRUE
  RecoveryMode = FALSE
  MaxReplay = 3
  MaxExpired = 0
  MaxCleanups = 1
  MaxDiskFails = 1
  MaxDfsFails = 1
  MaxCrashes = 0
INVARIANTS UploadExact Accounted
PROPERTIES CompletedUploaded
CHECK_DEADLOCK FALSE
