SPECIFICATION FairSpec
CONSTANTS
  MaxHandle = 1
  Chunks = 2
  Dispatchers = {d1}
  MaxRunning = 1
  MaxFails = 1
  MaxRestarts = 1
PROPERTIES Finishes
CHECK_DEADLOCK FALSE
