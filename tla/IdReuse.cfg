SPECIFICATION Spec
CONSTANTS
  MaxHandle = 2
  Chunks = 2
  Dispatchers = {d1}
  MaxRunning = 1
  MaxFails = 0
  MaxRestarts = 1
INVARIANTS ResultUnmixed
CHECK_DEADLOCK FALSE
