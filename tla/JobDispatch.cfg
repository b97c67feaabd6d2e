SPECIFICATION Spec
CONSTANTS
  MaxHandle = 1
  Chunks = 2
  Dispatchers = {d1, d2}
  MaxRunning = 1
  MaxFails = 1
  MaxRestarts = 0
SYMMETRY Symmetry
INVARIANTS TypeOK OneDispatcher 
CHECK_DEADLOCK FALSE
