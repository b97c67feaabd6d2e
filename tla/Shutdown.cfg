SPECIFICATION FairSpec
CONSTANTS
  Clients = {c1, c2}
  ErrCap = 1
  MaxErrs = 2
  MaxTicks = 1
INVARIANTS TypeOK HandlersJoined AckedOnDisk
PROPERTIES CloseReturns
CHECK_DEADLOCK FALSE
