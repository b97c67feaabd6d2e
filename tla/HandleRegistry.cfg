SPECIFICATION Spec
CONSTANTS
  MaxHandle = 2
  MaxTicks = 1
  MaxFaults = 2
INVARIANTS TypeOK Recoverable RegistrySound
CHECK_DEADLOCK FALSE
