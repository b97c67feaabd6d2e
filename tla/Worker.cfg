SPECIFICATION FairSpec
CONSTANTS
  Attempts = {a1, a2}
  NReduce = 2
  ChunkMax = 2
  Lengths = {0, 3}
  MaxFails = 1
INVARIANTS TypeOK ChunksTile SubmittedWhole OutputKept ClosedQuiet
PROPERTIES CloseDrains
CHECK_DEADLOCK FALSE
