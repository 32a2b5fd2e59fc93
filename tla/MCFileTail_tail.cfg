SPECIFICATION FairSpec
CONSTANTS
  i1 = i1
  i2 = i2
  None = None
  MaxLines = 2
  Inodes <- TwoInodes
  FromBeginning = TRUE
  ReuseInodes = FALSE
  MaxTroubles = 2
  MaxRotations = 2
  MaxTruncations = 1
  MaxCrashes = 1
  MaxStops = 1
  MaxFaults = 1
INVARIANTS
  NoTornRecord
  CheckpointCovered
  InOrderOnce
PROPERTIES
  LinesAreEmitted
CHECK_DEADLOCK FALSE
