SPECIFICATION Spec
CONSTANTS
  i1 = i1
  i2 = i2
  None = None
  MaxLines = 2
  Inodes <- OneInode
  FromBeginning = TRUE
  ReuseInodes = FALSE
  MaxRotations = 0
  MaxTruncations = 0
  MaxCrashes = 1
  MaxStops = 0
  MaxFaults = 0
  MaxTroubles = 1
INVARIANTS
  RestartDoesNotDrop
CHECK_DEADLOCK FALSE
