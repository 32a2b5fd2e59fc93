SPECIFICATION Spec
CONSTANTS
  in1 = in1
  in2 = in2
  i1 = i1
  i2 = i2
  i3 = i3
  i4 = i4
  None = None
  Inputs <- TwoInputs
  FlushLoop = FlushLoop
  RunEnd = RunEnd
  Inodes <- FourInodes
  MaxSets = 3
SYMMETRY Alike
INVARIANTS
  SavedIsWhole
  CleanMeansSaved
PROPERTIES
  SavedNeverRegresses
CHECK_DEADLOCK FALSE
