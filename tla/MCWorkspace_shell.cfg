SPECIFICATION FairSpec
CONSTANTS
  p1 = p1
  p2 = p2
  q1 = q1
  q2 = q2
  r1 = r1
  r2 = r2
  None = None
  Projects <- TwoProjects
  Queries <- TwoQueries
  Ranges <- TwoRanges
  Default <- Start
  MaxMounts = 2
  MaxAsks = 3
  MaxMoves = 4
INVARIANTS
  ActiveIsListed
  SavedIsActive
  OneCreateAtATime
  ContextKeepsSearch
  CalmViewIsCurrent
PROPERTIES
  SpinnerStops
CHECK_DEADLOCK FALSE
