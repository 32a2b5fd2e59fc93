SPECIFICATION FairSpec
CONSTANTS
  e1 = e1
  e2 = e2
  c1 = c1
  c2 = c2
  w1 = w1
  w2 = w2
  None = None
  Shutdown = Shutdown
  Entries <- TwoEntries
  Closers <- TwoClosers
  Workers <- TwoWorkers
  BufferSize = 2
INVARIANTS
  JoinedMeansEarlyPosted
PROPERTIES
  EarlyIsPosted
  LoneCloseReturns
CHECK_DEADLOCK FALSE
