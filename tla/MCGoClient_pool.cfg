SPECIFICATION FairSpec
CONSTANTS
  e1 = e1
  e2 = e2
  c1 = c1
  c2 = c2
  w1 = w1
  w2 = w2
  None = None
  Entries <- TwoEntries
  Closers <- TwoClosers
  Workers <- TwoWorkers
  BufferSize = 1
  ClientTimeout = 1
  ServerMayFail = TRUE
INVARIANTS
  NoSendOnClosedQueue
  ErrorMeansNotPosted
  DrainedMeansPosted
PROPERTIES
  AcceptedIsPosted
  CloseReturns
  SendReturns
CHECK_DEADLOCK FALSE
