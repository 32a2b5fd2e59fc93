SPECIFICATION FairSpec
CONSTANTS
  r1 = r1
  r2 = r2
  Relays <- TwoRelays
  Events <- TwoEvents
  MaxRetries = 2
  BatchSize = 2
  MaxCrashes = 1
  MaxFaults = 1
  MaxStops = 1
  MaxResets = 1
  MaxTroubles = 2
INVARIANTS
  ExclusiveClaim
  AcknowledgedIsNotResent
  RetryBudget
PROPERTIES
  ImplementsLedger
  QueuedSettles
CHECK_DEADLOCK FALSE
