SPECIFICATION FairSpec
CONSTANTS
  NoMember = NoMember
  m1 = m1
  m2 = m2
  Members <- TwoMembers
  Unparsable <- SecondIsUnparsable
  MaxLogs = 2
  MaxFailures = 1
  MaxStops = 1
  MaxCrashes = 1
  MaxRebalances = 1
INVARIANTS
  CommittedAreSettled
  OncePerAssignment
PROPERTIES
  EveryLogIsTried
CHECK_DEADLOCK FALSE
