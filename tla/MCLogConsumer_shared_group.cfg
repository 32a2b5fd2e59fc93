SPECIFICATION FairSpec
CONSTANTS
  NoMember = NoMember
  m1 = m1
  m2 = m2
  Members <- TwoMembers
  Unparsable <- NoneUnparsable
  MaxLogs = 2
  MaxFailures = 0
  MaxStops = 0
  MaxCrashes = 0
  MaxRebalances = 0
PROPERTIES
  EveryMemberStoresEveryLog
CHECK_DEADLOCK FALSE
