SPECIFICATION FairSpec
CONSTANTS
  t1 = t1
  t2 = t2
  u1 = u1
  u2 = u2
  Tabs <- TwoTabs
  Users <- TwoUsers
  None = None
  MaxLogins = 2
  MaxReloads = 1
INVARIANTS
  TabsFollowStorage
PROPERTIES
  GuardsSettle
  SignedOutTabsLeave
  SubmitButtonReturns
CHECK_DEADLOCK FALSE
