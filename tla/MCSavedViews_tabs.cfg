SPECIFICATION ViewsSpec
CONSTANTS
  t1 = t1
  t2 = t2
  b1 = b1
  b2 = b2
  Tabs <- TwoTabs
  Boards <- TwoBoards
  Mock <- SmallMock
  Catalog <- SmallCatalog
  MaxMounts = 3
  MaxEdits = 3
SYMMETRY TabSymmetry
INVARIANTS
  RepliesFollowQuestions
  QuestionsSurvive
  WidgetsFitGrid
  WidgetsSurvive
CHECK_DEADLOCK FALSE
