SPECIFICATION AdminSpec
CONSTANTS
  SeedUsers <- ThreeUsers
  SeedOrgs <- ThreeOrgs
  SeedProjects <- ThreeProjects
  PageSize <- TwoRows
  MaxChanges = 2
  MaxPage = 3
INVARIANTS
  MatchesAreShown
PROPERTIES
  UsersNextLeadsBack
