CONSTANTS
  Home = Home
  Away = Away
  Stale = Stale
  Places = {Home, Away}
  Ids = {1, 2}
  Requests <- MCRequests
  MaxPaths = 2
  MaxGoals = 2
SPECIFICATION MCFairSpec
INVARIANTS StateIsOwn NoOrphanPath SuccessMeansAll PathStartsInPlace CancelSendsAtMostOne
PROPERTIES CancelEnds
