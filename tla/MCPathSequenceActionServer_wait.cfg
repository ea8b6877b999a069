CONSTANTS
  Home = Home
  Away = Away
  Stale = Stale
  Places = {Home, Away}
  Ids = {1, 2}
  Requests <- MCWaitingRequests
  MaxPaths = 2
  MaxGoals = 1
SPECIFICATION MCSpec
PROPERTIES ContinueNeedsSignal
