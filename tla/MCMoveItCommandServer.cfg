SPECIFICATION MCSpec
CONSTANTS
  Threads = {1, 2}
  Requests <- MCRequests
  Frames = {"F0", "F1"}
  MaxFly = 2
  MaxNodes = 4
  MaxId = 2
INVARIANTS
  OneGoal
  RecordedIsValid
  WaitsAreSignaled
  NoOrphanPlanning
PROPERTIES
  PathCancelEnds
CHECK_DEADLOCK FALSE
