SPECIFICATION MCSpec
CONSTANTS
  Threads = {1}
  Requests <- MCRequests
  Frames = {"F0", "F1"}
  MaxFly = 1
  MaxNodes = 4
  MaxId = 2
INVARIANT ServerSurvives
CHECK_DEADLOCK FALSE
