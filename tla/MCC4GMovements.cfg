CONSTANTS
  PathIds = {1}
  MaxNodes = 2
  MaxFly = 3
  MaxId = 1
  PathGoals <- MCGoals
  Commands <- MCCommands
  One = 81
  Micro = 3
  Milli = 9
  NotFinite = NotFinite
  Scripts <- MCScripts
  MaxRuns = 2
SPECIFICATION MCSpec
INVARIANTS MotionOnCompletePath WaitingMeansHeld AbortedMotionIsReported
INVARIANTS UploadIsAccepted ExecutesTheScript BuiltIsServed
PROPERTIES AbortedPathStaysDown AbortReleasesCall
