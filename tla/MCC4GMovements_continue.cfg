CONSTANTS
  PathIds = {1}
  MaxNodes = 2
  MaxFly = 2
  MaxId = 1
  PathGoals <- MCGoals
  Commands <- MCCommands
  One = 81
  Micro = 3
  Milli = 9
  NotFinite = NotFinite
  Scripts <- MCScripts
  MaxRuns = 2
SPECIFICATION MCSpec
INVARIANTS HeldCanContinue
