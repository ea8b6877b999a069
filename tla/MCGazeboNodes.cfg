SPECIFICATION MCSpec
CONSTANTS
  MaxResets = 3
  Setups <- MCSetups
  a = a
  b = b
  NoGoal = NoGoal
  Goals = {a, b}
  Requests <- MCRequests
  coupling_offset = 2
  joint_7_min <- JointSevenMin
  joint_7_max = 3
  joint_3_min <- JointThreeMin
  joint_3_max = 3
  joint_3_max_velocity = 1
  Lags <- MCLags
  Configs <- MCConfigs
  NoName = NoName
  NotFinite = NotFinite
  MaxRestarts = 2
  MaxRejects = 2
INVARIANTS
  SolverRests
  LiveIsClean
  WorldResumes
  EndedMeansStill
  TracksRequest
  EveryBoxIsInTheScene
PROPERTIES
  SolverReturns
  CancelEnds
CHECK_DEADLOCK FALSE
