SPECIFICATION Spec
CONSTANTS
  Nominal = 2
  MaxRuns = 2
  Process <- MCProcess
  OperatorCommands <- MCOperator
INVARIANT RobotMeetsPreparedCell
PROPERTY OnlySlowingOutdatesRunning
CHECK_DEADLOCK FALSE
