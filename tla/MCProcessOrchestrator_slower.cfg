SPECIFICATION Spec
CONSTANTS
  Nominal = 2
  MaxRuns = 2
  Process <- MCProcess
  OperatorCommands <- MCOperator
INVARIANT RunningIsAtSpeed
CHECK_DEADLOCK FALSE
