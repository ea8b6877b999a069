SPECIFICATION Spec
CONSTANTS
  Goals = {1, 2}
  NoGoal = 0
  Clients = {"bridge", "node"}
  Bridge = "bridge"
  Node = "node"
  PathId <- MCPathId
  MaxEvents = 1
  MaxControl = 2
  Budgets <- MCBudgets
INVARIANTS InStep SuccessIsOwn CanceledIsStill AbandonedPathIsStopped AnswerIsOwn
PROPERTY GoalsEnd
CHECK_DEADLOCK FALSE
