CONSTANTS
  PathTypes = {"cart", "joint"}
  Places = {"a", "b"}
  Prepared <- MCPrepared
  MaxPathNodes = 2
  MaxDrafts = 2
  MaxGoals = 1
SPECIFICATION Spec
INVARIANTS StoppedIsFinal SentToArmIsFinal
