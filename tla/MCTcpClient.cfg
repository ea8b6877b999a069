CONSTANTS
  Worker = 1
  Main = 2
  Threads = {1, 2}
  Readers = {1}
  Prefix = "JOINTS:"
  Comma = ","
  Digits <- MCDigits
  Symbols = {"JOINTS:", ",", "1", "2", "3"}
  Delim = "NL"
  Chunk = 12
  MaxMessage = 12
  Writes <- MCWrites
  Joined <- MCWrites
  Splits = FALSE
  MaxWrites = 3
  MaxConnections = 2
SPECIFICATION MCSpec
INVARIANTS NeverSelfBlocked
PROPERTIES ImplementsChannel PublishesInOrder
CHECK_DEADLOCK FALSE
