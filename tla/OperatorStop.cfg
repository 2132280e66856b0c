SPECIFICATION FairSpec
CONSTANTS
  MaxOperators = 2
  MaxCommands = 2
  MaxRuns = 2
  MaxResets = 1
  ExitOnMismatch = TRUE
  Kinds = {"run", "CANCEL", "RESTART", "KILL", "STOP"}
PROPERTY StopReachesEveryone
PROPERTY SupersededStartsNothing
CHECK_DEADLOCK FALSE
