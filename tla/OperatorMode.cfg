SPECIFICATION Spec
CONSTANTS
  MaxOperators = 2
  MaxCommands = 3
  MaxRuns = 2
  MaxResets = 1
  ExitOnMismatch = FALSE
  Kinds = {"run", "CANCEL", "STOP", "RESTART", "KILL"}
INVARIANT NoRunIsLost
PROPERTY KeyIsLease
CHECK_DEADLOCK FALSE
INVARIANT NodeKeepsAnOperator
