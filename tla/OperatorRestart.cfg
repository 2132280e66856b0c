SPECIFICATION Spec
CONSTANTS
  MaxOperators = 3
  MaxCommands = 1
  MaxRuns = 0
  MaxResets = 0
  ExitOnMismatch = TRUE
  Kinds = {"RESTART"}
INVARIANT RestartStartsOne
CHECK_DEADLOCK FALSE
