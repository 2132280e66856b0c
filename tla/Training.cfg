CONSTANTS
  None = None
  Profiles <- MCProfiles
  MaxStep = 3
  MaxFaults = 2
  MaxRestarts = 1
SPECIFICATION Spec
INVARIANTS EveryCheckpointIsTried AWholeCheckpointRemains MarkedIsWhole EngineEndsClean
PROPERTY TrainingEnds
CHECK_DEADLOCK FALSE
