CONSTANTS
  None = None
  Nodes = {0, 1}
  Datasets = {"d1", "d2"}
  Profiles <- MCProfiles
  MaxLaunches = 2
  MaxNow = 2
  MaxFaults = 1
  Slack = 1
  StaleFailed = 2
  Gap = 2
  Needs <- MCNeeds
  Images <- MCImages
  MaxInstalls = 2
  MaxBreaks = 2
  Attempts = 2
  Plans <- MCPlans
  TokensPerRank = 2
  RayNodes = {0, 1, 2}
  MaxRayLaunches = 2
  MaxRayFaults = 1
  JoinAttempts = 2
SPECIFICATION Spec
INVARIANTS TrainsOnWholeProducts LaunchIsItsOwn InstalledIsUsable PlanIsKept FaultlessJobFailsNobody
PROPERTY FaultlessJobTrains
CHECK_DEADLOCK FALSE
