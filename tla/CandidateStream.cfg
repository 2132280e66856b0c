SPECIFICATION Spec
CONSTANTS
  c1 = c1
  c2 = c2
  c3 = c3
  Pipelines = {c1, c2, c3}
  NoOne = NoOne
  VerifyN = 2
  RefineRounds = 1
  CandidateLimit = 1
  RequestLimit = 1
  MaxCalls = 2
  WaitModes = {TRUE, FALSE}
  SkipZero = TRUE
  TopScore = 1
  MinScore = 0
SYMMETRY Symmetry
INVARIANT ThrottleHolds
INVARIANT FilterIsRight
INVARIANT NothingRunsAfterReturn
INVARIANT BestFinishedIsSelected
CHECK_DEADLOCK FALSE
INVARIANT NeverStalls
PROPERTY EveryStepLeadsOn
