SPECIFICATION FairSpec
CONSTANTS
  N = 3
  ContinueCount = 2
  RefineRounds = 1
  NumVerifiers = 1
  SelectorTopK = 1
  EarlyStopReward = 10
  EnableMeta = TRUE
  GateEnabled = TRUE
  SelectorEnabled = TRUE
  Hybrid = FALSE
  FormatScores = {10}
  Qualities = {0, 1}
  Scores = {1}
INVARIANT WaitersHaveAReleaser
INVARIANT GateChoosesTheBest
INVARIANT LeaderCallsSelector
PROPERTY AllRolloutsFinish
PROPERTY BarriersHold
