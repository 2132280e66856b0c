SPECIFICATION Spec
CONSTANTS
  N = 1
  ContinueCount = 1
  RefineRounds = 1
  NumVerifiers = 2
  SelectorTopK = 2
  EarlyStopReward = 76
  EnableMeta = TRUE
  GateEnabled = TRUE
  SelectorEnabled = TRUE
  Hybrid = TRUE
  FormatScores = {7, 10}
  Qualities = {0}
  Scores = {0, 1, 2}
INVARIANT InvalidProofEndsTrace
