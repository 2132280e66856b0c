SPECIFICATION Spec
CONSTANTS
  N = 1
  ContinueCount = 1
  RefineRounds = 1
  NumVerifiers = 2
  SelectorTopK = 2
  EarlyStopReward = 76
  EnableMeta = TRUE
  GateEnabled = TRUE
  SelectorEnabled = TRUE
  Hybrid = TRUE
  FormatScores = {7, 10}
  Qualities = {0}
  Scores = {0, 1, 2}
  SoloRefineRounds = 2
  ReviewN = 1
  JudgeRoundCounts = {0, 2}
  JudgeStop = 3800
  ProofWeight = 76
  SelfWeight = 24
  JudgeMeta = TRUE
  MaxRows = 2
  OwnIds = {1}
  Limits = {0, 1, 3, 5}
  Denominator = 10
  Shares = {0, 2, 5, 10}
INVARIANT TurnBudgetSuffices
INVARIANT MixIsBalanced
INVARIANT PaidForTheRightRound
PROPERTY VerifiedRoundKeepsBest
CHECK_DEADLOCK FALSE
