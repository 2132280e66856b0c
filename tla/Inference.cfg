SPECIFICATION Spec
CONSTANTS
  NumServers = 2
  MaxSignals = 2
  NumRows = 3
  MaxProblems = 2
  Timeouts = {3}
  Reserves = {0, 9}
  Context = 12
  Margin = 1
  PromptLengths = {3, 11}
  TokenLimits = {2, 9}
  Budgets = {0, 3}
  ForceTokens = 2
  MaxChunk = 2
  Interval = 2
  PlanIds <- MCPlanIds
  MaxPlan = 3
  MaxSublemmas = 3
  Fallbacks = {TRUE, FALSE}
  b1 = b1
  b2 = b2
  b3 = b3
  Calls = {b1, b2, b3}
  NoBar = NoBar
INVARIANT ServersEndWithTheRun
INVARIANT LinesComeBack
INVARIANT CallKeepsToItsBudget
INVARIANT LemmasFollowTheirPremises
INVARIANT EveryRowIsAnswered
CHECK_DEADLOCK FALSE
