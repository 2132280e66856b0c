SPECIFICATION Spec
CONSTANTS
  VerifyN = 2
  MetaN = 2
  AllReviews = TRUE
  StrictPassMeta = TRUE
  RefineRounds = 1
  RefineReviewN = 1
  One = 80
CHECK_DEADLOCK FALSE
INVARIANT EarlyStopHasCritiques
