SPECIFICATION Spec
CONSTANTS
  VerifyN = 2
  MetaN = 2
  AllReviews = TRUE
  StrictPassMeta = FALSE
  RefineRounds = 1
  RefineReviewN = 1
  One = 80
INVARIANT KeepsTheBest
INVARIANT ReturnedProofWasVerified
INVARIANT StrictPassIsUnanimous
INVARIANT RoundIsComplete
CHECK_DEADLOCK FALSE
