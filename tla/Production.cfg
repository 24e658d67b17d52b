SPECIFICATION ProductionSpec
CONSTANTS
  Request = {q1, q2}
  Nothing = Nothing
  MaxRewrites = 2
  Chapter = {1, 2}
  Worker = {w1, w2}
  NoSnapshot = NoSnapshot
  MaxReviewRounds = 1
  MaxStarts = 2
  MaxDisturbances = 1
  None = None
  MaxRetries = 1
  MaxEdits = 1
  MaxFaults = 2
INVARIANTS FinalWasReviewed RewriteBudget VerdictHasReport PolishedIsWhole FailedAfterAllRounds FailedAfterAllTries
PROPERTIES ResumeKeepsWork RunEnds NoRegeneration FirstPassEnds CompletedIsFinal ComesToRest
CHECK_DEADLOCK FALSE
