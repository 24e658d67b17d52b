SPECIFICATION FairSpec
CONSTANTS
  Chapter = {1, 2}
  Worker = {w1, w2}
  NoSnapshot = NoSnapshot
  MaxReviewRounds = 1
  MaxStarts = 2
  MaxDisturbances = 1
PROPERTY PauseStops
CHECK_DEADLOCK FALSE
