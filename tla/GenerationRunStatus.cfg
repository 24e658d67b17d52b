SPECIFICATION FairSpec
CONSTANTS
  Request = {q1, q2}
  Nothing = Nothing
  MaxRewrites = 2
INVARIANT ActiveSaysRunning
CHECK_DEADLOCK FALSE
