SPECIFICATION FairSpec
CONSTANTS
  r1 = r1
  r2 = r2
  t1 = t1
  p1 = p1
  NoWorker = NoWorker
  Row = {r1, r2}
  Target = {t1}
  Project = {p1}
  Worker = {w1, w2}
  ProjectOf <- MCProjectOf
  TargetOf <- MCTargetOf
  OwnerOf <- MCOwnerOf
  Plans <- MCPlans
  MaxRetries = 1
  MaxFaults = 1
PROPERTY AlwaysLands
CHECK_DEADLOCK FALSE
