SPECIFICATION ChapterSpec
CONSTANTS
  Users = {u1, u2}
  Streams = {s1}
  Tasks = {t1}
  Extractors = {w1}
  Branches = {main, alt}
  Main = main
  Nobody = nobody
  BrokerFails = FALSE
  MaxRounds = 1
  MaxTexts = 1
  Options = {{"polish"}}
  MaxRegenerations = 1
  MaxRetries = 1
  Casts = {{u1, u2, w1}}
INVARIANT
  GraphFollowsRollback
CHECK_DEADLOCK FALSE
