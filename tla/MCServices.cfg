SPECIFICATION ServicesSpec
CONSTANTS
  Users = {u1, u2}
  Streams = {s1}
  Tasks = {t1}
  Extractors = {w1, w2}
  Branches = {main, alt}
  Main = main
  Nobody = nobody
  NoSession = nobody
  BrokerFails = TRUE
  MaxRounds = 1
  MaxTexts = 3
  Options = {{"scene","polish","keep"}, {"scene"}, {"polish"}}
  MaxRegenerations = 1
  MaxRetries = 1
  Casts = {{u1, s1}, {u1, t1}, {u1, u2}, {u1, w1, w2}}
  Lengths = {5, 6, 8, 10}
  Penalties = {0, 1}
  MinTarget = 6
  MaxHigh = 2
  MaxLogicRounds = 2
  MaxRewriteRounds = 2
  Paragraphs = 7
  SpanCap = 12
  SpanLengths = {0, 1, 12}
  Endpoints = {"a", "b", "n"}
  Registry <- MCRegistry
  Tier <- MCTier
  Providers = {"a", "b"}
  OpenAI = {"a"}
  Throttled = {"a"}
  None = "none"
  Keys = 2
  Callers = {c1, c2}
  Attempts = 2
  MinInterval = 2
  Cooldown = 3
  MaxTime = 6
  Slices = {1}
  MaxIngests = 1
  Waves = {v1, v2}
  WaveBatch = 1
  Workers = {x1}
  Chapters = {1, 2}
  Values = {"a", "b"}
  Kinds = {"new", "state", "meet", "bond", "move"}
  MaxReports = 3
  Nodes = {f1, f2}
  Plans = {p1}
  Requests = {r1}
  Batch = batch
  MaxWrites = 2
  Calls = {c1, c2}
  Gates = {g1}
  Admins = {a1}
  Quotas = {5}
  Default = 0
  MaxCalls = 3
  Figures = {k1, k2}
  MaxIssues = 3
  Critical = 3
  Writers = {w1, w2}
  Indices = {1}
  MaxOps = 3
  MaxPosts = 2
SYMMETRY Symmetry
INVARIANTS
  RejectedNeverIngested
  GivenUpIsGone
  CompletedIsWhole
  CompletedIsServed
  NoDraftLost
  RevisionSound
  BackfillAlive
  Reconciled
  UsageSound
  PlanSound
  OutlineSound
PROPERTIES
  HeldStaysInactive
  ActiveSurvives
  RouterSound
  TimelineSound
CHECK_DEADLOCK FALSE
