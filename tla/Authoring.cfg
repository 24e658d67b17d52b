SPECIFICATION AuthoringSpec
CONSTANTS
  Types = {"spec", "gen"}
  FallbackOf <- MCFallback
  Builtins = {"spec"}
  Editors = {e1}
  MaxRows = 3
  MaxEdits = 1
  Askers = {a1, a2}
  Ttl = 2
  NegTtl = 1
  Remote = {}
  RouterEditors = {e1, e2}
  MaxRouterEdits = 2
  MaxTicks = 3
  Crawlers = {x1, x2}
  CommitEvery = 2
  MaxToc = 2
  MaxDeliveries = 2
  MaxRequests = 2
  MaxChars = 3
  LineLengths = {1, 2, 7}
  MaxLines = 5
  Drawn = {2}
  MinLen = 1
  MaxDeltas = 1
  Targets = {1, 3, 7, 8, 11, 14, 22}
  CMin = 4
  CMax = 8
  CTarget = 6
  PerBatch = 2
  Counts = {0, 3, 5}
  Tries = 3
  Expanders = {p1, p2}
  MaxLayers = 1
  MaxWrites = 3
  Lengths = {10, 35, 90}
  MinWords = 8
  MaxWords = 12
  PerScene = 10
  MaxScenes = 4
  Wishes = {5, 12}
  MaxItems = 5
  Books <- MCBooks
  Batches = 2
  Threshold = 2
  BookVolumes = 1
  Cast = {n1, n2}
  LastWritten = 2
  Statisticians = {w1, w2}
  StatRetries = 1
  MaxFinished = 2
  Figures = {f1}
  Reader = Reader
  Truths = {t1, t2}
  Chroniclers = {c1, c2}
  MaxFacts = 1
  MaxLearnt = 1
  MaxChapters = 3
  Navigators = {v1, v2}
  Sizes = {2, 10}
  Hints = {1, 9, 30}
  Threads = {l1}
  MaxSteers = 3
  Requests = {r1, r2}
  Hero = hero
  Friend = friend
  Bonds = {"b1"}
  Sites = {"s1", "s2"}
  Stages = {1, 2}
  MaxOpened = 2
  RecallLast = 2
  Syncs = {y1, y2}
  Rebuilds = {b1}
  Compactors = {k1}
  Nobody = nobody
  BatchSize = 1
  KeepPercent = 20
  Emptied = {1}
  MaxVersions = 2
  MaxJobs = 2
  Errands = {g1}
  Plans <- MCPlans
  MaxSaves = 1
  Authors = {h1, h2}
  ArcTargets = {1, 3}
  MinTarget = 2
  MaxTarget = 4
  MaxArcs = 3
  MaxCommands = 4
  Runs = {q1}
  Projectors = {j1}
  NamesOf <- MCNames
  MaxRuns = 2
  Rows = {i1, i2}
  Urls = {"x"}
  Clients = {d1, d2}
  Testers = {z1}
  Chunk = 1
  OffLimit = 2
  MuteLimit = 1
  Qualities = {20, 100}
  MaxVisits = 4
  PackVolumes = 2
  PackPlanned = 18
  Told = {1, 18}
  Terse = {2}
  MaxFaults = 1
  PackTargets = {18}
  Ages = {10, 20}
  MaxPacks = 1
  MaxChanges = 1
SYMMETRY Symmetry
INVARIANTS
  PromptsSound
  KnowledgeSound
  OutlinesSound
  RebuildSound
  MemorySound
  DriversSound
  PackSound
PROPERTIES
  SettingsSound
CHECK_DEADLOCK FALSE
