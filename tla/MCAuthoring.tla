---------------------------- MODULE MCAuthoring ----------------------------
(***************************************************************************)
(* What comes before the prose of a chapter, model-checked as one sum: the *)
(* prompts and their caches, the reference books, the outlines and scenes. *)
(* A behaviour is a behaviour of the component in focus; the variables of  *)
(* the others keep one value.  Some meet in a column or an edge of the     *)
(* code: Recall, Batch and ContextPack in the summaries of chapters,       *)
(* OutlineChain and Outlines in the outlines of chapters, Settings and     *)
(* Timeline in edges, Facts and Foreshadow in rows (Outlines, Timeline and *)
(* Foreshadow are in MCServices).  Each has what it needs of the other as  *)
(* a step of its own; the interleavings of both are not explored.          *)
(***************************************************************************)
EXTENDS Integers, Sequences, FiniteSets, TLC

CONSTANTS Types, FallbackOf, Builtins, Editors, MaxRows, MaxEdits, Askers, Ttl, NegTtl, Remote,
          RouterEditors, MaxRouterEdits, MaxTicks,
          Crawlers, CommitEvery, MaxToc, MaxDeliveries, MaxRequests,
          MaxChars, LineLengths, MaxLines,
          Drawn, MinLen, MaxDeltas,
          Targets, CMin, CMax, CTarget, PerBatch, Counts, Tries,
          Expanders, MaxLayers, MaxWrites,
          Lengths, MinWords, MaxWords, PerScene, MaxScenes, Wishes, MaxItems,
          Books, Batches, Threshold, BookVolumes,
          Cast, LastWritten, Statisticians, StatRetries, MaxFinished,
          Figures, Reader, Truths, Chroniclers, MaxFacts, MaxLearnt, MaxChapters,
          Navigators, Sizes, Hints, Threads, MaxSteers,
          Requests, Hero, Friend, Bonds, Sites, Stages, MaxOpened,
          RecallLast, Syncs, Rebuilds, Compactors, Nobody, BatchSize, KeepPercent, Emptied, MaxVersions, MaxJobs,
          Errands, Plans, MaxSaves,
          Authors, ArcTargets, MinTarget, MaxTarget, MaxArcs, MaxCommands,
          Runs, Projectors, NamesOf, MaxRuns,
          Rows, Urls, Clients, Testers, Chunk, OffLimit, MuteLimit, Qualities, MaxVisits,
          PackVolumes, PackPlanned, Told, Terse, MaxFaults, PackTargets, Ages, MaxPacks, MaxChanges

VARIABLES focus,
  rows, edit, edits, snaps, asker,
  router, turn, caller, overtaken,
  buffer, flight, flusher, stored, ticks, lost, twice,
  kind, refBook, crawlTask, file, mail, deliveries, crawler, requests, mishaps,
  source, visit, visits, tried, overlaid, condemned, doubled, regret,
  lines, position, paragraphs, blocks, block,
  step, text, worker, events, marks, heard, ask,
  target, volume, stage, count, nth, batch, summaries, failed,
  books, plans, outline, expander, writes, had, raced, drawn,
  words, strict, at, tries, answer, briefs, local, scene, prior, prose,
  sections, saved, run, storedBook,
  seen, known, roster, stats, rowLock, inbox, statistician, finished, settled, touched, commits, missing, mixed,
  ledger, chronicler, chapters, reported, collided, full,
  aim, compass, navigator, steers, derivedFrom, put, crossed,
  node, bond, stay, person, relation, stayRow, request, begun, current, alone, answered,
  chapter, heldRow, point, digests, job, jobs, missed, pruned,
  row, errand, saves, kept, removed,
  arcs, command, made, reports, tangled, restarted,
  factRows, hints, nodes, hintNodes, etl, projector, runs, atOnce, blind, cut,
  told, versions, rules, flag, next, cursor, dead, pack, changes, packs, faults, before

promptsVars == <<rows, edit, edits, snaps, asker>>
routerCacheVars == <<rows, edit, edits, router, turn, caller, overtaken>>
countersVars == <<buffer, flight, flusher, stored, ticks, lost, twice>>
crawlVars == <<kind, refBook, crawlTask, file, mail, deliveries, crawler, requests, mishaps>>
sourcesVars == <<source, visit, visits, tried, overlaid, condemned, doubled, regret>>
slicingVars == <<lines, position, paragraphs, blocks, block>>
bookVars == <<step, text, worker, events, marks, heard, ask>>
volumeVars == <<target, volume, stage, count, nth, batch, summaries, failed>>
chainVars == <<books, plans, outline, expander, writes, had, raced, drawn>>
scenesVars == <<words, strict, at, tries, answer, briefs, local, scene, prior, prose>>
rebuildVars == <<sections, saved, run, storedBook>>
rosterVars == <<seen, known, roster, stats, rowLock, inbox, statistician, finished, settled, touched, commits, missing, mixed>>
cognitionVars == <<ledger, chronicler, chapters, reported, collided, full>>
compassVars == <<aim, compass, navigator, steers, derivedFrom, put, crossed>>
settingsVars == <<node, bond, stay, person, relation, stayRow, request, begun, current, alone, answered>>
recallVars == <<chapter, heldRow, point, digests, job, jobs, missed, pruned>>
batchVars == <<row, errand, saves, kept, removed>>
arcVars == <<arcs, command, made, reports, tangled, restarted>>
factsVars == <<factRows, hints, nodes, hintNodes, etl, projector, runs, atOnce, blind, cut>>
packVars == <<told, versions, rules, flag, next, cursor, dead, pack, changes, packs, faults, before>>

K == INSTANCE PromptCache
L == INSTANCE PromptCache WITH Editors <- RouterEditors, MaxEdits <- MaxRouterEdits
C == INSTANCE Crawl WITH at <- position, current <- paragraphs
O == INSTANCE Sources WITH crossed <- overlaid
B == INSTANCE BookStages WITH attempt <- ask
H == INSTANCE OutlineChain WITH edits <- writes, MaxRows <- MaxLayers
W == INSTANCE Scenes WITH target <- words, Targets <- Lengths
G == INSTANCE Rebuild WITH stored <- storedBook, Volumes <- BookVolumes
Y == INSTANCE Roster WITH text <- seen, lock <- rowLock, overlapped <- mixed, Names <- Cast, Last <- LastWritten, Retries <- StatRetries
I == INSTANCE Cognition WITH told <- reported, MaxChanges <- MaxLearnt
D == INSTANCE Compass WITH Lines <- Threads
Q == INSTANCE Settings WITH told <- answered, MaxRequests <- MaxOpened
J == INSTANCE Recall WITH rowLock <- heldRow, Last <- RecallLast
E == INSTANCE Batch WITH batch <- errand, Batches <- Errands
A == INSTANCE Arc WITH request <- command, crossed <- tangled, Requests <- Authors, Targets <- ArcTargets, MaxRequests <- MaxCommands
F == INSTANCE Facts WITH rows <- factRows, reader <- projector, overlapped <- atOnce
P == INSTANCE ContextPack WITH target <- next, step <- cursor, Volumes <- PackVolumes, Planned <- PackPlanned, Targets <- PackTargets

ASSUME AuthoringAssumption ==
  /\ K!CacheAssumption
  /\ L!RowsAssumption
  /\ C!CrawlAssumption
  /\ O!SourcesAssumption
  /\ C!SlicingAssumption
  /\ B!BookAssumption
  /\ B!VolumeAssumption
  /\ H!ChainAssumption
  /\ W!ScenesAssumption
  /\ G!RebuildAssumption
  /\ Y!RosterAssumption
  /\ I!CognitionAssumption
  /\ D!CompassAssumption
  /\ Q!SettingsAssumption
  /\ J!RecallAssumption
  /\ E!BatchAssumption
  /\ A!ArcAssumption
  /\ F!FactsAssumption
  /\ P!PackAssumption

MCFallback == [ty \in Types |-> "gen"]
MCNames == [character |-> {}, foreshadow |-> {"h1"}, rule |-> {"l1"}, organization |-> {},
            item |-> {"i1", "i2"}]
MCPlans == {<<<<1, 1>>, <<1, 2>>>>, <<<<1, 1>>, <<2, 1>>>>}
MCBooks == {<<"plain", "cast">>, <<"split", "plain">>, <<"plain", "plan">>}

(* Nothing tells requests on the settings apart, nor syncs; no liveness is  *)
(* stated.                                                                  *)
Symmetry == Permutations(Requests) \cup Permutations(Syncs)

Off == "off"
Components == {"prompts", "router_cache", "counters", "crawl", "sources", "slicing", "book", "volume", "chain", "scenes", "rebuild", "roster", "cognition", "compass", "settings", "recall", "batch", "arc", "facts", "pack"}

(* What is not in focus is off.                                             *)
InitK ==
  CASE focus = "prompts" -> K!CacheInit /\ router = Off /\ turn = Off /\ caller = Off /\ overtaken = Off
    [] focus = "router_cache" -> L!RouterCacheInit /\ snaps = Off /\ asker = Off
    [] OTHER ->
         /\ rows = Off /\ edit = Off /\ edits = Off /\ snaps = Off /\ asker = Off /\ router = Off
         /\ turn = Off /\ caller = Off /\ overtaken = Off
InitN == IF focus = "counters" THEN K!CountersInit ELSE
  /\ buffer = Off /\ flight = Off /\ flusher = Off /\ stored = Off /\ ticks = Off /\ lost = Off
  /\ twice = Off
InitC == IF focus = "crawl" THEN C!CrawlInit ELSE
  /\ kind = Off /\ refBook = Off /\ crawlTask = Off /\ file = Off /\ mail = Off /\ deliveries = Off
  /\ crawler = Off /\ requests = Off /\ mishaps = Off
InitO == IF focus = "sources" THEN O!SourcesInit ELSE
  /\ source = Off /\ visit = Off /\ visits = Off /\ tried = Off /\ overlaid = Off
  /\ condemned = Off /\ doubled = Off /\ regret = Off
InitS == IF focus = "slicing" THEN C!SlicingInit ELSE
  /\ lines = Off /\ position = Off /\ paragraphs = Off /\ blocks = Off /\ block = Off
InitB == IF focus = "book" THEN B!BookInit ELSE
  /\ step = Off /\ text = Off /\ worker = Off /\ events = Off /\ marks = Off /\ heard = Off
  /\ ask = Off
InitV == IF focus = "volume" THEN B!VolumeInit ELSE
  /\ target = Off /\ volume = Off /\ stage = Off /\ count = Off /\ nth = Off /\ batch = Off
  /\ summaries = Off /\ failed = Off
InitH == IF focus = "chain" THEN H!ChainInit ELSE
  /\ books = Off /\ plans = Off /\ outline = Off /\ expander = Off /\ writes = Off /\ had = Off
  /\ raced = Off /\ drawn = Off
InitW == IF focus = "scenes" THEN W!ScenesInit ELSE
  /\ words = Off /\ strict = Off /\ at = Off /\ tries = Off /\ answer = Off /\ briefs = Off
  /\ local = Off /\ scene = Off /\ prior = Off /\ prose = Off
InitG == IF focus = "rebuild" THEN G!RebuildInit ELSE
  /\ sections = Off /\ saved = Off /\ run = Off /\ storedBook = Off
InitY == IF focus = "roster" THEN Y!RosterInit ELSE
  /\ seen = Off /\ known = Off /\ settled = Off /\ touched = Off /\ roster = Off /\ stats = Off /\ rowLock = Off /\ inbox = Off
  /\ statistician = Off /\ finished = Off /\ commits = Off /\ missing = Off /\ mixed = Off
InitI == IF focus = "cognition" THEN I!CognitionInit ELSE
  /\ ledger = Off /\ chronicler = Off /\ chapters = Off /\ reported = Off /\ collided = Off
  /\ full = Off
InitD == IF focus = "compass" THEN D!CompassInit ELSE
  /\ aim = Off /\ compass = Off /\ navigator = Off /\ steers = Off /\ derivedFrom = Off
  /\ put = Off /\ crossed = Off
InitQ == IF focus = "settings" THEN Q!SettingsInit ELSE
  /\ node = Off /\ bond = Off /\ stay = Off /\ person = Off /\ relation = Off /\ stayRow = Off
  /\ request = Off /\ begun = Off /\ current = Off /\ alone = Off /\ answered = Off
InitJ == IF focus = "recall" THEN J!RecallInit ELSE
  /\ chapter = Off /\ heldRow = Off /\ point = Off /\ digests = Off /\ job = Off /\ jobs = Off
  /\ missed = Off /\ pruned = Off
InitE == IF focus = "batch" THEN E!BatchInit ELSE
  /\ row = Off /\ errand = Off /\ saves = Off /\ kept = Off /\ removed = Off
InitA == IF focus = "arc" THEN A!ArcInit ELSE
  /\ arcs = Off /\ command = Off /\ made = Off /\ reports = Off /\ tangled = Off /\ restarted = Off
InitF == IF focus = "facts" THEN F!FactsInit ELSE
  /\ factRows = Off /\ hints = Off /\ nodes = Off /\ hintNodes = Off /\ etl = Off
  /\ projector = Off /\ runs = Off /\ atOnce = Off /\ blind = Off /\ cut = Off
InitP == IF focus = "pack" THEN P!PackInit ELSE
  /\ told = Off /\ versions = Off /\ rules = Off /\ flag = Off /\ next = Off /\ cursor = Off
  /\ dead = Off /\ pack = Off /\ changes = Off /\ packs = Off /\ faults = Off /\ before = Off

AuthoringInit == focus \in Components /\ InitK /\ InitN /\ InitC /\ InitO /\ InitS /\ InitB /\ InitV /\ InitH /\ InitW /\ InitG /\ InitY /\ InitI /\ InitD /\ InitQ /\ InitJ /\ InitE /\ InitA /\ InitF /\ InitP

(* The variables of the components that are not in focus keep their value.  *)
OthersRest ==
  /\ UNCHANGED focus
  /\ IF focus \in {"prompts", "router_cache"} THEN TRUE ELSE UNCHANGED <<rows, edit, edits>>
  /\ IF focus = "prompts" THEN TRUE ELSE UNCHANGED <<snaps, asker>>
  /\ IF focus = "router_cache" THEN TRUE ELSE UNCHANGED <<router, turn, caller, overtaken>>
  /\ IF focus = "counters" THEN TRUE ELSE UNCHANGED countersVars
  /\ IF focus = "crawl" THEN TRUE ELSE UNCHANGED crawlVars
  /\ IF focus = "sources" THEN TRUE ELSE UNCHANGED sourcesVars
  /\ IF focus = "slicing" THEN TRUE ELSE UNCHANGED slicingVars
  /\ IF focus = "book" THEN TRUE ELSE UNCHANGED bookVars
  /\ IF focus = "volume" THEN TRUE ELSE UNCHANGED volumeVars
  /\ IF focus = "chain" THEN TRUE ELSE UNCHANGED chainVars
  /\ IF focus = "scenes" THEN TRUE ELSE UNCHANGED scenesVars
  /\ IF focus = "rebuild" THEN TRUE ELSE UNCHANGED rebuildVars
  /\ IF focus = "roster" THEN TRUE ELSE UNCHANGED rosterVars
  /\ IF focus = "cognition" THEN TRUE ELSE UNCHANGED cognitionVars
  /\ IF focus = "compass" THEN TRUE ELSE UNCHANGED compassVars
  /\ IF focus = "settings" THEN TRUE ELSE UNCHANGED settingsVars
  /\ IF focus = "recall" THEN TRUE ELSE UNCHANGED recallVars
  /\ IF focus = "batch" THEN TRUE ELSE UNCHANGED batchVars
  /\ IF focus = "arc" THEN TRUE ELSE UNCHANGED arcVars
  /\ IF focus = "facts" THEN TRUE ELSE UNCHANGED factsVars
  /\ IF focus = "pack" THEN TRUE ELSE UNCHANGED packVars

AuthoringNext ==
  \/ focus = "prompts" /\ OthersRest /\ K!CacheNext
  \/ focus = "router_cache" /\ OthersRest /\ L!RouterCacheNext
  \/ focus = "counters" /\ OthersRest /\ K!CountersNext
  \/ focus = "crawl" /\ OthersRest /\ C!CrawlNext
  \/ focus = "sources" /\ OthersRest /\ O!SourcesNext
  \/ focus = "slicing" /\ OthersRest /\ C!SlicingNext
  \/ focus = "book" /\ OthersRest /\ B!BookNext
  \/ focus = "volume" /\ OthersRest /\ B!VolumeNext
  \/ focus = "chain" /\ OthersRest /\ H!ChainNext
  \/ focus = "scenes" /\ OthersRest /\ W!ScenesNext
  \/ focus = "rebuild" /\ OthersRest /\ G!RebuildNext
  \/ focus = "roster" /\ OthersRest /\ Y!RosterNext
  \/ focus = "cognition" /\ OthersRest /\ I!CognitionNext
  \/ focus = "compass" /\ OthersRest /\ D!CompassNext
  \/ focus = "settings" /\ OthersRest /\ Q!SettingsNext
  \/ focus = "recall" /\ OthersRest /\ J!RecallNext
  \/ focus = "batch" /\ OthersRest /\ E!BatchNext
  \/ focus = "arc" /\ OthersRest /\ A!ArcNext
  \/ focus = "facts" /\ OthersRest /\ F!FactsNext
  \/ focus = "pack" /\ OthersRest /\ P!PackNext

AuthoringSpec == AuthoringInit /\ [][AuthoringNext]_<<focus, promptsVars, routerCacheVars, countersVars, crawlVars, sourcesVars, slicingVars,
  bookVars, volumeVars, chainVars, scenesVars, rebuildVars, rosterVars, cognitionVars,
  compassVars, settingsVars, recallVars, batchVars, arcVars, factsVars, packVars>>
-----------------------------------------------------------------------------
\* Snapshots of prompts are no older than their time to live, a loaded router has
\* the routes of the rows, and a prompt's calls are counted once (PromptCache).
PromptsSound ==
  /\ focus = "prompts" => K!CacheTypeOK /\ K!SnapshotsFresh
  /\ focus = "router_cache" => L!RouterCacheTypeOK /\ L!RouterFollows
  /\ focus = "counters" => K!CountersTypeOK /\ K!TicksKept
\* A book that reads ready has text unless none was found, none is left half
\* done by a death or a second delivery (Crawl), and no text is lost between its
\* blocks (Crawl); a source's health is that of its tries (Sources).
KnowledgeSound ==
  /\ focus = "crawl" => C!CrawlTypeOK /\ C!CrawlSound
  /\ focus = "sources" => O!SourcesTypeOK /\ O!SourcesSound
  /\ focus = "slicing" => C!SlicingTypeOK /\ C!SlicingSound
\* The saved book outline is what the client was told and its volumes have every
\* chapter once (BookStages), no merge empties what an outline had and no expansion
\* its texts (OutlineChain), and a chapter is written along its scenes (Scenes).
OutlinesSound ==
  /\ focus = "book" => B!BookTypeOK /\ B!BookSound
  /\ focus = "volume" => B!VolumeTypeOK /\ B!VolumeSound
  /\ focus = "chain" => H!ChainTypeOK /\ H!ChainSound
  /\ focus = "scenes" => W!ScenesTypeOK /\ W!ScenesSound
\* Local text in a rebuilt outline is marked (Rebuild).
RebuildSound == focus = "rebuild" => G!RebuildTypeOK /\ G!RebuildSound
\* The roster follows the chapters that were finished and the names known by then
\* (Roster), what a figure knows is what it was told (Cognition), the compass keeps
\* its range (Compass), a summary and its point agree as the syncs leave them
\* (Recall), and a fact of an outline is stored once and stays (Facts).
MemorySound ==
  /\ focus = "roster" => Y!RosterTypeOK /\ Y!RosterSound
  /\ focus = "cognition" => I!CognitionTypeOK /\ I!CognitionSound
  /\ focus = "compass" => D!CompassTypeOK /\ D!CompassSound
  /\ focus = "recall" => J!RecallTypeOK /\ J!RecallSound
  /\ focus = "facts" => F!FactsTypeOK /\ F!FactsSound
\* A chapter that counts as completed was kept (Batch), and the arcs of a book
\* follow each other (Arc).
DriversSound ==
  /\ focus = "batch" => E!BatchTypeOK /\ E!BatchSound
  /\ focus = "arc" => A!ArcTypeOK /\ A!ArcSound
\* The read model answers as the graph, no history of a relationship loses what
\* was stored, and no volume hears of a later one (Settings).
SettingsSound == [][focus = "settings" => Q!SettingsTypeOK' /\ Q!SettingsSound' /\ Q!NoSpoiler]_settingsVars
\* A pack some of whose blocks fail still tells what came before, as new as the
\* request, and raises no false alarm (ContextPack).
PackSound == focus = "pack" => P!PackTypeOK /\ P!PackSound
=============================================================================
