---------------------------- MODULE MCServices ----------------------------
(***************************************************************************)
(* The components around the cascade, the pipeline and the generation run, *)
(* model-checked as one sum: a behaviour is a behaviour of the component   *)
(* in focus; the variables of the others keep one value.  No two of them   *)
(* share a variable.  Some meet in the code: Outlines deletes chapters the *)
(* writers are at work on, and the timeline follows the extraction.  Such  *)
(* interleavings are not explored.                                         *)
(***************************************************************************)
EXTENDS ChapterSystem, Usage, TLC

CONSTANTS Lengths, Penalties, MinTarget, MaxHigh, MaxLogicRounds, MaxRewriteRounds, Paragraphs,
          SpanCap, SpanLengths,
          Endpoints, Registry, Tier, Providers, OpenAI, Throttled, None, Keys, Callers, Attempts,
          MinInterval, Cooldown, MaxTime,
          Slices, MaxIngests, Waves, WaveBatch,
          Workers, Chapters, Values, Kinds, MaxReports,
          Nodes, Plans, Requests, Batch, MaxWrites,
          Figures, MaxIssues, Critical,
          Writers, Indices, MaxOps, MaxPosts

VARIABLES focus,
  phase, given, best, round, high, hits, spans, out,
  call, lock, nextAt, lastStart, cooled, keyIdx, now,
  status, slices, cards, ingest, wave, holder, queue, redeliver, manual, broken,
  known, facts, extraction, reports, latest, inOrder, clean,
  node, blank, row, work, flushed, writes, shown, newest, need, aside,
  outline, figures, found, bucket,
  book, bookLocker, outlines, volumes, chapters, writer, ops, posted, apart, undone, made

revisionVars == <<phase, given, best, round, high, hits, spans, out>>
routerVars == <<call, lock, nextAt, lastStart, cooled, keyIdx, now>>
decompileVars == <<status, slices, cards, ingest, wave, holder, queue, redeliver, manual, broken>>
timelineVars == <<known, facts, extraction, reports, latest, inOrder, clean>>
foreshadowVars == <<node, blank, row, work, flushed, writes, shown, newest, need, aside>>
plannerVars == <<outline, figures, found, bucket>>
outlinesVars == <<book, bookLocker, outlines, volumes, chapters, writer, ops, posted, apart, undone, made>>

R == INSTANCE Revision
M == INSTANCE ModelRouter WITH last <- lastStart
D == INSTANCE Decompile
T == INSTANCE Timeline WITH job <- extraction, last <- latest
F == INSTANCE Foreshadow WITH held <- flushed
P == INSTANCE Planner
O == INSTANCE Outlines WITH locker <- bookLocker, job <- writer

ASSUME ServicesAssumption ==
  /\ ChapterAssumption
  /\ R!RevisionAssumption /\ M!RouterAssumption /\ D!DecompileAssumption /\ T!TimelineAssumption
  /\ F!ForeshadowAssumption /\ UsageAssumption /\ P!PlannerAssumption /\ O!OutlinesAssumption

MCTier == [e \in Endpoints |-> CASE e = "a" -> "standard" [] e = "b" -> "flagship" [] OTHER -> "embedding"]
MCRegistry == <<"a", "n", "b">>

Off == "off"
Symmetry == Permutations(Nodes) \cup Permutations(Callers)
Components == {"chapter", "revision", "router", "decompile", "timeline", "foreshadow", "usage", "planner", "outlines"}

ChapterIdle ==
  /\ chapter = [text |-> Blank, status |-> "draft"] /\ versions = <<>> /\ edits = [u \in Users |-> NoEdit]
  /\ queued = 0 /\ ledger = {} /\ cast = {}
  /\ StreamInit /\ TaskInit
  /\ extractor = [w \in Extractors |-> NoJob] /\ marker = "none" /\ graph = Blank /\ missed = FALSE
InitC == IF focus = "chapter" THEN ChapterInit ELSE ChapterIdle
InitR == IF focus = "revision" THEN R!RevisionInit ELSE
  /\ phase = Off /\ given = Off /\ best = Off /\ round = Off /\ high = Off
  /\ hits = Off /\ spans = Off /\ out = Off
InitM == IF focus = "router" THEN M!RouterInit ELSE
  /\ call = Off /\ lock = Off /\ nextAt = Off /\ lastStart = Off /\ cooled = Off
  /\ keyIdx = Off /\ now = Off
InitD == IF focus = "decompile" THEN D!DecompileInit ELSE
  /\ status = Off /\ slices = Off /\ cards = Off /\ ingest = Off /\ wave = Off
  /\ holder = Off /\ queue = Off /\ redeliver = Off /\ manual = Off /\ broken = Off
InitT == IF focus = "timeline" THEN T!TimelineInit ELSE
  /\ known = Off /\ facts = Off /\ extraction = Off /\ reports = Off /\ latest = Off
  /\ inOrder = Off /\ clean = Off
InitF == IF focus = "foreshadow" THEN F!ForeshadowInit ELSE
  /\ node = Off /\ blank = Off /\ row = Off /\ work = Off /\ flushed = Off /\ writes = Off
  /\ shown = Off /\ newest = Off /\ need = Off /\ aside = Off
InitP == IF focus = "planner" THEN P!PlannerInit ELSE
  /\ outline = Off /\ figures = Off /\ found = Off /\ bucket = Off
InitO == IF focus = "outlines" THEN O!OutlinesInit ELSE
  /\ book = Off /\ bookLocker = Off /\ outlines = Off /\ volumes = Off /\ chapters = Off
  /\ writer = Off /\ ops = Off /\ posted = Off /\ apart = Off /\ undone = Off /\ made = Off

ServicesInit == focus \in Components /\ InitC /\ InitR /\ InitM /\ InitD /\ InitT /\ InitF /\ UsageInit /\ InitP /\ InitO

(* The variables of the components that are not in focus keep their value.  *)
OthersRest ==
  /\ UNCHANGED focus
  /\ IF focus = "chapter" THEN TRUE ELSE UNCHANGED chapterVars
  /\ IF focus = "revision" THEN TRUE ELSE UNCHANGED revisionVars
  /\ IF focus = "router" THEN TRUE ELSE UNCHANGED routerVars
  /\ IF focus = "decompile" THEN TRUE ELSE UNCHANGED decompileVars
  /\ IF focus = "timeline" THEN TRUE ELSE UNCHANGED timelineVars
  /\ IF focus = "foreshadow" THEN TRUE ELSE UNCHANGED foreshadowVars
  /\ IF focus = "usage" THEN TRUE ELSE UNCHANGED usageVars
  /\ IF focus = "planner" THEN TRUE ELSE UNCHANGED plannerVars
  /\ IF focus = "outlines" THEN TRUE ELSE UNCHANGED outlinesVars

ServicesNext ==
  \/ focus = "chapter" /\ OthersRest /\ ChapterNext
  \/ focus = "revision" /\ OthersRest /\ R!RevisionNext
  \/ focus = "router" /\ OthersRest /\ M!RouterNext
  \/ focus = "decompile" /\ OthersRest /\ D!DecompileNext
  \/ focus = "timeline" /\ OthersRest /\ T!TimelineNext
  \/ focus = "foreshadow" /\ OthersRest /\ F!ForeshadowNext
  \/ focus = "usage" /\ OthersRest /\ UsageNext
  \/ focus = "planner" /\ OthersRest /\ P!PlannerNext
  \/ focus = "outlines" /\ OthersRest /\ O!OutlinesNext

ServicesSpec == ServicesInit /\ [][ServicesNext]_<<focus, chapterVars, revisionVars, routerVars, decompileVars, timelineVars,
  foreshadowVars, usageVars, plannerVars, outlinesVars>>

-----------------------------------------------------------------------------
\* The quality gate accepts only what its bands allow, and text outside the
\* rewritten spans is kept (Revision).
RevisionSound == focus = "revision" => R!GateSound /\ R!RestSurvives
\* A fallback answers with what one endpoint said, or fails after all, and
\* requests to a throttled provider keep their distance (ModelRouter).
RouterSound == [][focus = "router" => M!FallbackSound' /\ M!KeysRotate' /\ M!SpacedTurn]_routerVars
\* Missing cards are always about to be looked for (Decompile).
BackfillAlive == focus = "decompile" => D!BackfillAlive
\* The latest state is served, nobody is in two places, and later chapters do
\* not rewrite what earlier ones say (Timeline).
TimelineSound == [][focus = "timeline" => T!TimelineSound' /\ T!PastKept]_timelineVars
\* The rows of the read model are the nodes of the graph (Foreshadow).
Reconciled == focus = "foreshadow" => F!Reconciled
\* Every issue in scope reaches a target that can carry it (Planner).
PlanSound == focus = "planner" => P!PlanSound
\* One book outline that is not lost, and no number twice (Outlines).
OutlineSound == focus = "outlines" => O!OutlineSound
=============================================================================
