# A verification project for ai-write

ai-write is a FastAPI backend that plans, writes, reviews and revises novels
with the help of LLMs. Its state is in PostgreSQL (through SQLAlchemy's async
ORM), Neo4j, Qdrant and Redis; long work runs in Celery workers over a Redis
broker. The interesting part of it is not what an LLM answers but the
protocols around the answers: rows whose status moves from `pending` to
`done`, messages that are delivered again, sessions that work on old copies of
a row, locks that end with a transaction, streams whose client leaves, writes
to two stores that cannot be committed together. This directory models those
protocols in TLA+, checks them with TLC and proves the central ones with TLAPS.

Paths below are relative to `src/backend/app/` unless they start with `src/`.

## 1. Inventory

### 1.1 Components

| Component | State | Operations | What is hard | What makes it correct |
|---|---|---|---|---|
| **Cascade queue** `tasks/cascade.py` | `cascade_tasks`; JSON columns of outlines, characters, world rules, chapters; an advisory lock per project; messages | enqueue, dispatch, a worker's three sessions, four handlers, retry | two transactions per task with the lock released in between, redelivery, retries, concurrent saves | a revision is recorded once and reported only when it is there; terminal rows stay |
| **Cascade planner** `services/cascade_planner.py` | none | issues to targets, by scope and severity | which bucket an issue without a usable target goes to | every issue in scope reaches a target that can carry it |
| **Production pipeline** `services/pipeline_service.py`, `api/pipeline.py` | `pipeline_runs`, chapter statuses, texts | create, start, pause, rollback, advance, the chapter worker | stale ORM copies, message before commit, a worker that dies | a polished run is whole; it gives up only after its review rounds; completed chapters are kept |
| **Generation run** `services/generation_runner.py` | `generation_runs` with checkpoints, critic reports | start, resume, five phases | death between commits, two requests at once | the final text was reviewed; rewrites within budget; a resume loses nothing |
| **Asynchronous evaluation** `tasks/evaluation_tasks.py` | `evaluate_tasks`, messages | start, dispatch, evaluate, retry | redelivery, failure stored before the retry | completed rows stay, retries are all used, every row comes to rest |
| **Chapter versions** `services/version_control.py`, `api/versions.py`, `api/chapters.py` | the chapter's text and status, `chapter_versions` with `is_active` and branches | save, create, branch, switch, roll back | statements of overlapping transactions that see different rows | an active version is lost only by switching to it again; a held text becomes active by a user only |
| **Streaming generation** `api/generate.py` | locals of a handler; chapter, versions | draft, gate, save, judge, revise, polish, roll back | the client leaves at any await; another writer saves meanwhile | a draft that was given up is gone, and never reaches the ledger; a completed chapter is whole |
| **Asynchronous generation** `tasks/generation_tasks.py` | `generation_tasks`, chapter, versions | draft, judge, regenerate, gates, save, salvage | acknowledged before it runs, salvage after an exception | a completed task is served; a failed one lost no draft |
| **Revision policy and gates** `services/auto_revise.py`, `chapter_quality_gate.py`, `chapter_pipeline.py` | none | find, merge, splice and refuse spans; rewrite rounds | boundaries of scores, lengths and rounds | nothing worse than what was given is accepted; text outside the spans is kept |
| **Entity extraction** `tasks/entity_tasks.py`, `services/entity_timeline.py` | a marker and the timeline of states, relationships and places in Neo4j | claim, extract, mark; open and close facts | a claim that excludes nobody; statements that fail one by one | the latest state is served; nobody is in two places; earlier chapters keep their facts |
| **Foreshadowing** `services/foreshadow_manager.py`, `foreshadow_lifecycle.py`, `api/foreshadows.py` | nodes in Neo4j, rows in Postgres | plant, resolve, delete, project, the batch's hooks | two stores, three writers, projections of an older read | the rows are the nodes that can be shown once nobody is at work |
| **Arcs** `services/arc_loop.py`, `api/arc.py` | one JSON value per volume | start, direct, write, report, complete | requests that overlap around a model call | arcs follow each other; a full arc waits |
| **Ingestion and decompile** `services/reference_ingestor.py`, `tasks/__init__.py` | slices, cards, a Redis lock | ingest, branches, retry waves | compare and delete in two calls, redelivery, Redis that cannot be asked, one long transaction | missing cards are about to be looked for, unless a message, a wave or an ingest is lost |
| **Reference books** `tasks/book_tasks.py`, `api/knowledge.py`, `services/text_pipeline.py` | book, crawl task, blocks, temporary file | upload, crawl, pause, slice | message before commit, redelivery, pause nobody reads | a ready book has its text unless none was found; no text is lost between blocks |
| **Book sources** `services/book_source_engine.py`, `api/knowledge.py` | rows with scores and failures | import, try, report, turn off, delete | copies of a row kept while a site answers | a source's health is that of its tries |
| **Model router** `services/model_router.py`, `llm_retry.py` | locks and times per endpoint, the next key for embeddings | ask one endpoint or tier by tier, retry, stream, throttle, embed | a stream that breaks, cancellation while waiting for a turn | one endpoint's answer or a failure after all; requests keep their distance |
| **Prompts and their caches** `services/prompt_registry.py`, `prompt_cache.py` | `prompt_assets`, snapshots, the loaded router, counters | edit, seed, resolve, invalidate, flush | invalidation before the commit, a reset during a load | a snapshot is no older than its time to live; a loaded router has the routes of the rows; a call is counted once |
| **Usage and quotas** `services/usage_service.py`, `llm_call_logger.py`, `middlewares/quota.py` | a row per user and month | log a call, count it, gate, set a quota | tokens are read, added to and written back | nothing is counted twice, no quota undone |
| **Outlines** `api/outlines.py`, `api/generate.py`, `api/volumes.py` | book, volume and chapter outlines, volumes, chapters | stream, save, regenerate, confirm, delete | saves that overlap; a regeneration cut off | one book outline that is not lost; when writers take turns, a number is there twice only if one answer or a user gave it twice |
| **Stages of an outline** `services/outline_generator.py`, `outline_readiness.py`, `chapter_outline_expander.py` | texts under way | stages A, B, C; volume batches; expansion of a chapter outline | two tasks on one queue, breaks and fallbacks, arithmetic of the scale | what is saved is what the client was told; each volume has every chapter once; no expansion empties the texts of an outline |
| **Scenes** `services/scene_orchestrator.py` | briefs, prose | plan, fall back, write, retry | budgets at their limits, local briefs | a chapter is written along its scenes |
| **Rebuild script** `src/backend/scripts/regenerate_shenyi_outlines.py` | a checkpoint file, a circuit breaker | sections, batches, gates, persist | killed and run again | local text in the stored outline is marked |
| **Roster, cognition, compass** `services/character_roster.py`, `tasks/style_tasks.py`, `services/character_cognition.py`, `services/compass_service.py` | rosters, statistics, ledgers of knowledge, one compass | recompute; settle a chapter; derive, refresh, steer | overlapping tasks on one project, eviction, clamping | the roster follows the finished chapters; a figure knows what it was told; the compass keeps its range |
| **Recall** `services/incremental_sync.py`, `rag_rebuild.py`, `memory_compactor.py` | summaries in Postgres and Qdrant | sync, rebuild, compact | two stores; a job that works on the text it loaded | a summary that was synced is the same in both |
| **Context pack** `services/context_pack.py`, `services/context_layers/` | a pack under construction | load blocks, choose, cut | a failed query leaves the session dead, another failure does not | a pack that fails half-way misleads no chapter |
| **Settings of a book** `api/neo4j_settings.py`, `api/settings.py` | nodes and edges in Neo4j, rows in Postgres | open and close relationships, places, memberships; project; answer per chapter | read model behind the graph | it answers as the graph does, and no volume hears of a later one |
| **Batch generation** `api/rewrite.py`, `services/batch_generator.py`, `hook_manager.py` | the chapters' rows and the batch's session | write one after the other, with hooks | failing sessions, a client that leaves | a chapter reported completed was kept |
| **Facts out of outlines** `services/outline_to_facts.py` | rows, nodes | five kinds, one after the other | repeated and overlapping runs, projections in between | a fact is stored once and stays |
| Ask-user, run bus; checkers and style analysis; backup; front end; deployment | - | - | - | not modelled, section 5 |

`PROJECT.json` lists every component with its status and, under `hazards`, what
each is exposed to, at the line where it bites.

### 1.2 How they interact

A chapter is written by a stream, by the asynchronous generation task, by a
batch, by a pipeline run or by a generation run, from a pack of context that
is read from outlines, summaries, settings, ledgers and foreshadows. What was
written is evaluated; the evaluation leads to revisions and, when these are
exhausted, to a cascade plan. The cascade queue turns the plan into rows and
messages and changes the entities the chapter was written from. Every save
also dispatches the extraction, which brings the graph and its read models up
to date for the next chapter. Three facts about the infrastructure run through
all of it:

* `db/session.py:60` sets `expire_on_commit=False`: a session goes on with the
  copy of a row that it loaded, and a flush writes only the columns that differ
  from that copy. `get_db` (`db/session.py:136-144`) commits after the handler
  has returned, hence after the messages and invalidations it has sent.
* `tasks/__init__.py:27-46` sets `acks_late` and a visibility timeout of two
  hours: a message is acknowledged when the task is over, a worker that dies or
  takes too long has its message delivered again. The generation task alone is
  acknowledged early.
* Celery's `Retry` is an exception like any other for an `except Exception`.

## 2. Modules

| Module | Contents |
|---|---|
| `Cascade`, `RevisionLog` | the cascade queue, and its abstract specification: a log of revisions with atomic appends |
| `Pipeline` | one production run, its requests and workers |
| `GenerationRun` | one run of the phase machine and the requests that execute it |
| `Evaluation` | one evaluation row, its messages and workers |
| `ChapterStore`, `ChapterStream`, `ChapterTask`, `EntityExtraction` | the row of one chapter with its versions and the users' requests; the streams, tasks and extractions that meet in it |
| `ChapterSystem` | the composition of these four |
| `Revision`, `ModelRouter`, `Decompile`, `Timeline`, `Foreshadow`, `Usage`, `Planner`, `Outlines` | services around the chapter, one component each |
| `PromptCache`, `Crawl`, `Sources`, `BookStages`, `OutlineChain`, `Scenes`, `Rebuild` | prompts, reference books and outlines, before the prose |
| `Roster`, `Cognition`, `Compass`, `Recall`, `Facts`, `ContextPack`, `Settings` | the memory of a book |
| `Batch`, `Arc` | what drives the writing from outside |
| `MCCascade`, `MCProduction`, `MCServices`, `MCAuthoring` | the instances TLC checks |
| `CascadeProofs`, `PipelineProofs`, `EvaluationProofs`, `ProductionProofs` (with the generation run), `ChapterProofs`, `ServicesProofs`, `RevisionProofs`, `AuthoringProofs` | theorems |

The last three `MC` modules are *sums*. A behaviour of a sum is a behaviour of
the component in `focus`; everything else keeps one value. Modules of one sum
share no variable. Where the protocol of two components is a joint one they are
composed: `ChapterSystem` joins the writers of a chapter, `Foreshadow` the three
writers of graph and rows, `Outlines` streams, tasks and users, `Settings`
requests, projections and readers. Other components meet in the code in one
column or edge, and are not composed:

| Shared | Written by | How it is modelled |
|---|---|---|
| `chapter.summary` | `Recall`, `Batch`; read by `ContextPack` | `Recall` has a summary of another writer as a step (`Summarize`), `ContextPack` one that is committed meanwhile (`Others`); `Batch` writes its own |
| a chapter's outline | `Outlines`, `OutlineChain` | `OutlineChain` has the volume's batch, the merge and the user as steps (`Cascade`, `Enrich`, `UserEdit`) |
| edges of the graph | `Timeline`, `Settings` | each has its own kinds of facts |
| foreshadow rows | `Foreshadow`, `Facts` | the outlines' inserts are steps of `Foreshadow`, the projections steps of `Facts` |
| the rows of chapters | `Outlines`, `ChapterSystem`, `Pipeline` | a deletion is a step where the source looks for it; that a regeneration deletes the chapter a stream is writing is left out |

The interleavings of both protocols are not explored there.

### 2.1 Cascade

A `Row` is a key of the unique constraint `uq_cascade_tasks_idem`; `status[r]`
is the row's status, with `absent` before the insert and `deleted` after the
row went with its chapter. `recorded[t][r]` counts the revisions with `r`'s
`rev_key` in the JSON column of target `t`. A worker's `pc` walks through
`_run_cascade_task_async`:

| `pc` | Code | Actions |
|---|---|---|
| `loaded` | the first session has read a pending row | `TakeLock`, `Defer` |
| `claiming` | it holds the lock and is about to commit `running` | `Claim` |
| `claimed` | committed; the commit has released the lock | `RetakeLock`, `LoseLock` |
| `handling`, `writing` | the handler has the lock, then has loaded the JSON | `HandlerLoad`, `HandlerCommit`, `HandlerCommitFails` |
| `finalising` | the third session | `Finalise` |
| `settling`, `acking` | the exception is Celery's; the message is acknowledged | `Settle`, `Ack` |

The four handlers do the same to their target: look for it, compare its
project, look for the `rev_key`, append, commit. They are one action pair with
the load and the commit apart, since a user may save the entity in between
(`UserEdit`, which replaces the column by the client's copy). The texts of
revisions and hints are left out.

`RevisionLog` says what this amounts to: an append happens at once and at most
once; success is reported only of an entry in the log; a target that a user has
touched is exempt. `ImplementsLog` is that specification under the mapping
`log <- recorded, reported <- {rows done or skipped}`.

### 2.2 Pipeline, GenerationRun, Evaluation

*Pipeline.* `state`, `round` and `cs` are the columns, `view[w]` a worker's ORM
copy and `req.copy` that of the start request. `Flush(old, new)` is the ORM's
write: only changed columns. A start request has three steps: load and snapshot
(`StartRead`), flush and send (`StartSend`), commit (`StartCommit`). Between
the last two PostgreSQL's row lock holds other writers off (`RowUnlocked`), but
not readers, which see the old row. The operators `Advanced...` are
`advance_pipeline` on whichever copy it is called with. `completed_chapters` is
left out, since every advance derives it anew. `restored` records that a
rollback happened: it is the premise of `FailedAfterAllRounds`, since a rollback
sets the state back and leaves round and statuses as they are (section 6).

*GenerationRun.* `row` is the row with the entries of `checkpoint_data` as
fields; `copy[q]` is what request `q` has loaded, and every phase ends in
`Commit`, which merges the changed columns into the row; `checkpoint_data` is
one column, so the checkpoints of two requests overwrite each other as a whole.
`Critic` stores its report with a commit of its own and `CriticCheckpoint` the
phase with another. `Entry` is where `execute_run` enters on a given row,
including that it plans again when there is no plan, and does nothing on a
failed run that has one. The optional BVSR drafts and the tool loop, both off
by default, are left out; the critic's answer is any Boolean.

*Evaluation.* `Load` reads the chapter and marks the row in one transaction,
`Evaluate` has no session, `Store` and `StoreFailure` write the outcome without
looking at the row. `known[w]` is the status that a worker read: marking a row
that was read as `running` already writes no status. `queue[k]` counts messages
on their k-th retry. Three history variables carry the premises of the
properties: a message delivered beside its original or its retry (`repeated`),
a message that is gone without an outcome (`lost`), and the last retry used
(`spent`).

### 2.3 The writers of a chapter

`ChapterStore` holds what they share: `chapter` (text and status), `versions`
(rows in order, with their branch and active flag), `edits` (the transaction of
each user's request; a switch first loads its target, and writes nothing to a row
that it loaded as active), `queued` extractions and the `ledger` of texts that the
cognition has ingested. A text is who wrote it, its number, and whether it ends
on a whole sentence. A request is one transaction at READ COMMITTED: the rows
it will deactivate are those its first statement saw, its changes show when it
commits, and the extraction is dispatched before. Row locks are modelled where
two transactions write one row.

`ChapterStream` follows the handler of `POST /api/generate/chapter` through
draft, gate, save, version, judge, polish and rollback; the client may leave
anywhere, upon which the handler is cancelled where it stands, but a save that
has begun runs on. `ChapterTask` follows `run_async_generation` with its
rounds, gates, staging for review and salvage. `EntityExtraction` has the
marker protocol. `cast` says which of them act in a behaviour; `ChapterSystem`
composes them and `Casts` lists the pairs that are checked.

### 2.4 The services

| Module | State and steps | Abstractions |
|---|---|---|
| `Revision` | the critic's rounds, the rewrite rounds of the quality gate, merging and splicing of spans | to the gates a text is its length, its penalty and one verdict; to the splicer the sequence of its characters |
| `ModelRouter` | `call` per caller with the endpoints left to it, by entry point; the FIFO lock and next time of each endpoint, `keyIdx` of the embedding provider, `now` | an answer is which endpoint gave it; time in ticks; `generate_by_route`, `stream_by_route` and `generate_with_fallback` have no caller and are left out, and so is a prompt's `model_tier`, which is only passed with a route and then not looked at |
| `Decompile` | one open transaction of the ingest, cards committed one by one, waves with lock, redelivery, rescheduling, exceptions, refused sends and death; waves that work without the lock since Redis did not answer | two branches per slice; a card is there or not |
| `Timeline` | `facts` with the chapters they hold from and to; each statement a transaction that may fail | one character followed; values are letters |
| `Foreshadow` | `node`, `row`, and `work` per projector: read, lock, commit; the batch's two hooks with the flush of the first | a foreshadow is its status and whether the projection takes it: nodes in `blank` (type or description blank, no chapter number) are skipped |
| `Usage` | the committed row, the transaction and copy of each session, the unique insert, the row lock | a call counts one token |
| `Planner` | the issues so far and the bucket of each target | descriptions are the sets of names they contain |
| `Outlines` | book outline with its unique index, volume outlines, volumes and chapters as sets of numbered rows; streams, tasks, regeneration, users | one planned volume; a row is the operation that made it and, since an answer may name a number twice, a copy |

### 2.5 Before the prose

| Module | State and steps | Abstractions |
|---|---|---|
| `PromptCache` | rows edited and seeded by requests that invalidate before they commit; snapshots with their age; the router made under a lock; counters and their flusher | a prompt is the number of the edit that wrote it |
| `Crawl` | request, message, deliveries, the crawler's batches, the temporary file; the cutting of a text into blocks | a line is its length |
| `Sources` | rows, and visits that load, wait and write back | qualities are a few numbers |
| `BookStages` | stage A, then B and C as two tasks on one queue or one after the other; `compute_scale` and the batches of a volume | a text is the sequence of its sections |
| `OutlineChain` | the layers that count as ready, the expander's read, call and write, the user's saves | of a field only whether it is filled, and one field for each way an expansion treats what its answer lacks |
| `Scenes` | the planner's answer, strict and local plans, the scenes and their retries | words in hundreds |
| `Rebuild` | sections and batches with their gates, breaker, checkpoint, runs that die | a text is its class: plain, tagged, flawed, drift, local |

### 2.6 The memory of a book, and what drives it

| Module | State and steps | Abstractions |
|---|---|---|
| `Roster` | statisticians that read all chapters, upsert names in order, then write the statistics | a chapter is the set of its names; which of them have a row changes (`ChangeNames`), as the text does without a recompute (`EditChapter`) |
| `Cognition` | load, ask, merge, save of a ledger with its cap | a fact is a model value |
| `Compass` | the row and the copies it is written from | threads are model values |
| `Recall` | chapter and summary rows, points, digests, jobs | a text is its version, or blank; a summary the version it was made of |
| `Facts` | five kinds in order, each with rows, nodes, failures and projections | a fact is its kind and name |
| `ContextPack` | the blocks in order; a failure leaves the session dead or alive, in the core of the proximity layer it ends the layer, in `global` the index of the volume stands in; other writers' commits, the cut | a block is the version it tells of; a summary is none, terse (at most 10 characters) or longer |
| `Settings` | nodes, edges with spans, the rows projected from them, readers | one pair of figures |
| `Batch` | the task's session, hooks with theirs, events, the client | a text is its chapter, its writer and a number |
| `Arc` | the stored JSON and each request's copy | directions and chapters are counted, not told apart |

## 3. What the runs check

| Run | Module, configuration | States, time | Properties |
|---|---|---|---|
| `cascade` | `MCCascade`, `Cascade.cfg` | 178,004, 65 s | a revision is never recorded twice (`RecordedOnce`); a row that reports success has its revision in the target although two tasks share its JSON column (`SuccessIsRecorded`); without faults a terminal row stays (`TerminalIsFinal`) and a claimed row reaches one (`ClaimedRowSettles`); the queue implements `RevisionLog` (`ImplementsLog`) |
| `production` | `MCProduction`, `Production.cfg` | 186,280, 114 s | generation run: `FinalWasReviewed`, `RewriteBudget`, `VerdictHasReport`, `ResumeKeepsWork`, `RunEnds`; pipeline: `PolishedIsWhole`, `FailedAfterAllRounds`, `NoRegeneration`, `FirstPassEnds`; evaluation: `FailedAfterAllTries`, `CompletedIsFinal`, `ComesToRest` |
| `services` | `MCServices`, `MCServices.cfg` | 984,899, 88 s | writers of a chapter: `RejectedNeverIngested`, `GivenUpIsGone`, `CompletedIsWhole`, `CompletedIsServed`, `NoDraftLost`, `HeldStaysInactive`, `ActiveSurvives`; one each for the services: `RevisionSound`, `RouterSound`, `BackfillAlive`, `TimelineSound`, `Reconciled`, `UsageSound`, `PlanSound`, `OutlineSound` |
| `authoring` | `MCAuthoring`, `Authoring.cfg` | 1,580,944, 150 s | `PromptsSound`, `KnowledgeSound`, `OutlinesSound`, `RebuildSound`, `MemorySound`, `DriversSound`, `SettingsSound`, `PackSound`, each the properties of a few components, with their type invariants |
| `cascade_lost_lock`, `cascade_overwrite`, `cascade_stuck`, `pipeline_pause`, `pipeline_start`, `generation_run_status`, `stale_graph`, `pack_wrong_volume` | see section 8 | | sentences of the source that the code does not keep, section 6 |

What the properties say is in the comment above each of them; the premises that
some carry (no two at once, no failed statement, nobody at work) are history
variables of the module and are each broken by behaviours of the run, so that
the property would fail without them. Section 6 tells what happens then.

### Bounds, and why they are enough

* *Cascade.* Interference is between two tasks of a project that share a
  column; a third adds no new pair. One retry is enough for both outcomes of
  "retries left". `MaxFaults = 1` covers any one crash, failed step or failed
  send at any place; users are not bounded. Safety is proved for all values.
* *Pipeline.* Two chapters make "all", "some" and "the wrong one" different;
  one review round makes both outcomes of the bound reachable; two start
  requests make a start race with a worker and with the previous start. The
  single disturbance is combined with everything else. Safety is proved.
* *Generation run.* Two requests are a resume after a death or an overlap; two
  rewrites are the smallest budget where a rewrite is neither the first nor the
  last. Safety is proved for any number.
* *Evaluation.* Two faults are a crash and the failure of what follows it; one
  save tells an old result from a new one; one retry has both outcomes of
  "retries left" (the code's two were checked apart: the sum then has 357,601
  states, 199 s). Safety is proved.
* *Chapter.* `Casts` are the pairs of writers that meet in a row: two users, a
  user and a stream, a user and a task, a user and two extractions, with three
  texts each. A stream and a task (2.2 M states), and two streams with one text
  each (0.38 M states), were checked apart. The theorems hold for any number of
  each, all at once.
* *Services.* Two extractions are in `Timeline` one worker with three reports;
  two workers were checked apart (3.0 M states). `Foreshadow` has one request,
  one outline and the batch with two writes to the graph, one of which can blank
  a node; three writes (1.4 M states), and two requests on one node (2.9 M),
  were checked apart. Its nodes and the callers of the router are symmetric. The
  router has three endpoints of which one is throttled and one no chat endpoint,
  two callers, two attempts; time runs to the end of a second cooldown. A
  backfill of one slice has two waves, the one that works and the one that finds
  the lock taken or the chain ended; three waves (0.66 M states), and two slices
  with one wave (0.40 M), were checked apart. In `Outlines` two writers run
  three operations beside two posts of a user, on one number that an answer may
  give twice; three posts (16,497 states of this component), two numbers
  (32,174) and four operations (0.42 M) were checked apart. Lengths 5, 6, 8, 10
  lie on both sides of each band.
* *Authoring.* Each bound is the smallest at which the limit it stands for is
  met and passed: a cap of one fact is full at once, a page holds one summary,
  budgets lie on both sides of their thresholds. `Emptied` and `Terse` name the
  one chapter whose text may be emptied and the one whose summary may be too
  short for an anchor; one fault (`MaxFaults`) of a pack fails any of its
  blocks, and what it does to the later ones follows in the code without a
  second. `MaxJobs` counts syncs, summaries and deletions, `MaxFinished` the
  texts, the edits and the extractions that change the names. Larger bounds were
  checked apart, without a violation: facts with characters as well (0.19 M
  states), batches of three chapters (0.22 M), settings with three requests (9
  M), arcs with five and six requests (0.53 M), batches of two (12 M), sources
  with five visits (0.35 M), the rebuild with a breaker at three (9.5 M), recall
  with three jobs (1.5 M), rosters with three changes (1.4 M), packs with two
  target lengths (1.0 M) and with two faults (3.1 M), expansion with four saves
  (37,570), book stages with two deltas (0.11 M), crawls with three deliveries
  (1.3 M). The requests of `Settings` and the syncs of `Recall` are
  interchangeable, nothing in this run is about liveness, and TLC identifies
  states that differ only in their names.

Deadlock is not checked: each of these systems rests when its messages are
consumed and nobody makes a request.

### Fairness

Only `cascade` and `production` state liveness. A worker that is up, and a
request that is being served, keeps executing (`WF` of the disjunction of its
steps), and a process that has committed a row goes on to send its message.
These are loops of the event loop and of Celery's pool, which nothing else can
disable for ever. Nothing is assumed of users, planners, further requests,
retries beyond what the code sends, or faults, and each step has its failure
beside it. Liveness is stated under the premise that no fault has happened
wherever a fault does stop the code for good. The other sums assume no fairness
at all: their properties are about what is there, not about what comes.

## 4. What is proved

TLAPS proves the theorems below for every value of the constants that satisfies
the assumption of their module. The assumptions say only that the sets named
belong together (the projects and targets of rows exist, the mark for "nobody"
is not a worker, one set of writers is not another), that bounds are numbers,
that a row is allowed (`MaxRows > 0`), that an absent prompt is cached no longer
than one that is there (`NegTtl <= Ttl`), and that the figures of a project are
finitely many; TLC evaluates each of them. Bounds on texts, requests and faults are
arbitrary numbers in the theorems, so that they hold for behaviours of any
length.

| Theorem | Module | States the property of a run |
|---|---|---|
| `TypeCorrect` | `CascadeProofs`, `ProductionProofs` (of the generation run), `PipelineProofs`, `EvaluationProofs` | the type invariants |
| `OneRevisionPerRow`, `SuccessIsHonest`, `OneRunDecides` | `CascadeProofs` | `RecordedOnce`, `SuccessIsRecorded`, `TerminalIsFinal` |
| `CascadeImplementsLog` | `CascadeProofs` | `ImplementsLog`: the queue implements `RevisionLog` |
| `VerdictsAreReported`, `FinalTextIsReviewed`, `RewritesStayInBudget`, `ResumesKeepWork` | `ProductionProofs` | `VerdictHasReport`, `FinalWasReviewed`, `RewriteBudget`, `ResumeKeepsWork` |
| `OnlyWholeIsPolished`, `RoundsAreUsed`, `CompletedIsKept` | `PipelineProofs`, and of the sum `ProductionProofs` | `PolishedIsWhole`, `FailedAfterAllRounds`, `NoRegeneration` |
| `EveryTryIsUsed`, `CompletedStays` | `EvaluationProofs`, and of the sum `ProductionProofs` | `FailedAfterAllTries`, `CompletedIsFinal` |
| `ChapterTypes` | `ChapterProofs` | the types of the chapter's rows and writers |
| `GivenUpNeverIngested`, `GivenUpDraftIsGone`, `CompletedChapterIsWhole` | `ChapterProofs` | `RejectedNeverIngested`, `GivenUpIsGone`, `CompletedIsWhole` |
| `CompletedTaskIsServed`, `TextIsSalvaged` | `ChapterProofs` | `CompletedIsServed`, `NoDraftLost` |
| `HeldIsReleasedByUsers`, `ActiveVersionSurvives` | `ChapterProofs` | `HeldStaysInactive`, `ActiveSurvives` |
| `BackfillGoesOn`, `RowsAreNodes`, `NumbersAreUnique`, `UsageIsBounded`, `TimelineIsKept` | `ServicesProofs` | `BackfillAlive`, `Reconciled`, `OutlineSound`, `UsageSound`, `TimelineSound` |
| `PlanIsSound`, `RevisionIsSound`, `RouterIsSound` | `RevisionProofs` | `PlanSound`, `RevisionSound`, `RouterSound` |
| `PromptsAreSound`, `RebuildIsSound` | `AuthoringProofs` | `PromptsSound`, `RebuildSound` |

### 4.1 Cascade

`RecordedOnce` and `SuccessIsRecorded` are not inductive: a handler
could write back an old column. `IInv` adds that a worker at `claiming`,
`handling` or `writing` holds its project's lock (`LockInv`), that what a
handler has loaded still agrees with the target as long as no user has touched
it, and that the row's revision is not in it (`SnapInv`), and that a result
about to be written is true (`ResultInv`). The core of the argument: a handler
only writes to a target of its own project (the project comparison), so two
handlers on one target would hold one lock. A step of the queue is then an
append, a report, a withdrawal, an interference of a user or a stutter of the
log; in the step simulation the status alone decides which.

`TerminalIsFinal` rests on `FirstRun`: before the first fault a row that was
never sent has no message (`Unsent`), a pending one has one token, be it the
send that is due, a message or a worker (`OneToken`), and of a row that runs or
is over no second worker is about to claim or to decide (`OneDecides`).

### 4.2 Generation run

`VerdictHasReport` holds for overlapping requests as well: a verdict reaches
the row only from some request's copy or output, and those are reported before
(`ReportInv`). The others hold while requests do not overlap: then only one
request executes, its copy is the row, and its place in the code is the row's
phase (`CopyInv`, `PlaceInv`); so a commit simply writes the new copy
(`MergeAlone`), and the relation between phase, draft, verdict and rewrites
(`RowInv`) is kept by each phase, by death and by resume.

### 4.3 Pipeline

All three properties hold as long as one worker at a time is on the run. The
difficulty is the copies: a worker loads the row once, a start request may
wait between its flush and its commit, and either may write back what it knew
long ago. The invariant has two halves.

* `Keeps`: *what a copy says stays true.* What is still to do is not done
  (`TodoInv`); what a worker's copy (`ViewInv`) or a waiting request's
  (`RequestInv`) holds as completed is completed or gone, and nobody is about
  to do it again; a completed chapter has its text (`TextInv`); a polished run,
  or a request about to make it polished, has every chapter done (`WholeInv`).
* `Counts`: *how far rounds can be apart.* A copy may be a round behind the
  row, and writing it back could make a run fail early. It cannot: the row is
  never behind a worker's copy (`AheadInv`) and at most one round ahead when an
  advance is due (`NearInv`); a request that ends the pass finds the round it
  read, or the next if a worker was first (`PassInv`); what a worker holds as
  failed is failed until a later round takes it up (`FailedInv`); a run under
  review has a chapter to come back to (`ReviewInv`), one that is planned has
  generated nothing (`PlanInv`), and one that failed has used its rounds
  (`GaveUpInv`). This half assumes that there was no rollback; section 6 says
  what happens after one.

`FlushCases` describes the ORM's write in general; each action then has one
lemma per half. `ProductionProofs` carries the theorems over to the sum that
TLC checks: a step of the sum is a step of the component in focus or leaves
its variables alone.

### 4.4 Evaluation

Both properties rest on one fact: unless a message was delivered beside its
original, an evaluation is in one place, be it the send that is due, the queue
or one worker (`OnePlace`). Then nobody evaluates what is completed
(`CompletedIsDone`), and a failed row whose last try is unused still has a
message or a worker that will retry it (`StillTried`).

### 4.5 Chapter

The theorems hold with any number of users, streams, tasks and extractions on
one chapter at once. `Core` is their common invariant: requests name versions
that exist (`EditInv`), a stream's texts are its own (`OwnInv`), a task's text
passed what its place says (`TaskInv`), what a gate has held belongs to a task
that is done (`HeldInv`), and ledger and rejected texts do not meet
(`LedgerInv`: a text in the ledger is of a stream that is over, a rejected one
of a stream that will not ingest it). Each writer's step is summed up by what
it may do to the shared rows (`UserEffect`, `StreamEffect`, `ChapterEffect`,
`TaskEffect`), which is what the others' invariants need.
`ActiveVersionSurvives` needs that a request deactivates only rows it saw and
adds or activates one in the same commit; a switch whose target was loaded as
active does not, and is the exception that `NothingToSwitch` names.
`CompletedChapterIsWhole` adds what is known of a text that a rollback chose;
`GivenUpDraftIsGone` that a newcomer's texts are not seen before it starts
(`NewcomerInv`), and where a rejected text may still be (`GoneInv`).

### 4.6 Usage

Before the row is committed nothing else is (`NewInv`), and a session that
writes has the committed row or its own uncommitted one (`InsertInv`). A running
call has read no less than the calls that met no other and no more than those
that ended (`ReadInv`), so writing back what it read plus one keeps both
bounds; the quota column, which a call does not assign, is an administrator's.

### 4.7 Services

`ServicesProofs` proves five components inside the sum that TLC checks; what is
proved of one is proved while the others stand still, which is all they do.

* *Decompile.* `BackfillAlive` itself is inductive once it is known that an
  ingest that is over has left no slice unborn and no card due (`IngestInv`) and
  that a wave which holds the lock is at work (`LockInv`). A wave that finds the
  lock taken ends, which is allowed only if the holder will look again or is
  gone; in the second case the chain is broken until a wave gets to work.
* *Foreshadow.* A projection reads the graph and writes the rows a while later.
  What it has read is the graph, or something later is under way, has come
  first or has failed (`ReadInv` with `Later`), and the same of the rows that
  are shown (`ShownInv`). When nobody is at work and nothing failed, `Later` is
  false. That nobody makes a node twice, or brings a deleted one back, is in
  `MadeOnce` and `GoneInv`.
* *Outlines.* There is at most one book outline, and one that was made is there
  (`BookInv`): the lock on the row lets one task at a time replace it. While
  operations run alone (`Alone`), every row has the number of the operation that
  made it (`BornInv`), so that a row of the same number that is younger, and that
  no user added, would have been given again (`Again`). A writer that found no
  volume still finds none (`VolumeInv`), and where it is about to add rows there
  are none, except those that a regeneration will delete (`RoomInv`); one whose
  deletions are committed has none left (`DeadInv`). `Twins` are there only
  between the save of a regeneration and its deletions (`TwinInv`), which is why
  a regeneration cut off in between is exempt.
* *Timeline.* While extractions come in the order of the chapters, one is at
  work, in the latest chapter (`JobsInv`), and every fact is open or ended before
  it (`FactsInv`); so a fact that is closed at a chapter's first statement ends
  before the one that is opened (`PlaceInv`), and there is one latest open state,
  the one last reported (`OpenInv`, `RestInv`, and `StepInv` in between).

### 4.8 Planner, revision, router

`RevisionProofs` needs induction on numbers, which the library states with an
operator as parameter. `FromZero` states it of a *set* of numbers instead, from
the well-foundedness of `<` on the naturals (`WFMin`,
`NatLessThanWellFounded`); what is needed of sums over finite sets and of
recursive functions over sequences follows from it.

* *Planner.* The figures are finitely many. What was found and has a target is
  in a bucket (`ReachInv`, `FigureInv`), and a bucket holds no more than the
  issues about its target (`BucketInv`).
* *Revision.* What the gate keeps is long enough and no worse unless it passes
  (`GateInv`). Spans that are merged are ordered, apart, and cover the quotes
  (`GoodSpans`); behind the span under work the output is what it was, and no
  character without a quote is gone or out of order (`OutInv`).
* *Router.* Chunks come from the endpoint that is asked; an endpoint for chat
  has failed or is still to come (`CallOK`). Who sleeps at a throttled endpoint
  is the head of its queue, and the time it sleeps for still stands (`TurnOK`,
  `TimeInv`); the keys an embedding has tried are the window before the next
  (`KeyOK`, `Window`).

### 4.9 Prompts and rebuild

*Snapshots.* What a call has selected is no older than the moment it noted
before (`AskerOK`), and the age of a snapshot and what is left of its time add up
to no more than its life (`SnapOK`). *Router cache.* A loaded router has the
routes of the rows unless a commit came after the reading (`RouterOK`); a caller
has what it read in an era that may be over (`CallerOK`), and there are no more
eras than edits begun (`EraInv`). *Counters.* Counts move from calls to buffers, to
a flush and to the rows (`TicksKept`). *Rebuild.* Local text that a process has
in hand, or can find in the checkpoint, is marked or inherited (`Known`), and
what is stored is told by its marks (`StoredOK`); `Placed` says where in the book
a process can be.

### 4.10 What is only model-checked

* Liveness: `RunEnds`, `FirstPassEnds`, `ComesToRest`, `ClaimedRowSettles`.
  TLAPS has no backend for `ENABLED` and the fairness rules used here.
* `KnowledgeSound`, `OutlinesSound`, `MemorySound`, `DriversSound`,
  `SettingsSound` and `PackSound`. Their modules cut, slice, scale and page with
  filters and folds over sequences (`SelectSeq` is opaque to the provers), where
  the arithmetic of a bounded instance is the point; of the parts without it
  (`ArcSound`, `CompassSound`, `CrawlSound`) a proof is possible and not done.

## 5. What is not modelled

* Text: prompts, LLM answers, analysis of style and facts. An answer is a fresh
  text, a class of texts, or a failure. This is also why a large part of the
  source has no counterpart here: about a third of it builds prompts, parses
  answers or measures prose.
* Ask-user: the service has no caller. The run bus: its publishes are best
  effort and change no row.
* The checkers (`chinese_prose_mechanics_checker.py` and its like): pure
  functions of a text; their verdicts are outcomes.
* Backup, the front end, deployment, metrics.
* `HierarchicalMemory.assemble`, which has no caller; the strand tracker and the
  ranking of related chapters; the rules that book sources are parsed with;
  the readiness of a project's completion; projects, styles, filter words and
  other rows with one writer and no protocol.
* Within the modelled components: the wording of revisions and hints, log
  messages, the reasons stored beside a status.

## 6. Where the source disagrees with itself

Each is a run with a counterexample, listed under `findings`:

1. `cascade.py:785` says that a task that loses the lock between its sessions
   is deferred. `Retry` is raised inside the `try`, so the row is written
   failed, and the deferred message finds a terminal row (`cascade_lost_lock`).
2. `cascade.py:71` says that a terminal row is never overwritten. The status is
   read before the lock is taken and not again (`cascade_overwrite`).
3. `cascade.py:820` says that a task always lands in a terminal status. A
   worker that dies after the claim leaves the row running, and the redelivered
   message is skipped (`cascade_stuck`).
4. `api/pipeline.py:100` pauses a run; the worker tests its own copy
   (`pipeline_pause`).
5. `api/pipeline.py:74` starts a run; the message can overtake the commit
   (`pipeline_start`).
6. `models/generation_run.py:50` says that a run which works is `running`; a
   run resumed after a failed planning works with status `failed`
   (`generation_run_status`).
7. `api/versions.py:233-234` extracts a chapter again after a rollback "to keep
   the knowledge graph in sync"; the extraction returns at
   `tasks/entity_tasks.py:885`, because the marker says completed
   (`stale_graph`).
8. `context_pack.py:455` prints "【本卷大纲】", the outline of this volume;
   `context_layers/proximity.py:125` lets every volume's outline pass and takes
   the one edited most often (`pack_wrong_volume`).

### 6.1 Rests that the models reach

Nothing in the source forbids these in so many words, or the sentence is about
more than a run can refute. They are the behaviours from which the premises of
the properties protect, and what a maintainer may want to look at.

*Queues and runs.* A cascade row whose project stays busy through all retries
stays pending with no message. A pipeline whose worker died in a chapter never
ends. A rollback of a pipeline sets the state to planning and leaves round and
statuses: a restart completes the run on old texts, and with a worker or a
request at work an older round is written back, so that with two or more review
rounds the run fails before all of them (`FailedAfterAllRounds` therefore
excepts `restored`). Overlapping resumes can finish a generation run without a
final text. A chapter task whose message overtakes the commit, or whose worker
dies, stays as it is.

*Writers of a chapter.* Concurrent requests leave several active versions. A
switch loads its target, deactivates all with one statement whose `chapter_id`
is a string (`version_control.py:218-226`), so that the session does not notice,
and sets the loaded row active: if it was loaded as active nothing is written,
the chapter is left without an active version, and a rollback to it answers 500
and changes nothing. A
stream's rollback overwrites what a user saved meanwhile, and a second stream
restores the draft that the first gave up. A client that disconnects leaves a
draft known to be bad as completed. Salvage demotes a completed chapter and
writes the first draft. A scene that is retried after half of it was sent
doubles its text.

*Graph and foreshadows.* Concurrent extractions leave two open facts; two moves
within one chapter lose the location. The batch's foreshadow hook waits for its
own row until it times out after 180 s. Rows that an outline wrote are deleted
by the next projection. A node whose type or description is blank, or whose
planted chapter is no number, is passed over (`entity_tasks.py:239-253`) and its
row is deleted (533-548), though the foreshadow lives; an edit can blank it.

*Decompile, usage, planner, outlines.* A redelivered wave finds the lock of the
worker that died, and the chain of waves ends. It also ends with nobody dead: a
wave whose retry raises gives the lock back and sends no successor
(`tasks/__init__.py:221-230`), and a send that fails is swallowed (162-166,
280-284); a wave that cannot ask Redis runs without the lock (200-204). An
ingest that is lost leaves old and new slices. Token updates are lost when
calls overlap, the race for the first row of a month drops a log row, the cost
is always 0 and the user "king". An issue that is both contract and plot counts
twice when there is no outline. One answer that repeats a number gives two
volumes of it (`generation_tasks.py:1350-1360` does not add to `existing_idx`),
and a user may post a volume of any number. Overlapping saves of outlines
duplicate volumes and chapters; a regeneration cut off after its save leaves
both sets; an edited volume outline overwrites chapter outlines that were
enriched.

*Prompts and caches.* Invalidation and reset run before `get_db` commits, so a
snapshot can be stale up to its time to live and the router for good
(`api/prompts.py:345` says "must re-seed ModelRouter cache"); deleting and
seeding never reset the router. A reset during a load makes
`get_model_router_async` fail on `None` or return a router that is not loaded.
Two creates leave two active rows of one version; two lists seed twice. Counts
are lost when the flusher is cancelled or a Celery loop ends, and counted twice
when a commit's outcome is unknown.

*Books and sources.* A message before the commit leaves the row pending and the
temporary file behind. The worker never looks at a pause and overwrites it with
completed; a resume sends no message. A crawl without chapters or source leaves
the book crawling; a redelivered crawl stores blocks twice; a redelivered
upload finds its file gone and writes error over ready; a crawl whose every
fetch fails still gives a ready book, and so does an upload that is parsed to
no blocks; after a failed commit the error path commits in the same session,
which raises, and the book stays as it was, cleaning for an upload. Blocks
exceed `max_chars` by their newlines; text before the first heading is dropped.
`report_source_result` says "Called internally after each crawl attempt" and
has no caller. A score of 0 counts as unset (`or 5.0`), so that the sixth
failure raises it. Overlapping visits lose counts; two imports leave two rows
of one url, upon which every later import of it raises; one deleted source
fails its whole chunk of the test task.

*Outlines and scenes.* After a break, the client's chunks of stage A differ from
what is saved; the partial text of a failed stage B or C is used. Above 62
million words the last volume leaves its range. A parse failure of the expander
is a dict, so no `ChapterOutlineExpandError` is raised and lists and the hook
for the next chapter are emptied;
`action_budget` and `inference_ledger` are asked for and always dropped; the
model may renumber the chapter; the first book or volume row is used even when
it is degraded; what a user saves during the call is overwritten. The planner's
doc says 3 to 6 scenes, up to 20 are taken; the fallback's budget cannot reach
85 % of a target above 28,000 words.

*Rebuild script.* A split section saves a batch's local text before
`stop_if_degraded` (384-386: "默认停止写库，避免把结构草稿误当高质量大纲"); the next
run, with fresh flags, stores it unmarked. Section 七's batches are each asked
for one volume plan and the whole must have exactly one, so an obedient answer
fails every later run until the checkpoint is reset. A plan with titles of its
own passes its section's gate and fails the last one in every run. Failures are
never reset though counted as consecutive; a book-only run orphans the old
volume outlines.

*Memory.* A summary is also written by `chapter_summarizer.py:174` and
`hook_manager.py:517`, which leave the point of recall as it was, and a text
that was emptied leaves row and point (`incremental_sync.py:196`). Names that
an extraction learns after the statistics, and edits of a text, are not counted
until the next chapter. `appearance_count` adds the whole book at each
recompute; an older reading may be stored last; two tasks that lock rosters in
opposite orders deadlock, and the caught error leaves a dead transaction.
Overlapping updates of a ledger lose facts; an evicted fact becomes unknown
again, against the comment at 67-68. The compass's docstring guarantees
`min<max, width >= 50%`, which a narrow envelope breaks; overlapping requests
overwrite each other, the scale that was "persisted FIRST" included. A rebuild
of the summaries never commits them though it reports completed, and may
overwrite a newer point; a failed upsert is reported as updated; recall has no
filter on compacted points, against `memory_compactor.py:7`. After one failed
query all later blocks of a pack are empty, while a global index that cannot be
read is replaced by the local one without a word (`context_pack.py:715-724`),
and twin chapters of one index end the proximity layer alone
(`proximity.py:57`); the first of 15 anchors are never printed; the
authoritative contract is the first to be cut; style samples are never loaded,
since `rag.py:248` and 260 name functions that do not exist.

*Settings.* The extraction of settings waits for itself (`api/outlines.py:427`,
"Safe to call multiple times"). Characters are written to Postgres directly,
against `PROGRESS.md:93-94`. A repeated request for a location or membership
closes the edge and leaves it closed, against the comment "Open (idempotent)".
Chapter ends of rows stay stale; concurrent appends to a history lose one; an
older projection that commits later deletes newer relationships; regenerated
chapters keep the states of the old text.

*Batches, arcs, facts.* A database error in one chapter fails every later one; a
failed commit is reported completed; equal indices of two volumes are reported
once, and the summary can go to the other volume's chapter. A second start of an
arc gives two of index 1; a report on an arc that was completed early reopens
it; overlapping requests lose reports and directions; a direction given while a
chapter is written is cleared unused. A failed mirror lets the next projection
delete the row that was reported inserted; a failed commit after the mirror
makes twins on a rerun; a failed item silently rolls back all items;
`RUNBOOK.md:495` tells another order of writes than the code has.

## 7. Plan

Done: every component of section 1.1 down to facts out of outlines is modelled
and checked; the core protocols (cascade, pipeline, generation run, evaluation,
chapter), all of the services, the prompts with their caches and the rebuild
script are proved.

Left:

1. Proofs for `Arc`, `Compass`, `Crawl` and `Cognition`, whose invariants are
   about copies and histories.
2. A composition of `Recall` and `Batch` over the summary of a chapter, and of
   `ChapterSystem` with the deletions of `Outlines`.
3. The budget of words; the semantic cache of the rewrite endpoint.

## 8. Running

    tlc -workers 2 -config Cascade.cfg MCCascade
    tlc -workers 2 -config Production.cfg MCProduction
    tlc -workers 2 -config MCServices.cfg MCServices
    tlc -workers 2 -config Authoring.cfg MCAuthoring

The configurations that end in a counterexample are `CascadeLostLock`,
`CascadeOverwrite`, `CascadeStuck` (module `MCCascade`), `PipelinePause`,
`PipelineStart` (`Pipeline`), `GenerationRunStatus` (`GenerationRun`),
`StaleGraph` (`ChapterSystem`) and `PackWrongVolume` (`ContextPack`).

    tlapm CascadeProofs.tla

and likewise `PipelineProofs`, `EvaluationProofs`, `ProductionProofs`,
`ChapterProofs`, `ServicesProofs`, `RevisionProofs` and `AuthoringProofs`.
