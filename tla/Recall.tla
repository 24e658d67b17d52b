------------------------------- MODULE Recall -------------------------------
(***************************************************************************)
(* The summaries of the chapters of a volume, in Postgres and as points in *)
(* Qdrant: the sync after an edit (services/incremental_sync.py, memory.py)*)
(* the rebuild of a project (services/rag_rebuild.py), the compactor       *)
(* (services/memory_compactor.py) and the vector panel (api/vector_store). *)
(* A flush takes the row's lock until its transaction ends; Qdrant has no  *)
(* transactions and every upsert replaces the whole payload.  A text is    *)
(* the number of its version and a summary the version it was made of; two *)
(* summaries of one text may have the same words.                          *)
(***************************************************************************)
EXTENDS Integers, FiniteSets, FiniteSetsExt

CONSTANTS Last,         \* chapters 1..Last of the volume
          Syncs, Rebuilds, Compactors,      \* requests and Celery workers
          Nobody,       \* the holder of a free lock
          BatchSize,    \* COMPACT_BATCH_SIZE
          KeepPercent,  \* KEEP_RECENT_RATIO
          Emptied,      \* the chapters whose text may be emptied
          MaxVersions, MaxJobs      \* bounds on the texts of a chapter and on `jobs'

Indices == 1..Last
Jobs == Syncs \cup Rebuilds \cup Compactors
RecallAssumption ==
  /\ {Last, BatchSize, KeepPercent, MaxVersions, MaxJobs} \subseteq Nat
  /\ BatchSize > 0 /\ MaxVersions > 0 /\ KeepPercent <= 100 /\ Nobody \notin Jobs

VARIABLES chapter,      \* each row: its text and its summary, 0 for none or one made of no text
          rowLock,      \* who has flushed the row and not committed
          point,        \* each point: the version summarised, 0 for no point, and its flag
          digests,      \* sets of <<chapter, version>> in chapter_summaries_compacted
          job,          \* each request or task
          jobs,         \* history: jobs begun, summaries without a point and deletions of points
          missed,       \* history: chapters whose point and row may differ: an upsert failed or
                        \* was not made, a request failed after it, something else wrote
                        \* the point or the summary, or a point was written without the lock
          pruned        \* history: a point was deleted
recallVars == <<chapter, rowLock, point, digests, job, jobs, missed, pruned>>

NoPoint == [of |-> 0, flag |-> FALSE]
Free == [pc |-> "idle", at |-> 0, version |-> 0, same |-> FALSE, left |-> {}, read |-> {}, failed |-> {}, crossed |-> FALSE]

Row(v) == [text |-> v, blank |-> FALSE, summary |-> v]
\* The first chapters have been written and synced before.
RecallInit ==
  /\ \E old \in {1..n : n \in 0..Last} :
       /\ chapter = [c \in Indices |-> IF c \in old THEN Row(1) ELSE Row(0)]
       /\ point = [c \in Indices |-> IF c \in old THEN [NoPoint EXCEPT !.of = 1] ELSE NoPoint]
  /\ rowLock = [c \in Indices |-> Nobody] /\ digests = {}
  /\ job = [j \in Jobs |-> Free] /\ jobs = 0 /\ missed = {} /\ pruned = FALSE

On(j, step) == job[j].pc = step
Set(j, r) == job' = [job EXCEPT ![j] = r]
Step(j, step) == Set(j, [job[j] EXCEPT !.pc = step])
Release(j) == rowLock' = [c \in Indices |-> IF rowLock[c] = j THEN Nobody ELSE rowLock[c]]
Others(j) == {k \in Jobs \ {j} : ~On(k, "idle")}
\* A job begins; every rebuild that is at work, or begins now, has been crossed.
Begin(j, r) ==
  /\ On(j, "idle") /\ jobs < MaxJobs /\ jobs' = jobs + 1
  /\ job' = [k \in Jobs |-> IF k = j THEN [r EXCEPT !.crossed = j \in Rebuilds /\ Others(j) # {}]
                            ELSE IF k \notin Rebuilds \/ On(k, "idle") THEN job[k]
                            ELSE [job[k] EXCEPT !.crossed = TRUE]]

(* A save of a chapter waits for the row.  A text may be emptied.           *)
Save(c) ==
  /\ rowLock[c] = Nobody /\ chapter[c].text < MaxVersions
  /\ \E blank \in {FALSE, chapter[c].text > 0 /\ c \in Emptied} : chapter' = [chapter EXCEPT ![c].text = @ + 1, ![c].blank = blank]
  /\ UNCHANGED <<rowLock, point, digests, job, jobs, missed, pruned>>

(* A summary without a point: of a text read earlier, by a generation or a  *)
(* hook, or out of the plan of the volume.                                  *)
Summarize(c) ==
  /\ rowLock[c] = Nobody /\ jobs < MaxJobs /\ jobs' = jobs + 1
  /\ \E v \in 0..chapter[c].text : chapter' = [chapter EXCEPT ![c].summary = v]
  /\ missed' = missed \cup {c}
  /\ UNCHANGED <<rowLock, point, digests, job, pruned>>

-----------------------------------------------------------------------------
(* sync_chapter_edit with the text the client has just saved.  A change of  *)
(* less than 5 % ends at once.                                              *)
Sync(j, c) ==
  /\ chapter[c].text > 0
  /\ LET v == IF chapter[c].blank THEN 0 ELSE chapter[c].text IN
     Begin(j, [Free EXCEPT !.pc = "summary", !.at = c, !.version = v, !.same = chapter[c].summary = v])
  /\ UNCHANGED <<chapter, rowLock, point, digests, missed, pruned>>

\* generate_chapter_summary: the model's answer, or the head of the text; none of a blank one.
SummaryOf(j) == job[j].version
(* _regenerate_summary: the summary is flushed, which locks the row unless  *)
(* it has the words of the one that was loaded: then nothing is written.    *)
Locks(j, c) == rowLock[c] \in {Nobody, j} /\ rowLock' = [rowLock EXCEPT ![c] = j]
FlushSummary(j) ==
  /\ On(j, "summary") /\ Set(j, [job[j] EXCEPT !.pc = "embed", !.same = FALSE])
  /\ \/ Locks(j, job[j].at)
     \/ job[j].same /\ UNCHANGED rowLock
  /\ UNCHANGED <<chapter, point, digests, jobs, missed, pruned>>

(* _update_qdrant_summary asks for a second summary of the same text; where *)
(* the first is empty it does nothing.  What goes wrong in the embedding or *)
(* the upsert is logged and not raised.                                     *)
Upsert(c, v) == point' = [point EXCEPT ![c] = [of |-> v, flag |-> FALSE]]
Embed(j) ==
  LET r == job[j] IN
  /\ On(j, "embed") /\ Step(j, "commit")
  /\ \/ /\ SummaryOf(j) # 0 /\ Upsert(r.at, SummaryOf(j))
        /\ missed' = IF rowLock[r.at] = j THEN missed ELSE missed \cup {r.at}
     \/ missed' = missed \cup {r.at} /\ UNCHANGED point
  /\ UNCHANGED <<chapter, rowLock, digests, jobs, pruned>>

(* get_db commits when the answer is made.                                  *)
CommitSync(j) ==
  LET r == job[j] IN
  /\ On(j, "commit") /\ Set(j, Free) /\ Release(j)
  /\ \/ /\ rowLock[r.at] = j /\ chapter' = [chapter EXCEPT ![r.at].summary = SummaryOf(j)]
        /\ missed' = IF point[r.at].of = SummaryOf(j) THEN missed \ {r.at} ELSE missed
     \/ rowLock[r.at] # j /\ UNCHANGED <<chapter, missed>>
  /\ UNCHANGED <<point, digests, jobs, pruned>>
(* The client leaves or a statement fails: the transaction is rolled back,  *)
(* the point stays.                                                         *)
FailSync(j) ==
  /\ job[j].pc \in {"summary", "embed", "commit"} /\ j \in Syncs
  /\ Set(j, Free) /\ Release(j)
  /\ missed' = IF On(j, "commit") THEN missed \cup {job[j].at} ELSE missed
  /\ UNCHANGED <<chapter, point, digests, jobs, pruned>>

-----------------------------------------------------------------------------
(* rebuild_rag_for_project_async loads the rows with a text, once.  Spaces  *)
(* are one, the empty string is not: a blank row may be among them.         *)
Written == {c \in Indices : chapter[c].text > 0}
Loads == {S \in SUBSET Written : \A c \in Written \ S : chapter[c].blank}
Loaded(S) == [Free EXCEPT !.pc = "rebuild", !.left = S, !.read = {<<c, chapter[c].text>> : c \in S}]
LoadRows(j) ==
  /\ \E S \in Loads : Begin(j, Loaded(S))
  /\ UNCHANGED <<chapter, rowLock, point, digests, missed, pruned>>

VersionRead(j, c) == (CHOOSE p \in job[j].read : p[1] = c)[2]
Rest(j, c) == [job[j] EXCEPT !.left = @ \ {c}]
(* One chapter: summary, flush (the same words lock nothing), embedding,    *)
(* upsert.                                                                  *)
RebuildOne(j) ==
  LET c == Min(job[j].left) IN
  /\ On(j, "rebuild") /\ job[j].left # {}
  /\ Locks(j, c) \/ UNCHANGED rowLock
  /\ Upsert(c, VersionRead(j, c)) /\ missed' = missed \cup {c}
  /\ Set(j, Rest(j, c))
  /\ UNCHANGED <<chapter, digests, jobs, pruned>>
Reported(j, c) == [Rest(j, c) EXCEPT !.failed = @ \cup {c}]
(* The model or the embedding fails, before or after the flush.             *)
RebuildFails(j) ==
  LET c == Min(job[j].left) IN
  /\ On(j, "rebuild") /\ job[j].left # {}
  /\ \/ UNCHANGED rowLock
     \/ rowLock[c] = Nobody /\ rowLock' = [rowLock EXCEPT ![c] = j]
  /\ Set(j, Reported(j, c))
  /\ UNCHANGED <<chapter, point, digests, jobs, missed, pruned>>
(* "completed" or "partial" goes to Redis.  Nothing is committed.           *)
EndRebuild(j) ==
  /\ On(j, "rebuild") /\ job[j].left = {} /\ Step(j, "report") /\ Release(j)
  /\ UNCHANGED <<chapter, point, digests, jobs, missed, pruned>>
CloseRebuild(j) ==
  /\ On(j, "report") /\ Set(j, Free)
  /\ UNCHANGED <<chapter, rowLock, point, digests, jobs, missed, pruned>>
(* The worker dies; the message, acknowledged late, comes again.            *)
CrashRebuild(j) ==
  /\ On(j, "rebuild") /\ Release(j)
  /\ Set(j, [Free EXCEPT !.pc = "redeliver"])
  /\ UNCHANGED <<chapter, point, digests, jobs, missed, pruned>>
Redeliver(j) ==
  /\ On(j, "redeliver")
  /\ \E S \in Loads : Set(j, [Loaded(S) EXCEPT !.crossed = Others(j) # {}])
  /\ UNCHANGED <<chapter, rowLock, point, digests, jobs, missed, pruned>>

-----------------------------------------------------------------------------
(* compact_project_memory: the points that are not compacted, the oldest    *)
(* first, without the newest fifth of them, at least one.  The request may  *)
(* force it when there are fewer than 100.                                  *)
Present == {c \in Indices : point[c].of > 0 /\ ~point[c].flag}
Oldest(S, n) == {c \in S : Cardinality({d \in S : d < c}) < n}
ToCompact(S) ==
  LET keep == Max({1, (Cardinality(S) * KeepPercent) \div 100})
  IN IF keep < Cardinality(S) THEN Oldest(S, Cardinality(S) - keep) ELSE {}
Scroll(j) ==
  /\ Begin(j, [Free EXCEPT !.pc = "compact", !.left = ToCompact(Present),
                           !.read = {<<c, point[c].of>> : c \in ToCompact(Present)}])
  /\ UNCHANGED <<chapter, rowLock, point, digests, missed, pruned>>

NextBatch(j) == Oldest(job[j].left, BatchSize)
(* The digest is stored before its sources are marked.                      *)
StoreDigest(j) ==
  /\ On(j, "compact") /\ job[j].left # {}
  /\ digests' = digests \cup {{p \in job[j].read : p[1] \in NextBatch(j)}}
  /\ Step(j, "mark")
  /\ UNCHANGED <<chapter, rowLock, point, jobs, missed, pruned>>
(* The model or the embedding gives nothing: the batch is left.             *)
SkipBatch(j) ==
  /\ On(j, "compact") /\ job[j].left # {}
  /\ Set(j, [job[j] EXCEPT !.left = @ \ NextBatch(j)])
  /\ UNCHANGED <<chapter, rowLock, point, digests, jobs, missed, pruned>>
(* set_payload by the ids of the points; its failure is logged.             *)
Mark(j) ==
  /\ On(j, "mark")
  /\ point' \in {point, [c \in Indices |-> IF c \in NextBatch(j) /\ point[c].of > 0
                                           THEN [point[c] EXCEPT !.flag = TRUE] ELSE point[c]]}
  /\ Set(j, [job[j] EXCEPT !.pc = "compact", !.left = @ \ NextBatch(j)])
  /\ UNCHANGED <<chapter, rowLock, digests, jobs, missed, pruned>>
(* All batches are done, or the request ends with an error.                 *)
EndCompact(j) ==
  /\ job[j].pc \in {"compact", "mark"} /\ Set(j, Free)
  /\ UNCHANGED <<chapter, rowLock, point, digests, jobs, missed, pruned>>

(* delete_points of the vector panel.                                       *)
Prune(c) ==
  /\ point[c].of > 0 /\ point' = [point EXCEPT ![c] = NoPoint]
  /\ jobs < MaxJobs /\ jobs' = jobs + 1
  /\ missed' = missed \cup {c} /\ pruned' = TRUE
  /\ UNCHANGED <<chapter, rowLock, digests, job>>

RecallNext ==
  \/ \E c \in Indices : Save(c) \/ Summarize(c) \/ Prune(c)
  \/ \E j \in Syncs : (\E c \in Indices : Sync(j, c)) \/ FlushSummary(j) \/ Embed(j) \/ CommitSync(j) \/ FailSync(j)
  \/ \E j \in Rebuilds : LoadRows(j) \/ RebuildOne(j) \/ RebuildFails(j) \/ EndRebuild(j)
                         \/ CloseRebuild(j) \/ CrashRebuild(j) \/ Redeliver(j)
  \/ \E j \in Compactors : Scroll(j) \/ StoreDigest(j) \/ SkipBatch(j) \/ Mark(j) \/ EndCompact(j)

RecallSpec == RecallInit /\ [][RecallNext]_recallVars
-----------------------------------------------------------------------------
RecallTypeOK ==
  /\ \A c \in Indices : chapter[c].text \in 0..MaxVersions /\ chapter[c].summary \in 0..chapter[c].text
  /\ \A c \in Indices : point[c].of \in 0..chapter[c].text /\ rowLock[c] \in Jobs \cup {Nobody}
  /\ missed \subseteq Indices

(* Row and point of a chapter tell of the same text once nobody holds the   *)
(* row, however its syncs interleave: the upsert happens under the lock of  *)
(* the flush.  (Not after a failed upsert or commit, a rebuild, which       *)
(* commits no summary, a summary of another writer, which makes no point,   *)
(* one of a blank text, a pruned point, or a sync that locked nothing since *)
(* its summary had the words of the row's: until the next sync that does.)  *)
Paired == \A c \in Indices : rowLock[c] = Nobody /\ c \notin missed => point[c].of = chapter[c].summary
(* What is marked as compacted can be found in a digest.                    *)
KeptOrDigested ==
  \A c \in Indices : point[c].flag => \E d \in digests : \E v \in 1..MaxVersions : <<c, v>> \in d
(* The newest chapter is never compacted, unless a newer one was deleted.   *)
NewestKept ==
  LET found == {c \in Indices : point[c].of > 0} IN
  ~pruned /\ found # {} => ~point[Max(found)].flag
(* A rebuild that was not crossed and reports "completed" has left a point  *)
(* of the text it loaded for every chapter.                                 *)
RebuiltWhole ==
  \A j \in Rebuilds : On(j, "report") /\ job[j].failed = {} /\ ~job[j].crossed /\ ~pruned
    => \A p \in job[j].read : point[p[1]].of = p[2]
RecallSound == Paired /\ KeptOrDigested /\ NewestKept /\ RebuiltWhole
=============================================================================
