-------------------------- MODULE EntityExtraction --------------------------
(***************************************************************************)
(* The Celery task entities.extract_chapter (tasks/entity_tasks.py), which *)
(* every place that saves a chapter dispatches (services/entity_dispatch.py)*)
(* and which brings the knowledge graph and its copy in Postgres to the    *)
(* text of the chapter.  A marker in Neo4j, keyed by the chapter, records  *)
(* that it was done.                                                       *)
(***************************************************************************)
EXTENDS ChapterStore

CONSTANTS Extractors,       \* Celery workers
          MaxRetries        \* max_retries

ExtractionAssumption == MaxRetries \in Nat

VARIABLES extractor,   \* the task each worker runs
          marker,      \* status of the ExtractionMarker node
          graph,       \* the text the graph describes
          missed       \* history: did the model fail to answer an extraction
extr == <<extractor, marker, graph, missed>>

NoJob == [pc |-> "idle", tries |-> 0, text |-> Blank]

ExtractionInit ==
  /\ extractor = [w \in Extractors |-> NoJob]
  /\ \/ marker = "none" /\ graph = Blank
     \/ /\ chapter.text # Blank /\ cast \cap Extractors # {}      \* extracted before
        /\ marker = "completed" /\ graph = chapter.text
  /\ missed = FALSE

AtW(w, step) == extractor[w].pc = step
SetW(w, r) == extractor' = [extractor EXCEPT ![w] = r]

Take(w) ==
  /\ AtW(w, "idle") /\ w \in cast /\ queued > 0
  /\ queued' = queued - 1
  /\ SetW(w, [NoJob EXCEPT !.pc = "claim"])
  /\ UNCHANGED <<chapter, versions, edits, ledger, marker, graph, missed>>

(* _claim_marker: the MERGE leaves the status it finds, so it stops only    *)
(* those that come after a completion.                                      *)
Claim(w) ==
  /\ AtW(w, "claim")
  /\ marker' = IF marker = "none" THEN "new" ELSE marker
  /\ SetW(w, IF marker = "completed" THEN NoJob ELSE [extractor[w] EXCEPT !.pc = "read"])
  /\ UNCHANGED <<store, graph, missed>>

(* _load_chapter_text sees what is committed; a blank chapter is marked     *)
(* failed without a retry.                                                  *)
ReadChapter(w) ==
  /\ AtW(w, "read")
  /\ IF chapter.text = Blank
     THEN marker' = "failed" /\ SetW(w, NoJob)
     ELSE UNCHANGED marker /\ SetW(w, [extractor[w] EXCEPT !.pc = "extract", !.text = chapter.text])
  /\ UNCHANGED <<store, graph, missed>>

(* extract_and_update logs an answer that fails or cannot be read, and      *)
(* returns as if it had updated the graph.                                  *)
Extract(w) ==
  /\ AtW(w, "extract")
  /\ \/ graph' = extractor[w].text /\ UNCHANGED missed
     \/ UNCHANGED graph /\ missed' = TRUE
  /\ SetW(w, [extractor[w] EXCEPT !.pc = "mark"])
  /\ UNCHANGED <<store, marker>>

MarkCompleted(w) ==
  /\ AtW(w, "mark")
  /\ marker' = "completed"
  /\ SetW(w, NoJob)
  /\ UNCHANGED <<store, graph, missed>>

(* Any exception after the claim; Celery runs the task again.               *)
FailExtraction(w) ==
  /\ extractor[w].pc \in {"read", "extract"}
  /\ marker' = "failed"
  /\ SetW(w, IF extractor[w].tries < MaxRetries
             THEN [NoJob EXCEPT !.pc = "claim", !.tries = extractor[w].tries + 1]
             ELSE NoJob)
  /\ UNCHANGED <<store, graph, missed>>

ExtractionNext ==
  \E w \in Extractors :
    \/ Take(w) \/ Claim(w) \/ ReadChapter(w) \/ Extract(w) \/ MarkCompleted(w)
    \/ FailExtraction(w)

-----------------------------------------------------------------------------
(* "rolled-back content is the new canonical body, so re-extract entities   *)
(* to keep the knowledge graph in sync" (api/versions.py).  When the        *)
(* chapter's text is that of a rollback, nothing is left to run, the marker *)
(* says completed and the model has always answered, the graph describes    *)
(* that text.                                                               *)
GraphFollowsRollback ==
  /\ RolledBack /\ queued = 0 /\ marker = "completed" /\ ~missed
  /\ \A w \in Extractors : AtW(w, "idle")
  /\ \A u \in Users : edits[u].pc \in {"idle", "done"}
  => graph = chapter.text
=============================================================================
