------------------------------ MODULE Pipeline ------------------------------
(***************************************************************************)
(* One production pipeline run: src/backend/app/services/pipeline_service, *)
(* its HTTP handlers in api/pipeline.py, and the Celery task               *)
(* _run_pipeline_async that generates the chapters.                        *)
(*                                                                         *)
(* Both sides advance the same row of pipeline_runs from their own ORM     *)
(* copy of it.  A start request flushes its writes, sends the Celery       *)
(* message and only then commits (get_db commits after the handler); the   *)
(* worker loads the row once and never reads it again.  An ORM flush       *)
(* writes only the columns that differ from the copy.                      *)
(*                                                                         *)
(* completed_chapters is left out: every advance derives it again from     *)
(* the chapter statuses.  One start request is in progress at a time.      *)
(***************************************************************************)
EXTENDS Naturals, FiniteSets, FiniteSetsExt

CONSTANTS Chapter,           \* chapter_idx of the chapters of the run
          Worker,            \* Celery workers
          NoSnapshot,        \* snapshot_json is null
          MaxReviewRounds,   \* max_review_rounds of the run
          MaxStarts,         \* bound on start requests
          MaxDisturbances    \* bound on acts and faults together

PipelineAssumption ==
  /\ Chapter \subseteq Nat /\ IsFiniteSet(Chapter) /\ Chapter # {}
  /\ MaxReviewRounds \in Nat
  /\ {MaxStarts, MaxDisturbances} \subseteq Nat

VARIABLES state,      \* pipeline_runs.state
          round,      \* pipeline_runs.review_round
          cs,         \* pipeline_chapter_statuses.state; "gone" once deleted
          text,       \* chapters whose content_text was generated by the run
          snapshot,   \* pipeline_runs.snapshot_json: the set text, or NoSnapshot
          queue,      \* messages for the worker
          req,        \* the start request in progress
          pc,         \* where each worker is
          view,       \* each worker's copy of the row, and the statuses it wrote
          todo,       \* chapters each worker has loaded as pending
          starts,     \* start requests so far
          acts,       \* pauses, rollbacks and deletions so far
          faults,     \* crashes, failed sends and early redeliveries so far
          overlap,    \* history: two workers have been active at once
          restored    \* history: the run has been rolled back

row    == <<state, round, cs, text, snapshot>>
worker == <<pc, view, todo>>
bounds == <<starts, acts, faults>>
hist   == <<overlap, restored>>
vars   == <<row, queue, req, worker, bounds, hist>>

State    == {"planning", "generating", "reviewing", "polishing", "completed",
             "paused", "failed"}
CsState  == {"pending", "generating", "completed", "failed", "gone"}
Statuses == [Chapter -> CsState]
Copy     == [state : State, round : 0 .. MaxReviewRounds, cs : Statuses]
Idle     == [phase |-> "idle"]

Fresh == [state |-> state, round |-> round, cs |-> cs]

NothingHandled == [c \in Chapter |-> "pending"]
Blank == [state |-> "planning", round |-> 0, cs |-> NothingHandled]

Init ==
  /\ state = "planning" /\ round = 0
  /\ cs = [c \in Chapter |-> "pending"]
  /\ text = {} /\ snapshot = NoSnapshot
  /\ queue = 0 /\ req = Idle
  /\ pc = [w \in Worker |-> "idle"]
  /\ view = [w \in Worker |-> Blank]
  /\ todo = [w \in Worker |-> {}]
  /\ starts = 0 /\ acts = 0 /\ faults = 0
  /\ overlap = FALSE /\ restored = FALSE

-----------------------------------------------------------------------------
(* advance_pipeline, on the copy v that its session holds.                 *)

In(v, s)     == {c \in Chapter : v.cs[c] = s}
AllBegun(v) == In(v, "pending") = {}
AllWritten(v) == Cardinality(In(v, "completed")) >= Cardinality(Chapter)
AllProcessed(v) ==
  Cardinality(In(v, "completed") \cup In(v, "failed")) >= Cardinality(Chapter)

OneRoundTooFew(v)  == v.round + 1 < MaxReviewRounds
MoreRounds(v)      == v.round < MaxReviewRounds

AdvancedState(v) ==
  CASE v.state = "planning" -> "generating"
    [] v.state = "generating" /\ AllProcessed(v) ->
         IF In(v, "failed") = {} THEN "polishing"
         ELSE IF MoreRounds(v) THEN "reviewing" ELSE "failed"
    [] v.state = "reviewing" -> "generating"
    [] v.state = "polishing" -> "completed"
    [] OTHER -> v.state

AdvancedRound(v) ==
  IF v.state = "generating" /\ AdvancedState(v) = "reviewing"
  THEN v.round + 1 ELSE v.round

AdvancedCs(v) ==
  [c \in Chapter |-> IF v.state = "reviewing" /\ v.cs[c] = "failed"
                     THEN "pending" ELSE v.cs[c]]

Advanced(v) ==
  [state |-> AdvancedState(v), round |-> AdvancedRound(v), cs |-> AdvancedCs(v)]

\* The flush of a copy that was old when loaded and is new now: a column
\* that has not changed in the copy keeps what the table says.
Flush(old, new) ==
  /\ state' = IF new.state # old.state THEN new.state ELSE state
  /\ round' = IF new.round # old.round THEN new.round ELSE round
  /\ cs' = [c \in Chapter |-> IF new.cs[c] # old.cs[c] /\ cs[c] # "gone"
                              THEN new.cs[c] ELSE cs[c]]

\* A flushed and uncommitted UPDATE of the pipeline row keeps others waiting.
RowUnlocked == req.phase # "flushed"

-----------------------------------------------------------------------------
(* The HTTP handlers.                                                      *)

\* The snapshot; rollback treats an empty one as none.
Restorable == IF \A c \in Chapter : cs[c] = "gone" THEN NoSnapshot ELSE text

\* start_pipeline loads the row and takes the snapshot.
StartRead ==
  /\ req = Idle
  /\ starts < MaxStarts
  /\ state # "completed"
  /\ starts' = starts + 1
  /\ req' = [phase |-> "read", copy |-> Fresh, text |-> Restorable]
  /\ UNCHANGED <<row, queue, worker, acts, faults, hist>>

\* It flushes the advanced row and sends the message.
StartSend ==
  /\ req.phase = "read"
  /\ req' = [req EXCEPT !.phase = "flushed"]
  /\ queue' = queue + 1
  /\ UNCHANGED <<row, worker, bounds, hist>>

\* The send raises, and get_db rolls back.
StartSendFails ==
  /\ req.phase = "read"
  /\ acts + faults < MaxDisturbances
  /\ faults' = faults + 1
  /\ req' = Idle
  /\ UNCHANGED <<row, queue, worker, starts, acts, hist>>

\* get_db commits after the handler has returned.
StartCommit ==
  /\ req.phase = "flushed"
  /\ Flush(req.copy, Advanced(req.copy))
  /\ snapshot' = req.text
  /\ req' = Idle
  /\ UNCHANGED <<text, queue, worker, bounds, hist>>

Pause ==
  /\ RowUnlocked
  /\ acts + faults < MaxDisturbances
  /\ acts' = acts + 1
  /\ state' = "paused"
  /\ UNCHANGED <<round, cs, text, snapshot, queue, req, worker, starts, faults, hist>>

\* Chapter texts and the run's state go back; the chapter statuses do not.
Rollback ==
  /\ RowUnlocked
  /\ acts + faults < MaxDisturbances
  /\ snapshot # NoSnapshot
  /\ acts' = acts + 1
  /\ text' = snapshot
  /\ state' = "planning"
  /\ restored' = TRUE
  /\ UNCHANGED <<round, cs, snapshot, queue, req, worker, starts, faults,
                 overlap>>

\* A chapter is deleted, and its status row by ON DELETE CASCADE.
DeleteChapter(c) ==
  /\ acts + faults < MaxDisturbances
  /\ cs[c] # "gone"
  /\ acts' = acts + 1
  /\ cs' = [cs EXCEPT ![c] = "gone"]
  /\ UNCHANGED <<state, round, text, snapshot, queue, req, worker, starts, faults, hist>>

-----------------------------------------------------------------------------
(* The worker.                                                             *)

Goto(w, s) == pc' = [pc EXCEPT ![w] = s]
Active(w)  == pc[w] # "idle"

\* The chapters the worker's SELECT returns.
AnyStatus == {c \in Chapter : cs[c] # "gone"}
Selected  == {c \in Chapter : cs[c] = "pending"}

\* A delivery of the message.  In any other state the task returns at once.
Receive(w) ==
  /\ ~Active(w)
  /\ queue > 0
  /\ queue' = queue - 1
  /\ IF state \notin {"generating", "planning"}
     THEN UNCHANGED <<worker, overlap>>
     ELSE /\ view' = [view EXCEPT ![w] = Fresh]
          /\ Goto(w, "received")
          /\ overlap' = (overlap \/ \E v \in Worker : Active(v))
          /\ UNCHANGED todo
  /\ UNCHANGED <<row, req, bounds, restored>>

\* planning becomes generating, and the pending chapters are selected.
LoadPending(w) ==
  /\ pc[w] = "received"
  /\ \/ /\ view[w].state = "planning"
        /\ RowUnlocked
        /\ state' = "generating"
     \/ /\ view[w].state = "generating"
        /\ UNCHANGED state
  /\ view' = [view EXCEPT ![w].state = "generating"]
  /\ todo' = [todo EXCEPT ![w] = Selected]
  /\ Goto(w, "loop")
  /\ UNCHANGED <<round, cs, text, snapshot, queue, req, bounds, hist>>

\* The chapter the worker is at, while it has any left.
At(w, c) == todo[w] # {} /\ c = Min(todo[w])

\* The loop's next chapter, unless the worker's copy of the row says paused.
BeginChapter(w, c) ==
  /\ pc[w] = "loop" /\ At(w, c)
  /\ view[w].state # "paused"
  /\ RowUnlocked
  /\ cs[c] # "gone"
  /\ cs' = [cs EXCEPT ![c] = "generating"]
  /\ Goto(w, "writing")
  /\ UNCHANGED <<state, round, text, snapshot, queue, req, view, todo, bounds, hist>>

EndChapter(w, c, outcome) ==
  /\ pc[w] = "writing" /\ At(w, c)
  /\ cs[c] # "gone"
  /\ cs' = [cs EXCEPT ![c] = outcome]
  /\ view' = [view EXCEPT ![w].cs[c] = outcome]
  /\ todo' = [todo EXCEPT ![w] = @ \ {c}]
  /\ Goto(w, "loop")
  /\ UNCHANGED <<state, round, snapshot, queue, req, bounds, hist>>

ChapterWritten(w, c) ==
  /\ RowUnlocked
  /\ EndChapter(w, c, "completed")
  /\ text' = text \cup {c}

ChapterFails(w, c) ==
  /\ EndChapter(w, c, "failed")
  /\ UNCHANGED text

Stop(w) ==
  /\ Goto(w, "idle")
  /\ todo' = [todo EXCEPT ![w] = {}]
  /\ view' = [view EXCEPT ![w] = Blank]

\* The chapter was deleted, and its status row with it: the UPDATE of the
\* status matches no row, and the exception ends the task.
ChapterGone(w, c) ==
  /\ pc[w] \in {"loop", "writing"} /\ At(w, c)
  /\ cs[c] = "gone"
  /\ Stop(w)
  /\ UNCHANGED <<row, queue, req, bounds, hist>>

\* What advance_pipeline sees in the worker's session: the statuses the
\* worker holds are as it left them, and the others as they are now.
SeenBy(w) ==
  [view[w] EXCEPT !.cs =
     [c \in Chapter |-> IF @[c] # "pending" /\ cs[c] # "gone" THEN @[c] ELSE cs[c]]]

FinishRun(w) ==
  /\ pc[w] = "loop"
  /\ todo[w] = {} \/ view[w].state = "paused"
  /\ RowUnlocked
  /\ Flush(SeenBy(w), Advanced(SeenBy(w)))
  /\ Stop(w)
  /\ UNCHANGED <<text, snapshot, queue, req, bounds, hist>>

\* The worker dies; the broker may deliver the message again.
Crash(w) ==
  /\ Active(w)
  /\ acts + faults < MaxDisturbances
  /\ faults' = faults + 1
  /\ Stop(w)
  /\ \E again \in {0, 1} : queue' = queue + again
  /\ UNCHANGED <<row, req, starts, acts, hist>>

\* A run longer than the broker's visibility timeout is delivered again.
Redeliver(w) ==
  /\ Active(w)
  /\ acts + faults < MaxDisturbances
  /\ faults' = faults + 1
  /\ queue' = queue + 1
  /\ UNCHANGED <<row, req, worker, starts, acts, hist>>

-----------------------------------------------------------------------------
WorkerStep(w) ==
  \/ Receive(w) \/ LoadPending(w) \/ FinishRun(w)
  \/ \E c \in Chapter : \/ BeginChapter(w, c) \/ ChapterWritten(w, c)
                        \/ ChapterFails(w, c) \/ ChapterGone(w, c)

ApiStep == StartSend \/ StartCommit

Next ==
  \/ StartRead \/ ApiStep \/ StartSendFails \/ Pause \/ Rollback
  \/ \E c \in Chapter : DeleteChapter(c)
  \/ \E w \in Worker : WorkerStep(w) \/ Crash(w) \/ Redeliver(w)

Spec == Init /\ [][Next]_vars

\* Requests run to their end and workers keep working.  Nobody has to start,
\* pause, roll back or delete anything, and nothing has to fail.
FairSpec ==
  Spec /\ WF_vars(ApiStep) /\ \A w \in Worker : WF_vars(WorkerStep(w))

-----------------------------------------------------------------------------
TypeOK ==
  /\ state \in State
  /\ round \in 0 .. MaxReviewRounds
  /\ cs \in Statuses
  /\ text \subseteq Chapter
  /\ snapshot \in {NoSnapshot} \cup SUBSET Chapter
  /\ queue \in Nat
  /\ req \in {Idle} \cup [phase : {"read", "flushed"}, copy : Copy,
                         text : {NoSnapshot} \cup SUBSET Chapter]
  /\ pc \in [Worker -> {"idle", "received", "loop", "writing"}]
  /\ view \in [Worker -> Copy]
  /\ todo \in [Worker -> SUBSET Chapter]
  /\ starts \in Nat /\ acts \in Nat /\ faults \in Nat
  /\ overlap \in BOOLEAN /\ restored \in BOOLEAN

\* A run is only polished or completed when every chapter is written and its
\* text is there, whichever side advanced it, unless two workers have been on
\* it at once or its texts were rolled back.
PolishedIsWhole ==
  state \in {"polishing", "completed"} /\ ~overlap =>
    \A c \in Chapter :
      \/ cs[c] = "gone"
      \/ cs[c] = "completed" /\ (c \in text \/ restored)

\* A run gives up only when all its review rounds are used and it still has a
\* chapter that failed, unless two workers have been on it at once or its texts
\* were rolled back: a rollback sets the state back to planning and leaves the
\* round and the chapters' statuses, so that a copy of a round long ago can
\* still be written back.
FailedAfterAllRounds ==
  state = "failed" /\ ~overlap /\ ~restored =>
    round = MaxReviewRounds /\ \E c \in Chapter : cs[c] \in {"failed", "gone"}

\* With one worker at a time, a completed chapter is never generated again,
\* not even when the run is restarted, redelivered or resumed after a crash.
NoRegeneration ==
  [][~overlap' => \A c \in Chapter : cs[c] = "completed" =>
                                       cs'[c] \in {"completed", "gone"}]_vars

\* Left alone, a run that was started gets to the end of its first pass.
FirstPassEnds ==
  state = "generating" /\ round = 0 ~>
    state # "generating" \/ faults > 0 \/ acts > 0
-----------------------------------------------------------------------------
(* What the source says and the code does not do.                          *)

\* "Pause a running pipeline." (api/pipeline.py:100), and the worker's
\* "if pipeline.state == 'paused': break": no chapter begins while the run
\* is paused.
PauseStops ==
  [][state = "paused" => \A c \in Chapter : cs'[c] = "generating" => cs[c] = "generating"]_vars

\* "Start or resume pipeline execution." (api/pipeline.py:74): a run that a
\* start request set to generating is generated, failures aside.
StartRuns ==
  state = "generating" ~> state # "generating" \/ faults > 0 \/ acts > 0
=============================================================================
