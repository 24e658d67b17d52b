---------------------------- MODULE ChapterTask ----------------------------
(***************************************************************************)
(* The Celery task run_async_generation for one chapter                    *)
(* (tasks/generation_tasks.py), and the request that starts it.  The       *)
(* message is sent before the request's transaction commits, and is        *)
(* acknowledged before the task runs: a worker that dies leaves the row    *)
(* as it is for ever.                                                      *)
(*                                                                         *)
(* The task drafts, judges and regenerates, passes the quality gate and    *)
(* the fact-contract gate, and saves.  What a gate holds is staged for     *)
(* review beside an inactive version.  When anything raises, text that     *)
(* was already produced is salvaged through a new session.                 *)
(***************************************************************************)
EXTENDS ChapterStore

CONSTANTS Tasks, MaxRegenerations     \* max_revise_rounds

TaskAssumption == MaxRegenerations \in Nat /\ Nobody \notin Tasks

VARIABLES task,        \* the rows of generation_tasks and the locals of the runs
          held         \* history: texts a gate has held for review
tsk == <<task, held>>

TaskStatus == {"none", "pending", "running", "evaluating", "regenerating",
               "needs_repair", "needs_review", "completed", "failed"}
Running == {"draft", "judge", "regenerate", "gate", "fact", "save", "finish", "salvage"}

NoTask == [pc |-> "idle", status |-> "none", text |-> Blank, k |-> 0, round |-> 1,
           verdict |-> "none", result |-> Blank, direct |-> FALSE, unsaved |-> FALSE]

TaskInit ==
  /\ task = [t \in Tasks |-> NoTask]
  /\ held = {}

In(t, step) == task[t].pc = step
SetTask(t, r) == task' = [task EXCEPT ![t] = r]
FreshOf(t) == {TextOf(t, task[t].k + 1, TRUE)}

(* start_async_generation flushes the row, sends the message and returns.   *)
SendTask(t) ==
  /\ t \in cast /\ In(t, "idle")
  /\ SetTask(t, [task[t] EXCEPT !.pc = "sent"])
  /\ UNCHANGED <<store, held>>

CommitTask(t) ==
  /\ task[t].pc \in {"sent", "returned"} /\ task[t].status = "none"
  /\ SetTask(t, [task[t] EXCEPT !.status = "pending"])
  /\ UNCHANGED <<store, held>>

(* A worker that does not find the row returns; the message is gone.        *)
ClaimTask(t) ==
  /\ In(t, "sent")
  /\ SetTask(t, IF task[t].status = "none"
                THEN [task[t] EXCEPT !.pc = "returned"]
                ELSE [task[t] EXCEPT !.pc = "draft", !.status = "running"])
  /\ UNCHANGED <<store, held>>

(* Scenes (twice), then one call; or one call when that was asked for.      *)
DraftTask(t) ==
  /\ In(t, "draft")
  /\ \/ \E x \in FreshOf(t) :
          SetTask(t, [task[t] EXCEPT !.pc = "judge", !.text = x, !.k = @ + 1])
     \/ SetTask(t, [task[t] EXCEPT !.pc = "done", !.status = "needs_repair"])
  /\ UNCHANGED <<store, held>>

(* The direct draft could not be committed through the old session: a new   *)
(* one writes it for review, marks the task completed, and that is all.     *)
PersistDirect(t) ==
  /\ In(t, "draft")
  /\ \E x \in FreshOf(t) :
       /\ WriteChapter(t, x, "needs_review")
       /\ SetTask(t, [task[t] EXCEPT !.pc = "done", !.status = "completed", !.text = x,
                                     !.k = @ + 1, !.result = x, !.direct = TRUE])
  /\ UNCHANGED <<versions, edits, queued, ledger, held>>

(* One round of evaluation.  No verdict when it timed out; "fail" leads     *)
(* out of the loop too, when the answer could not be parsed, auto_revise is *)
(* off or the rounds are used up.                                           *)
JudgeTask(t) ==
  /\ In(t, "judge")
  /\ \E v \in {"none", "pass", "fail"}, step \in {"gate", "regenerate"} :
       /\ step = "regenerate" => v = "fail" /\ task[t].round <= MaxRegenerations
       /\ SetTask(t, [task[t] EXCEPT !.pc = step, !.verdict = v,
                        !.status = IF step = "gate" THEN "evaluating" ELSE "regenerating"])
  /\ UNCHANGED <<store, held>>

(* Spans or the whole text.  A failure leaves the loop with the old text.   *)
Regenerate(t) ==
  /\ In(t, "regenerate")
  /\ \/ \E x \in FreshOf(t) :
          SetTask(t, [task[t] EXCEPT !.pc = "judge", !.text = x, !.k = @ + 1, !.round = @ + 1])
     \/ SetTask(t, [task[t] EXCEPT !.pc = "gate", !.status = "needs_repair"])
     \/ SetTask(t, [task[t] EXCEPT !.pc = "gate"])
  /\ UNCHANGED <<store, held>>

-----------------------------------------------------------------------------
(* _stage_needs_review_chapter_text with an inactive version: one commit.   *)
Hold(t, x) ==
  /\ WriteChapter(t, x, "needs_review")
  /\ AddInactive(x)
  /\ SetTask(t, [task[t] EXCEPT !.pc = "done", !.status = "needs_review", !.result = x])
  /\ held' = held \cup {x}
  /\ UNCHANGED <<edits, queued, ledger>>

(* The gate may rewrite the text it passes, after the last evaluation.      *)
QualityGate(t) ==
  /\ In(t, "gate")
  /\ \/ \E x \in FreshOf(t) \cup {task[t].text} :
          /\ SetTask(t, [task[t] EXCEPT !.pc = "fact", !.text = x, !.k = x.k])
          /\ UNCHANGED <<store, held>>
     \/ \E x \in FreshOf(t) \cup {task[t].text} : Hold(t, x)

FactGate(t) ==
  /\ In(t, "fact")
  /\ \/ SetTask(t, [task[t] EXCEPT !.pc = "save"]) /\ UNCHANGED <<store, held>>
     \/ Hold(t, task[t].text)

Passed(t) == task[t].verdict = "pass"

UnlessFailed(t) == IF task[t].verdict = "fail" THEN "needs_review" ELSE "completed"   \* mutant
FinalStatus(t) == IF Passed(t) THEN "completed" ELSE "needs_review"

(* The chapter and the version in one commit; the ledger only when passed.  *)
FinalSave(t) ==
  /\ In(t, "save")
  /\ WriteChapter(t, task[t].text, FinalStatus(t))
  /\ IF Passed(t)
     THEN ReplaceActive(task[t].text) /\ ledger' \in {ledger, ledger \cup {task[t].text}}
     ELSE AddInactive(task[t].text) /\ UNCHANGED ledger
  /\ SetTask(t, [task[t] EXCEPT !.pc = "finish"])
  /\ UNCHANGED <<edits, queued, held>>

FinishTask(t) ==
  /\ In(t, "finish")
  /\ SetTask(t, [task[t] EXCEPT !.pc = "done", !.result = task[t].text, !.status = FinalStatus(t)])
  /\ UNCHANGED <<store, held>>

-----------------------------------------------------------------------------
(* An exception outside the guarded calls.  What can be salvaged is         *)
(* full_text, which is the first draft until the loop has ended, or before  *)
(* that the chunks collected so far.                                        *)
AfterLoopOnly(t) ==   \* mutant
  IF task[t].pc \in {"draft", "judge", "regenerate"} THEN {Blank} ELSE {task[t].text}
Salvageable(t) ==
  CASE In(t, "draft")                    -> {Blank, TextOf(t, task[t].k + 1, FALSE)}
    [] task[t].pc \in {"judge", "regenerate"} -> {TextOf(t, 1, TRUE)}
    [] OTHER                             -> {task[t].text}

Raise(t) ==
  /\ task[t].pc \in Running \ {"salvage"}
  /\ \E x \in Salvageable(t) : SetTask(t, [task[t] EXCEPT !.pc = "salvage", !.text = x])
  /\ UNCHANGED <<store, held>>

Salvage(t) ==
  /\ In(t, "salvage") /\ task[t].text # Blank
  /\ WriteChapter(t, task[t].text, "needs_review")
  /\ SetTask(t, [task[t] EXCEPT !.pc = "done", !.status = "needs_review", !.result = task[t].text])
  /\ UNCHANGED <<versions, edits, queued, ledger, held>>

(* There is no text, or its commit failed.  When no session can write, even *)
(* the failure goes unrecorded.                                             *)
FailTask(t) ==
  /\ In(t, "salvage")
  /\ \E s \in {"failed", task[t].status} :
       SetTask(t, [task[t] EXCEPT !.pc = "done", !.status = s, !.unsaved = task[t].text # Blank])
  /\ UNCHANGED <<store, held>>

CrashTask(t) ==
  /\ task[t].pc \in Running
  /\ SetTask(t, [NoTask EXCEPT !.pc = "dead", !.status = task[t].status])
  /\ UNCHANGED <<store, held>>

TaskNext ==
  \E t \in Tasks :
    \/ SendTask(t) \/ CommitTask(t) \/ ClaimTask(t) \/ DraftTask(t) \/ PersistDirect(t)
    \/ JudgeTask(t) \/ Regenerate(t) \/ QualityGate(t) \/ FactGate(t) \/ FinalSave(t)
    \/ FinishTask(t) \/ Raise(t) \/ Salvage(t) \/ FailTask(t) \/ CrashTask(t)

-----------------------------------------------------------------------------
(* A completed task has passed its last evaluation, and the text it reports *)
(* is that of a version, whatever was judged, rewritten, held or raised on  *)
(* the way; the one exception is a direct draft whose first commit failed,  *)
(* which is completed without evaluation or version.                        *)
CompletedIsServed ==
  \A t \in Tasks : task[t].status = "completed" /\ ~task[t].direct
    => Passed(t) /\ \E i \in DOMAIN versions : versions[i].text = task[t].result

(* Text that was produced is not lost with its task: a task that failed had *)
(* none, or the commit of the salvage failed as well.                       *)
NoDraftLost ==
  \A t \in Tasks : task[t].status = "failed" => task[t].k = 0 \/ task[t].unsaved

(* A text that a gate has held for review becomes an active version only by *)
(* a user's request, never by a generator.                                  *)
OnlyUsersRelease ==
  \A i \in Active(versions') \ Active(versions) : versions'[i].text \in held' => edits' # edits
HeldStaysInactive == [][OnlyUsersRelease]_<<versions, edits, held>>
=============================================================================
