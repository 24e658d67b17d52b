----------------------------- MODULE Evaluation -----------------------------
(***************************************************************************)
(* One asynchronous chapter evaluation: the row of evaluate_tasks that     *)
(* POST /api/evaluate/start inserts (src/backend/app/api/evaluate.py), and *)
(* the Celery task of tasks/evaluation_tasks.py that takes it from pending *)
(* to completed or failed.                                                 *)
(*                                                                         *)
(* The worker reads the chapter and marks the row in one session, calls    *)
(* the LLM without one, and writes the outcome in another.  Only a         *)
(* completed row stops a delivery, so a delivery that is repeated (a       *)
(* retry, a worker that died, a message that outlived the broker's         *)
(* visibility timeout) evaluates the chapter again.                        *)
(*                                                                         *)
(* A chapter text is the number of times the chapter was saved, and a      *)
(* result is the text it judges.                                           *)
(***************************************************************************)
EXTENDS Naturals

CONSTANTS Worker,
          None,          \* result_json is null
          MaxRetries,    \* max_retries of the Celery task
          MaxEdits,      \* bound on saves of the chapter
          MaxFaults      \* bound on crashes, failed steps and sends, redeliveries

EvaluationAssumption ==
  /\ {MaxRetries, MaxEdits, MaxFaults} \subseteq Nat
  /\ None \notin Nat

VARIABLES status,     \* evaluate_tasks.status; "absent" before, "deleted" after
          result,     \* evaluate_tasks.result_json
          text,       \* the chapter's content_text
          empty,      \* it is blank
          toSend,     \* the row is committed and its message not sent yet
          queue,      \* queue[k]: messages on their k-th retry
          pc,         \* where each worker is
          tries,      \* the retry each worker's message is on
          known,      \* the status each worker has read
          seen,       \* the text each worker has read
          faults,     \* how many of the MaxFaults have happened
          repeated,   \* history: a message was delivered beside its original or retry
          lost,       \* history: a message is gone and no outcome written
          spent       \* history: the last retry was used, or the chapter blank

row    == <<status, result>>
chap   == <<text, empty>>
broker == <<toSend, queue>>
job    == <<tries, known, seen>>
worker == <<pc, job>>
hist   == <<repeated, lost, spent>>
vars   == <<row, chap, broker, worker, faults, hist>>

Status == {"absent", "pending", "running", "completed", "failed", "deleted"}
Tries  == 0 .. MaxRetries
Steps  == {"idle", "loading", "evaluating", "storing", "failing", "settling",
           "acking", "retried"}

Init ==
  /\ status = "absent" /\ result = None
  /\ text = 1 /\ empty = FALSE
  /\ toSend = FALSE /\ queue = [k \in Tries |-> 0]
  /\ pc = [w \in Worker |-> "idle"]
  /\ tries = [w \in Worker |-> 0]
  /\ known = [w \in Worker |-> "pending"]
  /\ seen = [w \in Worker |-> 0]
  /\ faults = 0 /\ repeated = FALSE /\ lost = FALSE /\ spent = FALSE

-----------------------------------------------------------------------------
(* The API process.                                                        *)

\* start_evaluate_task up to its commit; a blank chapter is refused.
StartEvaluation ==
  /\ status = "absent"
  /\ ~empty
  /\ status' = "pending"
  /\ toSend' = TRUE
  /\ UNCHANGED <<result, chap, queue, worker, faults, hist>>

\* The message is sent after the commit.
Dispatch ==
  /\ toSend
  /\ toSend' = FALSE
  /\ queue' = [queue EXCEPT ![0] = @ + 1]
  /\ UNCHANGED <<row, chap, worker, faults, hist>>

\* send_task raises, or the process dies before it: the row stays pending.
DispatchFails ==
  /\ toSend
  /\ faults < MaxFaults
  /\ faults' = faults + 1
  /\ toSend' = FALSE
  /\ lost' = TRUE
  /\ UNCHANGED <<row, chap, queue, worker, repeated, spent>>

-----------------------------------------------------------------------------
(* The worker.                                                             *)

Goto(w, s) == pc' = [pc EXCEPT ![w] = s]

\* The end of a task, and of what the worker knew of it.
Forget(w) ==
  /\ Goto(w, "idle")
  /\ tries' = [tries EXCEPT ![w] = 0]
  /\ known' = [known EXCEPT ![w] = "pending"]
  /\ seen' = [seen EXCEPT ![w] = 0]

OnlyPending  == status = "pending"
EvenWhenDone == status # "deleted"
\* A delivery goes on, unless the row is completed or gone.
Proceeds == status \notin {"completed", "deleted"}

Receive(w, k) ==
  /\ pc[w] = "idle"
  /\ queue[k] > 0
  /\ queue' = [queue EXCEPT ![k] = @ - 1]
  /\ IF Proceeds
     THEN /\ tries' = [tries EXCEPT ![w] = k]
          /\ known' = [known EXCEPT ![w] = status]
          /\ Goto(w, "loading")
          /\ UNCHANGED seen
     ELSE UNCHANGED worker
  /\ UNCHANGED <<row, chap, toSend, faults, hist>>

\* The UPDATE has the status only if it is not the one that was read.
Marked(w, s) == IF known[w] = s THEN status ELSE s

\* The chapter is read, and the row marked running in the same transaction.
\* The row is not read again, and the UPDATE is by primary key.
Load(w) ==
  /\ pc[w] = "loading"
  /\ \/ /\ status = "deleted"
        /\ Goto(w, "settling")
        /\ UNCHANGED <<status, seen, spent>>
     \/ /\ status # "deleted" /\ empty
        /\ status' = Marked(w, "failed")
        /\ spent' = TRUE
        /\ Goto(w, "acking")
        /\ UNCHANGED seen
     \/ /\ status # "deleted" /\ ~empty
        /\ status' = Marked(w, "running")
        /\ seen' = [seen EXCEPT ![w] = text]
        /\ Goto(w, "evaluating")
        /\ UNCHANGED spent
  /\ UNCHANGED <<result, chap, broker, tries, known, faults, repeated, lost>>

\* The evaluator answers or raises.
Evaluate(w) ==
  /\ pc[w] = "evaluating"
  /\ \E outcome \in {"storing", "failing"} : Goto(w, outcome)
  /\ UNCHANGED <<row, chap, broker, job, faults, hist>>

StoredStatus   == "completed"

\* The result is stored whatever the row says, unless it is gone.
Store(w) ==
  /\ pc[w] = "storing"
  /\ IF status = "deleted"
     THEN UNCHANGED row
     ELSE status' = StoredStatus /\ result' = seen[w]
  /\ Goto(w, "acking")
  /\ UNCHANGED <<chap, broker, job, faults, hist>>

\* The failure is written whatever the row says, and raised again.
StoreFailure(w) ==
  /\ pc[w] = "failing"
  /\ status' = IF status = "deleted" THEN status ELSE "failed"
  /\ Goto(w, "settling")
  /\ UNCHANGED <<result, chap, broker, job, faults, hist>>

OneTryLess(w)  == tries[w] + 1 < MaxRetries
RetriesLeft(w) == tries[w] < MaxRetries

\* autoretry_for: the message is published again until the retries are used up.
Settle(w) ==
  /\ pc[w] = "settling"
  /\ IF RetriesLeft(w)
     THEN /\ queue' = [queue EXCEPT ![tries[w] + 1] = @ + 1]
          /\ Goto(w, "retried")
     ELSE /\ UNCHANGED queue
          /\ Goto(w, "acking")
  /\ spent' = (spent \/ tries[w] = MaxRetries)
  /\ UNCHANGED <<row, chap, toSend, job, faults, repeated, lost>>

\* acks_late: the message is acknowledged when the task is over.
Ack(w) ==
  /\ pc[w] \in {"acking", "retried"}
  /\ Forget(w)
  /\ UNCHANGED <<row, chap, broker, faults, hist>>

-----------------------------------------------------------------------------
(* The environment.                                                        *)

\* A database step raises, and the exception ends the task.  What it was to
\* write is not written; on the last retry it never will be.
StepFails(w) ==
  /\ pc[w] \in {"loading", "storing", "failing"}
  /\ faults < MaxFaults
  /\ faults' = faults + 1
  /\ lost' = (lost \/ tries[w] = MaxRetries)
  /\ Goto(w, "settling")
  /\ UNCHANGED <<row, chap, broker, job, repeated, spent>>

\* The worker dies.  The broker delivers the message again when
\* the whole worker is gone; when only the pool process is, Celery
\* acknowledges it as failed.
Crash(w) ==
  /\ pc[w] # "idle"
  /\ faults < MaxFaults
  /\ faults' = faults + 1
  /\ \/ /\ queue' = [queue EXCEPT ![tries[w]] = @ + 1]
        /\ repeated' = (repeated \/ pc[w] = "retried")
        /\ UNCHANGED lost
     \/ /\ lost' = (lost \/ pc[w] \notin {"acking", "retried"})
        /\ UNCHANGED <<queue, repeated>>
  /\ Forget(w)
  /\ UNCHANGED <<row, chap, toSend, spent>>

\* A task that outlives the visibility timeout is delivered a second time.
Redeliver(w) ==
  /\ pc[w] # "idle"
  /\ faults < MaxFaults
  /\ faults' = faults + 1
  /\ queue' = [queue EXCEPT ![tries[w]] = @ + 1]
  /\ repeated' = TRUE
  /\ UNCHANGED <<row, chap, toSend, worker, lost, spent>>

\* The author, or a generation, saves the chapter.
Edit ==
  /\ text <= MaxEdits
  /\ text' = text + 1
  /\ empty' \in BOOLEAN
  /\ UNCHANGED <<row, broker, worker, faults, hist>>

\* The chapter is deleted, and the row by ON DELETE CASCADE.
Delete ==
  /\ status \notin {"absent", "deleted"}
  /\ status' = "deleted"
  /\ result' = None
  /\ UNCHANGED <<chap, broker, worker, faults, hist>>

-----------------------------------------------------------------------------
WorkerStep(w) ==
  \/ \E k \in Tries : Receive(w, k)
  \/ Load(w) \/ Evaluate(w) \/ Store(w) \/ StoreFailure(w)
  \/ Settle(w) \/ Ack(w)

Next ==
  \/ StartEvaluation \/ Dispatch \/ DispatchFails
  \/ \E w \in Worker : WorkerStep(w) \/ StepFails(w) \/ Crash(w) \/ Redeliver(w)
  \/ Edit \/ Delete

Spec == Init /\ [][Next]_vars

\* The API goes on to the send, and a worker that is up keeps working.
FairSpec == Spec /\ WF_vars(Dispatch) /\ \A w \in Worker : WF_vars(WorkerStep(w))

-----------------------------------------------------------------------------
TypeOK ==
  /\ status \in Status
  /\ result \in Nat \cup {None}
  /\ text \in Nat
  /\ empty \in BOOLEAN /\ toSend \in BOOLEAN
  /\ queue \in [Tries -> Nat]
  /\ pc \in [Worker -> Steps]
  /\ tries \in [Worker -> Tries]
  /\ known \in [Worker -> Status]
  /\ seen \in [Worker -> Nat]
  /\ faults \in Nat
  /\ repeated \in BOOLEAN /\ lost \in BOOLEAN /\ spent \in BOOLEAN

\* An evaluation that rests as failed has used all its retries, or found the
\* chapter blank: no retry is dropped, also when workers crash.
FailedAfterAllTries ==
  status = "failed" /\ ~lost /\ ~repeated =>
    \/ spent
    \/ \E k \in Tries : queue[k] > 0
    \/ \E w \in Worker : pc[w] # "idle"

\* Unless a message is delivered beside its original, a completed evaluation
\* stays completed and keeps its result, whatever crashes and is retried.
CompletedIsFinal ==
  [][status = "completed" /\ ~repeated' =>
       status' = "deleted" \/ <<status, result>>' = <<status, result>>]_vars

\* Unless its message is lost, every evaluation comes to rest as completed or
\* failed, although workers crash in the middle of it.
ComesToRest ==
  <>[](status \in {"absent", "completed", "failed", "deleted"} \/ lost)
=============================================================================
