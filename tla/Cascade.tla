------------------------------ MODULE Cascade ------------------------------
(***************************************************************************)
(* The cascade auto-regenerate queue of src/backend/app/tasks/cascade.py.  *)
(*                                                                         *)
(* An evaluation that exhausts its rewrite rounds yields a plan, a set of  *)
(* candidate rows of the table cascade_tasks.  The API inserts the rows,   *)
(* sends one Celery message per new row, and Celery workers run them: a    *)
(* worker claims the row under the project's advisory lock, commits (which *)
(* releases the lock), takes the lock again in a second session, appends a *)
(* revision to the JSON column of the target entity, and writes the row's  *)
(* final status in a third session.                                        *)
(*                                                                         *)
(* A row stands for the key of uq_cascade_tasks_idem, (source chapter,     *)
(* target type, target id, severity).  The handlers' rev_key is built from *)
(* the chapter and the severity, so on a given target it identifies the    *)
(* row, and a revision is written here as the row that made it.            *)
(***************************************************************************)
EXTENDS Naturals, FiniteSets

CONSTANTS Row,            \* keys of cascade_tasks
          Target,         \* outlines, characters, world rules, chapters
          Project,
          Worker,         \* Celery worker processes
          NoWorker,       \* a free lock
          ProjectOf,      \* the project a row was planned for
          TargetOf,       \* the entity a row wants revised
          OwnerOf,        \* the project a target belongs to
          Plans,          \* the sets of rows one evaluation can plan
          MaxRetries,     \* max_retries of the Celery task
          MaxFaults       \* bound on crashes, failed sends and failed steps

ASSUME ConstantsAssumption ==
  /\ Row # {}
  /\ NoWorker \notin Worker
  /\ ProjectOf \in [Row -> Project]
  /\ TargetOf \in [Row -> Target]
  /\ OwnerOf \in [Target -> Project]
  /\ Plans \subseteq SUBSET Row
  /\ MaxRetries \in Nat
  /\ MaxFaults \in Nat

VARIABLES status,    \* cascade_tasks.status; "absent" before, "deleted" after
          recorded,  \* recorded[t][r]: revisions of key r in t's JSON column
          touched,   \* what users did to each target meanwhile
          toSend,    \* rows inserted and committed, message not sent yet
          queue,     \* queue[r][k]: messages for r on their k-th retry
          lock,      \* holder of each project's advisory lock
          pc,        \* where each worker is in _run_cascade_task_async
          job,       \* the message each worker has not acknowledged yet
          snap,      \* the JSON column as the handler loaded it
          result,    \* handler_outcome["status"]
          raised,    \* raise_after_finalise: nothing, an error, or Retry
          faults     \* how many of the MaxFaults have happened

store   == <<status, recorded, touched>>
broker  == <<toSend, queue>>
session == <<snap, result, raised>>
vars    == <<store, broker, lock, pc, job, session, faults>>

Terminal == {"done", "failed", "skipped"}
Status   == Terminal \cup {"absent", "pending", "running", "deleted"}
Tries    == 0 .. MaxRetries
Step     == {"idle", "loaded", "claiming", "claimed", "handling", "writing",
             "finalising", "settling", "acking"}
Content  == [Row -> Nat]

NoRevisions == [r \in Row |-> 0]
NoJob       == [row |-> CHOOSE r \in Row : TRUE, tries |-> 0]
RowOf(w)    == job[w].row
LockOf(w)   == ProjectOf[RowOf(w)]
Goto(w, s)  == pc' = [pc EXCEPT ![w] = s]

Init ==
  /\ status   = [r \in Row |-> "absent"]
  /\ recorded = [t \in Target |-> NoRevisions]
  /\ touched  = [t \in Target |-> "untouched"]
  /\ toSend   = {}
  /\ queue    = [r \in Row |-> [k \in Tries |-> 0]]
  /\ lock     = [p \in Project |-> NoWorker]
  /\ pc       = [w \in Worker |-> "idle"]
  /\ job      = [w \in Worker |-> NoJob]
  /\ snap     = [w \in Worker |-> NoRevisions]
  /\ result   = [w \in Worker |-> "failed"]
  /\ raised   = [w \in Worker |-> "nothing"]
  /\ faults   = 0

-----------------------------------------------------------------------------
(* Planning and dispatch: the API process.                                 *)

\* Rows ON CONFLICT DO NOTHING really inserts.
Fresh(plan) == {r \in plan : status[r] = "absent"}

\* One call of enqueue_cascade_candidates up to its commit.  A duplicate is
\* counted and otherwise ignored: it is not dispatched again.
Enqueue(plan) ==
  /\ Fresh(plan) # {}
  /\ status' = [r \in Row |-> IF r \in Fresh(plan) THEN "pending" ELSE status[r]]
  /\ toSend' = toSend \cup Fresh(plan)
  /\ UNCHANGED <<recorded, touched, queue, lock, pc, job, session, faults>>

Dispatch(r) ==
  /\ r \in toSend
  /\ toSend' = toSend \ {r}
  /\ queue' = [queue EXCEPT ![r][0] = @ + 1]
  /\ UNCHANGED <<store, lock, pc, job, session, faults>>

\* send_task raises, or the API process dies before it is reached.
DispatchFails(r) ==
  /\ r \in toSend
  /\ faults < MaxFaults
  /\ faults' = faults + 1
  /\ toSend' = toSend \ {r}
  /\ UNCHANGED <<store, queue, lock, pc, job, session>>

-----------------------------------------------------------------------------
(* The worker.                                                             *)

\* pg_try_advisory_xact_lock; the lock ends with the transaction.
LockIgnored(p) == TRUE
LockFree(p) == lock[p] = NoWorker
Release(w)  == lock' = [p \in Project |-> IF lock[p] = w THEN NoWorker ELSE lock[p]]

\* The end of a task: what the worker knew of it is gone.
Forget(w) ==
  /\ job'    = [job EXCEPT ![w] = NoJob]
  /\ snap'   = [snap EXCEPT ![w] = NoRevisions]
  /\ result' = [result EXCEPT ![w] = "failed"]
  /\ raised' = [raised EXCEPT ![w] = "nothing"]
  /\ Goto(w, "idle")

\* self.retry and autoretry_for publish the message again until the retries
\* are used up, and then let the exception end the task.
Publish(w) ==
  LET k == job[w].tries IN
    queue' = IF k < MaxRetries
             THEN [queue EXCEPT ![RowOf(w)][k + 1] = @ + 1]
             ELSE queue

ClaimableWhileRunning(r) == status[r] \in {"pending", "running"}
Claimable(r) == status[r] = "pending"

\* A delivery.  Only a pending row goes on; every other status is a no-op
\* that acknowledges the message.  acks_late keeps it unacknowledged until
\* then.
Receive(w, r, k) ==
  /\ pc[w] = "idle"
  /\ queue[r][k] > 0
  /\ queue' = [queue EXCEPT ![r][k] = @ - 1]
  /\ job' = [job EXCEPT ![w] = [row |-> r, tries |-> k]]
  /\ Goto(w, IF Claimable(r) THEN "loaded" ELSE "acking")
  /\ UNCHANGED <<store, toSend, lock, session, faults>>

TakeLock(w) ==
  /\ pc[w] = "loaded"
  /\ LockFree(LockOf(w))
  /\ lock' = [lock EXCEPT ![LockOf(w)] = w]
  /\ Goto(w, "claiming")
  /\ UNCHANGED <<store, broker, job, session, faults>>

\* The lock is busy: roll back and let Celery deliver the message later.
Defer(w) ==
  /\ pc[w] = "loaded"
  /\ ~LockFree(LockOf(w))
  /\ Publish(w)
  /\ Goto(w, "acking")
  /\ UNCHANGED <<store, toSend, lock, job, session, faults>>

\* The row object still says pending: nothing reads the row again under the
\* lock, and the UPDATE is by primary key only.  The commit ends the lock.
Claim(w) ==
  /\ pc[w] = "claiming"
  /\ Release(w)
  /\ IF status[RowOf(w)] = "deleted"
     THEN /\ UNCHANGED status
          /\ Goto(w, "settling")
     ELSE /\ status' = [status EXCEPT ![RowOf(w)] = "running"]
          /\ Goto(w, "claimed")
  /\ UNCHANGED <<recorded, touched, broker, job, session, faults>>

RetakeLock(w) ==
  /\ pc[w] = "claimed"
  /\ LockFree(LockOf(w))
  /\ lock' = [lock EXCEPT ![LockOf(w)] = w]
  /\ Goto(w, "handling")
  /\ UNCHANGED <<store, broker, job, session, faults>>

\* What handler_outcome becomes when the hook raises, and how step 3 maps it.
LostLockOutcome == "failed"

\* The row is left as it is for the message just published.
LoseLockAndDefer(w) ==
  /\ pc[w] = "claimed"
  /\ ~LockFree(LockOf(w))
  /\ Publish(w)
  /\ Goto(w, "acking")
  /\ UNCHANGED <<store, toSend, lock, job, session, faults>>

\* The lock was taken by another task between the two sessions.  The hook
\* raises inside the try block, so the row is about to be written failed,
\* although the message has been published again.
LoseLock(w) ==
  /\ pc[w] = "claimed"
  /\ ~LockFree(LockOf(w))
  /\ Publish(w)
  /\ result' = [result EXCEPT ![w] = LostLockOutcome]
  /\ raised' = [raised EXCEPT
                  ![w] = IF job[w].tries < MaxRetries THEN "retry" ELSE "error"]
  /\ Goto(w, "finalising")
  /\ UNCHANGED <<store, toSend, lock, job, snap, faults>>

Applicable(r) ==
  touched[TargetOf[r]] # "deleted" /\ OwnerOf[TargetOf[r]] = ProjectOf[r]
NotLookedFor(r) == FALSE
AlreadyRecorded(r) == recorded[TargetOf[r]][r] > 0

\* The handler loads the target entity and decides.  Without a write its
\* session ends here, and the lock with it.
HandlerLoad(w) ==
  LET r == RowOf(w) IN
  /\ pc[w] = "handling"
  /\ \/ /\ ~Applicable(r) \/ AlreadyRecorded(r)
        /\ result' = [result EXCEPT
                        ![w] = IF Applicable(r) THEN "skipped" ELSE "failed"]
        /\ Release(w)
        /\ Goto(w, "finalising")
        /\ UNCHANGED snap
     \/ /\ Applicable(r) /\ ~AlreadyRecorded(r)
        /\ snap' = [snap EXCEPT ![w] = recorded[TargetOf[r]]]
        /\ Goto(w, "writing")
        /\ UNCHANGED <<result, lock>>
  /\ UNCHANGED <<store, broker, job, raised, faults>>

\* The ORM writes back the whole JSON column as loaded, plus the revision.
\* The handler's own commit releases the lock.
HandlerCommit(w) ==
  LET r == RowOf(w) IN
  /\ pc[w] = "writing"
  /\ touched[TargetOf[r]] # "deleted"
  /\ recorded' = [recorded EXCEPT ![TargetOf[r]] = [snap[w] EXCEPT ![r] = @ + 1]]
  /\ result' = [result EXCEPT ![w] = "done"]
  /\ Release(w)
  /\ Goto(w, "finalising")
  /\ UNCHANGED <<status, touched, broker, job, snap, raised, faults>>

\* The UPDATE matches no row: the target was deleted under the handler.
HandlerCommitFails(w) ==
  /\ pc[w] = "writing"
  /\ touched[TargetOf[RowOf(w)]] = "deleted"
  /\ Release(w)
  /\ result' = [result EXCEPT ![w] = "failed"]
  /\ raised' = [raised EXCEPT ![w] = "error"]
  /\ Goto(w, "finalising")
  /\ UNCHANGED <<store, broker, job, snap, faults>>

\* The third session: no lock, no look at the status it overwrites.  The
\* exception that made the row failed is raised again afterwards; Celery
\* retries on an error but not on its own Retry.
Finalise(w) ==
  LET r == RowOf(w) IN
  /\ pc[w] = "finalising"
  /\ IF status[r] = "deleted"
     THEN /\ UNCHANGED status
          /\ Goto(w, "acking")
     ELSE /\ status' = [status EXCEPT ![r] = result[w]]
          /\ Goto(w, IF raised[w] = "error" THEN "settling" ELSE "acking")
  /\ UNCHANGED <<recorded, touched, broker, lock, job, session, faults>>

Settle(w) ==
  /\ pc[w] = "settling"
  /\ Publish(w)
  /\ Goto(w, "acking")
  /\ UNCHANGED <<store, toSend, lock, job, session, faults>>

Ack(w) ==
  /\ pc[w] = "acking"
  /\ Forget(w)
  /\ UNCHANGED <<store, broker, lock, faults>>

-----------------------------------------------------------------------------
(* The environment.                                                        *)

\* The worker dies and its transaction rolls back.  When the whole worker is
\* gone the broker delivers the unacknowledged message again; when only the
\* pool process is, Celery acknowledges it as failed.
Crash(w) ==
  /\ pc[w] # "idle"
  /\ faults < MaxFaults
  /\ faults' = faults + 1
  /\ Release(w)
  /\ \/ queue' = [queue EXCEPT ![RowOf(w)][job[w].tries] = @ + 1]
     \/ UNCHANGED queue
  /\ Forget(w)
  /\ UNCHANGED <<store, toSend>>

\* A database step raises.  Around the handler the exception is caught and
\* the row is about to be written failed; elsewhere it ends the task.
StepFails(w) ==
  /\ pc[w] \in {"loaded", "claiming", "claimed", "handling", "writing", "finalising"}
  /\ faults < MaxFaults
  /\ faults' = faults + 1
  /\ Release(w)
  /\ IF pc[w] \in {"claimed", "handling", "writing"}
     THEN /\ result' = [result EXCEPT ![w] = "failed"]
          /\ raised' = [raised EXCEPT ![w] = "error"]
          /\ Goto(w, "finalising")
     ELSE /\ Goto(w, "settling")
          /\ UNCHANGED <<result, raised>>
  /\ UNCHANGED <<store, broker, job, snap>>

\* A user saves the entity from the editor: PUT replaces the JSON column by
\* the client's copy, which may predate some revisions.
UserEdit(t, kept) ==
  /\ touched[t] = "untouched"
  /\ touched' = [touched EXCEPT ![t] = "saved"]
  /\ recorded' = [recorded EXCEPT
                    ![t] = [r \in Row |-> IF r \in kept THEN @[r] ELSE 0]]
  /\ UNCHANGED <<status, broker, lock, pc, job, session, faults>>

DeleteTarget(t) ==
  /\ touched[t] # "deleted"
  /\ touched' = [touched EXCEPT ![t] = "deleted"]
  /\ recorded' = [recorded EXCEPT ![t] = NoRevisions]
  /\ UNCHANGED <<status, broker, lock, pc, job, session, faults>>

\* The chapter or the project is deleted, and its rows by ON DELETE CASCADE.
DeleteRow(r) ==
  /\ status[r] \notin {"absent", "deleted"}
  /\ status' = [status EXCEPT ![r] = "deleted"]
  /\ UNCHANGED <<recorded, touched, broker, lock, pc, job, session, faults>>

-----------------------------------------------------------------------------
WorkerStep(w) ==
  \/ \E r \in Row, k \in Tries : Receive(w, r, k)
  \/ TakeLock(w)   \/ Defer(w)     \/ Claim(w)
  \/ RetakeLock(w) \/ LoseLock(w)
  \/ HandlerLoad(w) \/ HandlerCommit(w) \/ HandlerCommitFails(w)
  \/ Finalise(w)   \/ Settle(w)    \/ Ack(w)

Next ==
  \/ \E plan \in Plans : Enqueue(plan)
  \/ \E r \in Row : Dispatch(r) \/ DispatchFails(r) \/ DeleteRow(r)
  \/ \E w \in Worker : WorkerStep(w) \/ Crash(w) \/ StepFails(w)
  \/ \E t \in Target : DeleteTarget(t) \/ \E kept \in SUBSET Row : UserEdit(t, kept)

Spec == Init /\ [][Next]_vars

\* A worker process that is up keeps executing, and the API keeps going
\* through its list of rows to send.  Nothing is assumed of users, planners
\* or failures.
Fairness ==
  /\ \A w \in Worker : WF_vars(WorkerStep(w))
  /\ \A r \in Row : WF_vars(Dispatch(r))

FairSpec == Spec /\ Fairness

-----------------------------------------------------------------------------
TypeOK ==
  /\ status   \in [Row -> Status]
  /\ recorded \in [Target -> Content]
  /\ touched  \in [Target -> {"untouched", "saved", "deleted"}]
  /\ toSend   \in SUBSET Row
  /\ queue    \in [Row -> [Tries -> Nat]]
  /\ lock     \in [Project -> Worker \cup {NoWorker}]
  /\ pc       \in [Worker -> Step]
  /\ job      \in [Worker -> [row : Row, tries : Tries]]
  /\ snap     \in [Worker -> Content]
  /\ result   \in [Worker -> Terminal]
  /\ raised   \in [Worker -> {"nothing", "error", "retry"}]
  /\ faults   \in Nat

\* However often a message is delivered, however workers interleave and
\* crash, an entity's JSON holds a revision at most once.
RecordedOnce == \A t \in Target, r \in Row : recorded[t][r] <= 1

\* A row that reports success (done, or skipped as already recorded) left its
\* revision in the target, unless a user has saved over that target or
\* deleted it: no concurrent task of the project lost it in its read-modify-write.
SuccessIsRecorded ==
  \A r \in Row :
    status[r] \in {"done", "skipped"} =>
      recorded[TargetOf[r]][r] = 1 \/ touched[TargetOf[r]] # "untouched"

\* As long as nothing has failed, a terminal row is never written again, so
\* one run decides it, whatever the retries of lost locks do.
TerminalIsFinal ==
  [][faults = 0 =>
       \A r \in Row : status[r] \in Terminal =>
                        status'[r] \in {status[r], "deleted"}]_vars

\* As long as nothing has failed, a claimed row reaches a terminal status.
ClaimedRowSettles ==
  \A r \in Row :
    status[r] = "running" ~> status[r] \in Terminal \cup {"deleted"} \/ faults > 0

\* The read-modify-writes of concurrent tasks are as good as atomic appends.
Succeeded == {r \in Row : status[r] \in {"done", "skipped"}}
Log == INSTANCE RevisionLog WITH log <- recorded, reported <- Succeeded
ImplementsLog == Log!Spec

-----------------------------------------------------------------------------
(* What the source says and the code does not do.                          *)

\* "Rare race: lost the lock between sessions. Defer." (cascade.py:785): a
\* row is failed only because of its target or of a failure, never because
\* another task of its project was busy.
FailsOnlyForCause ==
  \A r \in Row : status[r] = "failed" => ~Applicable(r) \/ faults > 0

\* "Never overwrite a terminal row." (cascade.py:71)
NeverOverwriteTerminal ==
  [][\A r \in Row : status[r] \in Terminal =>
                      status'[r] \in {status[r], "deleted"}]_vars

\* "Always lands in done|failed|skipped." (cascade.py:820), for a row that
\* is not deleted meanwhile.
AlwaysLands ==
  \A r \in Row : status[r] = "running" ~> status[r] \in Terminal \cup {"deleted"}
=============================================================================
