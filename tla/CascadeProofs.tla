--------------------------- MODULE CascadeProofs ---------------------------
(***************************************************************************)
(* Theorems about Cascade, for any rows, targets, projects, workers, plans *)
(* and bounds: its types, that a revision is recorded at most once, that a *)
(* reported success is recorded, that one run decides a row, and that it   *)
(* implements RevisionLog.                                                 *)
(***************************************************************************)
EXTENDS Cascade, TLAPS

-----------------------------------------------------------------------------
(* Types.                                                                  *)

\* The job of an idle worker is well typed.
LEMMA NoJobType == NoJob \in [row : Row, tries : Tries]
  BY ConstantsAssumption DEF NoJob, Tries

\* The numbers of retries a message may carry.
LEMMA TriesFacts ==
  /\ 0 \in Tries
  /\ \A k \in Tries : k < MaxRetries => k + 1 \in Tries
  BY ConstantsAssumption DEF Tries

\* Sending one more message keeps the broker's table of counts well typed.
LEMMA QueueType ==
  ASSUME NEW q \in [Row -> [Tries -> Nat]], NEW r \in Row, NEW k \in Tries
  PROVE  /\ [q EXCEPT ![r][k] = @ + 1] \in [Row -> [Tries -> Nat]]
         /\ q[r][k] > 0 => [q EXCEPT ![r][k] = @ - 1] \in [Row -> [Tries -> Nat]]
<1>1. [q[r] EXCEPT ![k] = @ + 1] \in [Tries -> Nat]
  OBVIOUS
<1>2. q[r][k] > 0 => [q[r] EXCEPT ![k] = @ - 1] \in [Tries -> Nat]
  OBVIOUS
<1> QED
  BY <1>1, <1>2

\* Every value the workers, the broker and the tables take has its type.
THEOREM TypeCorrect == Spec => []TypeOK
<1>1. Init => TypeOK
  BY NoJobType DEF Init, TypeOK, Status, Terminal, Tries, Step, Content, NoRevisions
<1>2. TypeOK /\ [Next]_vars => TypeOK'
  <2> SUFFICES ASSUME TypeOK, [Next]_vars
               PROVE  TypeOK'
    OBVIOUS
  <2> USE ConstantsAssumption DEF TypeOK, store, broker, session, Status, Terminal,
          Step, Content, NoRevisions, Goto, Release, RowOf, LockOf, LostLockOutcome
  <2>1. ASSUME NEW plan \in Plans, Enqueue(plan)
        PROVE  TypeOK'
    BY <2>1 DEF Enqueue, Fresh
  <2>2. ASSUME NEW r \in Row, Dispatch(r)
        PROVE  TypeOK'
    BY <2>2, TriesFacts, QueueType DEF Dispatch
  <2>3. ASSUME NEW r \in Row, DispatchFails(r)
        PROVE  TypeOK'
    BY <2>3 DEF DispatchFails
  <2>4. ASSUME NEW r \in Row, DeleteRow(r)
        PROVE  TypeOK'
    BY <2>4 DEF DeleteRow
  <2>5. ASSUME NEW w \in Worker, NEW r \in Row, NEW k \in Tries, Receive(w, r, k)
        PROVE  TypeOK'
    BY <2>5, QueueType DEF Receive
  <2>6. ASSUME NEW w \in Worker, TakeLock(w)
        PROVE  TypeOK'
    BY <2>6 DEF TakeLock
  <2>7. ASSUME NEW w \in Worker, Publish(w)
        PROVE  queue' \in [Row -> [Tries -> Nat]]
    <3>1. job[w].row \in Row /\ job[w].tries \in Tries
      OBVIOUS
    <3> QED
      BY <2>7, <3>1, TriesFacts, QueueType DEF Publish
  <2>8. ASSUME NEW w \in Worker, Defer(w)
        PROVE  TypeOK'
    BY <2>7, <2>8 DEF Defer
  <2>9. ASSUME NEW w \in Worker, Claim(w)
        PROVE  TypeOK'
    BY <2>9 DEF Claim
  <2>10. ASSUME NEW w \in Worker, RetakeLock(w)
         PROVE  TypeOK'
    BY <2>10 DEF RetakeLock
  <2>11. ASSUME NEW w \in Worker, LoseLock(w)
         PROVE  TypeOK'
    BY <2>7, <2>11 DEF LoseLock
  <2>12. ASSUME NEW w \in Worker, HandlerLoad(w)
         PROVE  TypeOK'
    <3>1. job[w].row \in Row /\ TargetOf[job[w].row] \in Target
      OBVIOUS
    <3>2. snap' = snap \/ snap' = [snap EXCEPT ![w] = recorded[TargetOf[job[w].row]]]
      BY <2>12, <3>1 DEF HandlerLoad
    <3>3. result' \in [Worker -> Terminal]
      BY <2>12 DEF HandlerLoad
    <3>4. lock' \in [Project -> Worker \cup {NoWorker}]
      BY <2>12 DEF HandlerLoad
    <3>5. pc' = [pc EXCEPT ![w] = "finalising"] \/ pc' = [pc EXCEPT ![w] = "writing"]
      BY <2>12 DEF HandlerLoad
    <3>6. UNCHANGED <<status, recorded, touched, toSend, queue, job, raised, faults>>
      BY ONLY <2>12 DEF HandlerLoad, store, broker
    <3>7. recorded[TargetOf[job[w].row]] \in Content
      BY <3>1
    <3>8. snap' \in [Worker -> Content]
      BY ONLY <3>2, <3>7, TypeOK DEF TypeOK
    <3>9. pc' \in [Worker -> Step]
      BY <3>5
    <3> QED
      BY <3>3, <3>4, <3>6, <3>8, <3>9
  <2>13. ASSUME NEW w \in Worker, HandlerCommit(w)
         PROVE  TypeOK'
    BY <2>13 DEF HandlerCommit
  <2>14. ASSUME NEW w \in Worker, HandlerCommitFails(w)
         PROVE  TypeOK'
    BY <2>14 DEF HandlerCommitFails
  <2>15. ASSUME NEW w \in Worker, Finalise(w)
         PROVE  TypeOK'
    BY <2>15 DEF Finalise
  <2>16. ASSUME NEW w \in Worker, Settle(w)
         PROVE  TypeOK'
    BY <2>7, <2>16 DEF Settle
  <2>17. ASSUME NEW w \in Worker, Ack(w)
         PROVE  TypeOK'
    BY <2>17, NoJobType DEF Ack, Forget
  <2>18. ASSUME NEW w \in Worker, Crash(w)
         PROVE  TypeOK'
    <3>1. job[w].row \in Row /\ job[w].tries \in Tries
      OBVIOUS
    <3>2. queue' \in [Row -> [Tries -> Nat]]
      <4>1. \/ queue' = [queue EXCEPT ![job[w].row][job[w].tries] = @ + 1]
            \/ queue' = queue
        BY ONLY <2>18 DEF Crash, RowOf
      <4>2. [queue EXCEPT ![job[w].row][job[w].tries] = @ + 1] \in [Row -> [Tries -> Nat]]
        BY ONLY <3>1, QueueType, TypeOK DEF TypeOK
      <4> QED
        BY ONLY <4>1, <4>2, TypeOK DEF TypeOK
    <3> QED
      BY <2>18, <3>2, NoJobType DEF Crash, Forget
  <2>19. ASSUME NEW w \in Worker, StepFails(w)
         PROVE  TypeOK'
    <3>1. result' \in [Worker -> Terminal]
      BY <2>19 DEF StepFails
    <3>2. raised' \in [Worker -> {"nothing", "error", "retry"}]
      BY <2>19 DEF StepFails
    <3>3. lock' \in [Project -> Worker \cup {NoWorker}]
      BY <2>19 DEF StepFails
    <3>4. pc' = [pc EXCEPT ![w] = "finalising"] \/ pc' = [pc EXCEPT ![w] = "settling"]
      BY ONLY <2>19 DEF StepFails, Goto
    <3>5. UNCHANGED <<status, recorded, touched, toSend, queue, job, snap>> /\ faults' = faults + 1
      BY ONLY <2>19 DEF StepFails, store, broker
    <3>6. pc' \in [Worker -> Step]
      BY <3>4
    <3> QED
      BY <3>1, <3>2, <3>3, <3>5, <3>6
  <2>20. ASSUME NEW t \in Target, DeleteTarget(t)
         PROVE  TypeOK'
    BY <2>20 DEF DeleteTarget
  <2>21. ASSUME NEW t \in Target, NEW kept \in SUBSET Row, UserEdit(t, kept)
         PROVE  TypeOK'
    BY <2>21 DEF UserEdit
  <2>22. CASE UNCHANGED vars
    BY <2>22 DEF vars
  <2> QED
    BY <2>1, <2>2, <2>3, <2>4, <2>5, <2>6, <2>8, <2>9, <2>10, <2>11, <2>12,
       <2>13, <2>14, <2>15, <2>16, <2>17, <2>18, <2>19, <2>20, <2>21, <2>22
       DEF Next, WorkerStep
<1> QED
  BY <1>1, <1>2, PTL DEF Spec

-----------------------------------------------------------------------------
(* The inductive invariant.  The advisory lock makes the worker between      *)
(* loading and committing a target's JSON the only one of its project, so    *)
(* what it loaded is still there when it commits.                            *)

LockInv ==
  \A w \in Worker :
    pc[w] \in {"claiming", "handling", "writing"} => lock[LockOf(w)] = w

SnapInv ==
  \A w \in Worker :
    /\ \A r \in Row : snap[w][r] <= 1
    /\ pc[w] = "writing" =>
         /\ OwnerOf[TargetOf[RowOf(w)]] = LockOf(w)
         /\ snap[w][RowOf(w)] = 0
         /\ touched[TargetOf[RowOf(w)]] = "untouched" =>
              snap[w] = recorded[TargetOf[RowOf(w)]]

Kept(r) == recorded[TargetOf[r]][r] = 1 \/ touched[TargetOf[r]] # "untouched"

ResultInv ==
  \A w \in Worker :
    pc[w] = "finalising" /\ result[w] \in {"done", "skipped"} => Kept(RowOf(w))

IInv ==
  /\ LockInv
  /\ SnapInv
  /\ ResultInv
  /\ RecordedOnce
  /\ SuccessIsRecorded

\* Every worker's job names a row, and through it a project and a target.
LEMMA RowFacts ==
  ASSUME TypeOK, NEW w \in Worker
  PROVE  /\ RowOf(w) \in Row
         /\ LockOf(w) \in Project
         /\ TargetOf[RowOf(w)] \in Target
  BY ConstantsAssumption DEF TypeOK, RowOf, LockOf

\* No step of the API, a worker, a user or a failure breaks the invariant.
LEMMA InductiveStep == TypeOK /\ TypeOK' /\ IInv /\ [Next]_vars => IInv'
<1> SUFFICES ASSUME TypeOK, TypeOK', IInv, [Next]_vars
             PROVE  IInv'
  OBVIOUS
<1> USE ConstantsAssumption DEF store, broker, session, Goto, Release
<1>1. ASSUME NEW plan \in Plans, Enqueue(plan)
      PROVE  IInv'
  BY <1>1, RowFacts DEF Enqueue, Fresh, IInv, TypeOK, LockInv, SnapInv,
     ResultInv, RecordedOnce, SuccessIsRecorded, Kept, RowOf, LockOf, Content, Terminal
<1>2. ASSUME NEW r \in Row, Dispatch(r)
      PROVE  IInv'
  BY <1>2, RowFacts DEF Dispatch, IInv, TypeOK, LockInv, SnapInv,
     ResultInv, RecordedOnce, SuccessIsRecorded, Kept, RowOf, LockOf, Content, Terminal
<1>3. ASSUME NEW r \in Row, DispatchFails(r)
      PROVE  IInv'
  BY <1>3, RowFacts DEF DispatchFails, IInv, TypeOK, LockInv, SnapInv,
     ResultInv, RecordedOnce, SuccessIsRecorded, Kept, RowOf, LockOf, Content, Terminal
<1>4. ASSUME NEW r \in Row, DeleteRow(r)
      PROVE  IInv'
  BY <1>4, RowFacts DEF DeleteRow, IInv, TypeOK, LockInv, SnapInv,
     ResultInv, RecordedOnce, SuccessIsRecorded, Kept, RowOf, LockOf, Content, Terminal
<1>5. ASSUME NEW w \in Worker, NEW r \in Row, NEW k \in Tries, Receive(w, r, k)
      PROVE  IInv'
  BY <1>5, RowFacts DEF Receive, Claimable, IInv, TypeOK, LockInv, SnapInv,
     ResultInv, RecordedOnce, SuccessIsRecorded, Kept, RowOf, LockOf, Content, Terminal
<1>6. ASSUME NEW w \in Worker, TakeLock(w)
      PROVE  IInv'
  BY <1>6, RowFacts DEF TakeLock, LockFree, IInv, TypeOK, LockInv, SnapInv,
     ResultInv, RecordedOnce, SuccessIsRecorded, Kept, RowOf, LockOf, Content, Terminal
<1>7. ASSUME NEW w \in Worker, Defer(w)
      PROVE  IInv'
  BY <1>7, RowFacts DEF Defer, IInv, TypeOK, LockInv, SnapInv,
     ResultInv, RecordedOnce, SuccessIsRecorded, Kept, RowOf, LockOf, Content, Terminal
<1>8. ASSUME NEW w \in Worker, Claim(w)
      PROVE  IInv'
  BY <1>8, RowFacts DEF Claim, IInv, TypeOK, LockInv, SnapInv,
     ResultInv, RecordedOnce, SuccessIsRecorded, Kept, RowOf, LockOf, Content, Terminal
<1>9. ASSUME NEW w \in Worker, RetakeLock(w)
      PROVE  IInv'
  BY <1>9, RowFacts DEF RetakeLock, LockFree, IInv, TypeOK, LockInv, SnapInv,
     ResultInv, RecordedOnce, SuccessIsRecorded, Kept, RowOf, LockOf, Content, Terminal
<1>10. ASSUME NEW w \in Worker, LoseLock(w)
      PROVE  IInv'
  BY <1>10, RowFacts DEF LoseLock, LostLockOutcome, IInv, TypeOK, LockInv, SnapInv,
     ResultInv, RecordedOnce, SuccessIsRecorded, Kept, RowOf, LockOf, Content, Terminal
<1>11. ASSUME NEW w \in Worker, HandlerLoad(w)
      PROVE  IInv'
  <2> DEFINE r == RowOf(w)
  <2>1. UNCHANGED <<status, recorded, touched, job>>
    BY <1>11 DEF HandlerLoad
  <2>2. CASE ~Applicable(r) \/ AlreadyRecorded(r)
    <3>1. /\ pc' = [pc EXCEPT ![w] = "finalising"]
          /\ Release(w)
          /\ UNCHANGED snap
          /\ result' = [result EXCEPT ![w] = IF Applicable(r) THEN "skipped" ELSE "failed"]
      BY <1>11, <2>2 DEF HandlerLoad
    <3>2. Applicable(r) => Kept(r)
      BY <2>2, RowFacts DEF AlreadyRecorded, Kept, IInv, RecordedOnce, TypeOK, Content
    <3> QED
      BY <2>1, <3>1, <3>2, RowFacts DEF IInv, TypeOK, LockInv, SnapInv, ResultInv,
         RecordedOnce, SuccessIsRecorded, Kept, RowOf, LockOf
  <2>3. CASE Applicable(r) /\ ~AlreadyRecorded(r)
    <3>1. /\ pc' = [pc EXCEPT ![w] = "writing"]
          /\ pc[w] = "handling"
          /\ snap' = [snap EXCEPT ![w] = recorded[TargetOf[r]]]
          /\ UNCHANGED <<result, lock>>
      BY <1>11, <2>3 DEF HandlerLoad
    <3>2. recorded[TargetOf[r]][r] = 0 /\ OwnerOf[TargetOf[r]] = LockOf(w)
      BY <2>3, RowFacts DEF AlreadyRecorded, Applicable, LockOf, TypeOK, Content
    <3> QED
      BY <2>1, <3>1, <3>2, RowFacts DEF IInv, TypeOK, LockInv, SnapInv, ResultInv,
         RecordedOnce, SuccessIsRecorded, Kept, RowOf, LockOf
  <2> QED
    BY <2>2, <2>3
<1>12. ASSUME NEW w \in Worker, HandlerCommit(w)
      PROVE  IInv'
  BY <1>12, RowFacts DEF HandlerCommit, IInv, TypeOK, LockInv, SnapInv,
     ResultInv, RecordedOnce, SuccessIsRecorded, Kept, RowOf, LockOf, Content, Terminal
<1>13. ASSUME NEW w \in Worker, HandlerCommitFails(w)
      PROVE  IInv'
  BY <1>13, RowFacts DEF HandlerCommitFails, IInv, TypeOK, LockInv, SnapInv,
     ResultInv, RecordedOnce, SuccessIsRecorded, Kept, RowOf, LockOf, Content, Terminal
<1>14. ASSUME NEW w \in Worker, Finalise(w)
      PROVE  IInv'
  BY <1>14, RowFacts DEF Finalise, IInv, TypeOK, LockInv, SnapInv,
     ResultInv, RecordedOnce, SuccessIsRecorded, Kept, RowOf, LockOf, Content, Terminal
<1>15. ASSUME NEW w \in Worker, Settle(w)
      PROVE  IInv'
  BY <1>15, RowFacts DEF Settle, IInv, TypeOK, LockInv, SnapInv,
     ResultInv, RecordedOnce, SuccessIsRecorded, Kept, RowOf, LockOf, Content, Terminal
<1>16. ASSUME NEW w \in Worker, Ack(w)
      PROVE  IInv'
  BY <1>16, RowFacts DEF Ack, Forget, NoRevisions, IInv, TypeOK, LockInv, SnapInv,
     ResultInv, RecordedOnce, SuccessIsRecorded, Kept, RowOf, LockOf, Content, Terminal
<1>17. ASSUME NEW w \in Worker, Crash(w)
      PROVE  IInv'
  BY <1>17, RowFacts DEF Crash, Forget, NoRevisions, IInv, TypeOK, LockInv, SnapInv,
     ResultInv, RecordedOnce, SuccessIsRecorded, Kept, RowOf, LockOf, Content, Terminal
<1>18. ASSUME NEW w \in Worker, StepFails(w)
      PROVE  IInv'
  <2>1. Release(w) /\ UNCHANGED <<status, recorded, touched, job, snap>>
    BY <1>18 DEF StepFails
  <2>2. \/ pc' = [pc EXCEPT ![w] = "finalising"] /\ result' = [result EXCEPT ![w] = "failed"]
        \/ pc' = [pc EXCEPT ![w] = "settling"] /\ result' = result
    BY <1>18 DEF StepFails
  <2>3. LockInv' /\ SnapInv'
    BY <2>1, <2>2, RowFacts DEF IInv, TypeOK, LockInv, SnapInv, RowOf, LockOf
  <2>4. ResultInv'
    BY <2>1, <2>2, RowFacts DEF IInv, TypeOK, ResultInv, Kept, RowOf
  <2> QED
    BY <2>1, <2>3, <2>4 DEF IInv, RecordedOnce, SuccessIsRecorded
<1>19. ASSUME NEW t \in Target, DeleteTarget(t)
      PROVE  IInv'
  BY <1>19, RowFacts DEF DeleteTarget, NoRevisions, IInv, TypeOK, LockInv, SnapInv,
     ResultInv, RecordedOnce, SuccessIsRecorded, Kept, RowOf, LockOf, Content, Terminal
<1>20. ASSUME NEW t \in Target, NEW kept \in SUBSET Row, UserEdit(t, kept)
      PROVE  IInv'
  BY <1>20, RowFacts DEF UserEdit, IInv, TypeOK, LockInv, SnapInv,
     ResultInv, RecordedOnce, SuccessIsRecorded, Kept, RowOf, LockOf, Content, Terminal
<1>21. CASE UNCHANGED vars
  BY <1>21 DEF vars, IInv, LockInv, SnapInv, ResultInv, RecordedOnce, SuccessIsRecorded, Kept, RowOf, LockOf
<1> QED
  BY <1>1, <1>2, <1>3, <1>4, <1>5, <1>6, <1>7, <1>8, <1>9, <1>10, <1>11, <1>12, <1>13, <1>14, <1>15, <1>16, <1>17, <1>18, <1>19, <1>20, <1>21 DEF Next, WorkerStep

\* The invariant in one piece; the theorems below are its parts.
LEMMA Invariance == Spec => []IInv
<1>1. Init => IInv
  BY ConstantsAssumption
     DEF Init, IInv, LockInv, SnapInv, ResultInv, RecordedOnce, SuccessIsRecorded, NoRevisions
<1> QED
  BY <1>1, TypeCorrect, InductiveStep, PTL DEF Spec

\* A target's JSON never holds two revisions of one key: redelivery, stale
\* claims and crashes included.
THEOREM OneRevisionPerRow == Spec => []RecordedOnce
<1>1. IInv => RecordedOnce
  BY DEF IInv
<1> QED
  BY <1>1, Invariance, PTL

\* A row done or skipped has its revision in its target, as long as no user
\* changed that target: no task's write is lost to a concurrent one.
THEOREM SuccessIsHonest == Spec => []SuccessIsRecorded
<1>1. IInv => SuccessIsRecorded
  BY DEF IInv
<1> QED
  BY <1>1, Invariance, PTL

-----------------------------------------------------------------------------
(* One run decides a row.  Until something fails there is one token for a    *)
(* row that waits: its place in the API's list, a message, or the worker     *)
(* that is about to claim it.  Later messages find a row that is not         *)
(* pending, and the worker that claimed it is the only one to finalise it.   *)

WorksOn(w, r) == pc[w] \notin {"idle", "acking"} /\ RowOf(w) = r
Claims(w, r) == pc[w] \in {"loaded", "claiming"} /\ RowOf(w) = r
Decides(w, r) == pc[w] \in {"claimed", "handling", "writing", "finalising"} /\ RowOf(w) = r
NoMessage(r) == \A k \in Tries : queue[r][k] = 0

Unsent(r) == r \notin toSend /\ NoMessage(r) /\ \A w \in Worker : ~WorksOn(w, r)

OneToken(r) ==
  /\ r \in toSend => NoMessage(r) /\ \A w \in Worker : ~WorksOn(w, r)
  /\ \A k \in Tries : queue[r][k] # 0 =>
       /\ queue[r][k] = 1 /\ \A j \in Tries : j # k => queue[r][j] = 0
       /\ \A w \in Worker : ~WorksOn(w, r)
  /\ \A v, w \in Worker : WorksOn(v, r) /\ WorksOn(w, r) => v = w

OneDecides(r) ==
  /\ \A w \in Worker : ~Claims(w, r)
  /\ \A v, w \in Worker : Decides(v, r) /\ Decides(w, r) => v = w

FirstRun(r) ==
  /\ status[r] = "absent" => Unsent(r)
  /\ status[r] = "pending" => OneToken(r)
  /\ status[r] \in Terminal \cup {"running"} => OneDecides(r)
  /\ status[r] \in Terminal \cup {"pending"} => \A w \in Worker : ~Decides(w, r)

FirstRuns == faults = 0 => \A r \in Row : FirstRun(r)

\* A step that moves no worker to another row, sends nothing and leaves the
\* row's status as it is keeps what is said of a row, when each worker that
\* gets to work on it was at work on it before.
LEMMA QuietStep ==
  ASSUME NEW r \in Row, FirstRun(r), status'[r] = status[r], toSend' \subseteq toSend,
         \A k \in Tries : queue'[r][k] = queue[r][k],
         \A w \in Worker : /\ WorksOn(w, r)' => WorksOn(w, r)
                           /\ Claims(w, r)' => Claims(w, r)
                           /\ Decides(w, r)' => Decides(w, r)
  PROVE  FirstRun(r)'
  BY DEF FirstRun, Unsent, OneToken, OneDecides, NoMessage

LEMMA FirstRunsStep == TypeOK /\ TypeOK' /\ FirstRuns /\ [Next]_vars => FirstRuns'
<1> SUFFICES ASSUME TypeOK, TypeOK', FirstRuns, [Next]_vars, faults' = 0, NEW r \in Row
             PROVE  FirstRun(r)'
  BY DEF FirstRuns
<1>0. faults' \in {faults, faults + 1} => faults' = faults /\ FirstRun(r)
  BY DEF FirstRuns, TypeOK
<1> USE ConstantsAssumption DEF store, broker, session, Goto, FirstRun, WorksOn, Claims, Decides, RowOf
<1> HIDE DEF FirstRun
<1>1. ASSUME NEW plan \in Plans, Enqueue(plan)
      PROVE  FirstRun(r)'
  <2>1. CASE r \in Fresh(plan)
    BY <1>0, <1>1, <2>1 DEF Enqueue, Fresh, FirstRun, Unsent, OneToken, NoMessage, TypeOK, Terminal
  <2>2. CASE r \notin Fresh(plan)
    BY <1>0, <1>1, <2>2 DEF Enqueue, FirstRun, Unsent, OneToken, OneDecides, NoMessage, TypeOK, Terminal
  <2> QED
    BY <2>1, <2>2
<1>2. ASSUME NEW s \in Row, Dispatch(s)
      PROVE  FirstRun(r)'
  <2>1. CASE s = r
    <3>1. 0 \in Tries /\ queue'[r][0] = queue[r][0] + 1 /\ \A k \in Tries : k # 0 => queue'[r][k] = queue[r][k]
      BY <1>2, <2>1, TriesFacts DEF Dispatch, TypeOK
    <3> QED
      BY <1>0, <1>2, <2>1, <3>1 DEF Dispatch, FirstRun, Unsent, OneToken, OneDecides, NoMessage, TypeOK, Terminal
  <2>2. CASE s # r
    BY <1>0, <1>2, <2>2, QuietStep DEF Dispatch, TypeOK
  <2> QED
    BY <2>1, <2>2
<1>3. ASSUME NEW s \in Row, DispatchFails(s)
      PROVE  FirstRun(r)'
  BY <1>0, <1>3 DEF DispatchFails, TypeOK
<1>4. ASSUME NEW s \in Row, DeleteRow(s)
      PROVE  FirstRun(r)'
  <2>1. CASE s = r
    BY <1>0, <1>4, <2>1 DEF DeleteRow, FirstRun, TypeOK, Terminal
  <2>2. CASE s # r
    BY <1>0, <1>4, <2>2, QuietStep DEF DeleteRow, TypeOK
  <2> QED
    BY <2>1, <2>2
<1>5. ASSUME NEW w \in Worker, NEW s \in Row, NEW k \in Tries, Receive(w, s, k)
      PROVE  FirstRun(r)'
  <2>1. /\ pc' = [pc EXCEPT ![w] = IF status[s] = "pending" THEN "loaded" ELSE "acking"]
        /\ job' = [job EXCEPT ![w] = [row |-> s, tries |-> k]]
        /\ pc[w] = "idle" /\ queue[s][k] > 0 /\ queue' = [queue EXCEPT ![s][k] = @ - 1]
        /\ faults' = faults /\ UNCHANGED <<status, toSend>>
    BY <1>5 DEF Receive, Claimable
  <2>2. \A v \in Worker : v # w => (WorksOn(v, r)' <=> WorksOn(v, r)) /\ (Claims(v, r)' <=> Claims(v, r))
                                    /\ (Decides(v, r)' <=> Decides(v, r))
    BY <2>1 DEF TypeOK
  <2>3. CASE s # r
    <3>1. ~WorksOn(w, r)' /\ ~Claims(w, r)' /\ ~Decides(w, r)'
      BY <2>1, <2>3 DEF TypeOK
    <3> QED
      BY <1>0, <2>1, <2>2, <2>3, <3>1, QuietStep DEF TypeOK
  <2>4. CASE s = r
    <3>1. queue'[r][k] = queue[r][k] - 1 /\ \A j \in Tries : j # k => queue'[r][j] = queue[r][j]
      BY <2>1, <2>4 DEF TypeOK
    <3>2. ~Decides(w, r)' /\ ~WorksOn(w, r) /\ (Claims(w, r)' => status[r] = "pending") /\ (WorksOn(w, r)' => status[r] = "pending")
      BY <2>1, <2>4 DEF TypeOK
    <3>3. \A j \in Tries : queue[r][j] \in Nat
      BY DEF TypeOK
    <3> HIDE DEF WorksOn, Claims, Decides
    <3> QED
      BY <1>0, <2>1, <2>2, <2>4, <3>1, <3>2, <3>3 DEF FirstRun, Unsent, OneToken, OneDecides, NoMessage, Terminal
  <2> QED
    BY <2>3, <2>4
<1>6. ASSUME NEW w \in Worker, \/ TakeLock(w) \/ RetakeLock(w) \/ HandlerLoad(w)
                               \/ HandlerCommit(w) \/ HandlerCommitFails(w)
      PROVE  FirstRun(r)'
  <2>1. UNCHANGED <<status, toSend, queue, job, faults>>
    BY <1>6 DEF TakeLock, RetakeLock, HandlerLoad, HandlerCommit, HandlerCommitFails
  <2>2. \/ pc[w] = "loaded" /\ pc' = [pc EXCEPT ![w] = "claiming"]
        \/ /\ pc[w] \in {"claimed", "handling", "writing"}
           /\ \E x \in {"handling", "writing", "finalising"} : pc' = [pc EXCEPT ![w] = x]
    BY <1>6 DEF TakeLock, RetakeLock, HandlerLoad, HandlerCommit, HandlerCommitFails
  <2>3. \A v \in Worker : (WorksOn(v, r)' => WorksOn(v, r)) /\ (Claims(v, r)' => Claims(v, r))
                            /\ (Decides(v, r)' => Decides(v, r))
    BY <2>1, <2>2 DEF TypeOK
  <2> HIDE DEF WorksOn, Claims, Decides
  <2> QED
    BY <1>0, <2>1, <2>3, QuietStep
<1>7. ASSUME NEW w \in Worker, Ack(w)
      PROVE  FirstRun(r)'
  <2>1. UNCHANGED <<status, toSend, queue, faults>>
    BY <1>7 DEF Ack, Forget
  <2>2. job' = [job EXCEPT ![w] = NoJob] /\ pc' = [pc EXCEPT ![w] = "idle"]
    BY <1>7 DEF Ack, Forget
  <2>3. \A v \in Worker : (WorksOn(v, r)' => WorksOn(v, r)) /\ (Claims(v, r)' => Claims(v, r))
                            /\ (Decides(v, r)' => Decides(v, r))
    BY <2>2 DEF TypeOK
  <2> HIDE DEF WorksOn, Claims, Decides
  <2> QED
    BY <1>0, <2>1, <2>3, QuietStep
<1>8. ASSUME NEW w \in Worker, Defer(w) \/ Settle(w) \/ LoseLock(w)
      PROVE  FirstRun(r)'
  <2>1. UNCHANGED <<status, toSend, job, faults>> /\ Publish(w)
    BY <1>8 DEF Defer, Settle, LoseLock
  <2>2. \/ pc[w] \in {"loaded", "settling"} /\ pc' = [pc EXCEPT ![w] = "acking"]
        \/ pc[w] = "claimed" /\ pc' = [pc EXCEPT ![w] = "finalising"]
    BY <1>8 DEF Defer, Settle, LoseLock
  <2>3. \A v \in Worker : (WorksOn(v, r)' => WorksOn(v, r)) /\ (Claims(v, r)' => Claims(v, r))
                            /\ (Decides(v, r)' => Decides(v, r))
    BY <2>1, <2>2 DEF TypeOK
  <2>4. CASE RowOf(w) # r
    <3>1. \A k \in Tries : queue'[r][k] = queue[r][k]
      BY <2>1, <2>4, RowFacts, TriesFacts DEF Publish, TypeOK
    <3> HIDE DEF WorksOn, Claims, Decides
    <3> QED
      BY <1>0, <2>1, <2>3, <3>1, QuietStep
  <2>5. CASE RowOf(w) = r
    <3>1. \E j \in Tries : /\ queue'[r][j] \in {queue[r][j], queue[r][j] + 1}
                            /\ \A k \in Tries : k # j => queue'[r][k] = queue[r][k]
      <4>1. job[w].tries \in Tries
        BY DEF TypeOK
      <4>2. CASE job[w].tries < MaxRetries
        <5>1. job[w].tries + 1 \in Tries
          BY <4>1, <4>2, TriesFacts
        <5>2. queue' = [queue EXCEPT ![r][job[w].tries + 1] = @ + 1]
          BY <2>1, <2>5, <4>2 DEF Publish
        <5> QED
          BY <5>1, <5>2 DEF TypeOK
      <4>3. CASE ~(job[w].tries < MaxRetries)
        BY <2>1, <4>1, <4>3 DEF Publish
      <4> QED
        BY <4>2, <4>3
    <3>2. \A j \in Tries : queue[r][j] \in Nat
      BY DEF TypeOK
    <3>3. WorksOn(w, r) /\ (WorksOn(w, r)' => Decides(w, r))
      BY <2>1, <2>2, <2>5 DEF TypeOK
    <3> HIDE DEF WorksOn, Claims, Decides, RowOf
    <3> QED
      BY <1>0, <2>1, <2>3, <3>1, <3>2, <3>3 DEF FirstRun, Unsent, OneToken, OneDecides, NoMessage, Terminal
  <2> QED
    BY <2>4, <2>5
<1>9. ASSUME NEW w \in Worker, Claim(w)
      PROVE  FirstRun(r)'
  <2>1. UNCHANGED <<toSend, queue, job, faults>> /\ pc[w] = "claiming"
    BY <1>9 DEF Claim
  <2>2. \/ status[RowOf(w)] = "deleted" /\ status' = status /\ pc' = [pc EXCEPT ![w] = "settling"]
        \/ /\ status[RowOf(w)] # "deleted" /\ status' = [status EXCEPT ![RowOf(w)] = "running"]
           /\ pc' = [pc EXCEPT ![w] = "claimed"]
    BY <1>9 DEF Claim
  <2>3. \A v \in Worker : v # w => (WorksOn(v, r)' <=> WorksOn(v, r)) /\ (Claims(v, r)' <=> Claims(v, r))
                                    /\ (Decides(v, r)' <=> Decides(v, r))
    BY <2>1, <2>2 DEF TypeOK
  <2>4. CASE RowOf(w) # r
    <3>1. ~WorksOn(w, r)' /\ ~Claims(w, r)' /\ ~Decides(w, r)' /\ status'[r] = status[r]
      BY <2>1, <2>2, <2>4, RowFacts DEF TypeOK
    <3> HIDE DEF WorksOn, Claims, Decides
    <3> QED
      BY <1>0, <2>1, <2>3, <3>1, QuietStep
  <2>5. CASE RowOf(w) = r
    <3>1. WorksOn(w, r) /\ Claims(w, r) /\ ~Claims(w, r)' /\ ~Decides(w, r)
      BY <2>1, <2>2, <2>5 DEF TypeOK
    <3>2. \/ status[r] = "deleted" /\ status'[r] = "deleted"
          \/ status'[r] = "running" /\ status[r] # "deleted"
      BY <2>2, <2>5 DEF TypeOK
    <3>3. status[r] \in Terminal \cup {"absent", "pending", "running", "deleted"}
      BY DEF TypeOK, Status
    <3>4. \A v \in Worker : Claims(v, r) => WorksOn(v, r)
      OBVIOUS
    <3>5. \A v \in Worker : Decides(v, r) => WorksOn(v, r)
      OBVIOUS
    <3> HIDE DEF WorksOn, Claims, Decides, RowOf
    <3> QED
      BY <1>0, <2>1, <2>3, <3>1, <3>2, <3>3, <3>4, <3>5
         DEF FirstRun, Unsent, OneToken, OneDecides, NoMessage, Terminal
  <2> QED
    BY <2>4, <2>5
<1>10. ASSUME NEW w \in Worker, Finalise(w)
       PROVE  FirstRun(r)'
  <2>1. UNCHANGED <<toSend, queue, job, faults>> /\ pc[w] = "finalising"
    BY <1>10 DEF Finalise
  <2>2. \E x \in {"acking", "settling"} : pc' = [pc EXCEPT ![w] = x]
    BY <1>10 DEF Finalise
  <2>3. \/ status[RowOf(w)] = "deleted" /\ status' = status
        \/ status[RowOf(w)] # "deleted" /\ status' = [status EXCEPT ![RowOf(w)] = result[w]]
    BY <1>10 DEF Finalise
  <2>4. \A v \in Worker : /\ (WorksOn(v, r)' => WorksOn(v, r)) /\ (Claims(v, r)' => Claims(v, r))
                           /\ (Decides(v, r)' => Decides(v, r) /\ v # w)
    BY <2>1, <2>2 DEF TypeOK
  <2>5. CASE RowOf(w) # r
    <3>1. status'[r] = status[r]
      BY <2>3, <2>5, RowFacts DEF TypeOK
    <3> HIDE DEF WorksOn, Claims, Decides
    <3> QED
      BY <1>0, <2>1, <2>4, <3>1, QuietStep
  <2>6. CASE RowOf(w) = r
    <3>1. WorksOn(w, r) /\ Decides(w, r)
      BY <2>1, <2>6
    <3>2. \/ status[r] = "deleted" /\ status'[r] = "deleted"
          \/ status'[r] \in Terminal /\ status[r] # "deleted"
      BY <2>3, <2>6 DEF TypeOK
    <3>3. status[r] \in Terminal \cup {"absent", "pending", "running", "deleted"}
      BY DEF TypeOK, Status
    <3> HIDE DEF WorksOn, Claims, Decides, RowOf
    <3> QED
      BY <1>0, <2>1, <2>4, <3>1, <3>2, <3>3
         DEF FirstRun, Unsent, OneToken, OneDecides, NoMessage, Terminal
  <2> QED
    BY <2>5, <2>6
<1>11. ASSUME NEW w \in Worker, Crash(w) \/ StepFails(w)
       PROVE  FirstRun(r)'
  BY <1>0, <1>11 DEF Crash, StepFails, TypeOK
<1>12. ASSUME NEW t \in Target, DeleteTarget(t) \/ \E kept \in SUBSET Row : UserEdit(t, kept)
       PROVE  FirstRun(r)'
  <2>1. UNCHANGED <<status, toSend, queue, pc, job, faults>>
    BY <1>12 DEF DeleteTarget, UserEdit
  <2> QED
    BY <1>0, <2>1, QuietStep
<1>13. CASE UNCHANGED vars
  BY <1>0, <1>13, QuietStep DEF vars
<1> QED
  BY <1>1, <1>2, <1>3, <1>4, <1>5, <1>6, <1>7, <1>8, <1>9, <1>10, <1>11, <1>12, <1>13 DEF Next, WorkerStep

\* As long as nothing has failed, what a row came to is not written over by
\* a later delivery of its message, in whatever order retries come.
THEOREM OneRunDecides == Spec => TerminalIsFinal
<1>1. Init => FirstRuns
  BY ConstantsAssumption DEF Init, FirstRuns, FirstRun, Unsent, OneToken, NoMessage, WorksOn, Terminal
<1>2. TypeOK /\ TypeOK' /\ FirstRuns /\ [Next]_vars
      => [faults = 0 => \A r \in Row : status[r] \in Terminal =>
                          status'[r] \in {status[r], "deleted"}]_vars
  <2> SUFFICES ASSUME TypeOK, TypeOK', FirstRuns, Next, faults = 0,
                      NEW r \in Row, status[r] \in Terminal
               PROVE  status'[r] \in {status[r], "deleted"}
    BY DEF vars
  <2> USE ConstantsAssumption DEF store
  <2>1. \A w \in Worker : ~Claims(w, r) /\ ~Decides(w, r)
    BY DEF FirstRuns, FirstRun, OneDecides
  <2>2. CASE \E plan \in Plans : Enqueue(plan)
    BY <2>2 DEF Enqueue, Fresh, TypeOK, Terminal
  <2>3. CASE \E s \in Row : DeleteRow(s)
    BY <2>3 DEF DeleteRow, TypeOK
  <2>4. CASE \E w \in Worker : Claim(w)
    BY <2>1, <2>4 DEF Claim, Claims, TypeOK
  <2>5. CASE \E w \in Worker : Finalise(w)
    BY <2>1, <2>5 DEF Finalise, Decides, TypeOK
  <2>6. CASE UNCHANGED status
    BY <2>6
  <2> QED
    BY <2>2, <2>3, <2>4, <2>5, <2>6
       DEF Next, WorkerStep, Dispatch, DispatchFails, Receive, TakeLock, Defer,
           RetakeLock, LoseLock, HandlerLoad, HandlerCommit, HandlerCommitFails, Settle, Ack,
           Crash, StepFails, DeleteTarget, UserEdit
<1> QED
  BY <1>1, <1>2, TypeCorrect, FirstRunsStep, PTL DEF Spec, TerminalIsFinal

-----------------------------------------------------------------------------
(* The refinement.                                                         *)

\* A step that writes only statuses reports, withdraws or stutters.
LEMMA StatusStep ==
  ASSUME NEW r \in Row, NEW s \in Status, TypeOK,
         status' = [status EXCEPT ![r] = s],
         UNCHANGED <<recorded, touched>>,
         s \in {"done", "skipped"} => Kept(r)
  PROVE  [Log!Next]_(Log!vars)
<1>1. CASE s \in {"done", "skipped"}
  <2>1. Succeeded' = Succeeded \cup {r}
    BY <1>1 DEF Succeeded, TypeOK
  <2> QED
    BY <1>1, <2>1 DEF Log!Next, Log!Report, Kept
<1>2. CASE s \notin {"done", "skipped"}
  <2>1. Succeeded' = Succeeded \ {r}
    BY <1>2 DEF Succeeded, TypeOK
  <2> QED
    BY <2>1 DEF Log!Next, Log!Withdraw
<1> QED
  BY <1>1, <1>2

\* The handlers' read-modify-writes of JSON columns, spread over several
\* transactions of several workers, implement atomic appends to a log.
THEOREM CascadeImplementsLog == Spec => ImplementsLog
<1>1. Init => Log!Init
  BY DEF Init, Log!Init, NoRevisions, Succeeded
<1>2. TypeOK /\ IInv /\ [Next]_vars => [Log!Next]_(Log!vars)
  <2> SUFFICES ASSUME TypeOK, IInv, [Next]_vars
               PROVE  [Log!Next]_(Log!vars)
    OBVIOUS
  <2> USE ConstantsAssumption DEF store, Goto
  <2>1. CASE UNCHANGED store
    BY <2>1 DEF Log!vars, Succeeded
  <2>2. ASSUME NEW plan \in Plans, Enqueue(plan)
        PROVE  [Log!Next]_(Log!vars)
    <3>1. Succeeded' = Succeeded
      BY <2>2 DEF Enqueue, Fresh, Succeeded, TypeOK
    <3> QED
      BY <2>2, <3>1 DEF Enqueue, Log!vars
  <2>3. ASSUME NEW r \in Row, DeleteRow(r)
        PROVE  [Log!Next]_(Log!vars)
    BY <2>3, StatusStep DEF DeleteRow, Status, Terminal
  <2>4. ASSUME NEW w \in Worker, Claim(w)
        PROVE  [Log!Next]_(Log!vars)
    <3>1. CASE status' = status
      BY <2>1, <2>4, <3>1 DEF Claim
    <3>2. CASE status' = [status EXCEPT ![RowOf(w)] = "running"]
      BY <2>4, <3>2, StatusStep, RowFacts DEF Claim, Status
    <3> QED
      BY <2>4, <3>1, <3>2 DEF Claim
  <2>5. ASSUME NEW w \in Worker, Finalise(w)
        PROVE  [Log!Next]_(Log!vars)
    <3>1. CASE status' = status
      BY <2>1, <2>5, <3>1 DEF Finalise
    <3>2. CASE status' = [status EXCEPT ![RowOf(w)] = result[w]]
      <4>1. result[w] \in {"done", "skipped"} => Kept(RowOf(w))
        BY <2>5 DEF Finalise, IInv, ResultInv
      <4>2. result[w] \in Status
        BY DEF TypeOK, Status
      <4> QED
        BY <2>5, <3>2, <4>1, <4>2, StatusStep, RowFacts DEF Finalise
    <3> QED
      BY <2>5, <3>1, <3>2 DEF Finalise
  <2>6. ASSUME NEW w \in Worker, HandlerCommit(w)
        PROVE  [Log!Next]_(Log!vars)
    <3> DEFINE r == RowOf(w)
               t == TargetOf[r]
    <3>1. r \in Row /\ t \in Target
      BY RowFacts
    <3>2. Succeeded' = Succeeded
      BY <2>6 DEF HandlerCommit, Succeeded
    <3>3. CASE touched[t] = "untouched"
      <4>1. snap[w] = recorded[t] /\ recorded[t][r] = 0
        BY <2>6, <3>3 DEF HandlerCommit, IInv, SnapInv
      <4>2. recorded' = [recorded EXCEPT ![t][r] = 1]
        BY <2>6, <4>1, <3>1 DEF HandlerCommit, TypeOK, Content
      <4> QED
        BY <2>6, <3>1, <3>2, <3>3, <4>1, <4>2 DEF HandlerCommit, Log!Next, Log!Append
    <3>4. CASE touched[t] # "untouched"
      <4>1. recorded' = [recorded EXCEPT ![t] = recorded'[t]] /\ UNCHANGED touched
        BY <2>6, <3>1 DEF HandlerCommit, TypeOK
      <4> QED
        BY <3>1, <3>2, <3>4, <4>1 DEF Log!Next, Log!Interfere, TypeOK
    <3> QED
      BY <3>3, <3>4
  <2>7. ASSUME NEW t \in Target, DeleteTarget(t)
        PROVE  [Log!Next]_(Log!vars)
    BY <2>7 DEF DeleteTarget, Log!Next, Log!Interfere, TypeOK, Succeeded
  <2>8. ASSUME NEW t \in Target, NEW kept \in SUBSET Row, UserEdit(t, kept)
        PROVE  [Log!Next]_(Log!vars)
    BY <2>8 DEF UserEdit, Log!Next, Log!Interfere, TypeOK, Succeeded
  <2> QED
    BY <2>1, <2>2, <2>3, <2>4, <2>5, <2>6, <2>7, <2>8
       DEF Next, WorkerStep, Dispatch, DispatchFails, Receive, TakeLock, Defer,
           RetakeLock, LoseLock, HandlerLoad, HandlerCommitFails, Settle, Ack,
           Crash, StepFails, vars
<1> QED
  BY <1>1, <1>2, TypeCorrect, Invariance, PTL DEF Spec, ImplementsLog, Log!Spec
=============================================================================
