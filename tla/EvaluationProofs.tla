-------------------------- MODULE EvaluationProofs --------------------------
(***************************************************************************)
(* Theorems about Evaluation, for any workers, any max_retries and any     *)
(* number of crashes and redeliveries: its types, that a failed evaluation *)
(* has had all its tries, and that a completed one stays as it is.         *)
(*                                                                         *)
(* Both rest on one fact: unless a message is delivered beside its         *)
(* original, an evaluation is in one place at a time, be it the send that  *)
(* is due, the queue, or one worker.                                       *)
(***************************************************************************)
EXTENDS Evaluation, TLAPS

\* A worker that has the message.  One that has sent it on has only to
\* acknowledge its original.
Holds(w) == pc[w] \notin {"idle", "retried"}

\* The message is in one place.
OnePlace ==
  /\ toSend => /\ \A k \in Tries : queue[k] = 0
               /\ \A w \in Worker : ~Holds(w)
  /\ \A k \in Tries : queue[k] > 0 =>
       /\ queue[k] = 1
       /\ \A j \in Tries \ {k} : queue[j] = 0
       /\ \A w \in Worker : ~Holds(w)
  /\ \A v, w \in Worker : Holds(v) /\ Holds(w) => v = w

\* Before the request, and until the message is sent, nothing was judged.
NotYet ==
  /\ status = "absent" => /\ ~toSend /\ \A k \in Tries : queue[k] = 0
                          /\ \A w \in Worker : pc[w] = "idle"
  /\ toSend => status \in {"pending", "deleted"}

\* The worker that holds the message of a completed evaluation is done with it.
CompletedIsDone ==
  status = "completed" =>
    \A w \in Worker : pc[w] \in {"idle", "acking", "retried", "settling"}

\* A failed evaluation whose last try is not used yet is tried again.
StillTried ==
  status = "failed" /\ ~lost /\ ~spent =>
    \/ \E k \in Tries : queue[k] > 0
    \/ \E w \in Worker : Holds(w) /\ pc[w] # "acking"

IInv ==
  /\ TypeOK
  /\ ~repeated => OnePlace /\ NotYet /\ CompletedIsDone /\ StillTried

-----------------------------------------------------------------------------
(* Types.                                                                  *)

\* A worker that forgets its task has the types of one that is idle.
LEMMA ForgetType ==
  ASSUME EvaluationAssumption, TypeOK, NEW w \in Worker, Forget(w)
  PROVE  /\ pc' \in [Worker -> Steps] /\ tries' \in [Worker -> Tries]
         /\ known' \in [Worker -> Status] /\ seen' \in [Worker -> Nat]
  BY DEF EvaluationAssumption, TypeOK, Forget, Goto, Steps, Tries, Status

\* What a worker does keeps every variable's type.
LEMMA WorkerType ==
  ASSUME EvaluationAssumption, TypeOK, NEW w \in Worker, WorkerStep(w)
  PROVE  TypeOK'
<1> USE DEF EvaluationAssumption
<1>1. ASSUME NEW k \in Tries, Receive(w, k)
      PROVE  TypeOK'
  <2>1. queue' \in [Tries -> Nat]
    BY <1>1 DEF Receive, TypeOK
  <2>2. /\ pc' \in [Worker -> Steps] /\ tries' \in [Worker -> Tries]
        /\ known' \in [Worker -> Status] /\ seen' \in [Worker -> Nat]
    BY <1>1 DEF Receive, Goto, worker, job, TypeOK, Steps
  <2> QED
    BY <1>1, <2>1, <2>2 DEF Receive, row, chap, hist, TypeOK
<1>2. CASE Load(w)
  <2>1. pc' \in [Worker -> Steps] /\ seen' \in [Worker -> Nat]
    BY <1>2 DEF Load, Goto, TypeOK, Steps
  <2>2. status' \in Status /\ spent' \in BOOLEAN
    BY <1>2 DEF Load, Marked, TypeOK, Status
  <2> QED
    BY <1>2, <2>1, <2>2 DEF Load, chap, broker, TypeOK
<1>3. CASE Evaluate(w)
  BY <1>3 DEF Evaluate, Goto, row, chap, broker, job, hist, TypeOK, Steps
<1>4. CASE Store(w)
  BY <1>4 DEF Store, StoredStatus, Goto, row, chap, broker, job, hist, TypeOK, Steps, Status
<1>5. CASE StoreFailure(w)
  BY <1>5 DEF StoreFailure, Goto, row, chap, broker, job, hist, TypeOK, Steps, Status
<1>6. CASE Settle(w)
  <2>1. tries[w] \in Tries
    BY DEF TypeOK
  <2>2. queue' \in [Tries -> Nat]
    BY <1>6, <2>1 DEF Settle, RetriesLeft, Tries, TypeOK
  <2> QED
    BY <1>6, <2>2 DEF Settle, Goto, row, chap, job, TypeOK, Steps
<1>7. CASE Ack(w)
  BY <1>7, ForgetType DEF Ack, row, chap, broker, hist, TypeOK
<1> QED
  BY <1>1, <1>2, <1>3, <1>4, <1>5, <1>6, <1>7 DEF WorkerStep

\* So does what happens to it.
LEMMA FaultType ==
  ASSUME EvaluationAssumption, TypeOK, NEW w \in Worker,
         StepFails(w) \/ Crash(w) \/ Redeliver(w)
  PROVE  TypeOK'
<1> USE DEF EvaluationAssumption
<1>1. tries[w] \in Tries
  BY DEF TypeOK
<1>2. CASE StepFails(w)
  BY <1>2 DEF StepFails, Goto, row, chap, broker, job, TypeOK, Steps
<1>3. CASE Crash(w)
  <2>1. queue' \in [Tries -> Nat]
    BY <1>1, <1>3 DEF Crash, TypeOK
  <2>2. lost' \in BOOLEAN /\ repeated' \in BOOLEAN
    BY <1>3, Zenon DEF Crash, TypeOK
  <2>3. Forget(w)
    BY <1>3 DEF Crash
  <2> QED
    BY <1>3, <2>1, <2>2, <2>3, ForgetType DEF Crash, row, chap, TypeOK
<1>4. CASE Redeliver(w)
  BY <1>1, <1>4 DEF Redeliver, row, chap, worker, job, TypeOK
<1> QED
  BY <1>2, <1>3, <1>4

\* Every variable of an evaluation keeps its type.
LEMMA TypeStep ==
  ASSUME EvaluationAssumption, TypeOK, [Next]_vars
  PROVE  TypeOK'
<1> USE DEF EvaluationAssumption
<1>1. 0 \in Tries
  BY DEF Tries
<1>2. CASE StartEvaluation
  BY <1>2 DEF StartEvaluation, chap, worker, job, hist, TypeOK, Status
<1>3. CASE Dispatch
  <2>1. queue' \in [Tries -> Nat]
    BY <1>1, <1>3 DEF Dispatch, TypeOK
  <2> QED
    BY <1>3, <2>1 DEF Dispatch, row, chap, worker, job, hist, TypeOK
<1>4. CASE DispatchFails
  <2>1. toSend' \in BOOLEAN /\ lost' \in BOOLEAN
    BY <1>4, Zenon DEF DispatchFails
  <2>2. faults' \in Nat
    BY <1>4 DEF DispatchFails, TypeOK
  <2> QED
    BY <1>4, <2>1, <2>2 DEF DispatchFails, row, chap, worker, job, TypeOK
<1>5. CASE Edit
  BY <1>5 DEF Edit, row, broker, worker, job, hist, TypeOK
<1>6. CASE Delete
  BY <1>6 DEF Delete, chap, broker, worker, job, hist, TypeOK, Status
<1>7. CASE UNCHANGED vars
  BY <1>7 DEF vars, row, chap, broker, worker, job, hist, TypeOK
<1> QED
  BY <1>2, <1>3, <1>4, <1>5, <1>6, <1>7, WorkerType, FaultType DEF Next

-----------------------------------------------------------------------------
(* One place.                                                              *)

\* What holds of one evaluation until a message is delivered twice.
Once == OnePlace /\ NotYet /\ CompletedIsDone /\ StillTried

\* The request and its send put the message into the queue once.
LEMMA RequestStep ==
  ASSUME EvaluationAssumption, TypeOK, Once, StartEvaluation \/ Dispatch \/ DispatchFails
  PROVE  Once'
<1>1. CASE StartEvaluation
  BY <1>1 DEF StartEvaluation, Once, OnePlace, NotYet, CompletedIsDone, StillTried, Holds,
              worker, job, hist
<1>2. CASE Dispatch
  <2>1. /\ toSend /\ ~toSend' /\ 0 \in Tries
        /\ \A k \in Tries : queue'[k] = IF k = 0 THEN 1 ELSE 0
    BY <1>2 DEF Dispatch, Once, OnePlace, TypeOK, Tries, EvaluationAssumption
  <2>2. UNCHANGED <<status, pc, lost, spent>>
    BY <1>2 DEF Dispatch, row, worker, hist
  <2>3. \A w \in Worker : ~Holds(w) /\ ~Holds(w)'
    BY <2>1, <2>2 DEF Once, OnePlace, Holds
  <2>4. status \in {"pending", "deleted"}
    BY <2>1 DEF Once, NotYet
  <2> QED
    BY <2>1, <2>2, <2>3, <2>4 DEF Once, OnePlace, NotYet, CompletedIsDone, StillTried
<1>3. CASE DispatchFails
  BY <1>3 DEF DispatchFails, Once, OnePlace, NotYet, CompletedIsDone, StillTried, Holds,
              row, worker, job
<1> QED
  BY <1>1, <1>2, <1>3

\* A delivery takes the message out of the queue, and drops it only when the
\* evaluation is over.
LEMMA ReceiveStep ==
  ASSUME EvaluationAssumption, TypeOK, Once, NEW w \in Worker, NEW k \in Tries, Receive(w, k)
  PROVE  Once'
<1>1. /\ queue[k] = 1 /\ ~toSend /\ UNCHANGED <<status, toSend, lost, spent>>
      /\ \A j \in Tries : queue'[j] = 0
      /\ \A v \in Worker : ~Holds(v)
  BY DEF Receive, Once, OnePlace, TypeOK, row, hist, Holds
<1>2. status # "absent"
  BY <1>1 DEF Once, NotYet
<1>3. CASE Proceeds
  <2>1. pc' = [pc EXCEPT ![w] = "loading"] /\ status \notin {"completed", "deleted"}
    BY <1>3 DEF Receive, Goto, Proceeds
  <2>2. \A v \in Worker : Holds(v)' <=> v = w
    BY <1>1, <2>1 DEF TypeOK, Holds
  <2> QED
    BY <1>1, <1>2, <2>1, <2>2 DEF Once, OnePlace, NotYet, CompletedIsDone, StillTried, TypeOK
<1>4. CASE ~Proceeds
  <2>1. UNCHANGED pc /\ status \in {"completed", "deleted"}
    BY <1>4 DEF Receive, worker, Proceeds
  <2> QED
    BY <1>1, <1>2, <2>1 DEF Once, OnePlace, NotYet, CompletedIsDone, StillTried, Holds
<1> QED
  BY <1>3, <1>4

\* As long as a worker has the message it is nowhere else, wherever it goes on.
LEMMA HolderMoves ==
  ASSUME EvaluationAssumption, TypeOK, Once, NEW w \in Worker, Holds(w),
         UNCHANGED <<toSend, queue>>, NEW s \in Steps \ {"idle"}, pc' = [pc EXCEPT ![w] = s]
  PROVE  /\ OnePlace' /\ ~toSend /\ \A k \in Tries : queue[k] = 0
         /\ status # "absent" /\ \A v \in Worker \ {w} : ~Holds(v) /\ pc'[v] = pc[v]
<1>1. ~toSend /\ \A v \in Worker \ {w} : ~Holds(v) /\ pc'[v] = pc[v]
  BY DEF Once, OnePlace, TypeOK
<1>2. \A k \in Tries : queue[k] = 0
  BY DEF Once, OnePlace, TypeOK
<1>3. status # "absent"
  BY DEF Once, NotYet, Holds
<1> QED
  BY <1>1, <1>2, <1>3 DEF OnePlace, Holds

\* Loading, evaluating and storing: none of them meets a completed row.
LEMMA JobStep ==
  ASSUME EvaluationAssumption, TypeOK, Once, NEW w \in Worker,
         Load(w) \/ Evaluate(w) \/ Store(w) \/ StoreFailure(w) \/ StepFails(w)
  PROVE  Once' /\ status # "completed"
<1>1. Holds(w) /\ UNCHANGED <<toSend, queue>>
  BY DEF Load, Evaluate, Store, StoreFailure, StepFails, Holds, broker
<1>2. status # "completed"
  BY DEF Load, Evaluate, Store, StoreFailure, StepFails, Once, CompletedIsDone
<1>3. ASSUME NEW s \in Steps \ {"idle"}, pc' = [pc EXCEPT ![w] = s],
             status' # "absent",
             status' = "completed" => s = "acking",
             status' = "failed" /\ ~lost' /\ ~spent' => s \notin {"acking", "retried"}
      PROVE  Once'
  <2>1. /\ OnePlace' /\ ~toSend /\ \A k \in Tries : queue[k] = 0
        /\ status # "absent" /\ \A v \in Worker \ {w} : ~Holds(v) /\ pc'[v] = pc[v]
    BY <1>1, <1>3, HolderMoves
  <2>2. pc'[w] = s
    BY <1>3 DEF TypeOK
  <2>3. NotYet'
    BY <1>1, <1>3, <2>1 DEF NotYet
  <2>4. CompletedIsDone'
    BY <1>3, <2>1, <2>2 DEF CompletedIsDone, Holds
  <2>5. StillTried'
    BY <1>3, <2>2 DEF StillTried, Holds
  <2> QED
    BY <2>1, <2>3, <2>4, <2>5 DEF Once
<1>4. status # "absent"
  BY <1>1 DEF Once, NotYet, Holds
<1>5. CASE Load(w)
  <2>1. CASE status = "deleted"
    BY <1>3, <1>5, <2>1 DEF Load, Goto, Steps
  <2>2. CASE status # "deleted" /\ empty
    BY <1>2, <1>3, <1>4, <1>5, <2>2 DEF Load, Goto, Marked, Steps
  <2>3. CASE status # "deleted" /\ ~empty
    BY <1>2, <1>3, <1>4, <1>5, <2>3 DEF Load, Goto, Marked, Steps
  <2> QED
    BY <2>1, <2>2, <2>3
<1>6. CASE Evaluate(w)
  BY <1>2, <1>3, <1>4, <1>6 DEF Evaluate, Goto, row, Steps
<1>7. CASE Store(w)
  <2>1. "acking" \in Steps \ {"idle"} /\ pc' = [pc EXCEPT ![w] = "acking"]
    BY <1>7 DEF Store, Goto, Steps
  <2>2. status' # "absent" /\ status' # "failed"
    BY <1>7 DEF Store, StoredStatus, row
  <2> QED
    BY <1>2, <1>3, <2>1, <2>2
<1>8. CASE StoreFailure(w)
  <2>1. "settling" \in Steps \ {"idle"} /\ pc' = [pc EXCEPT ![w] = "settling"]
    BY <1>8 DEF StoreFailure, Goto, Steps
  <2>2. status' # "absent" /\ status' # "completed"
    BY <1>8 DEF StoreFailure
  <2> QED
    BY <1>2, <1>3, <2>1, <2>2
<1>9. CASE StepFails(w)
  BY <1>2, <1>3, <1>4, <1>9 DEF StepFails, row, Goto, Steps
<1> QED
  BY <1>2, <1>5, <1>6, <1>7, <1>8, <1>9

\* The message goes back into the queue with one more try, or it was the last.
LEMMA SettleStep ==
  ASSUME EvaluationAssumption, TypeOK, Once, NEW w \in Worker, Settle(w)
  PROVE  Once'
<1>1. Holds(w) /\ UNCHANGED <<status, toSend, lost>> /\ tries[w] \in Tries
  BY DEF Settle, Holds, row, TypeOK
<1>2. /\ ~toSend /\ \A k \in Tries : queue[k] = 0
      /\ status # "absent" /\ \A v \in Worker \ {w} : ~Holds(v)
  BY <1>1 DEF Once, OnePlace, NotYet, TypeOK, Holds
<1>3. CASE RetriesLeft(w)
  <2>1. tries[w] + 1 \in Tries
    BY <1>1, <1>3 DEF RetriesLeft, Tries, EvaluationAssumption
  <2>2. \A k \in Tries : queue'[k] = IF k = tries[w] + 1 THEN 1 ELSE 0
    BY <1>2, <1>3, <2>1 DEF Settle, TypeOK
  <2>3. pc' = [pc EXCEPT ![w] = "retried"]
    BY <1>3 DEF Settle, Goto
  <2>4. \A v \in Worker : ~Holds(v)'
    BY <1>2, <2>3 DEF Holds, TypeOK
  <2>5. OnePlace' /\ NotYet' /\ StillTried'
    BY <1>1, <1>2, <2>1, <2>2, <2>4 DEF OnePlace, NotYet, StillTried
  <2>6. CompletedIsDone'
    BY <1>1, <2>3 DEF Once, CompletedIsDone, TypeOK
  <2> QED
    BY <2>5, <2>6 DEF Once
<1>4. CASE ~RetriesLeft(w)
  <2>1. UNCHANGED queue /\ pc' = [pc EXCEPT ![w] = "acking"] /\ spent'
    <3>1. tries[w] = MaxRetries
      BY <1>1, <1>4 DEF RetriesLeft, Tries, EvaluationAssumption
    <3> QED
      BY <1>4, <3>1 DEF Settle, Goto
  <2>2. OnePlace'
    BY <1>1, <2>1, HolderMoves DEF Steps
  <2>3. NotYet' /\ StillTried'
    BY <1>1, <1>2, <2>1 DEF NotYet, StillTried
  <2>4. CompletedIsDone'
    BY <1>1, <2>1 DEF Once, CompletedIsDone, TypeOK
  <2> QED
    BY <2>2, <2>3, <2>4 DEF Once
<1> QED
  BY <1>3, <1>4

\* A worker that ends, or dies, takes the message with it or puts it back.
LEMMA EndStep ==
  ASSUME EvaluationAssumption, TypeOK, Once, NEW w \in Worker, Ack(w) \/ Crash(w), ~repeated'
  PROVE  Once'
<1>1. pc' = [pc EXCEPT ![w] = "idle"] /\ UNCHANGED <<status, toSend, spent>> /\ pc[w] # "idle"
  BY DEF Ack, Crash, Forget, Goto, row, broker, hist
<1>2. status # "absent" /\ tries[w] \in Tries
  BY <1>1 DEF Once, NotYet, TypeOK
<1>3. \A v \in Worker : Holds(v)' <=> v # w /\ Holds(v)
  BY <1>1 DEF Holds, TypeOK
<1>4. CompletedIsDone'
  BY <1>1 DEF Once, CompletedIsDone, TypeOK
<1>5. CASE UNCHANGED queue
  <2>1. OnePlace' /\ NotYet'
    BY <1>1, <1>2, <1>3, <1>5 DEF Once, OnePlace, NotYet
  <2>2. StillTried'
    <3>1. CASE lost'
      BY <3>1 DEF StillTried
    <3>2. CASE ~lost'
      <4>1. (~lost /\ pc[w] \in {"acking", "retried"}) \/ queue' # queue
        <5>1. CASE Ack(w)
          BY <3>2, <5>1 DEF Ack, hist
        <5>2. CASE Crash(w)
          <6>1. CASE lost' = (lost \/ pc[w] \notin {"acking", "retried"})
            BY <3>2, <6>1
          <6>2. CASE queue' = [queue EXCEPT ![tries[w]] = @ + 1]
            BY <1>2, <6>2 DEF TypeOK
          <6> QED
            BY <5>2, <6>1, <6>2 DEF Crash
        <5> QED
          BY <5>1, <5>2
      <4>2. ~lost /\ pc[w] \in {"acking", "retried"}
        BY <1>5, <4>1
      <4>3. ASSUME NEW v \in Worker, Holds(v), pc[v] # "acking"
            PROVE  Holds(v)' /\ pc'[v] # "acking"
        BY <1>1, <1>3, <4>2, <4>3 DEF Holds, TypeOK
      <4> QED
        BY <1>1, <1>5, <4>2, <4>3 DEF Once, StillTried
    <3> QED
      BY <3>1, <3>2
  <2> QED
    BY <1>4, <2>1, <2>2 DEF Once
<1>6. CASE queue' # queue
  <2>1. queue' = [queue EXCEPT ![tries[w]] = @ + 1] /\ pc[w] # "retried"
    BY <1>6 DEF Ack, Crash, broker
  <2>2. Holds(w)
    BY <1>1, <2>1 DEF Holds
  <2>3. ~toSend /\ \A v \in Worker : ~Holds(v)'
    BY <1>3, <2>2 DEF Once, OnePlace
  <2>4. \A k \in Tries : queue[k] = 0
    BY <2>2 DEF Once, OnePlace, TypeOK
  <2>5. \A k \in Tries : queue'[k] = IF k = tries[w] THEN 1 ELSE 0
    BY <1>2, <2>1, <2>4 DEF TypeOK
  <2>6. OnePlace' /\ NotYet' /\ StillTried'
    BY <1>1, <1>2, <2>3, <2>5 DEF OnePlace, NotYet, StillTried
  <2> QED
    BY <1>4, <2>6 DEF Once
<1> QED
  BY <1>5, <1>6

\* Every step keeps the message in one place, until one delivers it twice; and
\* such a step is not undone.
LEMMA OnceStep ==
  ASSUME EvaluationAssumption, IInv, Next, ~repeated'
  PROVE  ~repeated /\ Once /\ Once'
<1>1. ~repeated
  BY DEF Next, StartEvaluation, Dispatch, DispatchFails, WorkerStep, Receive, Load, Evaluate,
         Store, StoreFailure, Settle, Ack, StepFails, Crash, Redeliver, Edit, Delete, hist
<1>2. Once /\ TypeOK
  BY <1>1 DEF IInv, Once
<1>3. CASE \E w \in Worker : Redeliver(w)
  BY <1>3 DEF Redeliver
<1>4. CASE Edit
  BY <1>2, <1>4 DEF Edit, row, broker, worker, job, hist, Once, OnePlace, NotYet,
                    CompletedIsDone, StillTried, Holds
<1>5. CASE Delete
  BY <1>2, <1>5 DEF Delete, broker, worker, job, hist, Once, OnePlace, NotYet,
                    CompletedIsDone, StillTried, Holds
<1> QED
  BY <1>1, <1>2, <1>3, <1>4, <1>5, RequestStep, ReceiveStep, JobStep, SettleStep, EndStep
  DEF Next, WorkerStep

-----------------------------------------------------------------------------
\* The invariant holds of every state of an evaluation.
LEMMA Invariant == ASSUME EvaluationAssumption PROVE Spec => []IInv
<1>1. Init => IInv
  <2> SUFFICES ASSUME Init
               PROVE  IInv
    OBVIOUS
  <2>1. TypeOK
    <3>1. queue \in [Tries -> Nat] /\ tries \in [Worker -> Tries] /\ seen \in [Worker -> Nat]
      BY DEF EvaluationAssumption, Init, Tries
    <3>2. pc \in [Worker -> Steps] /\ known \in [Worker -> Status] /\ status \in Status
      BY DEF Init, Steps, Status
    <3>3. empty \in BOOLEAN /\ toSend \in BOOLEAN /\ repeated \in BOOLEAN /\ lost \in BOOLEAN
          /\ spent \in BOOLEAN
      BY Zenon DEF Init
    <3> QED
      BY <3>1, <3>2, <3>3 DEF Init, TypeOK
  <2>2. OnePlace /\ NotYet /\ CompletedIsDone /\ StillTried
    BY DEF Init, OnePlace, NotYet, CompletedIsDone, StillTried, Holds
  <2> QED
    BY <2>1, <2>2 DEF IInv
<1>2. IInv /\ [Next]_vars => IInv'
  <2>1. ASSUME IInv, Next
        PROVE  IInv'
    BY <2>1, TypeStep, OnceStep DEF IInv, Once
  <2>2. ASSUME IInv, UNCHANGED vars
        PROVE  IInv'
    BY <2>2, TypeStep DEF IInv, OnePlace, NotYet, CompletedIsDone, StillTried, Holds, vars,
                          row, broker, worker, job, hist
  <2> QED
    BY <2>1, <2>2
<1> QED
  BY <1>1, <1>2, PTL DEF Spec

(* The row, the messages and the workers' locals keep their types.          *)
THEOREM TypeCorrect == ASSUME EvaluationAssumption PROVE Spec => []TypeOK
<1>1. IInv => TypeOK
  BY DEF IInv
<1> QED
  BY <1>1, Invariant, PTL

(* For any workers and any number of crashes: an evaluation that rests as   *)
(* failed has used its last retry, or found the chapter blank, unless a     *)
(* message was lost or delivered twice.                                     *)
THEOREM EveryTryIsUsed == ASSUME EvaluationAssumption PROVE Spec => []FailedAfterAllTries
<1>1. IInv => FailedAfterAllTries
  BY DEF IInv, StillTried, FailedAfterAllTries, Holds
<1> QED
  BY <1>1, Invariant, PTL

(* A completed evaluation keeps its status and its result, whatever crashes *)
(* and is retried, unless its chapter is deleted or a message was delivered *)
(* beside its original.                                                     *)
THEOREM CompletedStays == ASSUME EvaluationAssumption PROVE Spec => CompletedIsFinal
<1>1. ASSUME IInv, [Next]_vars, status = "completed", ~repeated'
      PROVE  status' = "deleted" \/ UNCHANGED <<status, result>>
  <2>1. CASE UNCHANGED vars
    BY <2>1 DEF vars, row
  <2>2. CASE Next
    <3>1. Once /\ TypeOK
      BY <1>1, <2>2, OnceStep DEF IInv
    <3>2. \A w \in Worker : ~(Load(w) \/ Evaluate(w) \/ Store(w) \/ StoreFailure(w) \/ StepFails(w))
      BY <1>1, <3>1, JobStep
    <3> QED
      BY <1>1, <2>2, <3>2 DEF Next, WorkerStep, StartEvaluation, Dispatch, DispatchFails,
         Receive, Settle, Ack, Crash, Redeliver, Edit, Delete, row
  <2> QED
    BY <1>1, <2>1, <2>2
<1>2. IInv /\ [Next]_vars =>
        [status = "completed" /\ ~repeated' =>
           status' = "deleted" \/ <<status, result>>' = <<status, result>>]_vars
  BY <1>1
<1> QED
  BY <1>2, Invariant, PTL DEF Spec, CompletedIsFinal
=============================================================================
