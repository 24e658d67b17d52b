--------------------------- MODULE PipelineProofs ---------------------------
(***************************************************************************)
(* Theorems about Pipeline, for any chapters, workers, review rounds and   *)
(* disturbances: its types, that no completed chapter is generated again,  *)
(* that a polished run is whole, and that a run gives up only after all    *)
(* its review rounds.  Each holds as long as one worker at a time is on    *)
(* the run.                                                                *)
(***************************************************************************)
EXTENDS Pipeline, FiniteSetTheorems, WellFoundedInduction, TLAPS

-----------------------------------------------------------------------------
(* The operators.                                                          *)

\* A set of chapters that is not empty has a first.
LEMMA FirstChapter ==
  ASSUME NEW S \in SUBSET Nat, S # {}
  PROVE  Min(S) \in S
<1> DEFINE R == {p \in Nat \X Nat : p[1] < p[2]}
<1>1. IsWellFoundedOn(R, Nat)
  <2>1. R = OpToRel(<, Nat)
    BY DEF OpToRel
  <2> QED
    BY <2>1, NatLessThanWellFounded
<1>2. PICK x \in S : \A y \in S : ~(<<y, x>> \in R)
  BY <1>1, WFMin
<1>3. ASSUME NEW y \in S
      PROVE  x <= y
  <2>1. x \in Nat /\ y \in Nat /\ ~(<<y, x>> \in R)
    BY <1>2
  <2>2. ~(y < x)
    BY <2>1
  <2> QED
    BY <2>1, <2>2
<1> QED
  BY <1>3 DEF Min

\* All chapters are processed when each is completed or failed.
LEMMA Processed ==
  ASSUME PipelineAssumption, NEW v \in Copy
  PROVE  AllProcessed(v) <=> \A c \in Chapter : v.cs[c] \in {"completed", "failed"}
<1> DEFINE S == In(v, "completed") \cup In(v, "failed")
<1>1. S \in SUBSET Chapter /\ IsFiniteSet(Chapter)
  BY DEF In, PipelineAssumption
<1>2. /\ Cardinality(S) \in Nat /\ Cardinality(Chapter) \in Nat
      /\ Cardinality(S) <= Cardinality(Chapter)
      /\ Cardinality(Chapter) = Cardinality(S) => Chapter = S
  BY <1>1, FS_Subset, FS_CardinalityType
<1>3. AllProcessed(v) <=> Cardinality(S) >= Cardinality(Chapter)
  BY DEF AllProcessed
<1> HIDE DEF S
<1>4. AllProcessed(v) <=> S = Chapter
  BY <1>2, <1>3
<1>5. S = Chapter <=> \A c \in Chapter : v.cs[c] \in {"completed", "failed"}
  BY DEF In, S
<1> QED
  BY <1>4, <1>5

-----------------------------------------------------------------------------
(* What a copy may say of the table.                                       *)

Waiting == req # Idle
Done    == {"completed", "failed"}

\* Workers that have not selected their chapters hold none.
RestInv == \A w \in Worker : pc[w] \in {"idle", "received"} => todo[w] = {}

\* One worker at a time.
OneInv == \A v, w \in Worker : Active(v) /\ Active(w) => v = w

\* What is still to do is not done.
TodoInv == \A w \in Worker : \A c \in todo[w] : cs[c] \in {"pending", "generating", "gone"}

\* A worker is at work on a run that was planned or generating when it came,
\* and what it holds as completed is.
ViewInv ==
  \A w \in Worker : Active(w) =>
    /\ view[w].state \in {"planning", "generating"}
    /\ pc[w] # "received" => view[w].state = "generating"
    /\ \A c \in Chapter : view[w].cs[c] = "completed" => cs[c] \in {"completed", "gone"}

\* What a request holds as done, is, and nobody is about to do it again.
RequestInv ==
  Waiting => \A c \in Chapter : req.copy.cs[c] \in Done =>
               /\ cs[c] \in {req.copy.cs[c], "gone"}
               /\ \A w \in Worker : c \notin todo[w]

\* A completed chapter has its text.
TextInv == \A c \in Chapter : cs[c] = "completed" => c \in text \/ restored

AllDone == \A c \in Chapter : cs[c] \in {"gone", "completed"}
WholeInv ==
  /\ state \in {"polishing", "completed"} => AllDone
  /\ Waiting => req.copy.state # "completed" /\ (req.copy.state = "polishing" => AllDone)

Keeps == OneInv /\ TodoInv /\ ViewInv /\ RequestInv /\ TextInv /\ WholeInv

-----------------------------------------------------------------------------
(* How far the round of the table can be ahead of a copy.                  *)

\* A copy whose advance ends the pass.
Ripe(v) == v.state = "generating" /\ \A c \in Chapter : v.cs[c] \in Done
RipeRequest == Waiting /\ Ripe(req.copy)

Untouched == \A c \in Chapter : cs[c] \in {"pending", "gone"}

\* While the run is planned, nothing was generated, and nobody has been told.
PlanInv ==
  /\ state = "planning" => /\ Untouched
                           /\ Waiting => req.copy.state = "planning"
                           /\ \/ req.phase = "flushed"
                              \/ queue = 0 /\ \A w \in Worker : ~Active(w)
  /\ Waiting /\ req.copy.state = "planning" =>
       /\ Untouched
       /\ req.phase = "read" => queue = 0 /\ \A w \in Worker : ~Active(w)
       /\ \A w \in Worker : Active(w) => view[w].state = "planning"
       /\ state \in {"planning", "paused"}
  /\ \A w \in Worker : Active(w) /\ view[w].state = "planning" =>
       /\ Untouched /\ pc[w] = "received"
       /\ state \in {"planning", "generating", "paused"}
       /\ Waiting => /\ req.copy.state \in {"planning", "generating", "paused"}
                     /\ ~Ripe(req.copy)

\* A chapter nobody is about to generate.
Left(c) == cs[c] = "pending" /\ \A w \in Worker : c \notin todo[w] /\ pc[w] # "received"

\* A run in review has a chapter to come back to.
ReviewInv ==
  /\ state = "reviewing" => \E c \in Chapter : cs[c] \in {"failed", "gone"} \/ Left(c)
  /\ Waiting /\ req.copy.state = "reviewing" =>
       /\ state \notin {"planning", "generating"}
       /\ \E c \in Chapter : req.copy.cs[c] = "failed" \/ cs[c] = "gone" \/ Left(c)

\* What a worker holds as failed is, until a later round takes it up again.
FailedInv ==
  \A w \in Worker : Active(w) => \A c \in Chapter \ todo[w] :
    view[w].cs[c] = "failed" =>
      cs[c] \in {"failed", "gone"} \/ (cs[c] = "pending" /\ view[w].round < round)

\* The round is never behind a worker's copy; it is ahead after a review.
AheadInv ==
  \A w \in Worker : Active(w) =>
    /\ view[w].round <= round
    /\ state = "reviewing" => view[w].round < round
    /\ Waiting /\ req.copy.state = "reviewing" => view[w].round < round
    /\ RipeRequest => view[w].round <= req.copy.round

\* It is not further ahead than one, when an advance is due.
NearInv ==
  \A w \in Worker : Active(w) =>
    /\ pc[w] = "received" \/ todo[w] # {} => round <= view[w].round + 1
    /\ Ripe(Fresh) => round <= view[w].round + (IF pc[w] = "received" THEN 0 ELSE 1)
    /\ RipeRequest => req.copy.round <= view[w].round + (IF pc[w] = "received" THEN 0 ELSE 1)

\* A request that will end the pass finds the round it read, or, if a worker
\* was first, the next.
PassInv ==
  RipeRequest =>
    \/ round = req.copy.round
    \/ /\ round = req.copy.round + 1
       /\ state \notin {"planning", "generating"}
       /\ \A w \in Worker : ~Active(w)

\* A run that failed has used its rounds.
GaveUpInv ==
  state = "failed" => /\ round = MaxReviewRounds
                      /\ \E c \in Chapter : cs[c] \in {"failed", "gone"}

Counts == PlanInv /\ ReviewInv /\ FailedInv /\ AheadInv /\ NearInv /\ PassInv /\ GaveUpInv

IInv ==
  /\ TypeOK /\ RestInv
  /\ ~overlap => Keeps
  /\ ~overlap /\ ~restored => Counts

-----------------------------------------------------------------------------
(* An advance, case by case: what the flush of a copy does to the table.   *)

Begins(old) ==
  /\ old.state = "planning"
  /\ state' = "generating" /\ round' = round /\ cs' = cs

Ends(old) ==
  /\ Ripe(old) /\ \A c \in Chapter : old.cs[c] = "completed"
  /\ state' = "polishing" /\ round' = round /\ cs' = cs

Reviews(old) ==
  /\ Ripe(old) /\ \E c \in Chapter : old.cs[c] = "failed"
  /\ old.round < MaxReviewRounds
  /\ state' = "reviewing" /\ round' = old.round + 1 /\ cs' = cs

GivesUp(old) ==
  /\ Ripe(old) /\ \E c \in Chapter : old.cs[c] = "failed"
  /\ old.round = MaxReviewRounds
  /\ state' = "failed" /\ round' = round /\ cs' = cs

Resets(old) ==
  /\ old.state = "reviewing"
  /\ state' = "generating" /\ round' = round
  /\ cs' = [c \in Chapter |-> IF old.cs[c] = "failed" /\ cs[c] # "gone"
                              THEN "pending" ELSE cs[c]]

Completes(old) ==
  /\ old.state = "polishing"
  /\ state' = "completed" /\ round' = round /\ cs' = cs

Idles(old) ==
  /\ old.state \in {"generating", "completed", "paused", "failed"}
  /\ state' = state /\ round' = round /\ cs' = cs

LEMMA FlushCases ==
  ASSUME PipelineAssumption, TypeOK, NEW old \in Copy, Flush(old, Advanced(old))
  PROVE  \/ Begins(old) \/ Ends(old) \/ Reviews(old) \/ GivesUp(old)
         \/ Resets(old) \/ Completes(old) \/ Idles(old)
<1> DEFINE new == Advanced(old)
<1>1. /\ old.state \in State /\ old.round \in 0 .. MaxReviewRounds
      /\ old.cs \in Statuses /\ MaxReviewRounds \in Nat
  BY DEF Copy, PipelineAssumption
<1>2. /\ new.state = AdvancedState(old) /\ new.round = AdvancedRound(old)
      /\ new.cs = AdvancedCs(old)
  BY DEF Advanced
<1>3. cs \in Statuses
  BY DEF TypeOK
<1>4. /\ state' = IF new.state # old.state THEN new.state ELSE state
      /\ round' = IF new.round # old.round THEN new.round ELSE round
      /\ cs' = [c \in Chapter |-> IF new.cs[c] # old.cs[c] /\ cs[c] # "gone"
                                  THEN new.cs[c] ELSE cs[c]]
  BY DEF Flush
<1> HIDE DEF new
<1>5. old.state # "reviewing" => cs' = cs
  <2>1. old.state # "reviewing" => \A c \in Chapter : new.cs[c] = old.cs[c]
    BY <1>1, <1>2 DEF AdvancedCs, Statuses
  <2> QED
    BY <2>1, <1>3, <1>4 DEF Statuses
<1>6. AdvancedState(old) # "reviewing" => round' = round
  BY <1>2, <1>4 DEF AdvancedRound
<1>7. CASE old.state = "planning"
  <2>1. AdvancedState(old) = "generating"
    BY <1>7 DEF AdvancedState
  <2> QED
    BY <2>1, <1>2, <1>4, <1>5, <1>6, <1>7 DEF Begins
<1>8. CASE old.state = "generating" /\ Ripe(old)
  <2>1. AllProcessed(old)
    BY <1>8, Processed DEF Ripe, Done
  <2>2. CASE In(old, "failed") = {}
    <3>1. AdvancedState(old) = "polishing"
      BY <1>8, <2>1, <2>2 DEF AdvancedState
    <3>2. \A c \in Chapter : old.cs[c] = "completed"
      BY <1>8, <2>2 DEF Ripe, Done, In
    <3> QED
      BY <3>1, <3>2, <1>2, <1>4, <1>5, <1>6, <1>8 DEF Ends
  <2>3. CASE In(old, "failed") # {} /\ MoreRounds(old)
    <3>1. AdvancedState(old) = "reviewing"
      BY <1>8, <2>1, <2>3 DEF AdvancedState
    <3>2. \E c \in Chapter : old.cs[c] = "failed"
      BY <2>3 DEF In
    <3>3. round' = old.round + 1 /\ old.round < MaxReviewRounds
      <4>1. new.round = old.round + 1
        BY <3>1, <1>2, <1>8 DEF AdvancedRound
      <4> QED
        BY <4>1, <1>1, <1>4, <2>3 DEF MoreRounds
    <3> QED
      BY <3>1, <3>2, <3>3, <1>2, <1>4, <1>5, <1>8 DEF Reviews
  <2>4. CASE In(old, "failed") # {} /\ ~MoreRounds(old)
    <3>1. AdvancedState(old) = "failed"
      BY <1>8, <2>1, <2>4 DEF AdvancedState
    <3>2. \E c \in Chapter : old.cs[c] = "failed"
      BY <2>4 DEF In
    <3>3. old.round = MaxReviewRounds
      BY <1>1, <2>4 DEF MoreRounds
    <3> QED
      BY <3>1, <3>2, <3>3, <1>2, <1>4, <1>5, <1>6, <1>8 DEF GivesUp
  <2> QED
    BY <2>2, <2>3, <2>4
<1>9. CASE old.state = "generating" /\ ~Ripe(old)
  <2>1. ~AllProcessed(old)
    BY <1>9, Processed DEF Ripe, Done
  <2>2. AdvancedState(old) = "generating"
    BY <1>9, <2>1 DEF AdvancedState
  <2> QED
    BY <2>2, <1>2, <1>4, <1>5, <1>6, <1>9 DEF Idles
<1>10. CASE old.state = "reviewing"
  <2>1. AdvancedState(old) = "generating"
    BY <1>10 DEF AdvancedState
  <2>2. \A c \in Chapter : new.cs[c] # old.cs[c] <=> old.cs[c] = "failed"
    BY <1>2, <1>10 DEF AdvancedCs
  <2>3. \A c \in Chapter : old.cs[c] = "failed" => new.cs[c] = "pending"
    BY <1>2, <1>10 DEF AdvancedCs
  <2>4. cs' = [c \in Chapter |-> IF old.cs[c] = "failed" /\ cs[c] # "gone"
                                 THEN "pending" ELSE cs[c]]
    BY <1>4, <2>2, <2>3
  <2> QED
    BY <2>1, <2>4, <1>2, <1>4, <1>6, <1>10 DEF Resets
<1>11. CASE old.state = "polishing"
  <2>1. AdvancedState(old) = "completed"
    BY <1>11 DEF AdvancedState
  <2> QED
    BY <2>1, <1>2, <1>4, <1>5, <1>6, <1>11 DEF Completes
<1>12. CASE old.state \in {"completed", "paused", "failed"}
  <2>1. AdvancedState(old) = old.state
    BY <1>12 DEF AdvancedState
  <2> QED
    BY <2>1, <1>2, <1>4, <1>5, <1>6, <1>12 DEF Idles
<1> QED
  BY <1>1, <1>7, <1>8, <1>9, <1>10, <1>11, <1>12 DEF State

LEMMA FlushTypes ==
  ASSUME PipelineAssumption, TypeOK, NEW old \in Copy, Flush(old, Advanced(old))
  PROVE  state' \in State /\ round' \in 0 .. MaxReviewRounds /\ cs' \in Statuses
<1>1. /\ state \in State /\ round \in 0 .. MaxReviewRounds /\ cs \in Statuses
      /\ old.round \in 0 .. MaxReviewRounds /\ MaxReviewRounds \in Nat
  BY DEF TypeOK, Copy, PipelineAssumption
<1>2. state' \in State
  BY <1>1, FlushCases DEF Begins, Ends, Reviews, GivesUp, Resets, Completes, Idles, State
<1>3. round' \in 0 .. MaxReviewRounds
  BY <1>1, FlushCases DEF Begins, Ends, Reviews, GivesUp, Resets, Completes, Idles
<1>4. cs' \in Statuses
  <2>1. CASE Resets(old)
    BY <2>1, <1>1 DEF Resets, Statuses, CsState
  <2>2. CASE cs' = cs
    BY <2>2, <1>1
  <2> QED
    BY <2>1, <2>2, FlushCases DEF Begins, Ends, Reviews, GivesUp, Completes, Idles
<1> QED
  BY <1>2, <1>3, <1>4

-----------------------------------------------------------------------------
(* Types.                                                                  *)

\* A request in progress has a copy of the row.
LEMMA RequestType ==
  ASSUME TypeOK
  PROVE  /\ Waiting => /\ req.copy \in Copy /\ req.phase \in {"read", "flushed"}
                       /\ req.text \in {NoSnapshot} \cup SUBSET Chapter
                       /\ req \in [phase : {"read", "flushed"}, copy : Copy,
                                   text : {NoSnapshot} \cup SUBSET Chapter]
         /\ req.phase \in {"read", "flushed"} => Waiting
BY DEF TypeOK, Waiting, Idle

LEMMA SeenType ==
  ASSUME TypeOK, NEW w \in Worker
  PROVE  /\ SeenBy(w) \in Copy
         /\ SeenBy(w).state = view[w].state /\ SeenBy(w).round = view[w].round
         /\ \A c \in Chapter :
              SeenBy(w).cs[c] = IF view[w].cs[c] # "pending" /\ cs[c] # "gone"
                                THEN view[w].cs[c] ELSE cs[c]
<1>1. view[w] \in Copy /\ cs \in Statuses
  BY DEF TypeOK
<1>2. [c \in Chapter |-> IF view[w].cs[c] # "pending" /\ cs[c] # "gone"
                         THEN view[w].cs[c] ELSE cs[c]] \in Statuses
  BY <1>1 DEF Copy, Statuses
<1> QED
  BY <1>1, <1>2 DEF SeenBy, Copy

LEMMA BlankType ==
  ASSUME PipelineAssumption
  PROVE  Blank \in Copy
<1>1. NothingHandled \in Statuses
  BY DEF NothingHandled, Statuses, CsState
<1>2. 0 \in 0 .. MaxReviewRounds
  BY DEF PipelineAssumption
<1> QED
  BY <1>1, <1>2 DEF Blank, Copy, State

\* The chapter a worker is at is one it has still to do.
LEMMA AtHand ==
  ASSUME PipelineAssumption, TypeOK, NEW w \in Worker, NEW c \in Chapter, At(w, c)
  PROVE  c \in todo[w]
<1>1. todo[w] \in SUBSET Nat /\ todo[w] # {} /\ c = Min(todo[w])
  BY DEF TypeOK, PipelineAssumption, At
<1> QED
  BY <1>1, FirstChapter

LEMMA InitTypes ==
  ASSUME PipelineAssumption, Init
  PROVE  TypeOK /\ RestInv
<1>1. state \in State /\ cs \in Statuses /\ round \in 0 .. MaxReviewRounds
  BY DEF Init, State, Statuses, CsState, PipelineAssumption
<1>2. /\ pc \in [Worker -> {"idle", "received", "loop", "writing"}]
      /\ view \in [Worker -> Copy] /\ todo \in [Worker -> SUBSET Chapter]
  BY BlankType DEF Init
<1>3. RestInv
  BY DEF Init, RestInv
<1> QED
  BY <1>1, <1>2, <1>3 DEF Init, TypeOK

\* A worker that stops.
LEMMA StopTypes ==
  ASSUME PipelineAssumption, TypeOK, RestInv, NEW w \in Worker, Stop(w)
  PROVE  /\ pc' \in [Worker -> {"idle", "received", "loop", "writing"}]
         /\ view' \in [Worker -> Copy] /\ todo' \in [Worker -> SUBSET Chapter]
         /\ RestInv'
BY BlankType DEF Stop, Goto, TypeOK, RestInv

LEMMA TypeStep ==
  ASSUME PipelineAssumption, TypeOK, RestInv, [Next]_vars
  PROVE  TypeOK' /\ RestInv'
<1> USE DEF row, worker, bounds, hist
<1>1. CASE StartRead
  <2>1. req' \in [phase : {"read", "flushed"}, copy : Copy,
                  text : {NoSnapshot} \cup SUBSET Chapter]
    <3>1. Fresh \in Copy
      BY DEF Fresh, Copy, TypeOK
    <3>2. Restorable \in {NoSnapshot} \cup SUBSET Chapter
      BY DEF Restorable, TypeOK
    <3> QED
      BY <1>1, <3>1, <3>2 DEF StartRead
  <2> QED
    BY <1>1, <2>1 DEF StartRead, TypeOK, RestInv
<1>2. CASE StartSend
  <2>1. req' \in [phase : {"read", "flushed"}, copy : Copy,
                  text : {NoSnapshot} \cup SUBSET Chapter]
    BY <1>2, RequestType DEF StartSend
  <2> QED
    BY <1>2, <2>1 DEF StartSend, TypeOK, RestInv
<1>3. CASE StartSendFails
  BY <1>3 DEF StartSendFails, TypeOK, RestInv
<1>4. CASE StartCommit
  <2>1. req.copy \in Copy /\ req.text \in {NoSnapshot} \cup SUBSET Chapter
    BY <1>4, RequestType DEF StartCommit
  <2>2. state' \in State /\ round' \in 0 .. MaxReviewRounds /\ cs' \in Statuses
    BY <1>4, <2>1, FlushTypes DEF StartCommit
  <2> QED
    BY <1>4, <2>1, <2>2 DEF StartCommit, TypeOK, RestInv
<1>5. CASE Pause
  BY <1>5 DEF Pause, TypeOK, RestInv, State
<1>6. CASE Rollback
  BY <1>6 DEF Rollback, TypeOK, RestInv, State
<1>7. ASSUME NEW c \in Chapter, DeleteChapter(c)
      PROVE  TypeOK' /\ RestInv'
  <2>1. cs' \in Statuses
    BY <1>7 DEF DeleteChapter, TypeOK, Statuses, CsState
  <2> QED
    BY <1>7, <2>1 DEF DeleteChapter, TypeOK, RestInv
<1>8. ASSUME NEW w \in Worker, Receive(w)
      PROVE  TypeOK' /\ RestInv'
  <2>1. queue' \in Nat
    BY <1>8 DEF Receive, TypeOK
  <2>2. overlap' \in BOOLEAN
    BY <1>8 DEF Receive, TypeOK
  <2>3. CASE UNCHANGED <<worker, overlap>>
    BY <1>8, <2>1, <2>3 DEF Receive, TypeOK, RestInv
  <2>4. CASE /\ view' = [view EXCEPT ![w] = Fresh]
             /\ Goto(w, "received") /\ UNCHANGED todo
    <3>1. view' \in [Worker -> Copy]
      BY <2>4 DEF TypeOK, Fresh, Copy
    <3>2. /\ pc' \in [Worker -> {"idle", "received", "loop", "writing"}]
          /\ RestInv'
      BY <1>8, <2>4 DEF Goto, TypeOK, Receive, Active, RestInv
    <3> QED
      BY <1>8, <2>1, <2>2, <2>4, <3>1, <3>2 DEF Receive, TypeOK
  <2> QED
    BY <1>8, <2>3, <2>4 DEF Receive
<1>9. ASSUME NEW w \in Worker, LoadPending(w)
      PROVE  TypeOK' /\ RestInv'
  <2>1. view' \in [Worker -> Copy]
    BY <1>9 DEF LoadPending, TypeOK, Copy, State
  <2>2. state' \in State
    BY <1>9 DEF LoadPending, TypeOK, State
  <2>3. /\ pc' \in [Worker -> {"idle", "received", "loop", "writing"}]
        /\ todo' \in [Worker -> SUBSET Chapter] /\ RestInv'
    BY <1>9 DEF LoadPending, Goto, Selected, TypeOK, RestInv
  <2> QED
    BY <1>9, <2>1, <2>2, <2>3 DEF LoadPending, TypeOK
<1>10. ASSUME NEW w \in Worker, NEW c \in Chapter, BeginChapter(w, c)
       PROVE  TypeOK' /\ RestInv'
  <2>1. cs' \in Statuses
    BY <1>10 DEF BeginChapter, TypeOK, Statuses, CsState
  <2>2. /\ pc' \in [Worker -> {"idle", "received", "loop", "writing"}]
        /\ RestInv'
    BY <1>10 DEF BeginChapter, Goto, TypeOK, RestInv
  <2> QED
    BY <1>10, <2>1, <2>2 DEF BeginChapter, TypeOK
<1>11. ASSUME NEW w \in Worker, NEW c \in Chapter, NEW outcome \in {"completed", "failed"},
              EndChapter(w, c, outcome), text' \subseteq Chapter
       PROVE  TypeOK' /\ RestInv'
  <2>1. cs' \in Statuses
    BY <1>11 DEF EndChapter, TypeOK, Statuses, CsState
  <2>2. view' \in [Worker -> Copy]
    BY <1>11 DEF EndChapter, TypeOK, Copy, Statuses, CsState
  <2>3. /\ pc' \in [Worker -> {"idle", "received", "loop", "writing"}]
        /\ todo' \in [Worker -> SUBSET Chapter] /\ RestInv'
    BY <1>11 DEF EndChapter, Goto, TypeOK, RestInv
  <2> QED
    BY <1>11, <2>1, <2>2, <2>3 DEF EndChapter, TypeOK
<1>12. ASSUME NEW w \in Worker, NEW c \in Chapter, ChapterGone(w, c)
       PROVE  TypeOK' /\ RestInv'
  BY <1>12, StopTypes DEF ChapterGone, TypeOK
<1>13. ASSUME NEW w \in Worker, FinishRun(w)
       PROVE  TypeOK' /\ RestInv'
  <2>1. state' \in State /\ round' \in 0 .. MaxReviewRounds /\ cs' \in Statuses
    BY <1>13, SeenType, FlushTypes DEF FinishRun
  <2> QED
    BY <1>13, <2>1, StopTypes DEF FinishRun, TypeOK
<1>14. ASSUME NEW w \in Worker, Crash(w)
       PROVE  TypeOK' /\ RestInv'
  <2>1. queue' \in Nat
    BY <1>14 DEF Crash, TypeOK
  <2> QED
    BY <1>14, <2>1, StopTypes DEF Crash, TypeOK
<1>15. ASSUME NEW w \in Worker, Redeliver(w)
       PROVE  TypeOK' /\ RestInv'
  BY <1>15 DEF Redeliver, TypeOK, RestInv
<1>16. CASE UNCHANGED vars
  BY <1>16 DEF vars, TypeOK, RestInv
<1>17. ASSUME NEW w \in Worker, NEW c \in Chapter, ChapterWritten(w, c) \/ ChapterFails(w, c)
       PROVE  TypeOK' /\ RestInv'
  BY <1>11, <1>17 DEF ChapterWritten, ChapterFails, TypeOK
<1> QED
  BY <1>1, <1>2, <1>3, <1>4, <1>5, <1>6, <1>7, <1>8, <1>9, <1>10, <1>12, <1>13, <1>14,
     <1>15, <1>16, <1>17 DEF Next, ApiStep, WorkerStep

-----------------------------------------------------------------------------
(* One worker at a time: what copies say of chapters stays true.           *)

\* A worker at a chapter that is still there: nothing holds it as done, and
\* no other worker is active.
LEMMA AtWork ==
  ASSUME PipelineAssumption, TypeOK, RestInv, Keeps, NEW w \in Worker, NEW c \in Chapter,
         At(w, c), pc[w] \in {"loop", "writing"}, cs[c] # "gone"
  PROVE  /\ c \in todo[w] /\ cs[c] \in {"pending", "generating"}
         /\ state \notin {"polishing", "completed"}
         /\ Waiting => req.copy.cs[c] \notin Done /\ req.copy.state # "polishing"
         /\ \A v \in Worker \ {w} : ~Active(v) /\ todo[v] = {}
<1>1. c \in todo[w]
  BY AtHand
<1>2. cs[c] \in {"pending", "generating"}
  BY <1>1 DEF Keeps, TodoInv
<1>3. ~AllDone
  BY <1>2 DEF AllDone
<1>4. Waiting => req.copy.cs[c] \notin Done
  BY <1>1 DEF Keeps, RequestInv
<1>5. \A v \in Worker \ {w} : ~Active(v)
  BY DEF Keeps, OneInv, Active
<1>6. \A v \in Worker \ {w} : todo[v] = {}
  BY <1>5 DEF RestInv, Active
<1> QED
  BY <1>1, <1>2, <1>3, <1>4, <1>5, <1>6 DEF Keeps, WholeInv

\* A worker that stops leaves the others as they are.
LEMMA Stopped ==
  ASSUME TypeOK, NEW w \in Worker, Stop(w)
  PROVE  /\ ~Active(w)' /\ todo'[w] = {}
         /\ \A v \in Worker \ {w} : pc'[v] = pc[v] /\ todo'[v] = todo[v] /\ view'[v] = view[v]
         /\ \A v \in Worker : todo'[v] \subseteq todo[v]
BY DEF Stop, Goto, TypeOK, Active

LEMMA KeepsStep ==
  ASSUME PipelineAssumption, TypeOK, RestInv, Keeps, ~overlap', [Next]_vars
  PROVE  Keeps'
<1> USE DEF row, worker, bounds, hist
<1>1. CASE StartRead
  <2>1. req'.copy = Fresh /\ req' # Idle /\ state # "completed"
    BY <1>1 DEF StartRead, Idle
  <2>2. RequestInv'
    <3>1. \A c \in Chapter : cs[c] \in Done => \A w \in Worker : c \notin todo[w]
      BY DEF Keeps, TodoInv, Done
    <3> QED
      BY <1>1, <2>1, <3>1 DEF StartRead, RequestInv, Fresh, Done
  <2>3. WholeInv'
    BY <1>1, <2>1 DEF StartRead, Keeps, WholeInv, AllDone, Fresh
  <2> QED
    BY <1>1, <2>2, <2>3 DEF StartRead, Keeps, OneInv, TodoInv, ViewInv, TextInv, Active
<1>2. CASE StartSend
  <2>1. req'.copy = req.copy /\ Waiting
    BY <1>2, RequestType DEF StartSend
  <2> QED
    BY <1>2, <2>1 DEF StartSend, Keeps, OneInv, TodoInv, ViewInv, RequestInv, TextInv,
                      WholeInv, Active, AllDone
<1>3. CASE StartSendFails
  BY <1>3 DEF StartSendFails, Keeps, OneInv, TodoInv, ViewInv, RequestInv, TextInv,
              WholeInv, Active, AllDone, Waiting
<1>4. CASE StartCommit
  <2>1. Waiting /\ req.copy \in Copy /\ ~Waiting'
    BY <1>4, RequestType DEF StartCommit, Waiting
  <2>2. \/ Begins(req.copy) \/ Ends(req.copy) \/ Reviews(req.copy) \/ GivesUp(req.copy)
        \/ Resets(req.copy) \/ Completes(req.copy) \/ Idles(req.copy)
    BY <1>4, <2>1, FlushCases DEF StartCommit
  <2>3. \A c \in Chapter : \/ cs'[c] = cs[c]
                           \/ cs'[c] = "pending" /\ cs[c] = "failed"
    BY <2>1, <2>2 DEF Begins, Ends, Reviews, GivesUp, Resets, Completes, Idles, Keeps,
                      RequestInv, Done
  <2>4. TodoInv' /\ ViewInv' /\ TextInv' /\ OneInv'
    <3>1. UNCHANGED <<pc, view, todo, text, restored>>
      BY <1>4 DEF StartCommit
    <3>2. TodoInv'
      BY <2>3, <3>1 DEF Keeps, TodoInv, TypeOK
    <3>3. ViewInv'
      BY <2>3, <3>1 DEF Keeps, ViewInv, Active
    <3>4. TextInv' /\ OneInv'
      BY <2>3, <3>1 DEF Keeps, TextInv, OneInv, Active
    <3> QED
      BY <3>2, <3>3, <3>4
  <2>5. WholeInv'
    <3>1. CASE Ends(req.copy)
      BY <2>1, <3>1 DEF Ends, Keeps, RequestInv, WholeInv, AllDone, Done
    <3>2. CASE Completes(req.copy)
      BY <2>1, <3>2 DEF Completes, Keeps, WholeInv, AllDone
    <3>3. CASE ~Ends(req.copy) /\ ~Completes(req.copy)
      BY <2>1, <2>2, <3>3 DEF Begins, Reviews, GivesUp, Resets, Idles, Keeps, WholeInv, AllDone
    <3> QED
      BY <3>1, <3>2, <3>3
  <2> QED
    BY <2>1, <2>4, <2>5 DEF Keeps, RequestInv
<1>5. CASE Pause
  BY <1>5 DEF Pause, Keeps, OneInv, TodoInv, ViewInv, RequestInv, TextInv, WholeInv,
              Active, AllDone, Waiting
<1>6. CASE Rollback
  BY <1>6 DEF Rollback, Keeps, OneInv, TodoInv, ViewInv, RequestInv, TextInv, WholeInv,
              Active, AllDone, Waiting
<1>7. ASSUME NEW c \in Chapter, DeleteChapter(c)
      PROVE  Keeps'
  <2>1. \A d \in Chapter : cs'[d] \in {cs[d], "gone"}
    BY <1>7 DEF DeleteChapter, TypeOK, Statuses
  <2> QED
    BY <1>7, <2>1 DEF DeleteChapter, Keeps, OneInv, TodoInv, ViewInv, RequestInv, TextInv,
                      WholeInv, Active, AllDone, Waiting, Done
<1>8. ASSUME NEW w \in Worker, Receive(w)
      PROVE  Keeps'
  <2>1. CASE UNCHANGED worker
    BY <1>8, <2>1 DEF Receive, Keeps, OneInv, TodoInv, ViewInv, RequestInv, TextInv,
                      WholeInv, Active, AllDone, Waiting
  <2>2. CASE /\ state \in {"generating", "planning"}
             /\ view' = [view EXCEPT ![w] = Fresh] /\ Goto(w, "received")
             /\ overlap' = (overlap \/ \E v \in Worker : Active(v)) /\ UNCHANGED todo
    <3>1. \A v \in Worker : ~Active(v)
      BY <2>2
    <3>2. \A v \in Worker : Active(v)' => v = w
      BY <2>2, <3>1 DEF Goto, Active, TypeOK
    <3>3. pc'[w] = "received" /\ view'[w] = Fresh
      BY <2>2 DEF Goto, TypeOK
    <3>4. OneInv' /\ ViewInv'
      BY <1>8, <2>2, <3>2, <3>3 DEF Receive, OneInv, ViewInv, Fresh
    <3> QED
      BY <1>8, <2>2, <3>4 DEF Receive, Keeps, TodoInv, RequestInv, TextInv, WholeInv,
                              AllDone, Waiting
  <2> QED
    BY <1>8, <2>1, <2>2 DEF Receive
<1>9. ASSUME NEW w \in Worker, LoadPending(w)
      PROVE  Keeps'
  <2>1. /\ \A v \in Worker : Active(v)' <=> Active(v)
        /\ \A v \in Worker \ {w} : view'[v] = view[v] /\ todo'[v] = todo[v] /\ pc'[v] = pc[v]
        /\ view'[w].cs = view[w].cs /\ view'[w].state = "generating"
        /\ todo'[w] = Selected
    BY <1>9 DEF LoadPending, Goto, Active, TypeOK, Copy
  <2>2. Active(w)
    BY <1>9 DEF LoadPending, Active
  <2>3. \A c \in Selected : cs[c] = "pending"
    BY DEF Selected
  <2>4. OneInv' /\ TodoInv' /\ ViewInv'
    BY <1>9, <2>1, <2>2, <2>3 DEF LoadPending, Keeps, OneInv, TodoInv, ViewInv
  <2>5. RequestInv'
    BY <1>9, <2>1, <2>3 DEF LoadPending, Keeps, RequestInv, Waiting, Done
  <2> QED
    BY <1>9, <2>4, <2>5 DEF LoadPending, Keeps, TextInv, WholeInv, AllDone, Waiting
<1>10. ASSUME NEW w \in Worker, NEW c \in Chapter, BeginChapter(w, c)
       PROVE  Keeps'
  <2>1. /\ At(w, c) /\ pc[w] = "loop" /\ cs[c] # "gone"
        /\ UNCHANGED <<state, text, req, view, todo, restored>>
    BY <1>10 DEF BeginChapter
  <2>2. cs'[c] = "generating" /\ \A d \in Chapter \ {c} : cs'[d] = cs[d]
    BY <1>10 DEF BeginChapter, TypeOK, Statuses
  <2>3. \A v \in Worker : /\ Active(v)' <=> Active(v)
                          /\ pc'[v] # "received" => pc[v] # "received"
    BY <1>10 DEF BeginChapter, Goto, Active, TypeOK
  <2>4. OneInv' /\ TodoInv' /\ ViewInv' /\ TextInv'
    <3>1. OneInv' /\ TodoInv'
      BY <2>1, <2>2, <2>3 DEF Keeps, OneInv, TodoInv, TypeOK
    <3>2. ViewInv'
      BY <2>1, <2>2, <2>3, AtWork DEF Keeps, ViewInv
    <3>3. TextInv'
      BY <2>1, <2>2 DEF Keeps, TextInv
    <3> QED
      BY <3>1, <3>2, <3>3
  <2>5. RequestInv' /\ WholeInv'
    BY <2>1, <2>2, AtWork DEF Keeps, RequestInv, WholeInv, AllDone, Waiting
  <2> QED
    BY <2>4, <2>5 DEF Keeps
<1>11. ASSUME NEW w \in Worker, NEW c \in Chapter, NEW outcome \in {"completed", "failed"},
              EndChapter(w, c, outcome), text \subseteq text', outcome = "completed" => c \in text'
       PROVE  Keeps'
  <2>1. /\ At(w, c) /\ pc[w] = "writing" /\ cs[c] # "gone"
        /\ UNCHANGED <<state, req, restored>>
    BY <1>11 DEF EndChapter
  <2>2. cs'[c] = outcome /\ \A d \in Chapter \ {c} : cs'[d] = cs[d]
    BY <1>11 DEF EndChapter, TypeOK, Statuses
  <2>3. /\ \A v \in Worker : Active(v)' <=> Active(v)
        /\ \A v \in Worker \ {w} : pc'[v] = pc[v] /\ todo'[v] = todo[v] /\ view'[v] = view[v]
        /\ todo'[w] = todo[w] \ {c} /\ view'[w].state = view[w].state
        /\ view'[w].cs[c] = outcome
        /\ \A d \in Chapter \ {c} : view'[w].cs[d] = view[w].cs[d]
    BY <1>11 DEF EndChapter, Goto, Active, TypeOK, Copy, Statuses
  <2>4. OneInv' /\ TodoInv'
    <3>1. OneInv'
      BY <2>3 DEF Keeps, OneInv
    <3>2. \A v \in Worker : c \notin todo'[v] /\ todo'[v] \subseteq todo[v]
      BY <2>1, <2>3, AtWork
    <3>3. TodoInv'
      BY <2>2, <3>2 DEF Keeps, TodoInv, TypeOK
    <3> QED
      BY <3>1, <3>3
  <2>5. ViewInv'
    BY <2>1, <2>2, <2>3, AtWork DEF Keeps, ViewInv, Active
  <2>6. RequestInv' /\ WholeInv' /\ TextInv'
    BY <1>11, <2>1, <2>2, <2>3, AtWork DEF Keeps, RequestInv, WholeInv, TextInv, AllDone, Waiting
  <2> QED
    BY <2>4, <2>5, <2>6 DEF Keeps
<1>12. ASSUME NEW w \in Worker, NEW c \in Chapter, ChapterGone(w, c)
       PROVE  Keeps'
  <2>1. Stop(w) /\ UNCHANGED <<row, queue, req, bounds, hist>>
    BY <1>12 DEF ChapterGone
  <2> QED
    BY <2>1, Stopped DEF Keeps, OneInv, TodoInv, ViewInv, RequestInv, TextInv, WholeInv,
                         Active, AllDone, Waiting
<1>13. ASSUME NEW w \in Worker, FinishRun(w)
       PROVE  Keeps'
  <2>1. /\ Stop(w) /\ UNCHANGED <<text, req, restored>>
        /\ Active(w) /\ pc[w] = "loop"
    BY <1>13 DEF FinishRun, Active
  <2>2. view[w].state = "generating"
    BY <2>1 DEF Keeps, ViewInv
  <2>3. \/ Ends(SeenBy(w)) \/ Reviews(SeenBy(w)) \/ GivesUp(SeenBy(w)) \/ Idles(SeenBy(w))
    BY <1>13, <2>2, SeenType, FlushCases DEF FinishRun, Begins, Resets, Completes
  <2>4. cs' = cs
    BY <2>3 DEF Ends, Reviews, GivesUp, Idles
  <2>5. OneInv' /\ TodoInv' /\ ViewInv' /\ TextInv' /\ RequestInv'
    BY <2>1, <2>4, Stopped DEF Keeps, OneInv, TodoInv, ViewInv, RequestInv, TextInv, Active,
                               Waiting
  <2>6. WholeInv'
    <3>1. CASE Ends(SeenBy(w))
      <4>1. \A c \in Chapter : cs[c] \in {"completed", "gone"}
        BY <2>1, <3>1, SeenType DEF Ends, Keeps, ViewInv
      <4> QED
        BY <2>1, <2>4, <4>1 DEF Keeps, WholeInv, AllDone, Waiting
    <3>2. CASE ~Ends(SeenBy(w))
      BY <2>1, <2>3, <2>4, <3>2 DEF Reviews, GivesUp, Idles, Keeps, WholeInv, AllDone, Waiting
    <3> QED
      BY <3>1, <3>2
  <2> QED
    BY <2>5, <2>6 DEF Keeps
<1>14. ASSUME NEW w \in Worker, Crash(w)
       PROVE  Keeps'
  <2>1. Stop(w) /\ UNCHANGED <<row, req, hist>>
    BY <1>14 DEF Crash
  <2> QED
    BY <2>1, Stopped DEF Keeps, OneInv, TodoInv, ViewInv, RequestInv, TextInv, WholeInv,
                         Active, AllDone, Waiting
<1>15. ASSUME NEW w \in Worker, Redeliver(w)
       PROVE  Keeps'
  BY <1>15 DEF Redeliver, Keeps, OneInv, TodoInv, ViewInv, RequestInv, TextInv, WholeInv,
               Active, AllDone, Waiting
<1>16. CASE UNCHANGED vars
  BY <1>16 DEF vars, Keeps, OneInv, TodoInv, ViewInv, RequestInv, TextInv, WholeInv,
               Active, AllDone, Waiting
<1>17. ASSUME NEW w \in Worker, NEW c \in Chapter, ChapterWritten(w, c) \/ ChapterFails(w, c)
       PROVE  Keeps'
  BY <1>11, <1>17 DEF ChapterWritten, ChapterFails
<1> QED
  BY <1>1, <1>2, <1>3, <1>4, <1>5, <1>6, <1>7, <1>8, <1>9, <1>10, <1>12, <1>13, <1>14,
     <1>15, <1>16, <1>17 DEF Next, ApiStep, WorkerStep

-----------------------------------------------------------------------------
(* And no rollback: how far rounds can be apart.                           *)

LEMMA Rounds ==
  ASSUME PipelineAssumption, TypeOK
  PROVE  /\ MaxReviewRounds \in Nat
         /\ round \in Nat /\ round <= MaxReviewRounds
         /\ \A w \in Worker : view[w].round \in Nat /\ view[w].round <= MaxReviewRounds
         /\ Waiting => req.copy.round \in Nat /\ req.copy.round <= MaxReviewRounds
BY RequestType DEF PipelineAssumption, TypeOK, Copy

\* While no chapter was generated, no copy of the chapters ends the pass.
LEMMA UntouchedIsNotRipe ==
  ASSUME PipelineAssumption, Untouched
  PROVE  ~Ripe(Fresh)
BY DEF PipelineAssumption, Untouched, Ripe, Fresh, Done

\* What a request does not touch: only its phase and the queue change, and
\* the queue grows only when a worker is active or the request has flushed.
Calm ==
  /\ UNCHANGED <<state, round, cs, view, todo, pc>>
  /\ \/ req' = Idle /\ req.phase = "read" /\ queue' = queue
     \/ /\ Waiting /\ Waiting' /\ req'.copy = req.copy
        /\ req'.phase = req.phase \/ req'.phase = "flushed"
        /\ queue' = queue \/ req'.phase = "flushed" \/ \E w \in Worker : Active(w)
     \/ /\ ~Waiting /\ ~Waiting' /\ req' = req
        /\ queue' = queue \/ \E w \in Worker : Active(w)

LEMMA CalmStep ==
  ASSUME PipelineAssumption, TypeOK, Keeps, Counts, Calm
  PROVE  Counts'
<1> USE DEF Calm, Counts
<1>1. PlanInv'
  <2>1. req.phase = "flushed" => req'.phase = "flushed"
    BY RequestType DEF Idle
  <2>2. Waiting' => Waiting /\ req'.copy = req.copy /\ (req'.phase = "read" => req.phase = "read")
    BY RequestType DEF Idle, Waiting
  <2>3. req'.phase = "flushed" \/ queue' = queue \/ \E w \in Worker : Active(w)
    OBVIOUS
  <2>4. state = "planning" =>
          /\ Untouched
          /\ Waiting' => req'.copy.state = "planning"
          /\ \/ req'.phase = "flushed"
             \/ queue' = queue /\ queue = 0 /\ \A w \in Worker : ~Active(w)
    BY <2>1, <2>2, <2>3 DEF PlanInv
  <2> QED
    BY <2>1, <2>2, <2>3, <2>4 DEF PlanInv, Untouched, Active, Ripe
<1>2. Waiting' => Waiting /\ req'.copy = req.copy
  BY DEF Waiting
<1>3. ReviewInv'
  BY <1>2 DEF ReviewInv, Left
<1>4. FailedInv'
  BY DEF FailedInv, Active
<1>5. AheadInv' /\ NearInv'
  BY <1>2 DEF AheadInv, NearInv, Active, RipeRequest, Ripe, Fresh
<1>6. PassInv'
  BY <1>2 DEF PassInv, Active, RipeRequest, Ripe
<1>7. GaveUpInv'
  BY DEF GaveUpInv
<1> QED
  BY <1>1, <1>3, <1>4, <1>5, <1>6, <1>7

LEMMA StartReadCounts ==
  ASSUME PipelineAssumption, TypeOK, Keeps, Counts, StartRead
  PROVE  Counts'
<1>1. /\ req'.copy = Fresh /\ req'.phase = "read" /\ Waiting' /\ req.phase # "flushed"
      /\ UNCHANGED <<state, round, cs, view, todo, pc, queue>>
  BY DEF StartRead, Waiting, Idle, row, worker
<1> USE <1>1 DEF Counts
<1>2. PlanInv'
  BY UntouchedIsNotRipe DEF PlanInv, Fresh, Untouched, Active, Ripe
<1>3. ReviewInv'
  BY DEF ReviewInv, Fresh, Left
<1>4. FailedInv'
  BY DEF FailedInv, Active
<1>5. RipeRequest' => Ripe(Fresh)
  BY DEF RipeRequest, Ripe, Fresh
<1>6. AheadInv' /\ NearInv' /\ PassInv'
  BY <1>5 DEF AheadInv, NearInv, PassInv, Active, Fresh, Ripe
<1>7. GaveUpInv'
  BY DEF GaveUpInv
<1> QED
  BY <1>2, <1>3, <1>4, <1>6, <1>7

LEMMA StartCommitCounts ==
  ASSUME PipelineAssumption, TypeOK, Keeps, Counts, StartCommit
  PROVE  Counts'
<1> DEFINE old == req.copy
<1>1. /\ Waiting /\ old \in Copy /\ ~Waiting' /\ req.phase = "flushed"
      /\ UNCHANGED <<view, todo, pc, queue>>
  BY RequestType DEF StartCommit, Waiting, worker
<1>2. \/ Begins(old) \/ Ends(old) \/ Reviews(old) \/ GivesUp(old)
      \/ Resets(old) \/ Completes(old) \/ Idles(old)
  BY <1>1, FlushCases DEF StartCommit
<1>3. \A w \in Worker : Active(w)' <=> Active(w)
  BY <1>1 DEF Active
<1>4. Ripe(old) => \A w \in Worker : todo[w] = {}
  BY <1>1 DEF Ripe, Keeps, RequestInv, TypeOK
<1>5. \A c \in Chapter : Ripe(old) /\ old.cs[c] = "failed" => cs[c] \in {"failed", "gone"}
  BY <1>1 DEF Keeps, RequestInv, Done
<1>6. cs' = cs \/ Resets(old)
  BY <1>2 DEF Begins, Ends, Reviews, GivesUp, Completes, Idles
<1> HIDE DEF old
<1>7. PlanInv'
  <2>1. state' # "planning"
    BY <1>1, <1>2 DEF Counts, PlanInv, Begins, Ends, Reviews, GivesUp, Resets, Completes, Idles,
                      old
  <2>2. ASSUME NEW w \in Worker, Active(w), view[w].state = "planning"
        PROVE  Untouched' /\ pc[w] = "received" /\ state' \in {"planning", "generating", "paused"}
    <3>1. /\ Untouched /\ pc[w] = "received" /\ state \in {"planning", "generating", "paused"}
          /\ old.state \in {"planning", "generating", "paused"} /\ ~Ripe(old)
      BY <1>1, <2>2 DEF Counts, PlanInv, old
    <3>2. Begins(old) \/ Idles(old)
      BY <1>2, <3>1 DEF Ends, Reviews, GivesUp, Resets, Completes
    <3> QED
      BY <3>1, <3>2 DEF Begins, Idles, Untouched
  <2> QED
    BY <1>1, <1>3, <2>1, <2>2 DEF PlanInv
<1>8. ReviewInv'
  <2>1. CASE Reviews(old)
    BY <1>1, <1>5, <2>1 DEF ReviewInv, Reviews
  <2>2. CASE Idles(old)
    BY <1>1, <2>2 DEF Counts, ReviewInv, Left, Idles
  <2>3. CASE ~Reviews(old) /\ ~Idles(old)
    BY <1>1, <1>2, <2>3 DEF ReviewInv, Begins, Ends, GivesUp, Resets, Completes
  <2> QED
    BY <2>1, <2>2, <2>3
<1>9. FailedInv'
  <2>1. CASE Reviews(old)
    <3>1. \A w \in Worker : Active(w) => view[w].round < round'
      BY <1>1, <2>1, Rounds DEF Counts, AheadInv, Reviews, RipeRequest, old
    <3> QED
      BY <1>1, <1>3, <2>1, <3>1 DEF Counts, FailedInv, Reviews
  <2>2. CASE Resets(old)
    <3>1. \A w \in Worker : Active(w) => view[w].round < round'
      BY <1>1, <2>2 DEF Counts, AheadInv, Resets, old
    <3>2. \A c \in Chapter : cs[c] \in {"failed", "gone"} => cs'[c] \in {"failed", "gone", "pending"}
      BY <2>2 DEF Resets
    <3>3. \A c \in Chapter : cs[c] = "pending" => cs'[c] = "pending"
      BY <2>2 DEF Resets
    <3> QED
      BY <1>1, <1>3, <3>1, <3>2, <3>3 DEF Counts, FailedInv
  <2>3. CASE ~Reviews(old) /\ ~Resets(old)
    BY <1>1, <1>2, <1>3, <2>3 DEF Counts, FailedInv, Begins, Ends, GivesUp, Completes, Idles
  <2> QED
    BY <2>1, <2>2, <2>3
<1>10. AheadInv'
  <2>1. CASE Reviews(old)
    BY <1>1, <1>3, <2>1, Rounds DEF Counts, AheadInv, Reviews, RipeRequest, old
  <2>2. CASE ~Reviews(old)
    BY <1>1, <1>2, <1>3, <2>2
       DEF Counts, AheadInv, Begins, Ends, GivesUp, Resets, Completes, Idles, RipeRequest
  <2> QED
    BY <2>1, <2>2
<1>11. NearInv'
  <2>1. ~RipeRequest'
    BY <1>1 DEF RipeRequest
  <2>2. CASE Reviews(old)
    <3>1. \A w \in Worker : Active(w) /\ pc[w] = "received" => round' <= view[w].round + 1
      BY <1>1, <2>2, Rounds DEF Counts, NearInv, Reviews, RipeRequest, old
    <3>2. ~Ripe(Fresh)'
      BY <2>2 DEF Reviews, Ripe, Fresh
    <3> QED
      BY <1>1, <1>3, <1>4, <2>1, <2>2, <3>1, <3>2 DEF NearInv, Reviews
  <2>3. CASE Resets(old)
    <3>1. ~Ripe(Fresh)'
      <4>1. \E c \in Chapter : old.cs[c] = "failed" \/ cs[c] = "gone" \/ Left(c)
        BY <1>1, <2>3 DEF Counts, ReviewInv, Resets, old
      <4>2. \E c \in Chapter : cs'[c] \in {"pending", "gone"}
        BY <2>3, <4>1 DEF Resets, Left
      <4> QED
        BY <4>2 DEF Ripe, Fresh, Done
    <3> QED
      BY <1>1, <1>3, <2>1, <2>3, <3>1 DEF Counts, NearInv, Resets
  <2>4. CASE Begins(old)
    <3>1. ~Ripe(Fresh)'
      <4>1. Untouched'
        BY <1>1, <2>4 DEF Counts, PlanInv, Begins, Untouched, old
      <4> QED
        BY <4>1 DEF Untouched, Ripe, Fresh, Done, PipelineAssumption
    <3> QED
      BY <1>1, <1>3, <2>1, <2>4, <3>1 DEF Counts, NearInv, Begins
  <2>5. CASE Idles(old)
    BY <1>1, <1>3, <2>1, <2>5 DEF Counts, NearInv, Idles, Ripe, Fresh
  <2>6. CASE Ends(old) \/ GivesUp(old) \/ Completes(old)
    <3>1. ~Ripe(Fresh)'
      BY <2>6 DEF Ends, GivesUp, Completes, Ripe, Fresh
    <3> QED
      BY <1>1, <1>3, <2>1, <2>6, <3>1 DEF Counts, NearInv, Ends, GivesUp, Completes
  <2> QED
    BY <1>2, <2>2, <2>3, <2>4, <2>5, <2>6
<1>12. PassInv'
  BY <1>1 DEF PassInv, RipeRequest
<1>13. GaveUpInv'
  <2>1. CASE GivesUp(old)
    <3>1. round = MaxReviewRounds
      BY <1>1, <2>1, Rounds DEF Counts, PassInv, GivesUp, RipeRequest, old
    <3> QED
      BY <1>5, <2>1, <3>1 DEF GaveUpInv, GivesUp
  <2>2. CASE ~GivesUp(old)
    BY <1>1, <1>2, <2>2 DEF Counts, GaveUpInv, Begins, Ends, Reviews, Resets, Completes, Idles
  <2> QED
    BY <2>1, <2>2
<1> QED
  BY <1>7, <1>8, <1>9, <1>10, <1>11, <1>12, <1>13 DEF Counts

LEMMA PauseCounts ==
  ASSUME PipelineAssumption, TypeOK, Keeps, Counts, Pause
  PROVE  Counts'
<1>1. /\ state' = "paused"
      /\ UNCHANGED <<round, cs, view, todo, pc, queue, req>>
  BY DEF Pause, worker
<1> USE <1>1
<1>2. PlanInv'
  BY DEF Counts, PlanInv, Untouched, Active, Waiting, Ripe
<1>3. ReviewInv'
  BY DEF Counts, ReviewInv, Left, Waiting
<1>4. FailedInv' /\ AheadInv'
  BY DEF Counts, FailedInv, AheadInv, Active, Waiting, RipeRequest, Ripe
<1>5. NearInv' /\ PassInv' /\ GaveUpInv'
  BY DEF Counts, NearInv, PassInv, GaveUpInv, Active, Waiting, RipeRequest, Ripe, Fresh
<1> QED
  BY <1>2, <1>3, <1>4, <1>5 DEF Counts

LEMMA DeleteCounts ==
  ASSUME PipelineAssumption, TypeOK, Keeps, Counts, NEW c \in Chapter, DeleteChapter(c)
  PROVE  Counts'
<1>1. /\ UNCHANGED <<state, round, view, todo, pc, queue, req>>
      /\ cs'[c] = "gone" /\ \A d \in Chapter \ {c} : cs'[d] = cs[d]
  BY DEF DeleteChapter, worker, TypeOK, Statuses
<1> USE <1>1
<1>2. PlanInv'
  BY DEF Counts, PlanInv, Untouched, Active, Waiting, Ripe
<1>3. ReviewInv'
  BY DEF Counts, ReviewInv, Left, Waiting
<1>4. FailedInv' /\ AheadInv'
  BY DEF Counts, FailedInv, AheadInv, Active, Waiting, RipeRequest, Ripe
<1>5. ~Ripe(Fresh)'
  BY DEF Ripe, Fresh, Done
<1>6. NearInv' /\ PassInv' /\ GaveUpInv'
  BY <1>5 DEF Counts, NearInv, PassInv, GaveUpInv, Active, Waiting, RipeRequest, Ripe
<1> QED
  BY <1>2, <1>3, <1>4, <1>6 DEF Counts

LEMMA ReceiveCounts ==
  ASSUME PipelineAssumption, TypeOK, RestInv, Keeps, Counts, ~overlap',
         NEW w \in Worker, Receive(w)
  PROVE  Counts'
<1>1. /\ UNCHANGED <<state, round, cs, req>>
      /\ queue > 0 /\ queue' = queue - 1 /\ ~Active(w)
  BY DEF Receive, row
<1>2. req.phase # "read" \/ req.copy.state # "planning"
  BY <1>1, RequestType DEF Counts, PlanInv, TypeOK
<1>3. CASE UNCHANGED worker /\ state \notin {"generating", "planning"}
  <2>1. UNCHANGED <<view, todo, pc>>
    BY <1>3 DEF worker
  <2>2. PlanInv'
    BY <1>1, <1>2, <1>3, <2>1 DEF Counts, PlanInv, Untouched, Active, Waiting, Ripe
  <2>3. ReviewInv' /\ FailedInv' /\ AheadInv'
    BY <1>1, <2>1 DEF Counts, ReviewInv, FailedInv, AheadInv, Left, Active, Waiting,
                      RipeRequest, Ripe
  <2>4. NearInv' /\ PassInv' /\ GaveUpInv'
    BY <1>1, <2>1 DEF Counts, NearInv, PassInv, GaveUpInv, Active, Waiting, RipeRequest, Ripe,
                      Fresh
  <2> QED
    BY <2>2, <2>3, <2>4 DEF Counts
<1>4. CASE /\ state \in {"generating", "planning"}
           /\ view' = [view EXCEPT ![w] = Fresh] /\ Goto(w, "received")
           /\ overlap' = (overlap \/ \E v \in Worker : Active(v)) /\ UNCHANGED todo
  <2>1. \A v \in Worker : ~Active(v)
    BY <1>4
  <2>2. /\ \A v \in Worker : Active(v)' <=> v = w
        /\ pc'[w] = "received" /\ view'[w] = Fresh /\ \A v \in Worker : todo'[v] = {}
    BY <1>4, <2>1 DEF Goto, Active, TypeOK, RestInv
  <2>3. Fresh.state = state /\ Fresh.round = round /\ Fresh.cs = cs
    BY DEF Fresh
  <2>4. RipeRequest => round = req.copy.round
    BY <1>4 DEF Counts, PassInv
  <2>5. Waiting => req.copy.state # "reviewing"
    BY <1>4 DEF Counts, ReviewInv
  <2>6. PlanInv'
    <3>1. state = "planning" => req.phase = "flushed" /\ Untouched
      BY <1>1, <2>1, RequestType DEF Counts, PlanInv, TypeOK
    <3>2. state = "planning" /\ Waiting => req.copy.state = "planning"
      BY DEF Counts, PlanInv
    <3>3. Waiting /\ req.copy.state = "planning" => Untouched /\ state = "planning"
      BY <1>4 DEF Counts, PlanInv
    <3> QED
      BY <1>1, <1>2, <1>4, <2>2, <2>3, <3>1, <3>2, <3>3
         DEF PlanInv, Untouched, Waiting, Ripe
  <2>7. ReviewInv'
    BY <1>1, <1>4, <2>5 DEF ReviewInv, Waiting
  <2>8. FailedInv'
    BY <1>1, <2>2, <2>3 DEF FailedInv
  <2>9. AheadInv' /\ NearInv'
    BY <1>1, <1>4, <2>2, <2>3, <2>4, <2>5, Rounds
       DEF AheadInv, NearInv, RipeRequest, Waiting, Ripe
  <2>10. PassInv' /\ GaveUpInv'
    BY <1>1, <2>4 DEF Counts, PassInv, GaveUpInv, RipeRequest, Waiting, Ripe
  <2> QED
    BY <2>6, <2>7, <2>8, <2>9, <2>10 DEF Counts
<1> QED
  BY <1>3, <1>4 DEF Receive

LEMMA LoadPendingCounts ==
  ASSUME PipelineAssumption, TypeOK, RestInv, Keeps, Counts, NEW w \in Worker, LoadPending(w)
  PROVE  Counts'
<1>1. /\ UNCHANGED <<round, cs, queue, req>>
      /\ pc[w] = "received" /\ Active(w) /\ todo[w] = {}
      /\ \/ view[w].state = "planning" /\ req.phase # "flushed" /\ state' = "generating"
         \/ view[w].state = "generating" /\ state' = state
  BY DEF LoadPending, RowUnlocked, Active, RestInv
<1>2. /\ \A v \in Worker : Active(v)' <=> Active(v)
      /\ \A v \in Worker \ {w} : ~Active(v) /\ todo[v] = {}
      /\ pc'[w] = "loop" /\ view'[w].state = "generating" /\ view'[w].cs = view[w].cs
      /\ view'[w].round = view[w].round /\ todo'[w] = Selected
      /\ \A v \in Worker \ {w} : pc'[v] = pc[v] /\ view'[v] = view[v] /\ todo'[v] = todo[v]
  <2>1. \A v \in Worker \ {w} : ~Active(v) /\ todo[v] = {}
    BY <1>1 DEF Keeps, OneInv, RestInv, Active
  <2> QED
    BY <2>1, <1>1 DEF LoadPending, Goto, Active, TypeOK, Copy
<1>3. PlanInv'
  <2>1. ~(Waiting /\ req.copy.state = "planning" /\ view[w].state = "generating")
    BY <1>1 DEF Counts, PlanInv
  <2>2. ~(Waiting /\ req.copy.state = "planning" /\ view[w].state = "planning")
    BY <1>1, RequestType DEF Counts, PlanInv
  <2>3. state' = "planning" => req.phase = "flushed" /\ Untouched /\ ~Waiting
    BY <1>1, <2>1 DEF Counts, PlanInv
  <2> QED
    BY <1>1, <1>2, <2>1, <2>2, <2>3 DEF PlanInv, Untouched, Waiting
<1>4. ReviewInv'
  <2>1. \A c \in Chapter : ~Left(c)
    BY <1>1 DEF Left
  <2>2. Waiting /\ req.copy.state = "reviewing" => state' = state
    BY <1>1 DEF Counts, PlanInv
  <2> QED
    BY <1>1, <2>1, <2>2 DEF Counts, ReviewInv, Waiting
<1>5. FailedInv'
  BY <1>1, <1>2 DEF Counts, FailedInv, Selected
<1>6. AheadInv'
  BY <1>1, <1>2 DEF Counts, AheadInv, Waiting, RipeRequest, Ripe
<1>7. NearInv'
  <2>1. round <= view[w].round + 1
    BY <1>1 DEF Counts, NearInv
  <2>2. RipeRequest => req.copy.round <= view[w].round + 1
    BY <1>1, Rounds DEF Counts, NearInv, RipeRequest
  <2> QED
    BY <1>1, <1>2, <2>1, <2>2 DEF NearInv, RipeRequest, Waiting, Ripe
<1>8. PassInv' /\ GaveUpInv'
  BY <1>1, <1>2 DEF Counts, PassInv, GaveUpInv, RipeRequest, Waiting, Ripe
<1> QED
  BY <1>3, <1>4, <1>5, <1>6, <1>7, <1>8 DEF Counts

\* A worker past its selection is not at a run that is being planned.
LEMMA PastPlanning ==
  ASSUME TypeOK, Keeps, Counts, NEW w \in Worker, pc[w] \in {"loop", "writing"}
  PROVE  /\ Active(w) /\ view[w].state = "generating"
         /\ Waiting => req.copy.state # "planning"
         /\ state # "planning"
<1>1. Active(w) /\ view[w].state = "generating"
  BY DEF Active, Keeps, ViewInv
<1>2. Waiting => req.copy.state # "planning"
  BY <1>1 DEF Counts, PlanInv
<1>3. state # "planning"
  BY <1>1, <1>2, RequestType DEF Counts, PlanInv
<1> QED
  BY <1>1, <1>2, <1>3

LEMMA BeginCounts ==
  ASSUME PipelineAssumption, TypeOK, RestInv, Keeps, Counts,
         NEW w \in Worker, NEW c \in Chapter, BeginChapter(w, c)
  PROVE  Counts'
<1>1. /\ UNCHANGED <<state, round, queue, req, view, todo>>
      /\ pc[w] = "loop" /\ At(w, c) /\ cs[c] # "gone"
      /\ cs'[c] = "generating" /\ \A d \in Chapter \ {c} : cs'[d] = cs[d]
  BY DEF BeginChapter, TypeOK, Statuses
<1>2. /\ c \in todo[w] /\ cs[c] \in {"pending", "generating"}
      /\ \A v \in Worker \ {w} : ~Active(v)
  BY <1>1, AtWork
<1>3. /\ \A v \in Worker : Active(v)' <=> Active(v)
      /\ \A v \in Worker : pc'[v] = "received" <=> pc[v] = "received"
  BY <1>1 DEF BeginChapter, Goto, Active, TypeOK
<1>4. PlanInv'
  BY <1>1, <1>2, <1>3, PastPlanning DEF PlanInv, Waiting
<1>5. ReviewInv'
  <2>1. ~Left(c)
    BY <1>2 DEF Left
  <2>2. \A d \in Chapter \ {c} : Left(d) => Left(d)'
    BY <1>1, <1>3 DEF Left
  <2> QED
    BY <1>1, <1>2, <2>1, <2>2 DEF Counts, ReviewInv, Waiting
<1>6. FailedInv' /\ AheadInv'
  BY <1>1, <1>2, <1>3 DEF Counts, FailedInv, AheadInv, RipeRequest, Waiting, Ripe
<1>7. ~Ripe(Fresh)'
  BY <1>1 DEF Ripe, Fresh, Done
<1>8. NearInv' /\ PassInv' /\ GaveUpInv'
  BY <1>1, <1>2, <1>3, <1>7 DEF Counts, NearInv, PassInv, GaveUpInv, RipeRequest, Waiting, Ripe
<1> QED
  BY <1>4, <1>5, <1>6, <1>8 DEF Counts

LEMMA EndCounts ==
  ASSUME PipelineAssumption, TypeOK, RestInv, Keeps, Counts,
         NEW w \in Worker, NEW c \in Chapter, NEW outcome \in {"completed", "failed"},
         EndChapter(w, c, outcome)
  PROVE  Counts'
<1>1. /\ UNCHANGED <<state, round, queue, req>>
      /\ pc[w] = "writing" /\ At(w, c) /\ cs[c] # "gone"
      /\ cs'[c] = outcome /\ \A d \in Chapter \ {c} : cs'[d] = cs[d]
  BY DEF EndChapter, TypeOK, Statuses
<1>2. /\ c \in todo[w] /\ cs[c] \in {"pending", "generating"}
      /\ \A v \in Worker \ {w} : ~Active(v) /\ todo[v] = {}
  BY <1>1, AtWork
<1>3. /\ \A v \in Worker : Active(v)' <=> Active(v)
      /\ pc'[w] = "loop" /\ todo'[w] = todo[w] \ {c}
      /\ view'[w].state = view[w].state /\ view'[w].round = view[w].round
      /\ view'[w].cs[c] = outcome /\ \A d \in Chapter \ {c} : view'[w].cs[d] = view[w].cs[d]
      /\ \A v \in Worker \ {w} : pc'[v] = pc[v] /\ todo'[v] = todo[v] /\ view'[v] = view[v]
  BY <1>1 DEF EndChapter, Goto, Active, TypeOK, Copy, Statuses
<1>4. PlanInv'
  BY <1>1, <1>2, <1>3, PastPlanning DEF PlanInv, Waiting
<1>5. ReviewInv'
  <2>1. ~Left(c)
    BY <1>2 DEF Left
  <2>2. \A d \in Chapter \ {c} : Left(d) => Left(d)'
    BY <1>1, <1>2, <1>3 DEF Left
  <2> QED
    BY <1>1, <1>2, <2>1, <2>2 DEF Counts, ReviewInv, Waiting
<1>6. FailedInv'
  BY <1>1, <1>2, <1>3 DEF Counts, FailedInv
<1>7. AheadInv'
  BY <1>1, <1>2, <1>3 DEF Counts, AheadInv, RipeRequest, Waiting, Ripe
<1>8. NearInv'
  <2>1. round <= view[w].round + 1
    BY <1>1, <1>2 DEF Counts, NearInv, Active
  <2> QED
    BY <1>1, <1>2, <1>3, <2>1 DEF Counts, NearInv, RipeRequest, Waiting, Ripe
<1>9. PassInv' /\ GaveUpInv'
  BY <1>1, <1>2, <1>3 DEF Counts, PassInv, GaveUpInv, RipeRequest, Waiting, Ripe
<1> QED
  BY <1>4, <1>5, <1>6, <1>7, <1>8, <1>9 DEF Counts

\* A worker that ends without a flush, or dies.
LEMMA StopCounts ==
  ASSUME PipelineAssumption, TypeOK, RestInv, Keeps, Counts, NEW w \in Worker, Active(w),
         Stop(w), UNCHANGED <<row, req>>
  PROVE  Counts'
<1>1. UNCHANGED <<state, round, cs, req>>
  BY DEF row
<1>2. /\ \A v \in Worker : ~Active(v)' /\ todo'[v] = {}
      /\ \A v \in Worker : pc'[v] # "received"
  <2>1. \A v \in Worker \ {w} : ~Active(v) /\ todo[v] = {}
    BY DEF Keeps, OneInv, RestInv, Active
  <2> QED
    BY <2>1, Stopped DEF Active
<1>3. PlanInv'
  BY <1>1, <1>2, RequestType DEF Counts, PlanInv, Untouched, Waiting
<1>4. ReviewInv'
  BY <1>1, <1>2 DEF Counts, ReviewInv, Left, Waiting
<1>5. FailedInv' /\ AheadInv' /\ NearInv'
  BY <1>2 DEF FailedInv, AheadInv, NearInv
<1>6. PassInv' /\ GaveUpInv'
  BY <1>1, <1>2 DEF Counts, PassInv, GaveUpInv, RipeRequest, Waiting, Ripe
<1> QED
  BY <1>3, <1>4, <1>5, <1>6 DEF Counts

LEMMA FinishRunCounts ==
  ASSUME PipelineAssumption, TypeOK, RestInv, Keeps, Counts, NEW w \in Worker, FinishRun(w)
  PROVE  Counts'
<1> DEFINE old == SeenBy(w)
<1>1. /\ UNCHANGED <<queue, req>> /\ Stop(w) /\ pc[w] = "loop" /\ Active(w)
      /\ old \in Copy /\ old.state = "generating" /\ old.round = view[w].round
      /\ todo[w] = {}
  BY PastPlanning, SeenType DEF FinishRun
<1>2. Ends(old) \/ Reviews(old) \/ GivesUp(old) \/ Idles(old)
  BY <1>1, FlushCases DEF FinishRun, Begins, Resets, Completes
<1>3. cs' = cs
  BY <1>2 DEF Ends, Reviews, GivesUp, Idles
<1>4. /\ \A v \in Worker : ~Active(v)' /\ todo'[v] = {}
      /\ \A v \in Worker : pc'[v] # "received"
  <2>1. \A v \in Worker \ {w} : ~Active(v) /\ todo[v] = {}
    BY <1>1 DEF Keeps, OneInv, RestInv, Active
  <2> QED
    BY <1>1, <2>1, Stopped DEF Active
<1>5. \A c \in Chapter : old.cs[c] = "failed" =>
        cs[c] \in {"failed", "gone"} \/ (cs[c] = "pending" /\ view[w].round < round)
  BY <1>1, SeenType DEF Counts, FailedInv
<1> HIDE DEF old
<1>6. PlanInv'
  <2>1. state' # "planning"
    BY <1>1, <1>2, PastPlanning DEF Ends, Reviews, GivesUp, Idles
  <2> QED
    BY <1>1, <1>4, <2>1, PastPlanning DEF PlanInv, Waiting
<1>7. ReviewInv'
  <2>1. \A c \in Chapter : cs[c] = "pending" => Left(c)'
    BY <1>3, <1>4 DEF Left
  <2>2. \A c \in Chapter : Left(c) => Left(c)'
    BY <2>1 DEF Left
  <2>3. state' = "reviewing" =>
          \E c \in Chapter : cs'[c] \in {"failed", "gone"} \/ Left(c)'
    BY <1>2, <1>3, <1>5, <2>1, <2>2 DEF Counts, ReviewInv, Ends, Reviews, GivesUp, Idles
  <2>4. Waiting /\ req.copy.state = "reviewing" => state' \notin {"planning", "generating"}
    BY <1>2 DEF Counts, ReviewInv, Ends, Reviews, GivesUp, Idles
  <2> QED
    BY <1>1, <1>3, <2>2, <2>3, <2>4 DEF Counts, ReviewInv, Waiting
<1>8. FailedInv' /\ AheadInv' /\ NearInv'
  BY <1>4 DEF FailedInv, AheadInv, NearInv
<1>9. PassInv'
  <2>1. ASSUME RipeRequest, Reviews(old)
        PROVE  \/ round' = req.copy.round
               \/ round' = req.copy.round + 1 /\ state' = "reviewing"
    <3>1. /\ view[w].round <= req.copy.round /\ req.copy.round <= view[w].round + 1
          /\ round' = view[w].round + 1 /\ state' = "reviewing"
      BY <1>1, <2>1 DEF Counts, AheadInv, NearInv, Reviews
    <3> QED
      BY <2>1, <3>1, Rounds DEF RipeRequest
  <2>2. RipeRequest /\ ~Reviews(old) => round' = req.copy.round
    BY <1>1, <1>2 DEF Counts, PassInv, Ends, GivesUp, Idles
  <2> QED
    BY <1>1, <1>4, <2>1, <2>2 DEF PassInv, RipeRequest, Waiting, Ripe
<1>10. GaveUpInv'
  <2>1. CASE GivesUp(old)
    <3>1. view[w].round <= round /\ view[w].round = MaxReviewRounds
      BY <1>1, <2>1 DEF Counts, AheadInv, GivesUp
    <3> QED
      BY <1>5, <2>1, <3>1, Rounds DEF GaveUpInv, GivesUp
  <2>2. CASE ~GivesUp(old)
    BY <1>2, <2>2 DEF Counts, GaveUpInv, Ends, Reviews, Idles
  <2> QED
    BY <2>1, <2>2
<1> QED
  BY <1>6, <1>7, <1>8, <1>9, <1>10 DEF Counts

LEMMA CountsStep ==
  ASSUME PipelineAssumption, TypeOK, RestInv, Keeps, Counts, ~overlap', ~restored', [Next]_vars
  PROVE  Counts'
<1> USE DEF row, worker, bounds, hist
<1>1. CASE StartSend
  BY <1>1, CalmStep, RequestType DEF StartSend, Calm, Waiting, Idle
<1>2. CASE StartSendFails
  BY <1>2, CalmStep DEF StartSendFails, Calm
<1>3. ASSUME NEW w \in Worker, Redeliver(w)
      PROVE  Counts'
  BY <1>3, CalmStep DEF Redeliver, Calm, Waiting
<1>4. CASE UNCHANGED vars
  BY <1>4, CalmStep DEF vars, Calm, Waiting
<1>5. CASE Rollback
  BY <1>5 DEF Rollback
<1>6. ASSUME NEW w \in Worker, Crash(w)
      PROVE  Counts'
  BY <1>6, StopCounts DEF Crash
<1>7. ASSUME NEW w \in Worker, NEW c \in Chapter, ChapterGone(w, c)
      PROVE  Counts'
  BY <1>7, StopCounts DEF ChapterGone, Active
<1>8. ASSUME NEW w \in Worker, NEW c \in Chapter, ChapterWritten(w, c) \/ ChapterFails(w, c)
      PROVE  Counts'
  BY <1>8, EndCounts DEF ChapterWritten, ChapterFails
<1>9. ASSUME NEW w \in Worker, NEW c \in Chapter, BeginChapter(w, c)
      PROVE  Counts'
  BY <1>9, BeginCounts
<1>10. ASSUME NEW w \in Worker, Receive(w) \/ LoadPending(w) \/ FinishRun(w)
       PROVE  Counts'
  BY <1>10, ReceiveCounts, LoadPendingCounts, FinishRunCounts
<1>11. ASSUME NEW c \in Chapter, DeleteChapter(c)
       PROVE  Counts'
  BY <1>11, DeleteCounts
<1> QED
  BY <1>1, <1>2, <1>3, <1>4, <1>5, <1>6, <1>7, <1>8, <1>9, <1>10, <1>11,
     StartReadCounts, StartCommitCounts, PauseCounts DEF Next, ApiStep, WorkerStep

-----------------------------------------------------------------------------
(* The theorems.                                                           *)

LEMMA InitHolds ==
  ASSUME PipelineAssumption, Init
  PROVE  IInv
<1>1. TypeOK /\ RestInv
  BY InitTypes
<1>2. ~Waiting /\ (\A w \in Worker : ~Active(w)) /\ state = "planning" /\ queue = 0
  BY DEF Init, Waiting, Active
<1>3. \A c \in Chapter : cs[c] = "pending"
  BY DEF Init
<1>4. Keeps
  BY <1>2, <1>3 DEF Init, Keeps, OneInv, TodoInv, ViewInv, RequestInv, TextInv, WholeInv
<1>5. Counts
  BY <1>2, <1>3 DEF Counts, PlanInv, Untouched, ReviewInv, FailedInv, AheadInv, NearInv,
                    PassInv, GaveUpInv, RipeRequest
<1> QED
  BY <1>1, <1>4, <1>5 DEF IInv

\* Two workers at once and rollbacks are not forgotten.
LEMMA Remembered ==
  ASSUME TypeOK, [Next]_vars
  PROVE  (overlap => overlap') /\ (restored => restored')
BY DEF TypeOK, Next, ApiStep, WorkerStep, vars, hist, StartRead, StartSend, StartCommit,
       StartSendFails, Pause, Rollback, DeleteChapter, Receive, LoadPending, BeginChapter,
       EndChapter, ChapterWritten, ChapterFails, ChapterGone, FinishRun, Crash, Redeliver

LEMMA Invariant ==
  ASSUME PipelineAssumption
  PROVE  Spec => []IInv
<1>1. Init => IInv
  BY InitHolds
<1>2. IInv /\ [Next]_vars => IInv'
  BY TypeStep, KeepsStep, CountsStep, Remembered DEF IInv
<1> QED
  BY <1>1, <1>2, PTL DEF Spec

\* The variables of a run keep their types, whatever the chapters, the
\* workers and the review rounds.
THEOREM TypeCorrect ==
  ASSUME PipelineAssumption
  PROVE  Spec => []TypeOK
<1>1. IInv => TypeOK
  BY DEF IInv
<1> QED
  BY <1>1, Invariant, PTL

\* advance_pipeline: whichever side advances the run, it is polished or
\* completed only when every chapter of it was written.
THEOREM OnlyWholeIsPolished ==
  ASSUME PipelineAssumption
  PROVE  Spec => []PolishedIsWhole
<1>1. IInv => PolishedIsWhole
  BY DEF IInv, Keeps, WholeInv, TextInv, AllDone, PolishedIsWhole
<1> QED
  BY <1>1, Invariant, PTL

\* advance_pipeline against stale copies: a run that was never rolled back
\* fails only after the last of its review rounds, however its start requests,
\* pauses, crashes and redeliveries fall together.
THEOREM RoundsAreUsed ==
  ASSUME PipelineAssumption
  PROVE  Spec => []FailedAfterAllRounds
<1>1. IInv => FailedAfterAllRounds
  BY DEF IInv, Counts, GaveUpInv, FailedAfterAllRounds
<1> QED
  BY <1>1, Invariant, PTL

\* The worker and the start request write statuses back from copies; neither
\* takes a completed chapter up again.
THEOREM CompletedIsKept ==
  ASSUME PipelineAssumption
  PROVE  Spec => NoRegeneration
<1> DEFINE Kept == ~overlap' => \A c \in Chapter : cs[c] = "completed" =>
                                                  cs'[c] \in {"completed", "gone"}
<1>1. IInv /\ [Next]_vars => [Kept]_vars
  <2> SUFFICES ASSUME IInv, Next, ~overlap', NEW c \in Chapter, cs[c] = "completed"
               PROVE  cs'[c] \in {"completed", "gone"}
    OBVIOUS
  <2>1. TypeOK /\ RestInv /\ Keeps
    BY Remembered DEF IInv
  <2>2. CASE cs' = cs
    BY <2>2
  <2>3. CASE StartCommit
    <3>1. Waiting /\ req.copy \in Copy
      BY <2>1, <2>3, RequestType DEF StartCommit
    <3>2. cs' = cs \/ Resets(req.copy)
      BY <2>1, <2>3, <3>1, FlushCases
         DEF StartCommit, Begins, Ends, Reviews, GivesUp, Completes, Idles
    <3>3. req.copy.cs[c] # "failed"
      BY <2>1, <3>1 DEF Keeps, RequestInv, Done
    <3> QED
      BY <3>2, <3>3 DEF Resets
  <2>4. ASSUME NEW w \in Worker, FinishRun(w)
        PROVE  cs' = cs
    <3>1. view[w].state = "generating"
      BY <2>1, <2>4 DEF Keeps, ViewInv, FinishRun, Active
    <3> QED
      BY <2>1, <2>4, <3>1, SeenType, FlushCases
         DEF FinishRun, Begins, Ends, Reviews, GivesUp, Resets, Completes, Idles
  <2>5. ASSUME NEW d \in Chapter, DeleteChapter(d)
        PROVE  cs'[c] \in {"completed", "gone"}
    BY <2>1, <2>5 DEF DeleteChapter, TypeOK, Statuses
  <2>6. ASSUME NEW w \in Worker, NEW d \in Chapter,
               BeginChapter(w, d) \/ ChapterWritten(w, d) \/ ChapterFails(w, d)
        PROVE  cs'[c] = "completed"
    <3>1. /\ At(w, d) /\ pc[w] \in {"loop", "writing"} /\ cs[d] # "gone"
          /\ \A b \in Chapter \ {d} : cs'[b] = cs[b]
      BY <2>1, <2>6 DEF BeginChapter, ChapterWritten, ChapterFails, EndChapter, TypeOK, Statuses
    <3>2. c # d
      BY <2>1, <3>1, AtWork
    <3> QED
      BY <3>1, <3>2
  <2> QED
    BY <2>2, <2>3, <2>4, <2>5, <2>6
       DEF Next, ApiStep, WorkerStep, row, StartRead, StartSend, StartSendFails, Pause, Rollback,
           Receive, LoadPending, ChapterGone, Crash, Redeliver
<1> QED
  BY <1>1, Invariant, PTL DEF Spec, NoRegeneration
=============================================================================
