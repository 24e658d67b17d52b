-------------------------------- MODULE Arc --------------------------------
(***************************************************************************)
(* A book that grows by arcs (services/arc_loop.py and api/arc.py).  An    *)
(* arc is a volume whose outline keeps the state of the loop as one JSON   *)
(* value: the author gives a direction, a chapter is written and reported, *)
(* and a full arc waits for the next.  Every request loads the arc with    *)
(* the highest index, may ask the model, and stores the whole value.       *)
(***************************************************************************)
EXTENDS Integers, Sequences, FiniteSets, SequencesExt, FiniteSetsExt

CONSTANTS Requests,     \* requests of the author and of his client's retries
          Targets,      \* target_chapters an author may name
          MinTarget, MaxTarget,         \* _MIN_TARGET and _MAX_TARGET
          MaxArcs, MaxRequests          \* bounds

ArcAssumption == Targets \subseteq Int /\ {MinTarget, MaxTarget, MaxArcs, MaxRequests} \subseteq Nat /\ MinTarget <= MaxTarget

VARIABLES arcs,         \* the volume outlines with an _arc, in the order of their creation
          request,      \* each request
          made,         \* history: requests so far
          reports,      \* history: chapters reported
          crossed,      \* history: two requests overlapped
          restarted     \* history: a start of a book that had an arc
arcVars == <<arcs, request, made, reports, crossed, restarted>>

Clamped(n) == Max({MinTarget, Min({MaxTarget, n})})
NewArc(i, n, given) ==
  [idx |-> i, target |-> Clamped(n), status |-> "active", written |-> 0, direction |-> given]
NoRequest == [pc |-> "idle", row |-> 0, state |-> NewArc(0, 1, FALSE)]

ArcInit ==
  /\ arcs = <<>> /\ request = [r \in Requests |-> NoRequest]
  /\ made = 0 /\ reports = 0 /\ crossed = FALSE /\ restarted = FALSE

Doing(r, step) == request[r].pc = step
Finish(r) == request' = [request EXCEPT ![r] = NoRequest]

(* _load_current_arc: the highest index; of two the query finds either.     *)
Highest == {n \in DOMAIN arcs : \A m \in DOMAIN arcs : arcs[m].idx <= arcs[n].idx}
Begin(r, step, n) ==
  /\ Doing(r, "idle") /\ made < MaxRequests /\ made' = made + 1
  /\ request' = [request EXCEPT ![r] = [pc |-> step, row |-> n,
                                        state |-> IF n = 0 THEN NoRequest.state ELSE arcs[n]]]
  /\ crossed' = (crossed \/ \E s \in Requests : ~Doing(s, "idle"))
  /\ UNCHANGED <<arcs, reports>>

-----------------------------------------------------------------------------
(* start_arc has no condition but the project.                              *)
Start(r) == Begin(r, "start", 0) /\ restarted' = (restarted \/ arcs # <<>>)
(* next_arc wants the current arc completed, if there is one.               *)
Completed == IF arcs = <<>> THEN {0} ELSE {n \in Highest : arcs[n].status = "completed"}
NextArc(r) == (\E n \in Completed : Begin(r, "next", n)) /\ UNCHANGED restarted

(* The model's outline, a volume and an outline; without one there is none. *)
Create(r) ==
  /\ request[r].pc \in {"start", "next"} /\ Len(arcs) < MaxArcs
  /\ \E n \in Targets, given \in BOOLEAN :
       arcs' = Append(arcs, NewArc(IF Doing(r, "start") THEN 1 ELSE request[r].state.idx + 1, n, given))
  /\ Finish(r)
  /\ UNCHANGED <<made, reports, crossed, restarted>>

-----------------------------------------------------------------------------
(* advance_arc_state.  A report does not ask whether the arc is completed.  *)
Advanced(s) ==
  [s EXCEPT !.written = @ + 1, !.direction = FALSE,
            !.status = IF s.written + 1 >= s.target THEN "completed" ELSE "awaiting"]
Directed(s) == IF s.status = "completed" THEN s ELSE [s EXCEPT !.direction = TRUE, !.status = "active"]

ChapterWritten(r) == (\E n \in Highest : Begin(r, "written", n)) /\ UNCHANGED restarted
NextDirection(r) == (\E n \in Highest : Begin(r, "direction", n)) /\ UNCHANGED restarted
(* complete_arc asks the model for suggestions first, and gets none if that *)
(* fails.                                                                   *)
CompleteArc(r) == (\E n \in Highest : Begin(r, "complete", n)) /\ UNCHANGED restarted

(* _persist_arc: the state made from what was loaded.                       *)
After(r) ==
  LET s == request[r].state IN
  CASE Doing(r, "written")   -> Advanced(s)
    [] Doing(r, "direction") -> Directed(s)
    [] Doing(r, "complete")  -> [s EXCEPT !.status = "completed"]
Persist(r) ==
  /\ request[r].pc \in {"written", "direction", "complete"}
  /\ arcs' = [arcs EXCEPT ![request[r].row] = After(r)]
  /\ reports' = reports + (IF Doing(r, "written") THEN 1 ELSE 0)
  /\ Finish(r)
  /\ UNCHANGED <<made, crossed, restarted>>

(* The request fails and is rolled back.                                    *)
Fail(r) ==
  /\ ~Doing(r, "idle") /\ Finish(r)
  /\ UNCHANGED <<arcs, made, reports, crossed, restarted>>

ArcNext ==
  \E r \in Requests :
    \/ Start(r) \/ NextArc(r) \/ Create(r) \/ ChapterWritten(r) \/ NextDirection(r)
    \/ CompleteArc(r) \/ Persist(r) \/ Fail(r)

ArcSpec == ArcInit /\ [][ArcNext]_arcVars
-----------------------------------------------------------------------------
ArcTypeOK ==
  /\ \A n \in DOMAIN arcs : /\ arcs[n].idx > 0 /\ arcs[n].target \in MinTarget..MaxTarget
                            /\ arcs[n].status \in {"active", "awaiting", "completed"}
  /\ \A r \in Requests : request[r].row \in 0..Len(arcs)

(* Whatever requests overlap, the stored state of an arc fits together: a   *)
(* full arc is completed, one that waits for a direction has none and has   *)
(* begun, one in progress knows where it goes.                              *)
StateFits ==
  \A n \in DOMAIN arcs : LET a == arcs[n] IN
    /\ a.written >= a.target => a.status = "completed"
    /\ a.status = "awaiting" => ~a.direction /\ a.written \in 1..(a.target - 1)
    /\ a.status = "active" /\ a.written > 0 => a.direction
(* As long as no requests overlap and no book is started twice, the arcs    *)
(* are numbered in order, only the last is not completed, and every chapter *)
(* reported is counted in one arc.                                          *)
OneArcAtATime ==
  ~crossed /\ ~restarted =>
    /\ \A n \in DOMAIN arcs : arcs[n].idx = n /\ (n < Len(arcs) => arcs[n].status = "completed")
    /\ reports = FoldLeft(LAMBDA sum, a : sum + a.written, 0, arcs)
ArcSound == StateFits /\ OneArcAtATime
=============================================================================
