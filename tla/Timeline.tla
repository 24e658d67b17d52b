------------------------------ MODULE Timeline ------------------------------
(***************************************************************************)
(* services/entity_timeline.py: the history of one character in Neo4j, as  *)
(* the extractions of chapters write it.  A fact holds from a chapter to a *)
(* chapter or is open.  Every statement is a transaction of its own, and a *)
(* statement that fails ends its method with a warning: the extraction     *)
(* goes on.                                                                *)
(***************************************************************************)
EXTENDS Integers, FiniteSets, FiniteSetsExt

CONSTANTS Workers,      \* extractions that may run at once
          Chapters,     \* indices of the chapters
          Values,       \* contents of a state, names of places
          Kinds,        \* the kinds of report the run allows, of Reports
          MaxReports    \* bound on the reports of all extractions

Open == 99
Reports == {"new", "state", "meet", "bond", "move"}

TimelineAssumption == /\ Chapters \subseteq 1 .. (Open - 1) /\ Kinds \subseteq Reports
                             /\ MaxReports \in Nat

VARIABLES known,     \* is there a Character node
          facts,     \* HAS_STATE, RELATES_TO and AT_LOCATION, with their spans
          job,       \* the extraction of each worker
          reports,   \* how many reports were taken up
          last,      \* history: the latest chapter, and the last state reported
          inOrder,   \* history: one extraction at a time, in the order of chapters
          clean      \* history: no statement failed, and the character was introduced once
timelineVars == <<known, facts, job, reports, last, inOrder, clean>>

\* A serial number tells facts apart that have the same content.
Fact(kind, from, val) == [kind |-> kind, from |-> from, to |-> Open, val |-> val, id |-> reports]
Of(kind) == {f \in facts : f.kind = kind}
OpenOf(kind) == {f \in Of(kind) : f.to = Open}

Idle == [pc |-> "idle", chapter |-> 0, stage |-> 0, val |-> 0]

TimelineInit ==
  /\ known = FALSE /\ facts = {}
  /\ job = [w \in Workers |-> Idle]
  /\ reports = 0 /\ last = [chapter |-> 0, state |-> {}]
  /\ inOrder = TRUE /\ clean = TRUE

At(w, step) == job[w].pc = step
Go(w, step) == job' = [job EXCEPT ![w].pc = step]

StartExtraction(w) ==
  /\ At(w, "idle") /\ reports < MaxReports
  /\ \E c \in Chapters :
       /\ job' = [job EXCEPT ![w] = [Idle EXCEPT !.pc = "next", !.chapter = c]]
       /\ inOrder' = (inOrder /\ c >= last.chapter /\ \A v \in Workers : At(v, "idle"))
       /\ last' = [last EXCEPT !.chapter = Max({@, c})]
  /\ UNCHANGED <<known, facts, reports, clean>>

(* The lists of the model's answer are gone through in the order of stages. *)
Stage(kind) == CASE kind = "new" -> 1 [] kind = "state" -> 2 [] kind = "meet" -> 3
                 [] kind = "bond" -> 4 [] kind = "move" -> 5
First(kind) == CASE kind = "new" -> "add" [] kind = "state" -> "probe" [] kind = "meet" -> "meet"
                 [] kind = "bond" -> "closeBond" [] kind = "move" -> "appear"

\* A character that is new a second time, with a state from chapter 0 already there, has two.
TakeReport(w) ==
  /\ At(w, "next") /\ reports < MaxReports
  /\ \E kind \in Kinds, v \in Values :
       /\ Stage(kind) >= job[w].stage
       /\ job' = [job EXCEPT ![w] = [@ EXCEPT !.pc = First(kind), !.stage = Stage(kind), !.val = v]]
       /\ last' = IF kind \in {"new", "state"} THEN [last EXCEPT !.state = {v}] ELSE last
       /\ clean' = (clean /\ (kind = "new" => \A f \in Of("state") : f.from # 0)
                          /\ (kind = "state" => known))
  /\ reports' = reports + 1
  /\ UNCHANGED <<known, facts, inOrder>>

EndExtraction(w) ==
  /\ At(w, "next")
  /\ job' = [job EXCEPT ![w] = Idle]
  /\ UNCHANGED <<known, facts, reports, last, inOrder, clean>>

-----------------------------------------------------------------------------
(* add_character: MERGE of the node, then a state that is open from the     *)
(* start of the book; update_character_state follows.                       *)
AddCharacter(w) ==
  /\ At(w, "add")
  /\ known' = TRUE /\ Go(w, "initial")
  /\ UNCHANGED <<facts, reports, last, inOrder, clean>>

InitialState(w) ==
  /\ At(w, "initial")
  /\ facts' = facts \cup {Fact("state", 0, job[w].val)}
  /\ Go(w, "probe")
  /\ UNCHANGED <<known, reports, last, inOrder, clean>>

(* The open state that began last; any of those that began together.  No    *)
(* change, no write.                                                        *)
Latest(S) == {f \in S : \A g \in S : g.from <= f.from}
ProbeState(w) ==
  /\ At(w, "probe")
  /\ IF Latest(OpenOf("state")) = {} THEN Go(w, "closeState")
     ELSE \E f \in Latest(OpenOf("state")) :
            Go(w, IF f.val = job[w].val THEN "next" ELSE "closeState")
  /\ UNCHANGED <<known, facts, reports, last, inOrder, clean>>

\* A fact ends a chapter too early (a defect to look for).
CloseTooEarly(w, kind) == {IF f \in OpenOf(kind) THEN [f EXCEPT !.to = job[w].chapter - 2] ELSE f : f \in facts}
Close(w, kind) == {IF f \in OpenOf(kind) THEN [f EXCEPT !.to = job[w].chapter - 1] ELSE f : f \in facts}

CloseState(w) ==
  /\ At(w, "closeState")
  /\ facts' = Close(w, "state") /\ Go(w, "createState")
  /\ UNCHANGED <<known, reports, last, inOrder, clean>>

\* MATCH finds no character that is not known, and creates nothing.
CreateState(w) ==
  /\ At(w, "createState")
  /\ facts' = IF known THEN facts \cup {Fact("state", job[w].chapter, job[w].val)} ELSE facts
  /\ Go(w, "next")
  /\ UNCHANGED <<known, reports, last, inOrder, clean>>

\* add_relationship closes nothing; update_relationship closes and creates.
AddRelationship(w) ==
  /\ At(w, "meet")
  /\ known' = TRUE
  /\ facts' = facts \cup {Fact("bond", job[w].chapter, job[w].val)}
  /\ Go(w, "next")
  /\ UNCHANGED <<reports, last, inOrder, clean>>

CloseBond(w) ==
  /\ At(w, "closeBond")
  /\ facts' = Close(w, "bond") /\ Go(w, "createBond")
  /\ UNCHANGED <<known, reports, last, inOrder, clean>>

CreateBond(w) ==
  /\ At(w, "createBond")
  /\ facts' = IF known THEN facts \cup {Fact("bond", job[w].chapter, job[w].val)} ELSE facts
  /\ Go(w, "next")
  /\ UNCHANGED <<known, reports, last, inOrder, clean>>

\* add_character without a state, then _set_character_location.
Appear(w) ==
  /\ At(w, "appear")
  /\ known' = TRUE /\ Go(w, "leave")
  /\ UNCHANGED <<facts, reports, last, inOrder, clean>>

Leave(w) ==
  /\ At(w, "leave")
  /\ facts' = Close(w, "place") /\ Go(w, "arrive")
  /\ UNCHANGED <<known, reports, last, inOrder, clean>>

(* MERGE finds the edge of this chapter to this place and leaves its end as *)
(* it is; an edge of this chapter to another place violates the constraint  *)
(* on (character, chapter_start).                                           *)
Arrive(w) ==
  /\ At(w, "arrive")
  /\ facts' = IF \E f \in Of("place") : f.from = job[w].chapter THEN facts
              ELSE facts \cup {Fact("place", job[w].chapter, job[w].val)}
  /\ Go(w, "next")
  /\ UNCHANGED <<known, reports, last, inOrder, clean>>

\* Neo4j does not answer; the method is over.
FailStatement(w) ==
  /\ job[w].pc \notin {"idle", "next"}
  /\ Go(w, IF At(w, "add") \/ At(w, "initial") THEN "probe"
           ELSE IF At(w, "appear") THEN "leave" ELSE "next")
  /\ clean' = FALSE
  /\ UNCHANGED <<known, facts, reports, last, inOrder>>

TimelineNext ==
  \E w \in Workers :
    \/ StartExtraction(w) \/ TakeReport(w) \/ EndExtraction(w)
    \/ AddCharacter(w) \/ InitialState(w) \/ ProbeState(w) \/ CloseState(w) \/ CreateState(w)
    \/ AddRelationship(w) \/ CloseBond(w) \/ CreateBond(w)
    \/ Appear(w) \/ Leave(w) \/ Arrive(w) \/ FailStatement(w)

-----------------------------------------------------------------------------
TimelineTypeOK ==
  /\ {known, inOrder, clean} \subseteq BOOLEAN
  /\ facts \subseteq [kind : {"state", "bond", "place"}, from : {0} \cup Chapters,
                      to : {-1, 0, Open} \cup Chapters, val : Values, id : 0 .. MaxReports]
  /\ reports \in 0 .. MaxReports

Covering(kind, c) == {f \in Of(kind) : f.from <= c /\ c <= f.to}
\* get_character_state_at
StateAt(c) == {f.val : f \in Latest(Covering("state", c))}

(* Extractions that ran one at a time and in the order of the chapters, of  *)
(* a character introduced once and before its state changed, with no failed *)
(* statement: the state of the latest chapter is the one last reported.     *)
LastReportServed ==
  inOrder /\ clean /\ (\A w \in Workers : At(w, "idle") \/ At(w, "next"))
  => (last.state # {} => StateAt(last.chapter) = last.state)

(* Whatever failed: as long as no extraction ran beside another or before   *)
(* one of an earlier chapter, a character is never in two places in one     *)
(* chapter.                                                                 *)
OnePlace == inOrder => \A c \in Chapters : Cardinality(Covering("place", c)) <= 1

TimelineSound == LastReportServed /\ OnePlace

(* What earlier chapters say of a character is not rewritten by a later one.*)
PastKept ==
  inOrder' /\ clean' =>
    \A c \in Chapters : c < last.chapter /\ StateAt(c) # {} => StateAt(c)' = StateAt(c)
=============================================================================
