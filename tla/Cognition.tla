----------------------------- MODULE Cognition -----------------------------
(***************************************************************************)
(* The ledger of who knows what (services/character_cognition.py).  After  *)
(* a chapter is settled its task loads the ledger, asks the model for the  *)
(* changes, merges them and saves every row; nothing keeps two chapters of *)
(* one book from doing so at once.                                         *)
(***************************************************************************)
EXTENDS Naturals, Sequences, SequencesExt

CONSTANTS Figures,      \* characters
          Reader,       \* the pseudo character of the reader
          Truths,       \* pieces of information
          Chroniclers,  \* tasks of finished chapters
          MaxFacts,     \* MAX_FACTS_PER_CHARACTER
          MaxChanges,   \* changes of one answer
          MaxChapters   \* bound on the chapters ingested

Everyone == Figures \cup {Reader}
CognitionAssumption ==
  /\ Reader \notin Figures /\ {MaxFacts, MaxChanges, MaxChapters} \subseteq Nat /\ MaxFacts > 0

VARIABLES ledger,       \* the rows of character_cognitions; an absent row reads as an empty one
          chronicler,   \* the update of each task
          chapters,     \* history: chapters ingested so far
          told,         \* history: what each figure was reported to learn, and that was saved
          collided,     \* history: two updates overlapped
          full          \* history: a list exceeded its bound
cognitionVars == <<ledger, chronicler, chapters, told, collided, full>>

Entry == [knows : Seq(Truths), unknown : Seq(Truths), row : BOOLEAN]
Blank == [knows |-> <<>>, unknown |-> <<>>, row |-> FALSE]
Away == [pc |-> "idle", read |-> [p \in Everyone |-> Blank], left |-> 0, learnt |-> {}]

CognitionInit ==
  /\ ledger = [p \in Everyone |-> Blank]
  /\ chronicler = [w \in Chroniclers |-> Away]
  /\ chapters = 0 /\ told = {} /\ collided = FALSE /\ full = FALSE

At(w, step) == chronicler[w].pc = step
Set(w, r) == chronicler' = [chronicler EXCEPT ![w] = r]

Load(w) ==
  /\ At(w, "idle") /\ chapters < MaxChapters /\ chapters' = chapters + 1
  /\ Set(w, [Away EXCEPT !.pc = "merge", !.read = ledger, !.left = MaxChanges])
  /\ collided' = (collided \/ \E v \in Chroniclers : ~At(v, "idle"))
  /\ UNCHANGED <<ledger, told, full>>

(* apply_changes: one report of the model.  What is known is not unknown    *)
(* again; the reader has no unknowns.                                       *)
Add(list, f) == IF Contains(list, f) THEN list ELSE Append(list, f)
Learns(e, f) == [e EXCEPT !.row = TRUE, !.knows = Add(@, f), !.unknown = Remove(@, f)]
\* A known fact is put among the unknown ones (a defect to look for).
Forgets(e, p, f) == [e EXCEPT !.row = TRUE, !.unknown = Add(@, f)]
StillUnknown(e, p, f) ==
  [e EXCEPT !.row = TRUE,
            !.unknown = IF p = Reader \/ Contains(e.knows, f) THEN @ ELSE Add(@, f)]

Merge(w) ==
  LET r == chronicler[w] IN
  /\ At(w, "merge") /\ r.left > 0
  /\ \E p \in Everyone, f \in Truths :
       \/ Set(w, [r EXCEPT !.left = @ - 1, !.read[p] = Learns(@, f), !.learnt = @ \cup {<<p, f>>}])
       \/ Set(w, [r EXCEPT !.left = @ - 1, !.read[p] = StillUnknown(@, p, f)])
  /\ UNCHANGED <<ledger, chapters, told, collided, full>>

(* The oldest facts are dropped, at the head of each list.                  *)
Newest(list) == IF Len(list) > MaxFacts THEN SubSeq(list, Len(list) - MaxFacts + 1, Len(list)) ELSE list
Bounded(e) == [e EXCEPT !.knows = Newest(@), !.unknown = Newest(@)]

(* Without changes nothing is saved; else save_ledger reads the rows again. *)
EndMerge(w) ==
  LET r == chronicler[w] IN
  /\ At(w, "merge")
  /\ IF r.left = MaxChanges THEN Set(w, Away) /\ UNCHANGED full
     ELSE /\ Set(w, [r EXCEPT !.pc = "select", !.read = [p \in Everyone |-> Bounded(r.read[p])]])
          /\ full' = (full \/ \E p \in Everyone : Bounded(r.read[p]) # r.read[p])
  /\ UNCHANGED <<ledger, chapters, told, collided>>

(* The columns that differ from the rows just read are to be written, and a *)
(* row that was not found is to be inserted.                                *)
Select(w) ==
  LET r == chronicler[w]
      write == [p \in Everyone |->
                  [knows |-> r.read[p].knows # ledger[p].knows,
                   unknown |-> r.read[p].unknown # ledger[p].unknown,
                   insert |-> r.read[p].row /\ ~ledger[p].row]] IN
  /\ At(w, "select")
  /\ chronicler' = [chronicler EXCEPT ![w] = [r EXCEPT !.pc = "commit"] @@ [write |-> write]]
  /\ UNCHANGED <<ledger, chapters, told, collided, full>>

(* A row inserted twice violates the unique key: nothing of the ledger is   *)
(* saved, and a warning is all that is left of it.                          *)
Commit(w) ==
  LET r == chronicler[w]
      clash == \E p \in Everyone : r.write[p].insert /\ ledger[p].row
      Written(p) == [knows |-> IF r.write[p].knows THEN r.read[p].knows ELSE ledger[p].knows,
                     unknown |-> IF r.write[p].unknown THEN r.read[p].unknown ELSE ledger[p].unknown,
                     row |-> ledger[p].row \/ r.read[p].row] IN
  /\ At(w, "commit") /\ Set(w, Away)
  /\ IF clash THEN UNCHANGED <<ledger, told>>
     ELSE /\ ledger' = [p \in Everyone |-> IF r.read[p].row THEN Written(p) ELSE ledger[p]]
          /\ told' = told \cup r.learnt
  /\ UNCHANGED <<chapters, collided, full>>

(* The model, its JSON or the database fails; the caller logs it.           *)
GivesUp(w) ==
  /\ ~At(w, "idle") /\ Set(w, Away)
  /\ UNCHANGED <<ledger, chapters, told, collided, full>>

CognitionNext ==
  \E w \in Chroniclers : \/ Load(w) \/ Merge(w) \/ EndMerge(w) \/ Select(w) \/ Commit(w) \/ GivesUp(w)

CognitionSpec == CognitionInit /\ [][CognitionNext]_cognitionVars
-----------------------------------------------------------------------------
CognitionTypeOK ==
  /\ ledger \in [Everyone -> Entry]
  /\ \A p \in Everyone :
       /\ IsInjective(ledger[p].knows) /\ IsInjective(ledger[p].unknown)
       /\ Len(ledger[p].knows) <= MaxFacts /\ Len(ledger[p].unknown) <= MaxFacts

(* While updates do not overlap, nobody both knows a fact and does not, and *)
(* what a figure has learned it knows until its list is full: "never        *)
(* downgraded to unknown" (character_cognition.py:67-68).  An update that   *)
(* overlaps another may bring an old row back, or half of it; the reader    *)
(* has no unknown facts even then.                                          *)
CognitionSound ==
  ~collided =>
    /\ \A p \in Everyone : ToSet(ledger[p].knows) \cap ToSet(ledger[p].unknown) = {}
    /\ ~full => \A t \in told : t[2] \in ToSet(ledger[t[1]].knows)
  /\ ledger[Reader].unknown = <<>>
=============================================================================
