-------------------------- MODULE ProductionProofs --------------------------
(***************************************************************************)
(* Theorems about what produces chapters and judges them.                  *)
(*                                                                         *)
(* About GenerationRun, for any number of requests and any                 *)
(* max_rewrite_count: its types, that no verdict is without its report,    *)
(* and, for requests that execute the run one after another, that the      *)
(* final text was reviewed, that the rewrites stay within their budget and *)
(* that no resume drafts the chapter again.                                *)
(*                                                                         *)
(* And about the sum that is model-checked: what is proved of Pipeline and *)
(* of Evaluation holds of it, since a step of the sum is a step of one of  *)
(* its parts and leaves the others as they are.                            *)
(***************************************************************************)
EXTENDS MCProduction, TLAPS

-----------------------------------------------------------------------------
(* Types.                                                                  *)

\* The text a request goes on with is a text.
LEMMA DraftTextType == ASSUME NEW r \in Row PROVE DraftText(r) \in Nat
  BY DEF DraftText, Row

\* A commit leaves a well-typed row.
LEMMA MergeType ==
  ASSUME row \in Row, NEW old \in Row, NEW new \in Row
  PROVE  Merge(old, new) \in Row
<1> DEFINE cp == IF Checkpoint(new) # Checkpoint(old) THEN new ELSE row
<1>1. cp \in Row
  OBVIOUS
<1> HIDE DEF cp
<1>2. Merge(old, new) =
        [phase    |-> IF new.phase # old.phase THEN new.phase ELSE row.phase,
         status   |-> IF new.status # old.status THEN new.status ELSE row.status,
         rewrites |-> IF new.rewrites # old.rewrites THEN new.rewrites ELSE row.rewrites,
         planned  |-> cp.planned, draft |-> cp.draft,
         verdict  |-> cp.verdict, final |-> cp.final]
  BY DEF Merge, cp
<1> QED
  BY <1>1, <1>2 DEF Row

\* A copy of no row is well typed too.
LEMMA NoRowType == NoRow \in Row
  BY DEF NoRow, Row, Phase

\* The phase a request enters at is one it can execute.
LEMMA EntryType == ASSUME NEW r \in Row, r.phase # "absent" PROVE Entry(r) \in Steps
  BY DEF Row, Phase, Steps, Entry

\* Every row, copy, report and position of a request has its type.
THEOREM TypeCorrect == Spec => []TypeOK
<1>1. Init => TypeOK
  <2> SUFFICES ASSUME Init
               PROVE  TypeOK
    OBVIOUS
  <2>1. row \in Row /\ copy \in [Request -> Row]
    BY NoRowType DEF Init
  <2>2. output \in [Request -> Review \cup {Nothing}] /\ at \in [Request -> Steps]
    BY DEF Init, Steps
  <2>3. reports \subseteq Review /\ texts \in Nat /\ overlap \in BOOLEAN
    BY DEF Init
  <2> QED
    BY <2>1, <2>2, <2>3 DEF TypeOK
<1>2. TypeOK /\ [Next]_vars => TypeOK'
  <2> SUFFICES ASSUME TypeOK, [Next]_vars
               PROVE  TypeOK'
    OBVIOUS
  <2>1. ASSUME NEW q \in Request, Start(q)
        PROVE  TypeOK'
    <3>1. row' \in Row /\ row'.phase = "planning"
      BY <2>1 DEF Start, TypeOK, Row, Phase
    <3>2. Entry(row') \in Steps
      BY <3>1, EntryType
    <3> QED
      BY <2>1, <3>1, <3>2 DEF Start, Execute, Goto, TypeOK
  <2>2. ASSUME NEW q \in Request, Resume(q)
        PROVE  TypeOK'
    <3>1. Entry(row) \in Steps
      BY <2>2, EntryType DEF Resume, TypeOK
    <3> QED
      BY <2>2, <3>1 DEF Resume, Execute, Goto, TypeOK
  <2>3. ASSUME NEW q \in Request, Plan(q)
        PROVE  TypeOK'
    <3> DEFINE new == [copy[q] EXCEPT !.planned = TRUE, !.phase = "drafting"]
    <3>1. copy[q] \in Row /\ new \in Row
      BY DEF TypeOK, Row, Phase
    <3>2. Merge(copy[q], new) \in Row
      BY <3>1, MergeType DEF TypeOK
    <3> QED
      BY <2>3, <3>1, <3>2 DEF Plan, Commit, Goto, TypeOK, Steps
  <2>4. ASSUME NEW q \in Request, Draft(q)
        PROVE  TypeOK'
    <3> DEFINE new == [copy[q] EXCEPT !.draft = texts', !.phase = "critic"]
    <3>1. texts' \in Nat
      BY <2>4 DEF Draft, TypeOK
    <3>2. copy[q] \in Row /\ new \in Row
      BY <3>1 DEF TypeOK, Row, Phase
    <3>3. Merge(copy[q], new) \in Row
      BY <3>2, MergeType DEF TypeOK
    <3> QED
      BY <2>4, <3>1, <3>2, <3>3 DEF Draft, Commit, Goto, TypeOK, Steps
  <2>5. ASSUME NEW q \in Request, Critic(q)
        PROVE  TypeOK'
    <3>1. PICK hard \in BOOLEAN :
            output' = [output EXCEPT ![q] = [round |-> copy[q].rewrites + 1,
                                             text |-> DraftText(copy[q]), hard |-> hard]]
      BY <2>5 DEF Critic
    <3>2. copy[q] \in Row /\ DraftText(copy[q]) \in Nat /\ copy[q].rewrites \in Nat
      BY DraftTextType DEF TypeOK, Row
    <3>3. output'[q] \in Review
      BY <3>1, <3>2 DEF TypeOK, Review
    <3> QED
      BY <2>5, <3>1, <3>3 DEF Critic, Reported, Goto, TypeOK, Steps
  <2>6. ASSUME NEW q \in Request, CriticCheckpoint(q)
        PROVE  TypeOK'
    <3> DEFINE next == IF NeedsRewrite(output[q], copy[q]) THEN "rewrite" ELSE "finalize"
               new == [copy[q] EXCEPT !.verdict = output[q], !.phase = next]
    <3>1. copy[q] \in Row /\ new \in Row
      BY DEF TypeOK, Row, Phase
    <3>2. Merge(copy[q], new) \in Row
      BY <3>1, MergeType DEF TypeOK
    <3> QED
      BY <2>6, <3>1, <3>2 DEF CriticCheckpoint, Commit, Goto, TypeOK, Steps
  <2>7. ASSUME NEW q \in Request, Rewrite(q)
        PROVE  TypeOK'
    <3> DEFINE new == [copy[q] EXCEPT !.draft = texts', !.rewrites = @ + 1,
                                      !.phase = AfterRewrite]
    <3>1. texts' \in Nat
      BY <2>7 DEF Rewrite, TypeOK
    <3>2. copy[q] \in Row
      BY DEF TypeOK
    <3>3. copy[q].rewrites + 1 \in Nat
      BY <3>2 DEF Row
    <3>4. new \in Row
      BY <3>1, <3>2, <3>3 DEF Row, Phase, AfterRewrite
    <3>5. Merge(copy[q], new) \in Row
      BY <3>2, <3>4, MergeType DEF TypeOK
    <3> QED
      BY <2>7, <3>1, <3>4, <3>5 DEF Rewrite, Commit, Goto, TypeOK, Steps, AfterRewrite
  <2>8. ASSUME NEW q \in Request, Finalize(q)
        PROVE  TypeOK'
    <3> DEFINE new == [copy[q] EXCEPT !.final = DraftText(copy[q]),
                                      !.phase = "done", !.status = "done"]
    <3>1. copy[q] \in Row
      BY DEF TypeOK
    <3>2. new \in Row
      BY <3>1, DraftTextType DEF Row, Phase
    <3>3. Merge(copy[q], new) \in Row
      BY <3>1, <3>2, MergeType DEF TypeOK
    <3> QED
      BY <2>8, <3>3, NoRowType DEF Finalize, Leave, Goto, TypeOK, Steps
  <2>9. ASSUME NEW q \in Request, PhaseFails(q)
        PROVE  TypeOK'
    <3> DEFINE new == [copy[q] EXCEPT !.phase = "failed", !.status = "failed"]
    <3>1. copy[q] \in Row /\ new \in Row
      BY DEF TypeOK, Row, Phase
    <3>2. Merge(copy[q], new) \in Row
      BY <3>1, MergeType DEF TypeOK
    <3> QED
      BY <2>9, <3>2, NoRowType DEF PhaseFails, Leave, Goto, TypeOK, Steps
  <2>10. ASSUME NEW q \in Request, Dies(q)
         PROVE  TypeOK'
    BY <2>10, NoRowType DEF Dies, Leave, Goto, TypeOK, Steps
  <2>11. CASE UNCHANGED vars
    BY <2>11 DEF vars, TypeOK
  <2> QED
    BY <2>1, <2>2, <2>3, <2>4, <2>5, <2>6, <2>7, <2>8, <2>9, <2>10, <2>11
       DEF Next, RequestStep
<1> QED
  BY <1>1, <1>2, PTL DEF Spec
-----------------------------------------------------------------------------
(* Reports, with any number of requests executing the run at once.         *)

\* What a request holds of the critic's words is stored in a report.
ReportInv ==
  /\ VerdictHasReport
  /\ \A q \in Request : copy[q].verdict # Nothing => copy[q].verdict \in reports
  /\ \A q \in Request : output[q] # Nothing => output[q] \in reports

\* A commit takes the verdict from the request's copy or from the row.
LEMMA MergeVerdict ==
  ASSUME NEW old \in Row, NEW new \in Row
  PROVE  Merge(old, new).verdict \in {new.verdict, row.verdict}
  BY DEF Merge

\* However requests overlap and die, no checkpoint holds a verdict whose
\* report is missing from critic_reports.
THEOREM VerdictsAreReported == Spec => []VerdictHasReport
<1>1. Init => ReportInv
  BY DEF Init, ReportInv, VerdictHasReport, NoRow
<1>2. TypeOK /\ TypeOK' /\ ReportInv /\ [Next]_vars => ReportInv'
  <2> SUFFICES ASSUME TypeOK, TypeOK', ReportInv, [Next]_vars
               PROVE  ReportInv'
    OBVIOUS
  <2> USE DEF ReportInv, VerdictHasReport
  <2>1. ASSUME NEW q \in Request, Start(q)
        PROVE  ReportInv'
    <3>1. row'.verdict = row.verdict
      BY <2>1 DEF Start, TypeOK, Row
    <3> QED
      BY <2>1, <3>1 DEF Start, Execute, TypeOK
  <2>2. ASSUME NEW q \in Request, Resume(q)
        PROVE  ReportInv'
    BY <2>2 DEF Resume, Execute, TypeOK
  <2>3. ASSUME NEW q \in Request, Critic(q)
        PROVE  ReportInv'
    BY <2>3 DEF Critic, Reported, TypeOK
  <2>4. ASSUME NEW q \in Request, NEW new \in Row, Commit(q, new),
               new.verdict \in {copy[q].verdict, output[q]},
               UNCHANGED reports, output' \in {output, [output EXCEPT ![q] = Nothing]}
        PROVE  ReportInv'
    <3>1. row'.verdict \in {new.verdict, row.verdict}
      BY <2>4, MergeVerdict DEF Commit, TypeOK
    <3> QED
      BY <2>4, <3>1 DEF Commit, TypeOK
  <2>5. ASSUME NEW q \in Request, NEW new \in Row, row' = Merge(copy[q], new),
               new.verdict = copy[q].verdict, UNCHANGED reports, Leave(q, "over")
        PROVE  ReportInv'
    <3>1. row'.verdict \in {new.verdict, row.verdict}
      BY <2>5, MergeVerdict DEF TypeOK
    <3> QED
      BY <2>5, <3>1 DEF Leave, NoRow, TypeOK
  <2>6. ASSUME NEW q \in Request, Plan(q)
        PROVE  ReportInv'
    <3> DEFINE new == [copy[q] EXCEPT !.planned = TRUE, !.phase = "drafting"]
    <3>1. new \in Row /\ new.verdict = copy[q].verdict
      BY DEF TypeOK, Row, Phase
    <3> QED
      BY <2>4, <2>6, <3>1 DEF Plan
  <2>7. ASSUME NEW q \in Request, Draft(q)
        PROVE  ReportInv'
    <3> DEFINE new == [copy[q] EXCEPT !.draft = texts', !.phase = "critic"]
    <3>1. new \in Row /\ new.verdict = copy[q].verdict
      BY DEF TypeOK, Row, Phase
    <3> QED
      BY <2>4, <2>7, <3>1 DEF Draft
  <2>8. ASSUME NEW q \in Request, CriticCheckpoint(q)
        PROVE  ReportInv'
    <3> DEFINE next == IF NeedsRewrite(output[q], copy[q]) THEN "rewrite" ELSE "finalize"
               new == [copy[q] EXCEPT !.verdict = output[q], !.phase = next]
    <3>1. new \in Row /\ new.verdict = output[q]
      BY DEF TypeOK, Row, Phase
    <3> QED
      BY <2>4, <2>8, <3>1 DEF CriticCheckpoint
  <2>9. ASSUME NEW q \in Request, Rewrite(q)
        PROVE  ReportInv'
    <3> DEFINE new == [copy[q] EXCEPT !.draft = texts', !.rewrites = @ + 1,
                                      !.phase = AfterRewrite]
    <3>1. copy[q] \in Row /\ texts' \in Nat /\ copy[q].rewrites + 1 \in Nat
      BY DEF TypeOK, Row
    <3>2. new \in Row /\ new.verdict = copy[q].verdict
      BY <3>1 DEF Row, Phase, AfterRewrite
    <3> QED
      BY <2>4, <2>9, <3>2 DEF Rewrite
  <2>10. ASSUME NEW q \in Request, Finalize(q)
         PROVE  ReportInv'
    <3> DEFINE new == [copy[q] EXCEPT !.final = DraftText(copy[q]),
                                      !.phase = "done", !.status = "done"]
    <3>1. new \in Row /\ new.verdict = copy[q].verdict
      BY DraftTextType DEF TypeOK, Row, Phase
    <3> QED
      BY <2>5, <2>10, <3>1 DEF Finalize
  <2>11. ASSUME NEW q \in Request, PhaseFails(q)
         PROVE  ReportInv'
    <3> DEFINE new == [copy[q] EXCEPT !.phase = "failed", !.status = "failed"]
    <3>1. new \in Row /\ new.verdict = copy[q].verdict
      BY DEF TypeOK, Row, Phase
    <3> QED
      BY <2>5, <2>11, <3>1 DEF PhaseFails
  <2>12. ASSUME NEW q \in Request, Dies(q)
         PROVE  ReportInv'
    BY <2>12 DEF Dies, Leave, NoRow, TypeOK
  <2>13. CASE UNCHANGED vars
    BY <2>13 DEF vars
  <2> QED
    BY <2>1, <2>2, <2>3, <2>6, <2>7, <2>8, <2>9, <2>10, <2>11, <2>12, <2>13
       DEF Next, RequestStep
<1>3. ReportInv => VerdictHasReport
  BY DEF ReportInv
<1> QED
  BY <1>1, <1>2, <1>3, TypeCorrect, PTL DEF Spec

-----------------------------------------------------------------------------
(* One request at a time.                                                  *)

\* What the row says at rest in each phase.
RowInv ==
  LET v == row.verdict IN
  /\ row.phase \in {"drafting", "critic", "rewrite", "finalize", "done"} => row.planned
  /\ ~row.planned \/ row.phase \in {"absent", "planning", "drafting"} => row.draft = Nothing
  /\ row.phase \in {"critic", "rewrite", "finalize", "done"} => row.draft # Nothing
  /\ row.phase \in {"rewrite", "finalize", "done"} => v # Nothing /\ v.text = row.draft
  /\ row.phase = "rewrite" => v.hard /\ row.rewrites < MaxRewrites
  /\ row.phase \in {"finalize", "done"} /\ v.hard => row.rewrites = MaxRewrites
  /\ row.phase = "done" => row.final = row.draft
  /\ row.rewrites <= MaxRewrites

\* The request that executes the run has the row as it is.
CopyInv ==
  /\ \A p, q \in Request : Executing(p) /\ Executing(q) => p = q
  /\ \A q \in Request : Executing(q) => copy[q] = row

\* It is where the row's phase says, or at planning with nothing drafted.
PlaceInv ==
  \A q \in Request :
    /\ at[q] = "planning" => row.draft = Nothing
    /\ at[q] \in {"drafting", "critic", "rewrite", "finalize"} => row.phase = at[q]
    /\ at[q] = "reported" => /\ row.phase = "critic"
                             /\ output[q] # Nothing /\ output[q].text = row.draft

AloneInv == ~overlap => RowInv /\ CopyInv /\ PlaceInv

\* A commit of a copy that is the row itself writes the new row.
LEMMA MergeAlone ==
  ASSUME row \in Row, NEW new \in Row
  PROVE  Merge(row, new) = new
  BY DEF Merge, Checkpoint, Row

\* Two requests that do not execute at once find the row as the last one left
\* it, wherever that one died.
LEMMA AloneStep == TypeOK /\ TypeOK' /\ AloneInv /\ [Next]_vars => AloneInv'
<1> SUFFICES ASSUME TypeOK, TypeOK', AloneInv, [Next]_vars, ~overlap'
             PROVE  RowInv' /\ CopyInv' /\ PlaceInv'
  BY DEF AloneInv
<1>1. RowInv /\ CopyInv /\ PlaceInv
  <2>1. ~overlap
    BY DEF TypeOK, Next, RequestStep, Start, Resume, Execute, Plan, Draft, Critic,
           CriticCheckpoint, Rewrite, Finalize, PhaseFails, Dies, vars
  <2> QED
    BY <2>1 DEF AloneInv
<1>2. ASSUME NEW q \in Request, Start(q)
      PROVE  RowInv' /\ CopyInv' /\ PlaceInv'
  <2>1. /\ row' \in Row /\ row'.phase = "planning" /\ row'.draft = Nothing
        /\ row'.rewrites = row.rewrites
    BY <1>1, <1>2 DEF Start, TypeOK, Row, RowInv
  <2>2. at' = [at EXCEPT ![q] = "planning"] /\ copy' = [copy EXCEPT ![q] = row']
    BY <1>2, <2>1 DEF Start, Execute, Goto, Entry
  <2>3. \A p \in Request : ~Executing(p)
    BY <1>2 DEF Start, Execute
  <2>4. \A p \in Request : Executing(p)' => p = q
    BY <2>2, <2>3 DEF Executing, TypeOK
  <2>5. RowInv'
    BY <1>1, <2>1 DEF RowInv
  <2>6. CopyInv'
    BY <2>2, <2>4 DEF CopyInv, TypeOK
  <2>7. PlaceInv'
    BY <2>1, <2>2, <2>3 DEF PlaceInv, Executing, TypeOK
  <2> QED
    BY <2>5, <2>6, <2>7
<1>3. ASSUME NEW q \in Request, Resume(q)
      PROVE  RowInv' /\ CopyInv' /\ PlaceInv'
  <2>1. /\ at' = [at EXCEPT ![q] = Entry(row)] /\ copy' = [copy EXCEPT ![q] = row]
        /\ row' = row /\ row.phase # "absent" /\ row.phase \in Phase
    BY <1>3 DEF Resume, Execute, Goto, TypeOK, Row
  <2>2. \A p \in Request : ~Executing(p)
    BY <1>3 DEF Resume, Execute
  <2>3. \A p \in Request : Executing(p)' => p = q
    BY <2>1, <2>2 DEF Executing, TypeOK
  <2>4. RowInv'
    BY <1>1, <2>1 DEF RowInv
  <2>5. CopyInv'
    BY <2>1, <2>3 DEF CopyInv, TypeOK
  <2>6. /\ Entry(row) = "planning" => row.draft = Nothing
        /\ Entry(row) \in {"drafting", "critic", "rewrite", "finalize"} => row.phase = Entry(row)
        /\ Entry(row) # "reported"
    BY <1>1, <2>1 DEF Entry, RowInv, Phase
  <2>7. PlaceInv'
    BY <2>1, <2>2, <2>6 DEF PlaceInv, Executing, TypeOK
  <2> QED
    BY <2>4, <2>5, <2>7
\* What a commit of the only executing request does to its own place.
<1>4. ASSUME NEW q \in Request, NEW new \in Row, Executing(q), Commit(q, new),
             NEW s \in {"drafting", "critic", "rewrite", "finalize"},
             Goto(q, s), new.phase = s
      PROVE  row' = new /\ CopyInv' /\ PlaceInv'
  <2>1. copy[q] = row /\ row \in Row /\ \A p \in Request : Executing(p) => p = q
    BY <1>1, <1>4 DEF CopyInv, TypeOK
  <2>2. row' = new /\ copy' = [copy EXCEPT ![q] = new]
    BY <1>4, <2>1, MergeAlone DEF Commit
  <2>3. \A p \in Request : p # q => at'[p] \in {"waiting", "over", "dead"}
    BY <1>4, <2>1 DEF Goto, Executing, TypeOK
  <2>4. at'[q] = s
    BY <1>4 DEF Goto, TypeOK
  <2>5. CopyInv'
    BY <2>2, <2>3 DEF CopyInv, Executing, TypeOK
  <2>6. PlaceInv'
    BY <1>4, <2>2, <2>3, <2>4 DEF PlaceInv
  <2> QED
    BY <2>2, <2>5, <2>6
\* When the only executing request leaves, nobody executes the run.
<1>5. ASSUME NEW q \in Request, Executing(q), NEW s \in {"over", "dead"}, Leave(q, s)
      PROVE  CopyInv' /\ PlaceInv'
  <2>1. \A p \in Request : at'[p] \in {"waiting", "over", "dead"}
    BY <1>1, <1>5 DEF CopyInv, Leave, Goto, Executing, TypeOK
  <2> QED
    BY <2>1 DEF CopyInv, PlaceInv, Executing
<1>6. ASSUME NEW q \in Request, Plan(q)
      PROVE  RowInv' /\ CopyInv' /\ PlaceInv'
  <2> DEFINE new == [copy[q] EXCEPT !.planned = TRUE, !.phase = "drafting"]
  <2>1. copy[q] = row /\ Executing(q) /\ row.draft = Nothing
    BY <1>1, <1>6 DEF Plan, CopyInv, PlaceInv, Executing
  <2>2. /\ new \in Row /\ new.phase = "drafting" /\ new.planned
        /\ new.draft = Nothing /\ new.rewrites = row.rewrites
    BY <2>1 DEF TypeOK, Row, Phase
  <2>3. row' = new /\ CopyInv' /\ PlaceInv'
    BY <1>4, <1>6, <2>1, <2>2 DEF Plan
  <2> QED
    BY <1>1, <2>2, <2>3 DEF RowInv
<1>7. ASSUME NEW q \in Request, Draft(q)
      PROVE  RowInv' /\ CopyInv' /\ PlaceInv'
  <2> DEFINE new == [copy[q] EXCEPT !.draft = texts', !.phase = "critic"]
  <2>1. copy[q] = row /\ Executing(q) /\ row.planned /\ texts' \in Nat
    BY <1>1, <1>7 DEF Draft, CopyInv, PlaceInv, RowInv, Executing, TypeOK
  <2>2. /\ new \in Row /\ new.phase = "critic" /\ new.planned
        /\ new.draft # Nothing /\ new.rewrites = row.rewrites
    BY <2>1, ConstantsAssumption DEF TypeOK, Row, Phase
  <2>3. row' = new /\ CopyInv' /\ PlaceInv'
    BY <1>4, <1>7, <2>1, <2>2 DEF Draft
  <2> QED
    BY <1>1, <2>2, <2>3 DEF RowInv
<1>8. ASSUME NEW q \in Request, Critic(q)
      PROVE  RowInv' /\ CopyInv' /\ PlaceInv'
  <2>1. /\ copy[q] = row /\ row.phase = "critic" /\ row.draft # Nothing
        /\ \A p \in Request : Executing(p) => p = q
    BY <1>1, <1>8 DEF Critic, CopyInv, PlaceInv, RowInv, Executing
  <2>2. /\ at' = [at EXCEPT ![q] = "reported"]
        /\ UNCHANGED <<row, copy>>
    BY <1>8 DEF Critic, Goto
  <2>3. output'[q] # Nothing /\ output'[q].text = row.draft
    <3>1. PICK hard \in BOOLEAN :
            output' = [output EXCEPT ![q] = [round |-> copy[q].rewrites + 1,
                                             text |-> DraftText(copy[q]), hard |-> hard]]
      BY <1>8 DEF Critic
    <3>2. /\ output'[q] = [round |-> copy[q].rewrites + 1,
                           text |-> DraftText(copy[q]), hard |-> hard]
          /\ DraftText(copy[q]) = row.draft
      BY <2>1, <3>1 DEF TypeOK, DraftText
    <3>3. output'[q] \in Review
      BY <3>2, <2>1, DraftTextType DEF TypeOK, Row, Review
    <3> QED
      BY <3>2, <3>3, ConstantsAssumption
  <2>4. RowInv'
    BY <1>1, <2>2 DEF RowInv
  <2>5. CopyInv'
    BY <1>1, <2>1, <2>2 DEF CopyInv, Executing, TypeOK
  <2>6. PlaceInv'
    BY <1>1, <2>1, <2>2, <2>3 DEF PlaceInv, Executing, TypeOK
  <2> QED
    BY <2>4, <2>5, <2>6
<1>9. ASSUME NEW q \in Request, CriticCheckpoint(q)
      PROVE  RowInv' /\ CopyInv' /\ PlaceInv'
  <2> DEFINE next == IF NeedsRewrite(output[q], copy[q]) THEN "rewrite" ELSE "finalize"
             new == [copy[q] EXCEPT !.verdict = output[q], !.phase = next]
  <2>1. /\ copy[q] = row /\ Executing(q) /\ row.phase = "critic"
        /\ row.planned /\ row.draft # Nothing
        /\ output[q] # Nothing /\ output[q].text = row.draft
    BY <1>1, <1>9 DEF CriticCheckpoint, CopyInv, PlaceInv, RowInv, Executing
  <2>2. /\ new \in Row /\ new.phase = next /\ new.planned = row.planned
        /\ new.verdict = output[q] /\ new.draft = row.draft
        /\ new.rewrites = row.rewrites
    BY <2>1 DEF TypeOK, Row, Phase
  <2>3. row' = new /\ CopyInv' /\ PlaceInv'
    BY <1>4, <1>9, <2>1, <2>2 DEF CriticCheckpoint
  <2>4. /\ next = "rewrite" => output[q].hard /\ row.rewrites < MaxRewrites
        /\ next = "finalize" /\ output[q].hard => row.rewrites = MaxRewrites
        /\ next \in {"rewrite", "finalize"}
    <3>1. row.rewrites \in Nat /\ row.rewrites <= MaxRewrites
      BY <1>1 DEF RowInv, TypeOK, Row
    <3> QED
      BY <2>1, <3>1, ConstantsAssumption DEF NeedsRewrite
  <2>5. RowInv'
    <3> HIDE DEF next, new
    <3> QED
      BY <1>1, <2>1, <2>2, <2>3, <2>4 DEF RowInv
  <2> QED
    BY <2>3, <2>5
<1>10. ASSUME NEW q \in Request, Rewrite(q)
       PROVE  RowInv' /\ CopyInv' /\ PlaceInv'
  <2> DEFINE new == [copy[q] EXCEPT !.draft = texts', !.rewrites = @ + 1,
                                    !.phase = AfterRewrite]
  <2>1. /\ copy[q] = row /\ Executing(q) /\ row.planned
        /\ row.rewrites < MaxRewrites /\ texts' \in Nat
    BY <1>1, <1>10 DEF Rewrite, CopyInv, PlaceInv, RowInv, Executing, TypeOK
  <2>2. row \in Row /\ row.rewrites \in Nat /\ row.rewrites + 1 \in Nat
    BY DEF TypeOK, Row
  <2>3. /\ new \in Row /\ new.phase = "critic" /\ new.planned = row.planned
        /\ new.draft # Nothing /\ new.rewrites = row.rewrites + 1
    BY <2>1, <2>2, ConstantsAssumption DEF Row, Phase, AfterRewrite
  <2>4. row' = new /\ CopyInv' /\ PlaceInv'
    BY <1>4, <1>10, <2>1, <2>3 DEF Rewrite, AfterRewrite
  <2>5. row.rewrites + 1 <= MaxRewrites
    BY <2>1, <2>2, ConstantsAssumption
  <2> QED
    BY <2>1, <2>3, <2>4, <2>5 DEF RowInv
<1>11. ASSUME NEW q \in Request, Finalize(q)
       PROVE  RowInv' /\ CopyInv' /\ PlaceInv'
  <2> DEFINE new == [copy[q] EXCEPT !.final = DraftText(copy[q]),
                                    !.phase = "done", !.status = "done"]
  <2>1. /\ copy[q] = row /\ Executing(q) /\ row.phase = "finalize"
        /\ row.draft # Nothing /\ row \in Row
    BY <1>1, <1>11 DEF Finalize, CopyInv, PlaceInv, RowInv, Executing, TypeOK
  <2>2. /\ new \in Row /\ new.phase = "done" /\ new.planned = row.planned
        /\ new.verdict = row.verdict /\ new.draft = row.draft
        /\ new.rewrites = row.rewrites /\ new.final = row.draft
    BY <2>1, DraftTextType DEF Row, Phase, DraftText
  <2>3. row' = new
    BY <1>11, <2>1, <2>2, MergeAlone DEF Finalize
  <2>4. CopyInv' /\ PlaceInv'
    BY <1>5, <1>11, <2>1 DEF Finalize
  <2> QED
    BY <1>1, <2>1, <2>2, <2>3, <2>4 DEF RowInv
<1>12. ASSUME NEW q \in Request, PhaseFails(q)
       PROVE  RowInv' /\ CopyInv' /\ PlaceInv'
  <2> DEFINE new == [copy[q] EXCEPT !.phase = "failed", !.status = "failed"]
  <2>1. copy[q] = row /\ Executing(q) /\ row \in Row
    BY <1>1, <1>12 DEF PhaseFails, CopyInv, Executing, TypeOK
  <2>2. /\ new \in Row /\ new.phase = "failed" /\ new.planned = row.planned
        /\ new.draft = row.draft /\ new.rewrites = row.rewrites
    BY <2>1 DEF Row, Phase
  <2>3. row' = new
    BY <1>12, <2>1, <2>2, MergeAlone DEF PhaseFails
  <2>4. CopyInv' /\ PlaceInv'
    BY <1>5, <1>12, <2>1 DEF PhaseFails
  <2> QED
    BY <1>1, <2>2, <2>3, <2>4 DEF RowInv
<1>13. ASSUME NEW q \in Request, Dies(q)
       PROVE  RowInv' /\ CopyInv' /\ PlaceInv'
  <2>1. CopyInv' /\ PlaceInv'
    BY <1>5, <1>13 DEF Dies
  <2> QED
    BY <1>1, <1>13, <2>1 DEF Dies, RowInv
<1>14. CASE UNCHANGED vars
  BY <1>1, <1>14 DEF vars, RowInv, CopyInv, PlaceInv, Executing
<1> QED
  BY <1>2, <1>3, <1>6, <1>7, <1>8, <1>9, <1>10, <1>11, <1>12, <1>13, <1>14
     DEF Next, RequestStep

\* The invariant in one piece.
LEMMA Alone == Spec => []AloneInv
<1>1. Init => AloneInv
  BY ConstantsAssumption
     DEF Init, AloneInv, RowInv, CopyInv, PlaceInv, Executing, NoRow
<1> QED
  BY <1>1, TypeCorrect, AloneStep, PTL DEF Spec

\* Of a run that requests execute one after another, whichever of them died
\* where, the final text is the draft the critic saw last.
THEOREM FinalTextIsReviewed == Spec => []FinalWasReviewed
<1>1. AloneInv => FinalWasReviewed
  BY DEF AloneInv, RowInv, FinalWasReviewed
<1> QED
  BY <1>1, Alone, PTL

\* Such a run keeps to max_rewrite_count over all its resumes, and accepts
\* hard issues only when no rewrite is left.
THEOREM RewritesStayInBudget == Spec => []RewriteBudget
<1>1. AloneInv => RewriteBudget
  BY DEF AloneInv, RowInv, RewriteBudget
<1> QED
  BY <1>1, Alone, PTL

\* A commit takes the draft from the request's copy or from the row.
LEMMA MergeDraft ==
  ASSUME NEW old \in Row, NEW new \in Row
  PROVE  Merge(old, new).draft \in {new.draft, row.draft}
  BY DEF Merge

\* No resume of such a run drafts again what a checkpoint holds.
THEOREM ResumesKeepWork == Spec => ResumeKeepsWork
<1>1. TypeOK /\ TypeOK' /\ AloneInv /\ [Next]_vars =>
        [row.draft # Nothing /\ row'.draft # row.draft /\ ~overlap' =>
           row.phase = "rewrite" /\ row'.rewrites = row.rewrites + 1]_vars
  <2> SUFFICES ASSUME TypeOK, TypeOK', AloneInv, Next, ~overlap',
                      row.draft # Nothing, row'.draft # row.draft
               PROVE  row.phase = "rewrite" /\ row'.rewrites = row.rewrites + 1
    OBVIOUS
  <2>1. row \in Row /\ CopyInv /\ PlaceInv /\ RowInv
    <3>1. ~overlap
      BY DEF TypeOK, Next, RequestStep, Start, Resume, Execute, Plan, Draft, Critic,
             CriticCheckpoint, Rewrite, Finalize, PhaseFails, Dies
    <3> QED
      BY <3>1 DEF AloneInv, TypeOK
  <2>2. ASSUME NEW q \in Request, Executing(q), NEW new \in Row,
               row' = Merge(copy[q], new), new.draft = copy[q].draft
        PROVE  FALSE
    BY <2>1, <2>2, MergeDraft DEF CopyInv
  <2>3. ASSUME NEW q \in Request, Plan(q)
        PROVE  FALSE
    <3> DEFINE new == [copy[q] EXCEPT !.planned = TRUE, !.phase = "drafting"]
    <3>1. new \in Row /\ new.draft = copy[q].draft
      BY DEF TypeOK, Row, Phase
    <3> QED
      BY <2>2, <2>3, <3>1 DEF Plan, Commit, Executing
  <2>4. ASSUME NEW q \in Request, CriticCheckpoint(q)
        PROVE  FALSE
    <3> DEFINE next == IF NeedsRewrite(output[q], copy[q]) THEN "rewrite" ELSE "finalize"
               new == [copy[q] EXCEPT !.verdict = output[q], !.phase = next]
    <3>1. new \in Row /\ new.draft = copy[q].draft
      BY DEF TypeOK, Row, Phase
    <3> QED
      BY <2>2, <2>4, <3>1 DEF CriticCheckpoint, Commit, Executing
  <2>5. ASSUME NEW q \in Request, Finalize(q)
        PROVE  FALSE
    <3> DEFINE new == [copy[q] EXCEPT !.final = DraftText(copy[q]),
                                      !.phase = "done", !.status = "done"]
    <3>1. new \in Row /\ new.draft = copy[q].draft
      BY DraftTextType DEF TypeOK, Row, Phase
    <3> QED
      BY <2>2, <2>5, <3>1 DEF Finalize, Executing
  <2>6. ASSUME NEW q \in Request, PhaseFails(q)
        PROVE  FALSE
    <3> DEFINE new == [copy[q] EXCEPT !.phase = "failed", !.status = "failed"]
    <3>1. new \in Row /\ new.draft = copy[q].draft
      BY DEF TypeOK, Row, Phase
    <3> QED
      BY <2>2, <2>6, <3>1 DEF PhaseFails, Executing
  <2>7. ASSUME NEW q \in Request, Draft(q)
        PROVE  FALSE
    BY <2>1, <2>7 DEF Draft, PlaceInv, RowInv
  <2>8. ASSUME NEW q \in Request, Rewrite(q)
        PROVE  row.phase = "rewrite" /\ row'.rewrites = row.rewrites + 1
    <3> DEFINE new == [copy[q] EXCEPT !.draft = texts', !.rewrites = @ + 1,
                                      !.phase = AfterRewrite]
    <3>1. copy[q] = row /\ row.phase = "rewrite" /\ texts' \in Nat
      BY <2>1, <2>8 DEF Rewrite, CopyInv, PlaceInv, Executing, TypeOK
    <3>2. row.rewrites \in Nat /\ row.rewrites + 1 \in Nat
      BY <2>1 DEF Row
    <3>3. new \in Row /\ new.rewrites = row.rewrites + 1
      BY <2>1, <3>1, <3>2 DEF Row, Phase, AfterRewrite
    <3>4. row' = new
      BY <2>1, <2>8, <3>1, <3>3, MergeAlone DEF Rewrite, Commit
    <3> QED
      BY <3>1, <3>3, <3>4
  <2>9. ASSUME NEW q \in Request, Start(q)
        PROVE  FALSE
    BY <2>1, <2>9 DEF Start, Row
  <2> QED
    BY <2>3, <2>4, <2>5, <2>6, <2>7, <2>8, <2>9
       DEF Next, RequestStep, Resume, Critic, Dies
<1> QED
  BY <1>1, TypeCorrect, Alone, PTL DEF Spec, ResumeKeepsWork

-----------------------------------------------------------------------------
(* The sum.                                                                 *)

\* A behaviour of the sum is one of the pipeline, which stutters when it is
\* not in focus.
LEMMA PipelinePart == ProductionSpec => P!Spec
<1>1. ProductionInit => P!Init
  BY DEF ProductionInit
<1>2. [ProductionNext]_productionVars => [P!Next]_(P!vars)
  BY DEF ProductionNext, productionVars, pipelineVars, P!vars, P!row, P!worker, P!bounds, P!hist
<1> QED
  BY <1>1, <1>2, PTL DEF ProductionSpec, P!Spec

\* The same for the evaluation.
LEMMA EvaluationPart == ProductionSpec => E!Spec
<1>1. ProductionInit => E!Init
  BY DEF ProductionInit
<1>2. [ProductionNext]_productionVars => [E!Next]_(E!vars)
  BY DEF ProductionNext, productionVars, evaluationVars, E!vars, E!row, E!chap, E!broker,
         E!worker, E!job, E!hist
<1> QED
  BY <1>1, <1>2, PTL DEF ProductionSpec, E!Spec

\* A pipeline is only polished or completed when every chapter is written and
\* its text is there (_maybe_advance_pipeline and its copy in the worker).
THEOREM OnlyWholeIsPolished == ProductionSpec => []PolishedIsWhole
<1>1. P!Spec => []P!PolishedIsWhole
  BY ProductionAssumption, P!OnlyWholeIsPolished
<1> QED
  BY <1>1, PipelinePart, PTL DEF PolishedIsWhole

\* A pipeline fails only after all its review rounds, with a chapter that
\* failed (max_review_rounds of the pipeline's row).
THEOREM RoundsAreUsed == ProductionSpec => []FailedAfterAllRounds
<1>1. P!Spec => []P!FailedAfterAllRounds
  BY ProductionAssumption, P!RoundsAreUsed
<1> QED
  BY <1>1, PipelinePart, PTL DEF FailedAfterAllRounds

\* With one worker at a time, a chapter that is completed is not generated
\* again, whatever is restarted, delivered twice or resumed after a crash.
THEOREM CompletedIsKept == ProductionSpec => NoRegeneration
<1>1. P!Spec => P!NoRegeneration
  BY ProductionAssumption, P!CompletedIsKept
<1> QED
  BY <1>1, PipelinePart DEF NoRegeneration

\* An evaluation is failed only when its tries are used up, or one is on its way
\* (self.retry of evaluate_chapter_async).
THEOREM EveryTryIsUsed == ProductionSpec => []FailedAfterAllTries
<1>1. E!Spec => []E!FailedAfterAllTries
  BY ProductionAssumption, E!EveryTryIsUsed
<1> QED
  BY <1>1, EvaluationPart, PTL DEF FailedAfterAllTries

\* An evaluation that is completed keeps its result, whatever crashes and is
\* tried again (the early return of _run_evaluation).
THEOREM CompletedStays == ProductionSpec => CompletedIsFinal
<1>1. E!Spec => E!CompletedIsFinal
  BY ProductionAssumption, E!CompletedStays
<1> QED
  BY <1>1, EvaluationPart DEF CompletedIsFinal
=============================================================================
