--------------------------- MODULE ChapterProofs ---------------------------
(***************************************************************************)
(* Theorems about ChapterSystem, for any users, streams, tasks, extractors *)
(* and bounds, all of them at work at once.                                *)
(***************************************************************************)
EXTENDS ChapterSystem, TLAPS

-----------------------------------------------------------------------------
(* Types.                                                                  *)

Version == [text : Texts, branch : Branches, active : BOOLEAN]
EditPc == {"idle", "loaded", "open", "staged", "done"}
EditOp == {"none", "create", "activate", "rollback", "update"}
Edit == [pc : EditPc, op : EditOp, hit : SUBSET Nat, after : SUBSET Users, branch : Branches,
         text : Texts, target : Nat, was : BOOLEAN]
StreamRow ==
  [pc : Steps, live : BOOLEAN, opts : SUBSET {"scene", "polish", "keep"}, base : Texts,
   text : Texts, k : Nat, round : Nat, ingest : Texts, accepted : BOOLEAN, aborted : BOOLEAN,
   revised : BOOLEAN, restored : BOOLEAN]
TaskPc == Running \cup {"idle", "sent", "returned", "done", "dead"}
TaskRow ==
  [pc : TaskPc, status : TaskStatus, text : Texts, k : Nat, round : Nat,
   verdict : {"none", "pass", "fail"}, result : Texts, direct : BOOLEAN, unsaved : BOOLEAN]
Job == [pc : {"idle", "claim", "read", "extract", "mark"}, tries : Nat, text : Texts]

StoreType ==
  /\ chapter \in [text : Texts, status : {"draft", "needs_review", "completed"}]
  /\ versions \in Seq(Version)
  /\ edits \in [Users -> Edit]
  /\ queued \in Nat /\ ledger \subseteq Texts
StreamType == stream \in [Streams -> StreamRow] /\ rejected \subseteq Texts
TaskType == task \in [Tasks -> TaskRow] /\ held \subseteq Texts
ExtractionType ==
  /\ extractor \in [Extractors -> Job]
  /\ marker \in {"none", "new", "failed", "completed"} /\ graph \in Texts /\ missed \in BOOLEAN
TypeInv == StoreType /\ StreamType /\ TaskType /\ ExtractionType

\* A request names rows that are there, and an update a text of its own.
EditInv ==
  \A u \in Users :
    /\ edits[u].hit \cup {edits[u].target} \subseteq 0 .. Len(versions)
    /\ edits[u].op \in {"activate", "rollback"} => edits[u].target \in DOMAIN versions
    /\ edits[u].op = "update" => edits[u].text.by \in {u, Nobody}
    /\ edits[u].pc = "staged" => edits[u].op \in {"rollback", "update"}

\* The names on texts.
LEMMA TextFacts ==
  /\ \A a, k, whole : TextOf(a, k, whole).by = a /\ TextOf(a, k, whole).whole = whole
  /\ \A a \in Users \cup Streams \cup Tasks \cup {Nobody}, k \in Nat, whole \in BOOLEAN :
       TextOf(a, k, whole) \in Texts
  /\ Blank \in Texts /\ Prior \in Texts /\ NoText \in Texts
  /\ Blank.by = Nobody /\ Prior.by = Nobody /\ NoText.by = Nobody /\ Prior.whole
  BY DEF TextOf, Texts, Blank, Prior, NoText

\* Deactivating versions changes nothing but the flag.
LEMMA Deactivated ==
  ASSUME NEW vs \in Seq(Version), NEW S
  PROVE  /\ Deactivate(vs, S) \in Seq(Version)
         /\ Len(Deactivate(vs, S)) = Len(vs)
         /\ \A i \in DOMAIN vs :
              /\ Deactivate(vs, S)[i].text = vs[i].text
              /\ Deactivate(vs, S)[i].active <=> vs[i].active /\ i \notin S
<1>1. ASSUME NEW i \in DOMAIN vs
      PROVE  /\ [vs[i] EXCEPT !.active = @ /\ i \notin S] \in Version
             /\ [vs[i] EXCEPT !.active = @ /\ i \notin S].text = vs[i].text
             /\ [vs[i] EXCEPT !.active = @ /\ i \notin S].active <=> vs[i].active /\ i \notin S
  <2>1. vs[i] \in Version
    OBVIOUS
  <2>2. PICK b \in BOOLEAN : b = (vs[i].active /\ i \notin S)
    OBVIOUS
  <2>3. [vs[i] EXCEPT !.active = b] \in Version /\ [vs[i] EXCEPT !.active = b].text = vs[i].text
        /\ [vs[i] EXCEPT !.active = b].active = b
    BY <2>1 DEF Version
  <2> QED
    BY <2>2, <2>3
<1>2. DOMAIN vs = 1 .. Len(vs) /\ Len(vs) \in Nat
  OBVIOUS
<1> DEFINE f(i) == [vs[i] EXCEPT !.active = @ /\ i \notin S]
<1>3. Deactivate(vs, S) = [i \in 1 .. Len(vs) |-> f(i)]
  BY <1>2 DEF Deactivate
<1>4. \A i \in 1 .. Len(vs) : f(i) \in Version
  BY <1>1, <1>2
<1>5. \A i \in DOMAIN vs : f(i).text = vs[i].text /\ (f(i).active <=> vs[i].active /\ i \notin S)
  BY <1>1
<1> HIDE DEF f
<1>6. Deactivate(vs, S) \in Seq(Version) /\ Len(Deactivate(vs, S)) = Len(vs)
  BY <1>2, <1>3, <1>4
<1>7. \A i \in DOMAIN vs : Deactivate(vs, S)[i] = f(i)
  BY <1>2, <1>3
<1> QED
  BY <1>5, <1>6, <1>7

\* A generator's version becomes the one that is active.
LEMMA Replaced ==
  ASSUME StoreType, Main \in Branches, NEW x \in Texts, ReplaceActive(x)
  PROVE  /\ versions' \in Seq(Version) /\ Len(versions') = Len(versions) + 1
         /\ \A i \in DOMAIN versions : versions'[i].text = versions[i].text /\ ~versions'[i].active
         /\ versions'[Len(versions) + 1].text = x /\ versions'[Len(versions) + 1].active
<1> DEFINE old == Deactivate(versions, Active(versions))
<1>1. /\ old \in Seq(Version) /\ Len(old) = Len(versions)
      /\ \A i \in DOMAIN versions :
           old[i].text = versions[i].text /\ (old[i].active <=> versions[i].active /\ i \notin Active(versions))
  BY Deactivated DEF StoreType
<1>2. \A i \in DOMAIN versions : ~old[i].active
  BY <1>1 DEF Active
<1>3. VersionRow(x, Main, TRUE) \in Version
  BY DEF VersionRow, Version
<1>4. versions' = Append(old, VersionRow(x, Main, TRUE))
  BY DEF ReplaceActive
<1> HIDE DEF old
<1> QED
  BY <1>1, <1>2, <1>3, <1>4 DEF VersionRow, StoreType

\* A held version is added and nothing else changes.
LEMMA Added ==
  ASSUME StoreType, Main \in Branches, NEW x \in Texts, AddInactive(x)
  PROVE  /\ versions' \in Seq(Version) /\ Len(versions') = Len(versions) + 1
         /\ \A i \in DOMAIN versions : versions'[i] = versions[i]
         /\ versions'[Len(versions) + 1].text = x /\ ~versions'[Len(versions) + 1].active
<1>1. VersionRow(x, Main, FALSE) \in Version
  BY DEF VersionRow, Version
<1> QED
  BY <1>1 DEF AddInactive, VersionRow, StoreType

\* A switch leaves every text in place, and its target active unless it was
\* active when it was loaded.
LEMMA SwitchedFacts ==
  ASSUME StoreType, NEW i \in DOMAIN versions, NEW S, NEW was \in BOOLEAN
  PROVE  /\ Switched(i, S, was) \in Seq(Version) /\ Len(Switched(i, S, was)) = Len(versions)
         /\ \A j \in DOMAIN versions : Switched(i, S, was)[j].text = versions[j].text
         /\ was \/ Switched(i, S, was)[i].active
<1> DEFINE d == Deactivate(versions, S)
<1>1. /\ d \in Seq(Version) /\ Len(d) = Len(versions)
      /\ \A j \in DOMAIN versions : d[j].text = versions[j].text
  BY Deactivated DEF StoreType
<1>2. Switched(i, S, was) = IF was THEN d ELSE [d EXCEPT ![i].active = TRUE]
  BY DEF Switched
<1>3. i \in 1 .. Len(d) /\ d[i] \in Version
  BY <1>1 DEF StoreType
<1>4. [d[i] EXCEPT !.active = TRUE] \in Version /\ [d[i] EXCEPT !.active = TRUE].active
      /\ [d[i] EXCEPT !.active = TRUE].text = d[i].text
  BY <1>3 DEF Version
<1>5. [d EXCEPT ![i].active = TRUE] = [d EXCEPT ![i] = [d[i] EXCEPT !.active = TRUE]]
  OBVIOUS
<1> HIDE DEF d
<1>6. CASE was
  BY <1>1, <1>2, <1>6
<1>7. CASE ~was
  <2>1. Switched(i, S, was) = [d EXCEPT ![i] = [d[i] EXCEPT !.active = TRUE]]
    BY <1>2, <1>5, <1>7
  <2> QED
    BY <1>1, <1>3, <1>4, <2>1 DEF StoreType
<1> QED
  BY <1>6, <1>7

\* Requests stay as they are when versions are only added.
LEMMA EditsKept ==
  ASSUME StoreType, EditInv, UNCHANGED edits,
         versions' \in Seq(Version), Len(versions) <= Len(versions')
  PROVE  EditInv'
  BY DEF StoreType, EditInv

-----------------------------------------------------------------------------
(* Requests.                                                                *)

\* A request's new row, with what the requests see to.
Fit(u, row) ==
  /\ row \in Edit
  /\ row.hit \cup {row.target} \subseteq 0 .. Len(versions)
  /\ row.op \in {"activate", "rollback"} => row.target \in DOMAIN versions
  /\ row.op = "update" => row.text.by \in {u, Nobody}
  /\ row.pc # "staged"

LEMMA RowStep ==
  ASSUME StoreType, EditInv, NEW u \in Users, NEW row, Fit(u, row),
         edits' = [edits EXCEPT ![u] = row], UNCHANGED <<chapter, versions, queued, ledger>>
  PROVE  /\ StoreType' /\ EditInv'
         /\ edits'[u] = row /\ \A q \in Users \ {u} : edits'[q] = edits[q]
<1>1. edits'[u] = row /\ \A q \in Users \ {u} : edits'[q] = edits[q]
  BY DEF StoreType
<1>2. StoreType'
  BY DEF StoreType, Fit
<1>3. EditInv'
  BY <1>1 DEF EditInv, Fit
<1> QED
  BY <1>1, <1>2, <1>3

\* What a step of a user's request does to the requests and the texts.
UserEffect(u) ==
  /\ \A q \in Users \ {u} : edits'[q] = edits[q]
  /\ edits[u].pc # "done" /\ edits' # edits
  /\ UNCHANGED ledger
  /\ Len(versions') >= Len(versions)
  /\ \A i \in DOMAIN versions : versions'[i].text = versions[i].text
  /\ \A i \in DOMAIN versions' \ DOMAIN versions : versions'[i].text = edits[u].text
  /\ \/ edits'[u].text = edits[u].text
     \/ edits'[u].text.by \in {u, Nobody}
     \/ \E i \in DOMAIN versions : edits'[u].text = versions[i].text
  /\ \/ UNCHANGED chapter
     \/ /\ edits[u].op \in {"rollback", "update"} /\ edits[u].pc = "staged"
        /\ chapter' = [chapter EXCEPT !.text = edits[u].text]
        /\ edits'[u] = [edits[u] EXCEPT !.pc = "done"]

\* Staging keeps what the request's row says.
LEMMA StageStep ==
  ASSUME StoreType, EditInv, NEW u \in Users, Stage(u)
  PROVE  StoreType' /\ EditInv' /\ UserEffect(u)
<1>1. UNCHANGED <<chapter, versions, ledger>> /\ edits[u].pc = "open"
  BY DEF Stage
<1>2. queued' \in Nat
  BY DEF Stage, Dispatch, StoreType
<1>3. PICK x \in Texts :
        /\ edits' = [edits EXCEPT ![u].pc = "staged", ![u].text = x]
        /\ x = edits[u].text \/ \E i \in DOMAIN versions : x = versions[i].text
        /\ edits[u].op = "update" => x = edits[u].text
  <2>1. CASE edits[u].op = "update" /\ edits' = [edits EXCEPT ![u].pc = "staged"]
    <3>1. edits[u].text \in Texts
      BY DEF StoreType, Edit
    <3>2. edits' = [edits EXCEPT ![u].pc = "staged", ![u].text = edits[u].text]
      BY <2>1 DEF StoreType, Edit
    <3> QED
      BY <2>1, <3>1, <3>2
  <2>2. CASE edits[u].op = "rollback" /\ \E i \in ActiveFor(u) :
               edits' = [edits EXCEPT ![u].pc = "staged", ![u].text = versions[i].text]
    <3>1. PICK i \in ActiveFor(u) :
            edits' = [edits EXCEPT ![u].pc = "staged", ![u].text = versions[i].text]
      BY <2>2
    <3>2. i \in DOMAIN versions
      BY <2>2, <3>1 DEF ActiveFor, Active, EditInv
    <3>3. versions[i].text \in Texts
      <4>1. versions[i] \in Version
        BY <3>2 DEF StoreType
      <4> QED
        BY <4>1 DEF Version
    <3> QED
      BY <2>2, <3>1, <3>2, <3>3
  <2> QED
    BY <2>1, <2>2 DEF Stage
<1>4. [edits[u] EXCEPT !.pc = "staged", !.text = x] \in Edit
  <2>1. edits[u] \in Edit
    BY DEF StoreType
  <2> QED
    BY <2>1 DEF Edit, EditPc
<1>5. edits' = [edits EXCEPT ![u] = [edits[u] EXCEPT !.pc = "staged", !.text = x]]
  BY <1>3 DEF StoreType, Edit
<1>6. StoreType'
  BY <1>1, <1>2, <1>4, <1>5 DEF StoreType
<1>7. EditInv'
  <2> SUFFICES ASSUME NEW q \in Users
               PROVE  /\ edits'[q].hit \cup {edits'[q].target} \subseteq 0 .. Len(versions)
                      /\ edits'[q].op \in {"activate", "rollback"} => edits'[q].target \in DOMAIN versions
                      /\ edits'[q].op = "update" => edits'[q].text.by \in {q, Nobody}
                      /\ edits'[q].pc = "staged" => edits'[q].op \in {"rollback", "update"}
    BY <1>1 DEF EditInv
  <2>1. edits[u] \in Edit /\ edits[u].op \in {"rollback", "update"}
    BY DEF StoreType, Stage
  <2>2. CASE q = u
    BY <1>3, <1>5, <2>1, <2>2 DEF EditInv, StoreType, Edit
  <2>3. CASE q # u
    BY <1>5, <2>3 DEF EditInv, StoreType
  <2> QED
    BY <2>2, <2>3
<1>8. edits' # edits
  <2>1. edits'[u].pc = "staged"
    BY <1>5 DEF StoreType, Edit
  <2> QED
    BY <1>1, <2>1
<1>9. edits'[u].text = x
  BY <1>5 DEF StoreType, Edit
<1> QED
  BY <1>1, <1>3, <1>5, <1>6, <1>7, <1>8, <1>9 DEF UserEffect, StoreType

\* A chapter's active version is never lost, but by a switch to itself.
ActiveLeft(u) ==
  Active(versions) # {} => Active(versions') # {} \/ NothingToSwitch(u)

\* A request's new row and nothing else.
LEMMA OnlyRow ==
  ASSUME StoreType, EditInv, NEW u \in Users, NEW row, Fit(u, row),
         edits' = [edits EXCEPT ![u] = row], UNCHANGED <<chapter, versions, queued, ledger>>,
         edits[u].pc # "done", row.pc # edits[u].pc,
         \/ row.text = edits[u].text
         \/ row.text.by \in {u, Nobody}
         \/ \E i \in DOMAIN versions : row.text = versions[i].text
  PROVE  StoreType' /\ EditInv' /\ UserEffect(u) /\ ActiveLeft(u)
<1>1. StoreType' /\ EditInv' /\ edits'[u] = row /\ \A q \in Users \ {u} : edits'[q] = edits[q]
  BY RowStep
<1>2. edits' # edits
  BY <1>1
<1>3. UserEffect(u)
  BY <1>1, <1>2 DEF UserEffect, StoreType
<1> QED
  BY <1>1, <1>3 DEF ActiveLeft

\* A request that begins with its statement.
LEMMA BeginStep ==
  ASSUME ChapterAssumption, StoreType, EditInv, NEW u \in Users, NEW op \in {"create", "update"},
         NEW hit \in SUBSET DOMAIN versions, NEW branch \in Branches, NEW text \in Texts,
         Begin(u, op, hit, branch, text), op = "update" => text.by \in {u, Nobody},
         text.by \in {u, Nobody} \/ \E i \in DOMAIN versions : text = versions[i].text
  PROVE  StoreType' /\ EditInv' /\ UserEffect(u) /\ ActiveLeft(u)
<1> DEFINE row == [pc |-> "open", op |-> op, hit |-> hit, after |-> Holders(hit),
                   branch |-> branch, text |-> text, target |-> 0, was |-> FALSE]
<1>1. DOMAIN versions = 1 .. Len(versions) /\ Len(versions) \in Nat
  BY DEF StoreType
<1>2. Holders(hit) \in SUBSET Users
  BY DEF Holders
<1>3. row \in Edit
  BY <1>1, <1>2 DEF Edit, EditPc, EditOp
<1>4. Fit(u, row)
  BY <1>1, <1>3 DEF Fit
<1>5. /\ edits' = [edits EXCEPT ![u] = row] /\ UNCHANGED <<chapter, versions, queued, ledger>>
      /\ edits[u].pc = "idle"
  BY DEF Begin
<1>6. row.pc = "open" /\ row.text = text
  OBVIOUS
<1> HIDE DEF row
<1> QED
  BY <1>4, <1>5, <1>6, OnlyRow

\* The texts and branches of the versions.
LEMMA VersionFacts ==
  ASSUME StoreType
  PROVE  /\ DOMAIN versions = 1 .. Len(versions) /\ Len(versions) \in Nat
         /\ Active(versions) \in SUBSET DOMAIN versions
         /\ \A i \in DOMAIN versions : /\ versions[i].text \in Texts /\ versions[i].branch \in Branches
                                      /\ versions[i].active \in BOOLEAN
<1>1. \A i \in DOMAIN versions : versions[i] \in Version
  BY DEF StoreType
<1> QED
  BY <1>1 DEF Version, Active, StoreType

\* The statement of any of the requests.
LEMMA OpenStep ==
  ASSUME ChapterAssumption, StoreType, EditInv, NEW u \in Users,
         CreateVersion(u) \/ CreateBranch(u) \/ UpdateChapter(u)
  PROVE  StoreType' /\ EditInv' /\ UserEffect(u) /\ ActiveLeft(u)
<1>1. /\ TextOf(u, 1, TRUE) \in Texts /\ TextOf(u, 1, TRUE).by = u /\ Blank \in Texts
      /\ Blank.by = Nobody /\ Main \in Branches
  BY TextFacts DEF ChapterAssumption, StoreAssumption
<1>2. CASE CreateVersion(u)
  <2>1. PICK b \in Branches :
          Begin(u, "create", {i \in Active(versions) : versions[i].branch = b}, b, TextOf(u, 1, TRUE))
    BY <1>2 DEF CreateVersion
  <2>2. {i \in Active(versions) : versions[i].branch = b} \in SUBSET DOMAIN versions
    BY VersionFacts
  <2> QED
    BY <1>1, <2>1, <2>2, BeginStep
<1>3. CASE CreateBranch(u)
  <2>1. PICK i \in DOMAIN versions, b \in Branches : Begin(u, "create", {}, b, versions[i].text)
    BY <1>3 DEF CreateBranch
  <2> QED
    BY <2>1, VersionFacts, BeginStep
<1>4. CASE UpdateChapter(u)
  <2>1. PICK t \in {TextOf(u, 1, TRUE), Blank} : Begin(u, "update", {}, Main, t)
    BY <1>4 DEF UpdateChapter
  <2>2. t \in Texts /\ t.by \in {u, Nobody}
    BY <1>1
  <2> QED
    BY <1>1, <2>1, <2>2, BeginStep
<1> QED
  BY <1>2, <1>3, <1>4

\* A switch loads its version.
LEMMA LoadStep ==
  ASSUME StoreType, EditInv, NEW u \in Users, LoadVersion(u)
  PROVE  StoreType' /\ EditInv' /\ UserEffect(u) /\ ActiveLeft(u)
<1>1. PICK i \in DOMAIN versions, op \in {"activate", "rollback"} :
        edits' = [edits EXCEPT ![u] =
          [pc |-> "loaded", op |-> op, hit |-> {}, after |-> {}, branch |-> versions[i].branch,
           text |-> versions[i].text, target |-> i, was |-> versions[i].active]]
  BY DEF LoadVersion
<1> DEFINE row == [pc |-> "loaded", op |-> op, hit |-> {}, after |-> {}, branch |-> versions[i].branch,
                   text |-> versions[i].text, target |-> i, was |-> versions[i].active]
<1>2. row \in Edit
  BY VersionFacts DEF Edit, EditPc, EditOp
<1>3. Fit(u, row)
  BY <1>2, VersionFacts DEF Fit
<1>4. UNCHANGED <<chapter, versions, queued, ledger>> /\ edits[u].pc = "idle"
  BY DEF LoadVersion
<1>5. row.pc = "loaded" /\ row.text = versions[i].text /\ edits' = [edits EXCEPT ![u] = row]
  BY <1>1
<1> HIDE DEF row
<1> QED
  BY <1>3, <1>4, <1>5, OnlyRow

\* The statement of a switch.
LEMMA SwitchStep ==
  ASSUME StoreType, EditInv, NEW u \in Users, SwitchActive(u)
  PROVE  StoreType' /\ EditInv' /\ UserEffect(u) /\ ActiveLeft(u)
<1> DEFINE row == [edits[u] EXCEPT !.pc = "open", !.hit = Active(versions),
                                   !.after = Holders(Active(versions))]
<1>1. edits[u] \in Edit
  BY DEF StoreType
<1>2. /\ edits' = [edits EXCEPT ![u].pc = "open", ![u].hit = Active(versions),
                                ![u].after = Holders(Active(versions))]
      /\ UNCHANGED <<chapter, versions, queued, ledger>> /\ edits[u].pc = "loaded"
  BY DEF SwitchActive
<1>3. edits' = [edits EXCEPT ![u] = row]
  BY <1>1, <1>2 DEF StoreType, Edit
<1>4. Holders(Active(versions)) \in SUBSET Users /\ Active(versions) \in SUBSET Nat
  BY VersionFacts DEF Holders
<1>5. /\ row \in Edit /\ row.pc = "open" /\ row.text = edits[u].text /\ row.op = edits[u].op
      /\ row.target = edits[u].target /\ row.hit = Active(versions)
  BY <1>1, <1>4 DEF Edit, EditPc
<1> HIDE DEF row
<1>6. Fit(u, row)
  BY <1>5, VersionFacts DEF Fit, EditInv
<1> QED
  BY <1>2, <1>3, <1>5, <1>6, OnlyRow

\* A rollback that is refused.
LEMMA RefuseStep ==
  ASSUME ChapterAssumption, StoreType, EditInv, NEW u \in Users, Refuse(u)
  PROVE  StoreType' /\ EditInv' /\ UserEffect(u) /\ ActiveLeft(u)
<1> DEFINE row == [NoEdit EXCEPT !.pc = "done"]
<1>1. /\ edits' = [edits EXCEPT ![u] = row] /\ UNCHANGED <<chapter, versions, queued, ledger>>
      /\ edits[u].pc = "open"
  BY DEF Refuse
<1>2. row \in Edit
  BY TextFacts DEF NoEdit, Edit, EditPc, EditOp, ChapterAssumption, StoreAssumption
<1>3. row.pc = "done" /\ row.text = Blank /\ row.op = "none" /\ row.hit = {} /\ row.target = 0
  BY DEF NoEdit
<1> HIDE DEF row
<1>4. Fit(u, row)
  BY <1>2, <1>3, VersionFacts DEF Fit
<1>5. row.text.by \in {u, Nobody}
  BY <1>3, TextFacts
<1> QED
  BY <1>1, <1>3, <1>4, <1>5, OnlyRow

\* Committing a new version or an activation.
LEMMA CommitVersionStep ==
  ASSUME ChapterAssumption, StoreType, EditInv, NEW u \in Users, CommitVersion(u)
  PROVE  StoreType' /\ EditInv' /\ UserEffect(u) /\ ActiveLeft(u)
<1>1. /\ UNCHANGED <<chapter, queued, ledger>> /\ edits[u].pc = "open"
      /\ edits' = [edits EXCEPT ![u].pc = "done"]
      /\ edits[u].op \in {"create", "activate"}
  BY DEF CommitVersion
<1>2. edits[u] \in Edit
  BY DEF StoreType
<1>3. /\ [edits[u] EXCEPT !.pc = "done"] \in Edit
      /\ edits' = [edits EXCEPT ![u] = [edits[u] EXCEPT !.pc = "done"]]
  BY <1>1, <1>2 DEF Edit, EditPc, StoreType
<1>4. /\ edits' \in [Users -> Edit] /\ edits'[u].text = edits[u].text /\ edits'[u].pc = "done"
      /\ edits'[u].op = edits[u].op /\ edits'[u].target = edits[u].target /\ edits'[u].hit = edits[u].hit
      /\ \A q \in Users \ {u} : edits'[q] = edits[q]
  BY <1>2, <1>3 DEF StoreType, Edit
<1>5. /\ versions' \in Seq(Version) /\ Len(versions') >= Len(versions)
      /\ \A i \in DOMAIN versions : versions'[i].text = versions[i].text
      /\ \A i \in DOMAIN versions' \ DOMAIN versions : versions'[i].text = edits[u].text
      /\ ActiveLeft(u)
  <2>1. CASE edits[u].op = "create"
    <3> DEFINE old == Deactivate(versions, edits[u].hit)
               new == VersionRow(edits[u].text, edits[u].branch, TRUE)
    <3>1. /\ old \in Seq(Version) /\ Len(old) = Len(versions)
          /\ \A i \in DOMAIN versions : old[i].text = versions[i].text
      BY Deactivated DEF StoreType
    <3>2. new \in Version /\ new.text = edits[u].text /\ new.active
      BY <1>2 DEF VersionRow, Version, Edit
    <3>3. versions' = Append(old, new)
      BY <2>1 DEF CommitVersion
    <3> HIDE DEF old, new
    <3>4. /\ versions' \in Seq(Version) /\ Len(versions') = Len(versions) + 1
          /\ versions'[Len(versions) + 1] = new
          /\ \A i \in DOMAIN versions : versions'[i] = old[i]
      BY <3>1, <3>2, <3>3 DEF StoreType
    <3>5. Len(versions) + 1 \in Active(versions')
      BY <3>2, <3>4 DEF Active
    <3>6. DOMAIN versions = 1 .. Len(versions) /\ DOMAIN versions' = 1 .. (Len(versions) + 1)
      BY <3>4 DEF StoreType
    <3>7. /\ \A i \in DOMAIN versions : versions'[i].text = versions[i].text
          /\ \A i \in DOMAIN versions' \ DOMAIN versions : versions'[i].text = edits[u].text
      BY <3>1, <3>2, <3>4, <3>6
    <3> QED
      BY <3>4, <3>5, <3>7 DEF StoreType, ActiveLeft
  <2>2. CASE edits[u].op = "activate"
    <3>1. edits[u].target \in DOMAIN versions
      BY <2>2 DEF EditInv
    <3>2. versions' = Switched(edits[u].target, edits[u].hit, edits[u].was)
      BY <2>2 DEF CommitVersion
    <3>3. /\ versions' \in Seq(Version) /\ Len(versions') = Len(versions)
          /\ \A j \in DOMAIN versions : versions'[j].text = versions[j].text
          /\ edits[u].was \/ versions'[edits[u].target].active
      BY <1>2, <3>1, <3>2, SwitchedFacts DEF Edit
    <3>4. edits[u].was \/ edits[u].target \in Active(versions')
      BY <3>1, <3>3 DEF Active, StoreType
    <3>5. edits[u].was => NothingToSwitch(u)
      BY <1>1, <1>4 DEF NothingToSwitch
    <3> QED
      BY <3>3, <3>4, <3>5 DEF StoreType, ActiveLeft
  <2> QED
    BY <1>1, <2>1, <2>2
<1>6. StoreType'
  BY <1>1, <1>4, <1>5 DEF StoreType
<1>7. EditInv'
  <2> SUFFICES ASSUME NEW q \in Users
               PROVE  /\ edits'[q].hit \cup {edits'[q].target} \subseteq 0 .. Len(versions')
                      /\ edits'[q].op \in {"activate", "rollback"} => edits'[q].target \in DOMAIN versions'
                      /\ edits'[q].op = "update" => edits'[q].text.by \in {q, Nobody}
                      /\ edits'[q].pc = "staged" => edits'[q].op \in {"rollback", "update"}
    BY DEF EditInv
  <2>1. 0 .. Len(versions) \subseteq 0 .. Len(versions') /\ DOMAIN versions \subseteq DOMAIN versions'
    BY <1>5 DEF StoreType
  <2>2. /\ edits'[q].hit = edits[q].hit /\ edits'[q].target = edits[q].target
        /\ edits'[q].op = edits[q].op /\ edits'[q].text = edits[q].text
        /\ edits'[q].pc = "staged" => edits[q].pc = "staged"
    BY <1>4
  <2> QED
    BY <2>1, <2>2 DEF EditInv
<1>8. UserEffect(u)
  BY <1>1, <1>4, <1>5 DEF UserEffect
<1> QED
  BY <1>5, <1>6, <1>7, <1>8

\* Committing a save or a rollback of the chapter.
LEMMA CommitChapterStep ==
  ASSUME ChapterAssumption, StoreType, EditInv, NEW u \in Users, CommitChapter(u)
  PROVE  StoreType' /\ EditInv' /\ UserEffect(u) /\ ActiveLeft(u)
<1>1. /\ UNCHANGED <<queued, ledger>> /\ edits[u].pc = "staged"
      /\ edits' = [edits EXCEPT ![u].pc = "done"]
      /\ chapter' = [chapter EXCEPT !.text = edits[u].text]
      /\ edits[u].op \in {"rollback", "update"}
  BY DEF CommitChapter, EditInv
<1>2. edits[u] \in Edit
  BY DEF StoreType
<1>3. /\ [edits[u] EXCEPT !.pc = "done"] \in Edit
      /\ edits' = [edits EXCEPT ![u] = [edits[u] EXCEPT !.pc = "done"]]
  BY <1>1, <1>2 DEF Edit, EditPc, StoreType
<1>4. /\ edits' \in [Users -> Edit] /\ edits'[u].text = edits[u].text /\ edits'[u].pc = "done"
      /\ edits'[u].op = edits[u].op /\ edits'[u].target = edits[u].target /\ edits'[u].hit = edits[u].hit
      /\ edits'[u] = [edits[u] EXCEPT !.pc = "done"]
      /\ \A q \in Users \ {u} : edits'[q] = edits[q]
  BY <1>2, <1>3 DEF StoreType, Edit
<1>5. /\ versions' \in Seq(Version) /\ Len(versions') = Len(versions)
      /\ DOMAIN versions' = DOMAIN versions
      /\ \A i \in DOMAIN versions : versions'[i].text = versions[i].text
      /\ ActiveLeft(u)
  <2>1. CASE edits[u].op = "rollback"
    <3>1. edits[u].target \in DOMAIN versions
      BY <2>1 DEF EditInv
    <3>2. versions' = Switched(edits[u].target, edits[u].hit, edits[u].was)
      BY <2>1 DEF CommitChapter
    <3>3. /\ versions' \in Seq(Version) /\ Len(versions') = Len(versions)
          /\ \A j \in DOMAIN versions : versions'[j].text = versions[j].text
          /\ edits[u].was \/ versions'[edits[u].target].active
      BY <1>2, <3>1, <3>2, SwitchedFacts DEF Edit
    <3>4. edits[u].was \/ edits[u].target \in Active(versions')
      BY <3>1, <3>3 DEF Active, StoreType
    <3>5. edits[u].was => NothingToSwitch(u)
      BY <1>1, <1>4 DEF NothingToSwitch
    <3> QED
      BY <3>3, <3>4, <3>5 DEF ActiveLeft, StoreType
  <2>2. CASE edits[u].op # "rollback"
    <3>1. versions' = versions
      BY <2>2 DEF CommitChapter
    <3> QED
      BY <3>1 DEF ActiveLeft, StoreType
  <2> QED
    BY <2>1, <2>2
<1>6. chapter' \in [text : Texts, status : {"draft", "needs_review", "completed"}]
  BY <1>1, <1>2 DEF StoreType, Edit
<1>7. StoreType'
  BY <1>1, <1>4, <1>5, <1>6 DEF StoreType
<1>8. EditInv'
  <2> SUFFICES ASSUME NEW q \in Users
               PROVE  /\ edits'[q].hit \cup {edits'[q].target} \subseteq 0 .. Len(versions)
                      /\ edits'[q].op \in {"activate", "rollback"} => edits'[q].target \in DOMAIN versions
                      /\ edits'[q].op = "update" => edits'[q].text.by \in {q, Nobody}
                      /\ edits'[q].pc = "staged" => edits'[q].op \in {"rollback", "update"}
    BY <1>5 DEF EditInv
  <2> QED
    BY <1>4 DEF EditInv
<1>9. UserEffect(u)
  <2>1. edits' # edits
    BY <1>1, <1>4
  <2>2. Len(versions') >= Len(versions)
    BY <1>5 DEF StoreType
  <2> QED
    BY <1>1, <1>4, <1>5, <2>1, <2>2 DEF UserEffect
<1> QED
  BY <1>5, <1>7, <1>8, <1>9

\* Any step of a request.
LEMMA UserStep ==
  ASSUME ChapterAssumption, StoreType, EditInv, UserNext
  PROVE  StoreType' /\ EditInv' /\ \E u \in Users : UserEffect(u) /\ ActiveLeft(u)
<1>1. ASSUME NEW u \in Users, Stage(u)
      PROVE  StoreType' /\ EditInv' /\ UserEffect(u) /\ ActiveLeft(u)
  <2>1. versions' = versions
    BY <1>1 DEF Stage
  <2> QED
    BY <1>1, <2>1, StageStep DEF ActiveLeft, Active
<1> QED
  BY <1>1, OpenStep, LoadStep, SwitchStep, RefuseStep, CommitVersionStep, CommitChapterStep
     DEF UserNext

-----------------------------------------------------------------------------
(* Streams.                                                                 *)

Writing == {"gate", "save", "version", "judge", "polish", "save2", "version2", "settle"}

\* A stream's texts bear its name.
Owns(r, s) ==
  /\ r.pc \in Writing => r.text.by = s
  /\ r.ingest = NoText \/ r.ingest.by = s
  /\ r.restored => r.pc \in {"ingest", "done", "gone"}
OwnInv == \A s \in Streams : Owns(stream[s], s)

\* What a step of a stream does, apart from types.
StreamEffect(s) ==
  /\ \A r \in Streams \ {s} : stream'[r] = stream[r]
  /\ UNCHANGED edits
  /\ stream[s].pc \notin {"done", "gone"} /\ stream'[s].pc # "idle"
  /\ stream[s].pc = "ingest" => stream'[s].pc \in {"done", "gone"}
  /\ stream[s].restored => stream'[s].restored /\ stream'[s].base = stream[s].base
  /\ \/ stream'[s].base \in {stream[s].base, Blank}
     \/ stream[s].pc = "idle" /\ stream'[s].base = chapter.text
  /\ Owns(stream'[s], s)
  /\ UNCHANGED versions \/ \E x \in Texts : x.by = s /\ ReplaceActive(x)
ChapterEffect(s) ==
  \/ UNCHANGED chapter /\ (stream'[s].restored => stream[s].restored)
  \/ /\ chapter'.text.by = s /\ (chapter'.status = "completed" => chapter'.text.whole)
     /\ ~stream'[s].restored
  \/ /\ stream'[s].restored /\ stream'[s].base = stream[s].base
     /\ chapter'.status = "completed" => chapter'.text.whole
     /\ IF stream[s].base # Blank THEN chapter'.text = stream[s].base
        ELSE chapter'.text.by \in {s, Nobody}
LedgerEffect(s) ==
  \/ UNCHANGED <<ledger, rejected>>
  \/ /\ UNCHANGED rejected /\ stream[s].pc = "ingest" /\ stream'[s].pc = "done"
     /\ ledger' = ledger \cup ({stream[s].ingest} \ {NoText})
  \/ /\ UNCHANGED ledger /\ stream[s].pc = "settle"
     /\ stream'[s].pc = "ingest" /\ stream'[s].ingest = NoText
     /\ rejected' = rejected \cup {stream[s].text}

\* The text of a stream that is to be written.
LEMMA FreshFacts ==
  ASSUME ChapterAssumption, StreamType, NEW s \in Streams, NEW t \in Fresh(s)
  PROVE  t \in Texts /\ t.by = s /\ t.k \in Nat
<1>1. stream[s] \in StreamRow
  BY DEF StreamType
<1>2. stream[s].k + 1 \in Nat
  BY <1>1 DEF StreamRow
<1> QED
  BY <1>2 DEF Fresh, TextOf, Texts

\* The record a handler ends with.
LEMMA EndedFacts ==
  ASSUME ChapterAssumption, StreamType, OwnInv, NEW s \in Streams, NEW step \in {"done", "gone"}
  PROVE  /\ Ended(s, step) \in StreamRow /\ Owns(Ended(s, step), s) /\ Ended(s, step).pc = step
         /\ Ended(s, step).restored = stream[s].restored
         /\ Ended(s, step).base = IF stream[s].restored THEN stream[s].base ELSE Blank
<1>1. stream[s] \in StreamRow
  BY DEF StreamType
<1>2. NoStream \in StreamRow /\ NoStream.ingest = NoText
  BY TextFacts DEF NoStream, StreamRow, Steps
<1> QED
  BY <1>1, <1>2, TextFacts DEF Ended, StreamRow, Steps, Owns, Writing

\* A step that changes nothing but the handler's locals.
LEMMA LocalStep ==
  ASSUME StoreType, StreamType, NEW s \in Streams, NEW r \in StreamRow, Local(s, r)
  PROVE  /\ stream' \in [Streams -> StreamRow] /\ stream'[s] = r
         /\ \A q \in Streams \ {s} : stream'[q] = stream[q]
  BY DEF Local, StreamType

\* What the chapter's row is after a write of a stream.
LEMMA WriteFacts ==
  ASSUME StoreType, NEW a, NEW t \in Texts, WriteChapter(a, t, StatusOf(t))
  PROVE  /\ chapter' \in [text : Texts, status : {"draft", "needs_review", "completed"}]
         /\ chapter'.text = t /\ (chapter'.status = "completed" => t.whole)
  BY DEF WriteChapter, StatusOf

StreamDone(s) == StoreType' /\ StreamType' /\ StreamEffect(s) /\ ChapterEffect(s) /\ LedgerEffect(s)

\* What the locals of a stream may become.
Follows(r, s) ==
  /\ r \in StreamRow /\ Owns(r, s) /\ r.pc # "idle" /\ stream[s].pc \notin {"done", "gone"}
  /\ stream[s].pc = "ingest" => r.pc \in {"done", "gone"}
  /\ stream[s].restored => r.restored /\ r.base = stream[s].base
  /\ r.base \in {stream[s].base, Blank} \/ (stream[s].pc = "idle" /\ r.base = chapter.text)

\* Steps that write nothing.
LEMMA QuietStep ==
  ASSUME StoreType, StreamType, NEW s \in Streams, NEW r, Local(s, r), Follows(r, s),
         r.restored => stream[s].restored, UNCHANGED <<store, rejected>>
  PROVE  StreamDone(s)
<1>1. /\ stream' \in [Streams -> StreamRow] /\ stream'[s] = r
      /\ \A q \in Streams \ {s} : stream'[q] = stream[q]
  BY LocalStep DEF Follows
<1>2. UNCHANGED <<chapter, versions, edits, queued, ledger, rejected>>
  BY DEF store
<1> QED
  BY <1>1, <1>2 DEF StreamDone, StoreType, StreamType, StreamEffect, ChapterEffect, LedgerEffect, Follows

\* A handler that ends where it stands.
LEMMA EndStep ==
  ASSUME ChapterAssumption, StoreType, StreamType, OwnInv, NEW s \in Streams,
         NEW step \in {"done", "gone"}, stream[s].pc \notin {"done", "gone"},
         Local(s, Ended(s, step)), UNCHANGED <<store, rejected>>
  PROVE  StreamDone(s)
<1> DEFINE r == Ended(s, step)
<1>2. /\ r \in StreamRow /\ Owns(r, s) /\ r.pc = step /\ r.restored = stream[s].restored
      /\ r.base = IF stream[s].restored THEN stream[s].base ELSE Blank
  BY EndedFacts
<1> HIDE DEF r
<1>3. Follows(r, s)
  BY <1>2 DEF Follows
<1>1. Follows(Ended(s, step), s)
  BY <1>3 DEF r
<1> QED
  BY <1>1, EndedFacts, QuietStep

\* A handler that goes on with a text of its own.
LEMMA MoveStep ==
  ASSUME StreamType, OwnInv, NEW s \in Streams, stream[s].pc \in Writing \cup {"draft"},
         NEW r \in StreamRow, r.pc \in Writing, r.text.by = s, r.base = stream[s].base,
         r.restored = stream[s].restored, r.ingest = stream[s].ingest
  PROVE  Follows(r, s) /\ (r.restored => stream[s].restored)
<1>1. Owns(stream[s], s)
  BY DEF OwnInv
<1>2. stream[s].pc \notin {"idle", "ingest", "done", "gone"} /\ r.pc # "idle"
  BY DEF Writing
<1>3. ~stream[s].restored
  BY <1>1, <1>2 DEF Owns
<1>4. Owns(r, s)
  BY <1>1, <1>3 DEF Owns
<1> QED
  BY <1>2, <1>3, <1>4 DEF Follows

\* The steps in which a handler thinks.
LEMMA ThinkStep ==
  ASSUME ChapterAssumption, StoreType, StreamType, OwnInv, NEW s \in Streams,
         OpenStream(s) \/ Draft(s) \/ Gate(s) \/ Judge(s) \/ JudgeLast(s) \/ Polish(s) \/ Disconnect(s)
  PROVE  StreamDone(s)
<1>1. stream[s] \in StreamRow /\ Owns(stream[s], s)
  BY DEF StreamType, OwnInv
<1>2. UNCHANGED <<store, rejected>>
  BY DEF OpenStream, Draft, Gate, Judge, JudgeLast, Polish, Disconnect
<1>3. stream[s].pc \notin {"done", "gone"}
  BY DEF OpenStream, Draft, Gate, Judge, JudgeLast, Polish, Disconnect, At
<1> SUFFICES ASSUME ~ \E step \in {"done", "gone"} : Local(s, Ended(s, step))
             PROVE  \E r : Local(s, r) /\ Follows(r, s) /\ (r.restored => stream[s].restored)
  BY <1>2, <1>3, EndStep, QuietStep
<1>4. CASE OpenStream(s)
  <2>1. PICK o \in Options : Local(s, [stream[s] EXCEPT !.pc = "draft", !.opts = o, !.base = chapter.text])
    BY <1>4 DEF OpenStream
  <2>2. o \in SUBSET {"scene", "polish", "keep"} /\ chapter.text \in Texts /\ stream[s].pc = "idle"
    BY <1>4 DEF ChapterAssumption, StreamAssumption, StoreType, OpenStream, At
  <2> DEFINE r == [stream[s] EXCEPT !.pc = "draft", !.opts = o, !.base = chapter.text]
  <2>3. /\ r \in StreamRow /\ r.pc = "draft" /\ r.base = chapter.text /\ r.restored = stream[s].restored
        /\ r.ingest = stream[s].ingest
    BY <1>1, <2>2 DEF StreamRow, Steps
  <2>4. Local(s, r)
    BY <2>1
  <2> HIDE DEF r
  <2>5. ~stream[s].restored
    BY <1>1, <2>2 DEF Owns
  <2>6. Follows(r, s)
    BY <1>1, <2>2, <2>3, <2>5 DEF Follows, Owns, Writing
  <2> QED
    BY <2>3, <2>4, <2>6
<1>5. CASE Draft(s)
  <2>1. PICK t \in Fresh(s) :
          Local(s, [stream[s] EXCEPT !.pc = IF Wants(s, "polish") THEN "gate" ELSE "save",
                                     !.text = t, !.k = @ + 1])
    BY <1>5 DEF Draft
  <2>2. stream[s].pc = "draft" /\ t \in Texts /\ t.by = s
    BY <1>5, FreshFacts DEF Draft, At
  <2> DEFINE r == [stream[s] EXCEPT !.pc = IF Wants(s, "polish") THEN "gate" ELSE "save",
                                    !.text = t, !.k = @ + 1]
  <2>3. /\ r \in StreamRow /\ r.pc \in Writing /\ r.text = t /\ r.base = stream[s].base
        /\ r.restored = stream[s].restored /\ r.ingest = stream[s].ingest
    <3>1. PICK n \in Nat : n = stream[s].k + 1
      BY <1>1 DEF StreamRow
    <3>2. PICK p \in {"gate", "save", "save2"} : r = [stream[s] EXCEPT !.pc = p, !.text = t, !.k = n]
      BY <3>1
    <3> HIDE DEF r
    <3> QED
      BY <1>1, <2>2, <3>2 DEF StreamRow, Steps, Writing
  <2>4. Local(s, r)
    BY <2>1
  <2> HIDE DEF r
  <2> QED
    BY <2>2, <2>3, <2>4, MoveStep
<1>6. CASE Gate(s)
  <2>1. PICK t \in Fresh(s) \cup {stream[s].text} :
          Local(s, [stream[s] EXCEPT !.pc = "save", !.text = t, !.k = t.k])
    BY <1>6 DEF Gate
  <2>2. stream[s].pc = "gate"
    BY <1>6 DEF Gate, At
  <2>3. t \in Texts /\ t.by = s /\ t.k \in Nat
    BY <1>1, <2>2, FreshFacts DEF StreamRow, Texts, Owns, Writing
  <2> DEFINE r == [stream[s] EXCEPT !.pc = "save", !.text = t, !.k = t.k]
  <2>4. /\ r \in StreamRow /\ r.pc \in Writing /\ r.text = t /\ r.base = stream[s].base
        /\ r.restored = stream[s].restored /\ r.ingest = stream[s].ingest
    BY <1>1, <2>3 DEF StreamRow, Steps, Writing
  <2>5. Local(s, r)
    BY <2>1
  <2>6. stream[s].pc \in Writing
    BY <2>2 DEF Writing
  <2> HIDE DEF r
  <2> QED
    BY <2>3, <2>4, <2>5, <2>6, MoveStep
<1>7. CASE \/ Judge(s) \/ JudgeLast(s)
           \/ Polish(s) /\ ~ \E t \in Fresh(s) :
                              Local(s, [stream[s] EXCEPT !.pc = "save2", !.text = t, !.k = @ + 1])
  <2>1. stream[s].pc \in Writing /\ stream[s].text.by = s
    BY <1>1, <1>7 DEF Judge, JudgeLast, Polish, At, Owns, Writing
  <2>2. PICK r \in {Accept(s), Abort(s), [stream[s] EXCEPT !.pc = "settle"], [stream[s] EXCEPT !.pc = "save2"]} :
          Local(s, r)
    BY <1>7 DEF Judge, JudgeLast, Polish
  <2>3. /\ r \in StreamRow /\ r.pc \in Writing /\ r.text = stream[s].text /\ r.base = stream[s].base
        /\ r.restored = stream[s].restored /\ r.ingest = stream[s].ingest
    <3>1. CASE r = Accept(s)
      BY <1>1, <3>1 DEF Accept, StreamRow, Steps, Writing
    <3>2. CASE r = Abort(s)
      BY <1>1, <3>2 DEF Abort, StreamRow, Steps, Writing
    <3>3. CASE r = [stream[s] EXCEPT !.pc = "settle"]
      BY <1>1, <3>3 DEF StreamRow, Steps, Writing
    <3>4. CASE r = [stream[s] EXCEPT !.pc = "save2"]
      BY <1>1, <3>4 DEF StreamRow, Steps, Writing
    <3> QED
      BY <2>2, <3>1, <3>2, <3>3, <3>4
  <2> QED
    BY <2>1, <2>2, <2>3, MoveStep
<1>8. CASE Polish(s) /\ \E t \in Fresh(s) :
             Local(s, [stream[s] EXCEPT !.pc = "save2", !.text = t, !.k = @ + 1])
  <2>1. PICK t \in Fresh(s) : Local(s, [stream[s] EXCEPT !.pc = "save2", !.text = t, !.k = @ + 1])
    BY <1>8
  <2>2. stream[s].pc \in Writing /\ t \in Texts /\ t.by = s
    BY <1>8, FreshFacts DEF Polish, At, Writing
  <2> DEFINE r == [stream[s] EXCEPT !.pc = "save2", !.text = t, !.k = @ + 1]
  <2>3. /\ r \in StreamRow /\ r.pc \in Writing /\ r.text = t /\ r.base = stream[s].base
        /\ r.restored = stream[s].restored /\ r.ingest = stream[s].ingest
    <3>1. PICK n \in Nat : n = stream[s].k + 1
      BY <1>1 DEF StreamRow
    <3>2. PICK p \in {"gate", "save", "save2"} : r = [stream[s] EXCEPT !.pc = p, !.text = t, !.k = n]
      BY <3>1
    <3> HIDE DEF r
    <3> QED
      BY <1>1, <2>2, <3>2 DEF StreamRow, Steps, Writing
  <2>4. Local(s, r)
    BY <2>1
  <2> HIDE DEF r
  <2> QED
    BY <2>2, <2>3, <2>4, MoveStep
<1>9. CASE Disconnect(s)
  <2>1. Local(s, [stream[s] EXCEPT !.live = FALSE]) /\ stream[s].pc \in Writing
    BY <1>9 DEF Disconnect, Writing
  <2> DEFINE r == [stream[s] EXCEPT !.live = FALSE]
  <2>2. /\ r \in StreamRow /\ r.pc = stream[s].pc /\ r.text = stream[s].text /\ r.base = stream[s].base
        /\ r.restored = stream[s].restored /\ r.ingest = stream[s].ingest
    BY <1>1 DEF StreamRow
  <2>3. Local(s, r) /\ stream[s].text.by = s
    BY <1>1, <2>1 DEF Owns
  <2> HIDE DEF r
  <2> QED
    BY <2>1, <2>2, <2>3, MoveStep
<1> QED
  BY <1>4, <1>5, <1>6, <1>7, <1>8, <1>9, Zenon

\* What a save leaves the handler with.
LEMMA AfterSaveFacts ==
  ASSUME ChapterAssumption, StreamType, OwnInv, NEW s \in Streams,
         stream[s].pc \in {"save", "version", "save2", "version2"},
         NEW x \in Texts, x = NoText \/ x.by = s
  PROVE  Follows(AfterSave(s, x), s) /\ ~AfterSave(s, x).restored
<1>1. stream[s] \in StreamRow /\ Owns(stream[s], s) /\ stream[s].pc \in Writing
  BY DEF StreamType, OwnInv, Writing
<1>2. ~stream[s].restored /\ stream[s].text.by = s
  BY <1>1 DEF Owns
<1>3. CASE ~stream[s].live
  <2> DEFINE r == Ended(s, "gone")
  <2>1. AfterSave(s, x) = r
    BY <1>3 DEF AfterSave
  <2>2. /\ r \in StreamRow /\ Owns(r, s) /\ r.pc = "gone" /\ ~r.restored /\ r.base = Blank
    BY <1>2, EndedFacts
  <2> HIDE DEF r
  <2> QED
    BY <1>2, <2>1, <2>2 DEF Follows
<1>4. CASE stream[s].live /\ stream[s].pc \in {"save2", "version2"}
  <2> DEFINE r == [stream[s] EXCEPT !.pc = "settle"]
  <2>1. AfterSave(s, x) = r
    BY <1>4 DEF AfterSave
  <2>2. /\ r \in StreamRow /\ r.pc \in Writing /\ r.text = stream[s].text /\ r.base = stream[s].base
        /\ r.restored = stream[s].restored /\ r.ingest = stream[s].ingest
    BY <1>1 DEF StreamRow, Steps, Writing
  <2> HIDE DEF r
  <2> QED
    BY <1>1, <1>2, <2>1, <2>2, MoveStep
<1>5. CASE stream[s].live /\ stream[s].pc \in {"save", "version"}
  <2>1. PICK p \in {"judge", "ingest"} : AfterSave(s, x) = [stream[s] EXCEPT !.pc = p, !.ingest = x]
    BY <1>5 DEF AfterSave
  <2> DEFINE r == [stream[s] EXCEPT !.pc = p, !.ingest = x]
  <2>2. /\ r \in StreamRow /\ r.pc = p /\ r.text = stream[s].text /\ r.base = stream[s].base
        /\ r.restored = stream[s].restored /\ r.ingest = x
    BY <1>1 DEF StreamRow, Steps
  <2>3. stream[s].pc \notin {"idle", "ingest", "done", "gone"} /\ AfterSave(s, x) = r
    BY <1>5, <2>1
  <2> HIDE DEF r
  <2>4. Owns(r, s)
    BY <1>2, <2>2 DEF Owns, Writing
  <2> QED
    BY <1>2, <2>2, <2>3, <2>4 DEF Follows
<1> QED
  BY <1>3, <1>4, <1>5

\* Steps that leave the ledger and the rejected texts alone.
LEMMA SaveStep ==
  ASSUME StoreType, StoreType', StreamType, NEW s \in Streams, NEW r, Local(s, r), Follows(r, s),
         UNCHANGED <<edits, ledger, rejected>>,
         UNCHANGED versions \/ \E x \in Texts : x.by = s /\ ReplaceActive(x),
         \/ UNCHANGED chapter
         \/ chapter'.text.by = s /\ (chapter'.status = "completed" => chapter'.text.whole),
         ~r.restored
  PROVE  StreamDone(s)
<1>1. /\ stream' \in [Streams -> StreamRow] /\ stream'[s] = r
      /\ \A q \in Streams \ {s} : stream'[q] = stream[q]
  BY LocalStep DEF Follows
<1>2. StreamEffect(s)
  BY <1>1 DEF StreamEffect, Follows
<1>3. ChapterEffect(s)
  BY <1>1 DEF ChapterEffect
<1> QED
  BY <1>1, <1>2, <1>3 DEF StreamDone, StreamType, LedgerEffect

\* The first of the two commits of a save.
LEMMA SaveChapterStep ==
  ASSUME ChapterAssumption, StoreType, StreamType, OwnInv, NEW s \in Streams, SaveChapter(s)
  PROVE  StreamDone(s)
<1>1. stream[s] \in StreamRow /\ Owns(stream[s], s)
  BY DEF StreamType, OwnInv
<1>2. /\ stream[s].pc \in {"save", "save2"} /\ stream[s].pc \in Writing
      /\ UNCHANGED <<versions, edits, queued, ledger, rejected>>
  BY DEF SaveChapter, Writing
<1>3. stream[s].text \in Texts /\ stream[s].text.by = s /\ ~stream[s].restored
  BY <1>1, <1>2 DEF StreamRow, Owns
<1>4. CASE WriteChapter(s, stream[s].text, StatusOf(stream[s].text))
           /\ Local(s, [stream[s] EXCEPT !.pc = IF @ = "save" THEN "version" ELSE "version2"])
  <2> DEFINE r == [stream[s] EXCEPT !.pc = IF @ = "save" THEN "version" ELSE "version2"]
  <2>1. /\ r \in StreamRow /\ r.pc \in Writing /\ r.text = stream[s].text /\ r.base = stream[s].base
        /\ r.restored = stream[s].restored /\ r.ingest = stream[s].ingest
    BY <1>1 DEF StreamRow, Steps, Writing
  <2>2. Local(s, r)
    BY <1>4
  <2> HIDE DEF r
  <2>3. Follows(r, s) /\ ~r.restored
    BY <1>2, <1>3, <2>1, MoveStep
  <2>4. /\ chapter' \in [text : Texts, status : {"draft", "needs_review", "completed"}]
        /\ chapter'.text.by = s /\ (chapter'.status = "completed" => chapter'.text.whole)
    BY <1>3, <1>4, WriteFacts
  <2>5. StoreType'
    BY <1>2, <2>4 DEF StoreType
  <2> QED
    BY <1>2, <2>2, <2>3, <2>4, <2>5, SaveStep
<1>5. CASE Local(s, AfterSave(s, NoText)) /\ UNCHANGED chapter
  <2>1. Follows(AfterSave(s, NoText), s) /\ ~AfterSave(s, NoText).restored
    BY <1>2, TextFacts, AfterSaveFacts
  <2>2. StoreType'
    BY <1>2, <1>5 DEF StoreType
  <2> QED
    BY <1>2, <1>5, <2>1, <2>2, SaveStep
<1> QED
  BY <1>4, <1>5 DEF SaveChapter

\* The second of them.
LEMMA SaveVersionStep ==
  ASSUME ChapterAssumption, StoreType, StreamType, OwnInv, NEW s \in Streams, SaveVersion(s)
  PROVE  StreamDone(s)
<1>1. stream[s] \in StreamRow /\ Owns(stream[s], s)
  BY DEF StreamType, OwnInv
<1>2. /\ stream[s].pc \in {"version", "version2"} /\ stream[s].pc \in Writing
      /\ UNCHANGED <<chapter, edits, ledger, rejected>>
  BY DEF SaveVersion, Writing
<1>3. stream[s].text \in Texts /\ stream[s].text.by = s
  BY <1>1, <1>2 DEF StreamRow, Owns
<1>4. Follows(AfterSave(s, stream[s].text), s) /\ ~AfterSave(s, stream[s].text).restored
  BY <1>2, <1>3, AfterSaveFacts
<1>5. Local(s, AfterSave(s, stream[s].text)) /\ (ReplaceActive(stream[s].text) \/ UNCHANGED versions)
  BY DEF SaveVersion
<1>6. queued' \in Nat
  BY DEF SaveVersion, Dispatch, StoreType
<1>7. versions' \in Seq(Version)
  BY <1>3, <1>5, Replaced DEF StoreType, ChapterAssumption, StoreAssumption
<1>8. StoreType'
  BY <1>2, <1>6, <1>7 DEF StoreType
<1> QED
  BY <1>2, <1>3, <1>4, <1>5, <1>8, SaveStep

\* A revision overwrites the chapter's row with a text of the stream.
LEMMA ReviseStep ==
  ASSUME ChapterAssumption, StoreType, StreamType, OwnInv, NEW s \in Streams, Revise(s)
  PROVE  StreamDone(s)
<1>1. stream[s] \in StreamRow /\ Owns(stream[s], s)
  BY DEF StreamType, OwnInv
<1>2. /\ stream[s].pc = "judge" /\ stream[s].pc \in Writing
      /\ UNCHANGED <<versions, edits, queued, ledger, rejected>>
  BY DEF Revise, At, Writing
<1>3. stream[s].text.by = s /\ ~stream[s].restored
  BY <1>1, <1>2 DEF Owns
<1>4. CASE Local(s, Abort(s)) /\ UNCHANGED chapter
  <2> DEFINE r == Abort(s)
  <2>1. /\ r \in StreamRow /\ r.pc \in Writing /\ r.text = stream[s].text /\ r.base = stream[s].base
        /\ r.restored = stream[s].restored /\ r.ingest = stream[s].ingest
    BY <1>1 DEF Abort, StreamRow, Steps, Writing
  <2>2. Local(s, r)
    BY <1>4
  <2>3. StoreType'
    BY <1>2, <1>4 DEF StoreType
  <2> HIDE DEF r
  <2>4. Follows(r, s) /\ ~r.restored
    BY <1>2, <1>3, <2>1, MoveStep
  <2> QED
    BY <1>2, <1>4, <2>2, <2>3, <2>4, SaveStep
<1>5. ASSUME NEW t \in Fresh(s), WriteChapter(s, t, StatusOf(t)),
             Local(s, [stream[s] EXCEPT !.text = t, !.k = @ + 1, !.round = @ + 1, !.revised = TRUE])
      PROVE  StreamDone(s)
  <2>1. t \in Texts /\ t.by = s
    BY FreshFacts
  <2> DEFINE r == [stream[s] EXCEPT !.text = t, !.k = @ + 1, !.round = @ + 1, !.revised = TRUE]
  <2>2. /\ r \in StreamRow /\ r.pc = stream[s].pc /\ r.text = t /\ r.base = stream[s].base
        /\ r.restored = stream[s].restored /\ r.ingest = stream[s].ingest
    <3>1. PICK n \in Nat, m \in Nat : n = stream[s].k + 1 /\ m = stream[s].round + 1
      BY <1>1 DEF StreamRow
    <3>2. r = [stream[s] EXCEPT !.text = t, !.k = n, !.round = m, !.revised = TRUE]
      BY <3>1
    <3> HIDE DEF r
    <3> QED
      BY <1>1, <2>1, <3>2 DEF StreamRow
  <2>3. Local(s, r)
    BY <1>5
  <2> HIDE DEF r
  <2>4. Follows(r, s) /\ ~r.restored
    BY <1>2, <1>3, <2>1, <2>2, MoveStep
  <2>5. /\ chapter' \in [text : Texts, status : {"draft", "needs_review", "completed"}]
        /\ chapter'.text.by = s /\ (chapter'.status = "completed" => chapter'.text.whole)
    BY <1>5, <2>1, WriteFacts
  <2>6. StoreType'
    BY <1>2, <2>5 DEF StoreType
  <2> QED
    BY <1>2, <2>3, <2>4, <2>5, <2>6, SaveStep
<1> QED
  BY <1>4, <1>5 DEF Revise

\* A stream that gave up puts the old text back; any other hands its text on.
LEMMA SettleStep ==
  ASSUME ChapterAssumption, StoreType, StreamType, OwnInv, NEW s \in Streams, Settle(s)
  PROVE  StreamDone(s)
<1>1. stream[s] \in StreamRow /\ Owns(stream[s], s)
  BY DEF StreamType, OwnInv
<1>2. /\ stream[s].pc = "settle" /\ UNCHANGED <<versions, edits, queued, ledger>>
  BY DEF Settle, At
<1>3. stream[s].text.by = s /\ stream[s].text \in Texts /\ ~stream[s].restored
  BY <1>1, <1>2 DEF Owns, Writing, StreamRow
<1>4. Ingested(s) \in Texts /\ (Ingested(s) = NoText \/ Ingested(s).by = s)
      /\ (GivenUp(s) => Ingested(s) = NoText)
  BY <1>3, TextFacts DEF Ingested
<1>5. ASSUME NEW ok \in BOOLEAN
      PROVE  LET r == [stream[s] EXCEPT !.pc = "ingest", !.ingest = Ingested(s), !.restored = ok]
             IN  /\ r \in StreamRow /\ Follows(r, s) /\ r.restored = ok /\ r.base = stream[s].base
                 /\ r.pc = "ingest" /\ r.ingest = Ingested(s)
  <2> DEFINE r == [stream[s] EXCEPT !.pc = "ingest", !.ingest = Ingested(s), !.restored = ok]
  <2>1. /\ r \in StreamRow /\ r.restored = ok /\ r.base = stream[s].base
        /\ r.pc = "ingest" /\ r.ingest = Ingested(s)
    BY <1>1, <1>4 DEF StreamRow, Steps
  <2> HIDE DEF r
  <2>2. Owns(r, s)
    BY <1>4, <2>1 DEF Owns, Writing
  <2>3. Follows(r, s)
    BY <1>2, <1>3, <2>1, <2>2 DEF Follows
  <2> QED
    BY <2>1, <2>3 DEF r
<1>6. CASE GivenUp(s)
  <2> DEFINE back == RollbackText(stream[s].base, stream[s].text, Wants(s, "keep"))
  <2>1. PICK ok \in BOOLEAN :
          /\ IF ok THEN WriteChapter(s, back, RollbackStatus(back)) ELSE UNCHANGED chapter
          /\ Local(s, [stream[s] EXCEPT !.pc = "ingest", !.ingest = Ingested(s), !.restored = ok])
    BY <1>6 DEF Settle
  <2>2. rejected' = rejected \cup {stream[s].text}
    BY <1>6 DEF Settle
  <2>3. /\ back \in Texts
        /\ IF stream[s].base # Blank THEN back = stream[s].base ELSE back.by \in {s, Nobody}
    BY <1>1, <1>3, TextFacts DEF RollbackText, StreamRow
  <2>4. RollbackStatus(back) \in {"draft", "completed"} /\ (RollbackStatus(back) = "completed" => back.whole)
    BY DEF RollbackStatus
  <2> HIDE DEF back
  <2>5. PICK r \in StreamRow : /\ r = [stream[s] EXCEPT !.pc = "ingest", !.ingest = Ingested(s), !.restored = ok]
                               /\ Follows(r, s) /\ r.restored = ok /\ r.base = stream[s].base
                               /\ r.pc = "ingest" /\ r.ingest = NoText
    BY <1>4, <1>5, <1>6
  <2>6. /\ stream' \in [Streams -> StreamRow] /\ stream'[s] = r
        /\ \A q \in Streams \ {s} : stream'[q] = stream[q]
    BY <2>1, <2>5, LocalStep
  <2>7. StreamEffect(s)
    BY <1>2, <2>5, <2>6 DEF StreamEffect, Follows
  <2>8. CASE ok
    <3>1. chapter' = [text |-> back, status |-> RollbackStatus(back)]
      BY <2>1, <2>8 DEF WriteChapter
    <3>2. ChapterEffect(s)
      BY <2>3, <2>4, <2>5, <2>6, <2>8, <3>1 DEF ChapterEffect
    <3>3. StoreType'
      BY <1>2, <2>3, <2>4, <3>1 DEF StoreType
    <3> QED
      BY <1>2, <1>3, <2>2, <2>5, <2>6, <2>7, <3>2, <3>3 DEF StreamDone, StreamType, LedgerEffect
  <2>9. CASE ~ok
    <3>1. chapter' = chapter
      BY <2>1, <2>9
    <3>2. ChapterEffect(s)
      BY <2>5, <2>6, <2>9, <3>1 DEF ChapterEffect
    <3>3. StoreType'
      BY <1>2, <3>1 DEF StoreType
    <3> QED
      BY <1>2, <1>3, <2>2, <2>5, <2>6, <2>7, <3>2, <3>3 DEF StreamDone, StreamType, LedgerEffect
  <2> QED
    BY <2>8, <2>9
<1>7. CASE ~GivenUp(s)
  <2>1. /\ Local(s, [stream[s] EXCEPT !.pc = "ingest", !.ingest = Ingested(s)])
        /\ UNCHANGED <<chapter, rejected>>
    BY <1>7 DEF Settle
  <2> DEFINE r == [stream[s] EXCEPT !.pc = "ingest", !.ingest = Ingested(s)]
  <2>2. /\ r \in StreamRow /\ r.restored = stream[s].restored /\ r.base = stream[s].base
        /\ r.pc = "ingest" /\ r.ingest = Ingested(s)
    BY <1>1, <1>4 DEF StreamRow, Steps
  <2>3. Local(s, r)
    BY <2>1
  <2> HIDE DEF r
  <2>4. Owns(r, s)
    BY <1>3, <1>4, <2>2 DEF Owns, Writing
  <2>5. Follows(r, s) /\ ~r.restored
    BY <1>2, <1>3, <2>2, <2>4 DEF Follows
  <2>6. StoreType'
    BY <1>2, <2>1 DEF StoreType
  <2> QED
    BY <1>2, <2>1, <2>3, <2>5, <2>6, SaveStep
<1> QED
  BY <1>6, <1>7

\* What a stream ends with may reach the ledger.
LEMMA IngestStep ==
  ASSUME ChapterAssumption, StoreType, StreamType, OwnInv, NEW s \in Streams, Ingest(s)
  PROVE  StreamDone(s)
<1>1. stream[s] \in StreamRow /\ Owns(stream[s], s)
  BY DEF StreamType, OwnInv
<1>2. /\ stream[s].pc = "ingest" /\ UNCHANGED <<chapter, versions, edits, queued, rejected>>
      /\ Local(s, Ended(s, "done"))
      /\ ledger' = ledger \/ ledger' = ledger \cup ({stream[s].ingest} \ {NoText})
  BY DEF Ingest, At
<1>3. PICK r \in StreamRow :
        /\ r = Ended(s, "done") /\ Owns(r, s) /\ r.pc = "done" /\ r.restored = stream[s].restored
        /\ r.base = IF stream[s].restored THEN stream[s].base ELSE Blank
  BY EndedFacts
<1>4. /\ stream' \in [Streams -> StreamRow] /\ stream'[s] = r
      /\ \A q \in Streams \ {s} : stream'[q] = stream[q]
  BY <1>2, <1>3, LocalStep
<1>5. Follows(r, s)
  BY <1>2, <1>3 DEF Follows
<1>6. StreamEffect(s) /\ ChapterEffect(s) /\ LedgerEffect(s)
  BY <1>2, <1>3, <1>4, <1>5 DEF StreamEffect, ChapterEffect, LedgerEffect, Follows
<1>7. StoreType'
  BY <1>1, <1>2 DEF StoreType, StreamRow
<1> QED
  BY <1>2, <1>4, <1>6, <1>7 DEF StreamDone, StreamType

\* Any step of a stream.
LEMMA StreamStep ==
  ASSUME ChapterAssumption, StoreType, StreamType, OwnInv, StreamNext
  PROVE  \E s \in Streams : StreamDone(s)
  BY ThinkStep, SaveChapterStep, SaveVersionStep, ReviseStep, SettleStep, IngestStep DEF StreamNext
-----------------------------------------------------------------------------
(* Tasks.                                                                   *)

VersionTexts == {versions[i].text : i \in DOMAIN versions}

\* A task's texts bear its name; what it reports is what it did.
TaskGood(r, t) ==
  /\ r.pc \in {"idle", "sent", "returned", "draft"} => r.k = 0
  /\ r.pc \in {"judge", "regenerate", "gate", "fact", "save", "finish"} => r.text.by = t
  /\ r.pc = "salvage" => r.text.by = t \/ (r.text = Blank /\ r.k = 0)
  /\ r.status \in {"completed", "failed"} => r.pc = "done"
  /\ r.status = "failed" => r.k = 0 \/ r.unsaved
TaskServed(r) ==
  /\ r.pc = "finish" /\ r.verdict = "pass" => r.text \in VersionTexts
  /\ r.status = "completed" /\ ~r.direct => r.verdict = "pass" /\ r.result \in VersionTexts
TaskInv == \A t \in Tasks : TaskGood(task[t], t) /\ TaskServed(task[t])

\* What a step of a task does, apart from types.
TaskEffect(t) ==
  /\ \A q \in Tasks \ {t} : task'[q] = task[q]
  /\ UNCHANGED edits /\ task[t].pc # "done"
  /\ TaskGood(task'[t], t) /\ TaskServed(task[t])'
  /\ UNCHANGED chapter \/ chapter'.text.by = t
  /\ ledger' \subseteq ledger \cup {x \in Texts : x.by = t}
  /\ \/ UNCHANGED <<versions, held>>
     \/ UNCHANGED held /\ \E x \in Texts : x.by = t /\ (ReplaceActive(x) \/ AddInactive(x))
     \/ /\ task'[t].pc = "done"
        /\ \E x \in Texts : x.by = t /\ AddInactive(x) /\ held' = held \cup {x}
TaskDone(t) == StoreType' /\ TaskType' /\ TaskEffect(t)

LEMMA SetTaskStep ==
  ASSUME TaskType, NEW t \in Tasks, NEW r \in TaskRow, SetTask(t, r)
  PROVE  /\ task' \in [Tasks -> TaskRow] /\ task'[t] = r
         /\ \A q \in Tasks \ {t} : task'[q] = task[q]
  BY DEF SetTask, TaskType

\* Steps that write nothing.
LEMMA QuietTaskStep ==
  ASSUME StoreType, TaskType, NEW t \in Tasks, NEW r \in TaskRow, SetTask(t, r),
         TaskGood(r, t), TaskServed(r), task[t].pc # "done", UNCHANGED <<store, held>>
  PROVE  TaskDone(t)
<1>1. /\ task' \in [Tasks -> TaskRow] /\ task'[t] = r
      /\ \A q \in Tasks \ {t} : task'[q] = task[q]
  BY SetTaskStep
<1>2. UNCHANGED <<chapter, versions, edits, queued, ledger, held>>
  BY DEF store
<1>3. TaskServed(task[t])'
  BY <1>1, <1>2 DEF TaskServed, VersionTexts
<1> QED
  BY <1>1, <1>2, <1>3 DEF TaskDone, TaskEffect, StoreType, TaskType

\* The texts of a task.
LEMMA TaskText ==
  ASSUME NEW t \in Tasks, NEW k \in Nat, NEW whole \in BOOLEAN
  PROVE  TextOf(t, k, whole) \in Texts /\ TextOf(t, k, whole).by = t
  BY DEF TextOf, Texts

\* The text a task is about to write.
LEMMA FreshOfFacts ==
  ASSUME ChapterAssumption, TaskType, NEW t \in Tasks, NEW x \in FreshOf(t)
  PROVE  x \in Texts /\ x.by = t /\ x.k = task[t].k + 1 /\ x.k \in Nat
<1>1. task[t] \in TaskRow
  BY DEF TaskType
<1>2. PICK n \in Nat : n = task[t].k + 1
  BY <1>1 DEF TaskRow
<1>3. x = TextOf(t, n, TRUE)
  BY <1>2 DEF FreshOf
<1> QED
  BY <1>2, <1>3 DEF TextOf, Texts

\* A step to a row that is neither at its end nor finished.
Onwards(r, t) ==
  /\ r.pc \notin {"finish", "done"} /\ r.status \notin {"completed", "failed"}
  /\ TaskGood(r, t)

\* The steps of a task before it saves.
LEMMA TaskThinks ==
  ASSUME ChapterAssumption, StoreType, TaskType, TaskInv, NEW t \in Tasks,
         \/ SendTask(t) \/ CommitTask(t) \/ ClaimTask(t) \/ DraftTask(t) \/ JudgeTask(t)
         \/ Regenerate(t) \/ FinishTask(t) \/ Raise(t) \/ FailTask(t) \/ CrashTask(t)
  PROVE  TaskDone(t)
<1>1. task[t] \in TaskRow /\ TaskGood(task[t], t) /\ TaskServed(task[t])
  BY DEF TaskType, TaskInv
<1>2. UNCHANGED <<store, held>>
  BY DEF SendTask, CommitTask, ClaimTask, DraftTask, JudgeTask, Regenerate, FinishTask, Raise,
         FailTask, CrashTask
<1>3. task[t].pc # "done"
  BY DEF SendTask, CommitTask, ClaimTask, DraftTask, JudgeTask, Regenerate, FinishTask, Raise,
         FailTask, CrashTask, In, Running
<1>4. task[t].status \notin {"completed", "failed"}
  BY <1>1, <1>3 DEF TaskGood
<1> SUFFICES \E r \in TaskRow : SetTask(t, r) /\ TaskGood(r, t) /\ TaskServed(r)
  BY <1>2, <1>3, QuietTaskStep
<1>5. CASE SendTask(t)
  <2> DEFINE r == [task[t] EXCEPT !.pc = "sent"]
  <2>1. r \in TaskRow /\ r.pc = "sent" /\ r.k = task[t].k /\ r.status = task[t].status
    BY <1>1 DEF TaskRow, TaskPc
  <2>2. SetTask(t, r) /\ task[t].pc = "idle"
    BY <1>5 DEF SendTask, In
  <2> HIDE DEF r
  <2>3. TaskGood(r, t) /\ TaskServed(r)
    BY <1>1, <1>4, <2>1, <2>2 DEF TaskGood, TaskServed
  <2> QED
    BY <2>1, <2>2, <2>3
<1>6. CASE CommitTask(t)
  <2> DEFINE r == [task[t] EXCEPT !.status = "pending"]
  <2>1. r \in TaskRow /\ r.pc = task[t].pc /\ r.k = task[t].k /\ r.status = "pending"
    BY <1>1 DEF TaskRow, TaskStatus
  <2>2. SetTask(t, r) /\ task[t].pc \in {"sent", "returned"}
    BY <1>6 DEF CommitTask
  <2> HIDE DEF r
  <2>3. TaskGood(r, t) /\ TaskServed(r)
    BY <1>1, <1>4, <2>1, <2>2 DEF TaskGood, TaskServed
  <2> QED
    BY <2>1, <2>2, <2>3
<1>7. CASE ClaimTask(t)
  <2> DEFINE r == IF task[t].status = "none" THEN [task[t] EXCEPT !.pc = "returned"]
                  ELSE [task[t] EXCEPT !.pc = "draft", !.status = "running"]
  <2>1. /\ r \in TaskRow /\ r.pc \in {"returned", "draft"} /\ r.k = task[t].k
        /\ r.status \in {"none", "running"}
    BY <1>1 DEF TaskRow, TaskPc, TaskStatus, Running
  <2>2. SetTask(t, r) /\ task[t].pc = "sent"
    BY <1>7 DEF ClaimTask, In
  <2> HIDE DEF r
  <2>3. TaskGood(r, t) /\ TaskServed(r)
    BY <1>1, <1>4, <2>1, <2>2 DEF TaskGood, TaskServed
  <2> QED
    BY <2>1, <2>2, <2>3
<1>8. CASE DraftTask(t)
  <2>1. CASE SetTask(t, [task[t] EXCEPT !.pc = "done", !.status = "needs_repair"])
    <3> DEFINE r == [task[t] EXCEPT !.pc = "done", !.status = "needs_repair"]
    <3>1. r \in TaskRow /\ r.pc = "done" /\ r.status = "needs_repair"
      BY <1>1 DEF TaskRow, TaskPc, TaskStatus
    <3>2. SetTask(t, r)
      BY <2>1
    <3> HIDE DEF r
    <3> QED
      BY <3>1, <3>2 DEF TaskGood, TaskServed
  <2>2. ASSUME NEW x \in FreshOf(t), SetTask(t, [task[t] EXCEPT !.pc = "judge", !.text = x, !.k = @ + 1])
        PROVE  \E r \in TaskRow : SetTask(t, r) /\ TaskGood(r, t) /\ TaskServed(r)
    <3>1. x \in Texts /\ x.by = t
      BY FreshOfFacts
    <3>2. PICK n \in Nat : n = task[t].k + 1
      BY <1>1 DEF TaskRow
    <3> DEFINE r == [task[t] EXCEPT !.pc = "judge", !.text = x, !.k = n]
    <3>3. r \in TaskRow /\ r.pc = "judge" /\ r.text = x /\ r.status = task[t].status
      BY <1>1, <3>1 DEF TaskRow, TaskPc, Running
    <3>4. SetTask(t, r)
      BY <2>2, <3>2
    <3> HIDE DEF r
    <3> QED
      BY <1>4, <3>1, <3>3, <3>4 DEF TaskGood, TaskServed
  <2> QED
    BY <1>8, <2>1, <2>2 DEF DraftTask
<1>9. CASE JudgeTask(t)
  <2>1. PICK v \in {"none", "pass", "fail"}, step \in {"gate", "regenerate"} :
          SetTask(t, [task[t] EXCEPT !.pc = step, !.verdict = v,
                        !.status = IF step = "gate" THEN "evaluating" ELSE "regenerating"])
    BY <1>9 DEF JudgeTask
  <2> DEFINE r == [task[t] EXCEPT !.pc = step, !.verdict = v,
                        !.status = IF step = "gate" THEN "evaluating" ELSE "regenerating"]
  <2>2. r \in TaskRow /\ r.pc = step /\ r.text = task[t].text /\ r.status \in {"evaluating", "regenerating"}
    BY <1>1 DEF TaskRow, TaskPc, Running, TaskStatus
  <2>3. SetTask(t, r) /\ task[t].text.by = t
    BY <1>1, <1>9, <2>1 DEF JudgeTask, In, TaskGood
  <2> HIDE DEF r
  <2> QED
    BY <2>2, <2>3 DEF TaskGood, TaskServed
<1>10. CASE Regenerate(t)
  <2>1. task[t].text.by = t
    BY <1>1, <1>10 DEF Regenerate, In, TaskGood
  <2>2. ASSUME NEW x \in FreshOf(t),
               SetTask(t, [task[t] EXCEPT !.pc = "judge", !.text = x, !.k = @ + 1, !.round = @ + 1])
        PROVE  \E r \in TaskRow : SetTask(t, r) /\ TaskGood(r, t) /\ TaskServed(r)
    <3>1. x \in Texts /\ x.by = t
      BY FreshOfFacts
    <3>2. PICK n \in Nat : n = task[t].k + 1
      BY <1>1 DEF TaskRow
    <3>5. PICK m \in Nat : m = task[t].round + 1
      BY <1>1 DEF TaskRow
    <3> DEFINE r == [task[t] EXCEPT !.pc = "judge", !.text = x, !.k = n, !.round = m]
    <3>3. r \in TaskRow /\ r.pc = "judge" /\ r.text = x /\ r.status = task[t].status
      BY <1>1, <3>1 DEF TaskRow, TaskPc, Running
    <3>4. SetTask(t, r)
      BY <2>2, <3>2, <3>5
    <3> HIDE DEF r
    <3> QED
      BY <1>4, <3>1, <3>3, <3>4 DEF TaskGood, TaskServed
  <2>3. ASSUME NEW r \in {[task[t] EXCEPT !.pc = "gate", !.status = "needs_repair"],
                          [task[t] EXCEPT !.pc = "gate"]}, SetTask(t, r)
        PROVE  r \in TaskRow /\ TaskGood(r, t) /\ TaskServed(r)
    <3>1. r \in TaskRow /\ r.pc = "gate" /\ r.text = task[t].text
          /\ r.status \in {"needs_repair", task[t].status}
      <4>1. CASE r = [task[t] EXCEPT !.pc = "gate", !.status = "needs_repair"]
        BY <1>1, <4>1 DEF TaskRow, TaskPc, Running, TaskStatus
      <4>2. CASE r = [task[t] EXCEPT !.pc = "gate"]
        BY <1>1, <4>2 DEF TaskRow, TaskPc, Running
      <4> QED
        BY <2>3, <4>1, <4>2
    <3> QED
      BY <1>4, <2>1, <3>1 DEF TaskGood, TaskServed
  <2> QED
    BY <1>10, <2>2, <2>3 DEF Regenerate
<1>11. CASE FinishTask(t)
  <2> DEFINE r == [task[t] EXCEPT !.pc = "done", !.result = task[t].text, !.status = FinalStatus(t)]
  <2>1. /\ r \in TaskRow /\ r.pc = "done" /\ r.result = task[t].text /\ r.verdict = task[t].verdict
        /\ r.status = FinalStatus(t) /\ r.status \in {"completed", "needs_review"}
    BY <1>1 DEF TaskRow, TaskPc, TaskStatus, FinalStatus
  <2>2. SetTask(t, r) /\ task[t].pc = "finish"
    BY <1>11 DEF FinishTask, In
  <2> HIDE DEF r
  <2>3. TaskServed(r)
    BY <1>1, <2>1, <2>2 DEF TaskServed, FinalStatus, Passed
  <2> QED
    BY <2>1, <2>2, <2>3 DEF TaskGood
<1>12. CASE Raise(t)
  <2>1. PICK x \in Salvageable(t) : SetTask(t, [task[t] EXCEPT !.pc = "salvage", !.text = x])
    BY <1>12 DEF Raise
  <2>2. task[t].pc \in {"draft", "judge", "regenerate", "gate", "fact", "save", "finish"}
    BY <1>12 DEF Raise, Running
  <2>3. x \in Texts /\ (x.by = t \/ (x = Blank /\ task[t].k = 0))
    <3>1. CASE task[t].pc = "draft"
      <4>1. PICK n \in Nat : n = task[t].k + 1
        BY <1>1 DEF TaskRow
      <4>2. x \in {Blank, TextOf(t, n, FALSE)}
        BY <3>1, <4>1 DEF Salvageable, In
      <4>3. task[t].k = 0
        BY <1>1, <3>1 DEF TaskGood
      <4> QED
        BY <4>2, <4>3, TaskText, TextFacts
    <3>2. CASE task[t].pc \in {"judge", "regenerate"}
      <4>1. x = TextOf(t, 1, TRUE)
        BY <3>2 DEF Salvageable, In
      <4> QED
        BY <4>1, TaskText
    <3>3. CASE task[t].pc \in {"gate", "fact", "save", "finish"}
      BY <1>1, <3>3 DEF Salvageable, In, TaskGood, TaskRow
    <3> QED
      BY <2>2, <3>1, <3>2, <3>3
  <2> DEFINE r == [task[t] EXCEPT !.pc = "salvage", !.text = x]
  <2>4. r \in TaskRow /\ r.pc = "salvage" /\ r.text = x /\ r.k = task[t].k /\ r.status = task[t].status
    BY <1>1, <2>3 DEF TaskRow, TaskPc, Running
  <2>5. SetTask(t, r)
    BY <2>1
  <2> HIDE DEF r
  <2> QED
    BY <1>4, <2>3, <2>4, <2>5 DEF TaskGood, TaskServed
<1>13. CASE FailTask(t)
  <2>1. PICK s \in {"failed", task[t].status} :
          SetTask(t, [task[t] EXCEPT !.pc = "done", !.status = s, !.unsaved = task[t].text # Blank])
    BY <1>13 DEF FailTask
  <2>2. PICK b \in BOOLEAN : b = (task[t].text # Blank)
    OBVIOUS
  <2> DEFINE r == [task[t] EXCEPT !.pc = "done", !.status = s, !.unsaved = b]
  <2>3. r \in TaskRow /\ r.pc = "done" /\ r.k = task[t].k /\ r.status = s /\ r.unsaved = b
    BY <1>1, <2>1 DEF TaskRow, TaskPc, TaskStatus
  <2>4. SetTask(t, r)
    BY <2>1, <2>2
  <2> HIDE DEF r
  <2>5. task[t].k = 0 \/ b
    <3>1. task[t].text.by = t \/ task[t].k = 0
      BY <1>1, <1>13 DEF FailTask, In, TaskGood
    <3>2. Blank.by # t
      BY TextFacts DEF ChapterAssumption, TaskAssumption
    <3> QED
      BY <2>2, <3>1, <3>2
  <2> QED
    BY <1>4, <2>1, <2>3, <2>4, <2>5 DEF TaskGood, TaskServed
<1>14. CASE CrashTask(t)
  <2> DEFINE r == [NoTask EXCEPT !.pc = "dead", !.status = task[t].status]
  <2>1. r \in TaskRow /\ r.pc = "dead" /\ r.status = task[t].status
    BY <1>1, TextFacts DEF NoTask, TaskRow, TaskPc
  <2>2. SetTask(t, r)
    BY <1>14 DEF CrashTask
  <2> HIDE DEF r
  <2> QED
    BY <1>4, <2>1, <2>2 DEF TaskGood, TaskServed
<1> QED
  BY <1>5, <1>6, <1>7, <1>8, <1>9, <1>10, <1>11, <1>12, <1>13, <1>14

\* What the chapter's row is after a write of a task.
LEMMA TaskWrites ==
  ASSUME StoreType, NEW t, NEW x \in Texts,
         NEW status \in {"needs_review", "completed"}, WriteChapter(t, x, status)
  PROVE  chapter' \in [text : Texts, status : {"draft", "needs_review", "completed"}] /\ chapter'.text = x
  BY DEF WriteChapter

\* What a gate holds.
LEMMA HoldStep ==
  ASSUME ChapterAssumption, StoreType, TaskType, TaskInv, NEW t \in Tasks, task[t].pc # "done",
         NEW x \in Texts, x.by = t, Hold(t, x)
  PROVE  TaskDone(t)
<1>1. task[t] \in TaskRow
  BY DEF TaskType
<1> DEFINE r == [task[t] EXCEPT !.pc = "done", !.status = "needs_review", !.result = x]
<1>2. r \in TaskRow /\ r.pc = "done" /\ r.status = "needs_review"
  BY <1>1 DEF TaskRow, TaskPc, TaskStatus
<1>3. SetTask(t, r)
  BY DEF Hold
<1> HIDE DEF r
<1>4. /\ task' \in [Tasks -> TaskRow] /\ task'[t] = r
      /\ \A q \in Tasks \ {t} : task'[q] = task[q]
  BY <1>2, <1>3, SetTaskStep
<1>5. TaskGood(task'[t], t) /\ TaskServed(task[t])'
  BY <1>2, <1>4 DEF TaskGood, TaskServed
<1>6. /\ chapter' \in [text : Texts, status : {"draft", "needs_review", "completed"}]
      /\ chapter'.text = x
  BY TaskWrites DEF Hold
<1>7. /\ UNCHANGED <<edits, queued, ledger>> /\ AddInactive(x) /\ held' = held \cup {x}
  BY DEF Hold
<1>8. versions' \in Seq(Version)
  BY <1>7, Added DEF ChapterAssumption, StoreAssumption
<1>9. StoreType' /\ TaskType'
  BY <1>4, <1>6, <1>7, <1>8 DEF StoreType, TaskType
<1> QED
  BY <1>2, <1>4, <1>5, <1>6, <1>7, <1>9 DEF TaskDone, TaskEffect

\* The gates: the text goes on, perhaps rewritten, or it is held.
LEMMA GateStep ==
  ASSUME ChapterAssumption, StoreType, TaskType, TaskInv, NEW t \in Tasks,
         QualityGate(t) \/ FactGate(t)
  PROVE  TaskDone(t)
<1>1. task[t] \in TaskRow /\ TaskGood(task[t], t)
  BY DEF TaskType, TaskInv
<1>2. task[t].pc \in {"gate", "fact"} /\ task[t].text.by = t
  BY <1>1 DEF QualityGate, FactGate, In, TaskGood
<1>3. task[t].text \in Texts /\ task[t].text.k \in Nat /\ task[t].status \notin {"completed", "failed"}
  BY <1>1, <1>2 DEF TaskRow, Texts, TaskGood
<1>4. ASSUME NEW x \in FreshOf(t) \cup {task[t].text}
      PROVE  x \in Texts /\ x.by = t /\ x.k \in Nat
  BY <1>2, <1>3, FreshOfFacts
<1>5. ASSUME NEW x \in FreshOf(t) \cup {task[t].text}, Hold(t, x)
      PROVE  TaskDone(t)
  BY <1>2, <1>4, <1>5, HoldStep
<1>6. ASSUME NEW x \in FreshOf(t) \cup {task[t].text},
             SetTask(t, [task[t] EXCEPT !.pc = "fact", !.text = x, !.k = x.k]),
             UNCHANGED <<store, held>>
      PROVE  TaskDone(t)
  <2> DEFINE r == [task[t] EXCEPT !.pc = "fact", !.text = x, !.k = x.k]
  <2>1. r \in TaskRow /\ r.pc = "fact" /\ r.text = x /\ r.status = task[t].status
    BY <1>1, <1>4 DEF TaskRow, TaskPc, Running
  <2>2. SetTask(t, r)
    BY <1>6
  <2> HIDE DEF r
  <2>3. TaskGood(r, t) /\ TaskServed(r)
    BY <1>3, <1>4, <2>1 DEF TaskGood, TaskServed
  <2> QED
    BY <1>2, <1>6, <2>1, <2>2, <2>3, QuietTaskStep
<1>7. ASSUME SetTask(t, [task[t] EXCEPT !.pc = "save"]), UNCHANGED <<store, held>>
      PROVE  TaskDone(t)
  <2> DEFINE r == [task[t] EXCEPT !.pc = "save"]
  <2>1. r \in TaskRow /\ r.pc = "save" /\ r.text = task[t].text /\ r.status = task[t].status
    BY <1>1 DEF TaskRow, TaskPc, Running
  <2>2. SetTask(t, r)
    BY <1>7
  <2> HIDE DEF r
  <2>3. TaskGood(r, t) /\ TaskServed(r)
    BY <1>2, <1>3, <2>1 DEF TaskGood, TaskServed
  <2> QED
    BY <1>2, <1>7, <2>1, <2>2, <2>3, QuietTaskStep
<1> QED
  BY <1>5, <1>6, <1>7 DEF QualityGate, FactGate

\* The chapter is written for review, and no version.
LEMMA ReviewStep ==
  ASSUME ChapterAssumption, StoreType, TaskType, TaskInv, NEW t \in Tasks,
         PersistDirect(t) \/ Salvage(t)
  PROVE  TaskDone(t)
<1>1. task[t] \in TaskRow /\ TaskGood(task[t], t)
  BY DEF TaskType, TaskInv
<1>2. task[t].pc \in {"draft", "salvage"} /\ UNCHANGED <<versions, edits, queued, ledger, held>>
  BY DEF PersistDirect, Salvage, In
<1>3. PICK x \in Texts, r \in TaskRow :
        /\ x.by = t /\ SetTask(t, r) /\ WriteChapter(t, x, "needs_review") /\ r.pc = "done"
        /\ r.status = "needs_review" \/ (r.status = "completed" /\ r.direct)
  <2>1. CASE PersistDirect(t)
    <3>1. PICK x \in FreshOf(t) :
            /\ WriteChapter(t, x, "needs_review")
            /\ SetTask(t, [task[t] EXCEPT !.pc = "done", !.status = "completed", !.text = x,
                                           !.k = @ + 1, !.result = x, !.direct = TRUE])
      BY <2>1 DEF PersistDirect
    <3>2. x \in Texts /\ x.by = t
      BY FreshOfFacts
    <3>3. PICK n \in Nat : n = task[t].k + 1
      BY <1>1 DEF TaskRow
    <3> DEFINE r == [task[t] EXCEPT !.pc = "done", !.status = "completed", !.text = x,
                                    !.k = n, !.result = x, !.direct = TRUE]
    <3>4. r \in TaskRow /\ r.pc = "done" /\ r.status = "completed" /\ r.direct
      BY <1>1, <3>2 DEF TaskRow, TaskPc, TaskStatus
    <3>5. SetTask(t, r)
      BY <3>1, <3>3
    <3> HIDE DEF r
    <3> QED
      BY <3>1, <3>2, <3>4, <3>5
  <2>2. CASE Salvage(t)
    <3> DEFINE r == [task[t] EXCEPT !.pc = "done", !.status = "needs_review", !.result = task[t].text]
    <3>1. r \in TaskRow /\ r.pc = "done" /\ r.status = "needs_review"
      BY <1>1 DEF TaskRow, TaskPc, TaskStatus
    <3>2. SetTask(t, r) /\ WriteChapter(t, task[t].text, "needs_review")
      BY <2>2 DEF Salvage
    <3> HIDE DEF r
    <3>3. task[t].text \in Texts /\ task[t].text.by = t
      BY <1>1, <2>2 DEF Salvage, In, TaskGood, TaskRow
    <3> QED
      BY <3>1, <3>2, <3>3
  <2> QED
    BY <2>1, <2>2
<1>4. /\ task' \in [Tasks -> TaskRow] /\ task'[t] = r
      /\ \A q \in Tasks \ {t} : task'[q] = task[q]
  BY <1>3, SetTaskStep
<1>5. /\ chapter' \in [text : Texts, status : {"draft", "needs_review", "completed"}]
      /\ chapter'.text = x
  BY <1>3, TaskWrites
<1>6. TaskGood(task'[t], t) /\ TaskServed(task[t])'
  <2>1. r.status # "failed"
    BY <1>3
  <2> QED
    BY <1>3, <1>4, <2>1 DEF TaskGood, TaskServed
<1>7. StoreType' /\ TaskType'
  BY <1>2, <1>4, <1>5 DEF StoreType, TaskType
<1> QED
  BY <1>2, <1>3, <1>4, <1>5, <1>6, <1>7 DEF TaskDone, TaskEffect

\* The final save writes a version of its text.
LEMMA FinalSaveStep ==
  ASSUME ChapterAssumption, StoreType, TaskType, TaskInv, NEW t \in Tasks, FinalSave(t)
  PROVE  TaskDone(t)
<1>1. task[t] \in TaskRow /\ TaskGood(task[t], t)
  BY DEF TaskType, TaskInv
<1>2. task[t].pc = "save" /\ UNCHANGED <<edits, queued, held>>
  BY DEF FinalSave, In
<1>3. task[t].text \in Texts /\ task[t].text.by = t /\ task[t].status \notin {"completed", "failed"}
  BY <1>1, <1>2 DEF TaskRow, TaskGood
<1> DEFINE r == [task[t] EXCEPT !.pc = "finish"]
<1>4. r \in TaskRow /\ r.pc = "finish" /\ r.text = task[t].text /\ r.status = task[t].status
  BY <1>1 DEF TaskRow, TaskPc, Running
<1>5. SetTask(t, r)
  BY DEF FinalSave
<1> HIDE DEF r
<1>6. /\ task' \in [Tasks -> TaskRow] /\ task'[t] = r
      /\ \A q \in Tasks \ {t} : task'[q] = task[q]
  BY <1>4, <1>5, SetTaskStep
<1>7. FinalStatus(t) \in {"needs_review", "completed"}
  BY DEF FinalStatus
<1>8. /\ chapter' \in [text : Texts, status : {"draft", "needs_review", "completed"}]
      /\ chapter'.text = task[t].text
  BY <1>3, <1>7, TaskWrites DEF FinalSave
<1>9. ledger' \subseteq ledger \cup {task[t].text}
  BY DEF FinalSave
<1>10. ReplaceActive(task[t].text) \/ AddInactive(task[t].text)
  BY DEF FinalSave
<1>11. /\ versions' \in Seq(Version) /\ Len(versions') = Len(versions) + 1
       /\ versions'[Len(versions) + 1].text = task[t].text
  BY <1>3, <1>10, Replaced, Added DEF ChapterAssumption, StoreAssumption
<1>12. task[t].text \in VersionTexts'
  BY <1>11 DEF VersionTexts, StoreType
<1>13. TaskGood(task'[t], t) /\ TaskServed(task[t])'
  BY <1>3, <1>4, <1>6, <1>12 DEF TaskGood, TaskServed
<1>14. StoreType' /\ TaskType'
  BY <1>2, <1>3, <1>6, <1>8, <1>9, <1>11 DEF StoreType, TaskType
<1> QED
  BY <1>2, <1>3, <1>6, <1>8, <1>9, <1>10, <1>13, <1>14 DEF TaskDone, TaskEffect

\* Any step of a task.
LEMMA TaskStep ==
  ASSUME ChapterAssumption, StoreType, TaskType, TaskInv, TaskNext
  PROVE  \E t \in Tasks : TaskDone(t)
  BY TaskThinks, GateStep, ReviewStep, FinalSaveStep DEF TaskNext

-----------------------------------------------------------------------------
(* Extractions.                                                             *)

\* A worker leaves everything of the chapter as it is.
LEMMA ExtractionStep ==
  ASSUME ChapterAssumption, StoreType, ExtractionType, ExtractionNext
  PROVE  StoreType' /\ ExtractionType' /\ UNCHANGED <<chapter, versions, edits, ledger>>
<1>1. PICK w \in Extractors :
        Take(w) \/ Claim(w) \/ ReadChapter(w) \/ Extract(w) \/ MarkCompleted(w) \/ FailExtraction(w)
  BY DEF ExtractionNext
<1>2. UNCHANGED <<chapter, versions, edits, ledger>>
  BY <1>1 DEF Take, Claim, ReadChapter, Extract, MarkCompleted, FailExtraction, store
<1>3. queued' \in Nat
  BY <1>1 DEF Take, Claim, ReadChapter, Extract, MarkCompleted, FailExtraction, store, StoreType
<1>4. extractor[w] \in Job /\ NoJob \in Job /\ chapter.text \in Texts
  BY TextFacts DEF ExtractionType, NoJob, Job, StoreType
<1>5. PICK r \in Job : SetW(w, r)
  <2>1. CASE Take(w)
    BY <1>4, <2>1 DEF Take, Job, NoJob
  <2>2. CASE Claim(w)
    BY <1>4, <2>2 DEF Claim, Job
  <2>3. CASE ReadChapter(w)
    BY <1>4, <2>3 DEF ReadChapter, Job
  <2>4. CASE Extract(w)
    BY <1>4, <2>4 DEF Extract, Job
  <2>5. CASE MarkCompleted(w)
    BY <1>4, <2>5 DEF MarkCompleted
  <2>6. CASE FailExtraction(w)
    <3>1. PICK n \in Nat : n = extractor[w].tries + 1
      BY <1>4 DEF Job
    <3>2. [NoJob EXCEPT !.pc = "claim", !.tries = n] \in Job
      BY <1>4 DEF Job
    <3> QED
      BY <1>4, <2>6, <3>1, <3>2 DEF FailExtraction
  <2> QED
    BY <1>1, <2>1, <2>2, <2>3, <2>4, <2>5, <2>6
<1>6. extractor' \in [Extractors -> Job]
  BY <1>5 DEF SetW, ExtractionType
<1>7. marker' \in {"none", "new", "failed", "completed"} /\ graph' \in Texts /\ missed' \in BOOLEAN
  <2>1. extractor[w].text \in Texts
    BY <1>4 DEF Job
  <2> QED
    BY <1>1, <2>1 DEF Take, Claim, ReadChapter, Extract, MarkCompleted, FailExtraction, ExtractionType
<1> QED
  BY <1>2, <1>3, <1>6, <1>7 DEF StoreType, ExtractionType

-----------------------------------------------------------------------------
(* The inductive invariant.                                                 *)

\* What a gate has held belongs to a task that is over.
HeldInv == \A x \in held : x.by \in Tasks /\ task[x.by].pc = "done"

\* A stream's texts reach the ledger at its very end, and what it gave up never does.
LedgerInv ==
  /\ \A x \in ledger : x.by \in Streams => stream[x.by].pc \in {"done", "gone"}
  /\ \A x \in rejected :
       /\ x.by \in Streams
       /\ \/ stream[x.by].pc \in {"done", "gone"}
          \/ stream[x.by].pc = "ingest" /\ stream[x.by].ingest = NoText
  /\ ledger \cap rejected = {}

Core == TypeInv /\ EditInv /\ OwnInv /\ TaskInv /\ HeldInv /\ LedgerInv

LEMMA CoreInit ==
  ASSUME ChapterAssumption, ChapterInit
  PROVE  Core
<1> USE DEF ChapterInit, StoreInit, StreamInit, TaskInit, ExtractionInit
<1>1. StoreType /\ \A u \in Users : edits[u] = NoEdit
  <2>1. NoEdit \in Edit
    BY TextFacts DEF NoEdit, Edit, EditPc, EditOp, ChapterAssumption, StoreAssumption
  <2>2. chapter \in [text : Texts, status : {"draft", "needs_review", "completed"}]
    BY TextFacts
  <2>3. versions \in Seq(Version)
    <3>1. \A b \in BOOLEAN : VersionRow(Prior, Main, b) \in Version
      BY TextFacts DEF VersionRow, Version, ChapterAssumption, StoreAssumption
    <3>2. CASE versions = <<>>
      BY <3>2
    <3>3. CASE versions = <<VersionRow(Prior, Main, chapter.status = "completed")>>
      <4> DEFINE v == VersionRow(Prior, Main, chapter.status = "completed")
      <4>1. (chapter.status = "completed") \in BOOLEAN
        OBVIOUS
      <4>2. v \in Version
        BY <3>1, <4>1, Zenon
      <4> HIDE DEF v
      <4>3. versions = <<v>>
        BY <3>3, Zenon DEF v
      <4> QED
        BY <4>2, <4>3
    <3> QED
      BY <3>2, <3>3
  <2> QED
    BY <2>1, <2>2, <2>3 DEF StoreType
<1>2. StreamType /\ \A s \in Streams : stream[s] = NoStream
  BY TextFacts DEF StreamType, NoStream, StreamRow, Steps
<1>3. TaskType /\ \A t \in Tasks : task[t] = NoTask
  BY TextFacts DEF TaskType, NoTask, TaskRow, TaskPc, TaskStatus
<1>4. ExtractionType
  BY <1>1, TextFacts DEF ExtractionType, NoJob, Job, StoreType
<1>5. EditInv
  <2>1. /\ NoEdit.hit = {} /\ NoEdit.target = 0 /\ NoEdit.op = "none" /\ NoEdit.pc = "idle"
        /\ Len(versions) \in Nat
    BY <1>1 DEF NoEdit, StoreType
  <2>2. 0 \in 0 .. Len(versions)
    BY <2>1
  <2> QED
    BY <1>1, <2>1, <2>2 DEF EditInv
<1>6. OwnInv
  BY <1>2, TextFacts DEF OwnInv, Owns, NoStream, Writing
<1>7. TaskInv
  BY <1>3 DEF TaskInv, TaskGood, TaskServed, NoTask
<1>8. HeldInv /\ LedgerInv
  BY DEF HeldInv, LedgerInv
<1> QED
  BY <1>1, <1>2, <1>3, <1>4, <1>5, <1>6, <1>7, <1>8 DEF Core, TypeInv

\* The versions' texts are never lost or changed.
VersionsGrow ==
  /\ versions' \in Seq(Version) /\ Len(versions') >= Len(versions)
  /\ \A i \in DOMAIN versions : versions'[i].text = versions[i].text

\* The rows of tasks keep what they say of versions.
LEMMA ServedKept ==
  ASSUME StoreType, VersionsGrow, UNCHANGED task, NEW t \in Tasks, TaskServed(task[t])
  PROVE  TaskServed(task[t])'
<1>1. VersionTexts \subseteq VersionTexts'
  BY DEF VersionTexts, VersionsGrow, StoreType
<1> QED
  BY <1>1 DEF TaskServed

\* A generator's version, or one that is held, is added behind the others.
LEMMA AddedBehind ==
  ASSUME ChapterAssumption, StoreType, NEW x \in Texts, ReplaceActive(x) \/ AddInactive(x)
  PROVE  VersionsGrow /\ Len(versions') = Len(versions) + 1 /\ versions'[Len(versions) + 1].text = x
  BY Replaced, Added DEF VersionsGrow, ChapterAssumption, StoreAssumption, StoreType

\* A step of a user keeps the invariant.
LEMMA CoreUser ==
  ASSUME ChapterAssumption, Core, UserNext, UNCHANGED <<cast, strm, tsk, extr>>
  PROVE  Core' /\ VersionsGrow
<1> USE DEF Core, TypeInv, strm, tsk, extr
<1>1. PICK u \in Users : UserEffect(u)
  BY UserStep
<1>2. StoreType' /\ EditInv' /\ UNCHANGED ledger
  BY <1>1, UserStep DEF UserEffect
<1>3. VersionsGrow
  BY <1>1, <1>2 DEF UserEffect, VersionsGrow, StoreType
<1>4. StreamType' /\ TaskType' /\ ExtractionType' /\ OwnInv' /\ HeldInv' /\ LedgerInv'
  BY <1>2 DEF StreamType, TaskType, ExtractionType, OwnInv, HeldInv, LedgerInv
<1>5. TaskInv'
  BY <1>3, ServedKept DEF TaskInv
<1> QED
  BY <1>2, <1>3, <1>4, <1>5

\* A step of a stream keeps the invariant.
LEMMA CoreStream ==
  ASSUME ChapterAssumption, Core, StreamNext, UNCHANGED <<cast, tsk, extr>>
  PROVE  Core' /\ VersionsGrow
<1> USE DEF Core, TypeInv, tsk, extr
<1>1. PICK s \in Streams : StreamDone(s)
  BY StreamStep
<1>2. StoreType' /\ StreamType' /\ StreamEffect(s) /\ LedgerEffect(s)
  BY <1>1 DEF StreamDone
<1>3. VersionsGrow
  <2>1. CASE UNCHANGED versions
    BY <2>1 DEF VersionsGrow, StoreType
  <2>2. CASE \E x \in Texts : x.by = s /\ ReplaceActive(x)
    BY <2>2, AddedBehind
  <2> QED
    BY <1>2, <2>1, <2>2 DEF StreamEffect
<1>4. EditInv'
  BY <1>2, <1>3, EditsKept DEF StreamEffect, VersionsGrow, StoreType
<1>5. TaskType' /\ ExtractionType' /\ HeldInv'
  BY DEF TaskType, ExtractionType, HeldInv
<1>6. TaskInv'
  BY <1>3, ServedKept DEF TaskInv
<1>7. OwnInv'
  BY <1>2 DEF OwnInv, StreamEffect
<1>8. LedgerInv'
  <2>1. /\ Owns(stream[s], s) /\ stream[s].pc \notin {"done", "gone"}
        /\ stream[s].pc = "ingest" => stream'[s].pc \in {"done", "gone"}
        /\ \A r \in Streams \ {s} : stream'[r] = stream[r]
    BY <1>2 DEF StreamEffect, OwnInv
  <2>2. CASE UNCHANGED <<ledger, rejected>>
    BY <2>1, <2>2 DEF LedgerInv
  <2>3. CASE /\ UNCHANGED rejected /\ stream[s].pc = "ingest" /\ stream'[s].pc = "done"
             /\ ledger' = ledger \cup ({stream[s].ingest} \ {NoText})
    <3>1. \A x \in ledger' \ ledger : x.by = s /\ x \notin rejected
      BY <2>1, <2>3 DEF LedgerInv, Owns
    <3> QED
      BY <2>1, <2>3, <3>1 DEF LedgerInv
  <2>4. CASE /\ UNCHANGED ledger /\ stream[s].pc = "settle"
             /\ stream'[s].pc = "ingest" /\ stream'[s].ingest = NoText
             /\ rejected' = rejected \cup {stream[s].text}
    <3>1. stream[s].text.by = s
      BY <2>1, <2>4 DEF Owns, Writing
    <3>2. stream[s].text \notin ledger
      BY <2>1, <3>1 DEF LedgerInv
    <3> QED
      BY <2>1, <2>4, <3>1, <3>2 DEF LedgerInv
  <2> QED
    BY <1>2, <2>2, <2>3, <2>4 DEF LedgerEffect
<1> QED
  BY <1>2, <1>3, <1>4, <1>5, <1>6, <1>7, <1>8

\* A step of a task keeps the invariant.
LEMMA CoreTask ==
  ASSUME ChapterAssumption, Core, TaskNext, UNCHANGED <<cast, strm, extr>>
  PROVE  Core' /\ VersionsGrow
<1> USE DEF Core, TypeInv, strm, extr
<1>1. PICK t \in Tasks : TaskDone(t)
  BY TaskStep
<1>2. StoreType' /\ TaskType' /\ TaskEffect(t)
  BY <1>1 DEF TaskDone
<1>3. VersionsGrow
  <2>1. CASE UNCHANGED versions
    BY <2>1 DEF VersionsGrow, StoreType
  <2>2. CASE \E x \in Texts : ReplaceActive(x) \/ AddInactive(x)
    BY <2>2, AddedBehind
  <2> QED
    BY <1>2, <2>1, <2>2 DEF TaskEffect
<1>4. EditInv'
  BY <1>2, <1>3, EditsKept DEF TaskEffect, VersionsGrow, StoreType
<1>5. StreamType' /\ ExtractionType' /\ OwnInv'
  BY DEF StreamType, ExtractionType, OwnInv
<1>6. TaskInv'
  <2>1. VersionTexts \subseteq VersionTexts'
    BY <1>3 DEF VersionTexts, VersionsGrow, StoreType
  <2>2. ASSUME NEW q \in Tasks \ {t}
        PROVE  (TaskGood(task[q], q) /\ TaskServed(task[q]))'
    <3>1. task'[q] = task[q] /\ TaskGood(task[q], q) /\ TaskServed(task[q])
      BY <1>2 DEF TaskEffect, TaskInv
    <3> QED
      BY <2>1, <3>1 DEF TaskGood, TaskServed
  <2>3. (TaskGood(task[t], t) /\ TaskServed(task[t]))'
    BY <1>2 DEF TaskEffect
  <2> QED
    BY <2>2, <2>3 DEF TaskInv
<1>7. HeldInv'
  <2>1. \A x \in held : x.by \in Tasks /\ x.by # t /\ task'[x.by].pc = "done"
    BY <1>2 DEF HeldInv, TaskEffect
  <2>2. \A x \in held' \ held : x.by = t /\ task'[t].pc = "done"
    BY <1>2 DEF TaskEffect
  <2> QED
    BY <2>1, <2>2 DEF HeldInv
<1>8. LedgerInv'
  <2>1. \A x \in ledger' \ ledger : x.by = t
    BY <1>2 DEF TaskEffect
  <2>2. t \notin Streams
    BY DEF ChapterAssumption
  <2> QED
    BY <2>1, <2>2 DEF LedgerInv
<1> QED
  BY <1>2, <1>3, <1>4, <1>5, <1>6, <1>7, <1>8

\* So does a step of a worker, and one in which nothing happens.
LEMMA CoreWorker ==
  ASSUME ChapterAssumption, Core, UNCHANGED <<cast, strm, tsk>>,
         ExtractionNext \/ UNCHANGED <<store, extr>>
  PROVE  Core' /\ UNCHANGED <<chapter, versions, edits, held, ledger>>
<1> USE DEF Core, TypeInv, strm, tsk
<1>1. StoreType' /\ ExtractionType' /\ UNCHANGED <<chapter, versions, edits, ledger>>
  BY ExtractionStep DEF store, extr, StoreType, ExtractionType
<1>2. StreamType' /\ TaskType' /\ EditInv' /\ OwnInv' /\ HeldInv' /\ LedgerInv'
  BY <1>1 DEF StreamType, TaskType, EditInv, OwnInv, HeldInv, LedgerInv
<1>3. TaskInv'
  BY <1>1 DEF TaskInv, TaskGood, TaskServed, VersionTexts
<1> QED
  BY <1>1, <1>2, <1>3

LEMMA CoreStep ==
  ASSUME ChapterAssumption, Core, [ChapterNext]_chapterVars
  PROVE  Core'
<1>1. CASE UNCHANGED chapterVars
  BY <1>1, CoreWorker DEF chapterVars
<1> QED
  BY <1>1, CoreUser, CoreStream, CoreTask, CoreWorker DEF ChapterNext

LEMMA CoreAlways ==
  ASSUME ChapterAssumption
  PROVE  ChapterSpec => []Core
<1>1. ChapterInit => Core
  BY CoreInit
<1>2. Core /\ [ChapterNext]_chapterVars => Core'
  BY CoreStep
<1> QED
  BY <1>1, <1>2, PTL DEF ChapterSpec

-----------------------------------------------------------------------------
(* The rows and the histories have their types, and a request never names   *)
(* a version that is not there.                                             *)
THEOREM ChapterTypes ==
  ASSUME ChapterAssumption
  PROVE  ChapterSpec => []ChapterTypeOK
<1>1. Core => ChapterTypeOK
  <2> SUFFICES ASSUME Core PROVE ChapterTypeOK
    OBVIOUS
  <2> USE DEF Core, TypeInv
  <2>1. \A s \in Streams : stream[s].pc \in Steps /\ stream[s].text \in Texts
    BY DEF StreamType, StreamRow
  <2>2. \A t \in Tasks : task[t].status \in TaskStatus /\ task[t].text \in Texts
    BY DEF TaskType, TaskRow
  <2> QED
    BY <2>1, <2>2 DEF ChapterTypeOK, StoreType, StreamType, TaskType, ExtractionType, EditInv, Version
<1> QED
  BY <1>1, CoreAlways, PTL

(* A draft that the revision gave up never reaches the ledger of what the   *)
(* characters know.                                                         *)
THEOREM GivenUpNeverIngested ==
  ASSUME ChapterAssumption
  PROVE  ChapterSpec => []RejectedNeverIngested
<1>1. Core => RejectedNeverIngested
  BY DEF Core, LedgerInv, RejectedNeverIngested
<1> QED
  BY <1>1, CoreAlways, PTL

(* A completed task passed its last evaluation and reports the text of a    *)
(* version.                                                                 *)
THEOREM CompletedTaskIsServed ==
  ASSUME ChapterAssumption
  PROVE  ChapterSpec => []CompletedIsServed
<1>1. Core => CompletedIsServed
  BY DEF Core, TaskInv, TaskServed, CompletedIsServed, VersionTexts, Passed
<1> QED
  BY <1>1, CoreAlways, PTL

(* A task that failed had no text, or could not commit what it salvaged.    *)
THEOREM TextIsSalvaged ==
  ASSUME ChapterAssumption
  PROVE  ChapterSpec => []NoDraftLost
<1>1. Core => NoDraftLost
  BY DEF Core, TaskInv, TaskGood, NoDraftLost
<1> QED
  BY <1>1, CoreAlways, PTL

(* Only a user's request makes a text active that a gate has held.          *)
THEOREM HeldIsReleasedByUsers ==
  ASSUME ChapterAssumption
  PROVE  ChapterSpec => HeldStaysInactive
<1>1. Core /\ [ChapterNext]_chapterVars => [OnlyUsersRelease]_<<versions, edits, held>>
  <2> SUFFICES ASSUME Core, [ChapterNext]_chapterVars,
                      NEW i \in Active(versions') \ Active(versions), versions'[i].text \in held',
                      UNCHANGED edits
               PROVE  FALSE
    BY DEF OnlyUsersRelease
  <2> USE DEF Core, TypeInv
  <2>1. ASSUME NEW x \in Texts, ReplaceActive(x) PROVE versions'[i].text = x
    <3>1. i \in DOMAIN versions' /\ versions'[i].active
      BY DEF Active
    <3> QED
      BY <2>1, <3>1, Replaced DEF StoreType, ChapterAssumption, StoreAssumption
  <2>2. ASSUME NEW x \in Texts, AddInactive(x) PROVE FALSE
    <3>1. i \in DOMAIN versions' /\ versions'[i].active
      BY DEF Active
    <3> QED
      BY <2>2, <3>1, Added DEF StoreType, ChapterAssumption, StoreAssumption, Active
  <2>3. versions' # versions
    OBVIOUS
  <2>4. ASSUME UserNext PROVE FALSE
    BY <2>4, UserStep DEF UserEffect
  <2>5. ASSUME StreamNext, UNCHANGED tsk PROVE FALSE
    <3>1. PICK s \in Streams, x \in Texts : x.by = s /\ ReplaceActive(x)
      BY <2>3, <2>5, StreamStep DEF StreamDone, StreamEffect
    <3>2. x \in held
      BY <2>1, <2>5, <3>1 DEF tsk
    <3> QED
      BY <3>1, <3>2 DEF HeldInv, ChapterAssumption
  <2>6. ASSUME TaskNext PROVE FALSE
    <3>1. PICK t \in Tasks : TaskEffect(t)
      BY <2>6, TaskStep DEF TaskDone
    <3>2. PICK x \in Texts : x.by = t /\ ReplaceActive(x) /\ UNCHANGED held
      BY <2>2, <2>3, <3>1 DEF TaskEffect
    <3>3. x \in held
      BY <2>1, <3>2
    <3> QED
      BY <3>1, <3>2, <3>3 DEF HeldInv, TaskEffect
  <2>7. ASSUME ExtractionNext PROVE FALSE
    BY <2>3, <2>7, ExtractionStep
  <2>8. ASSUME UNCHANGED chapterVars PROVE FALSE
    BY <2>3, <2>8 DEF chapterVars, store
  <2> QED
    BY <2>4, <2>5, <2>6, <2>7, <2>8 DEF ChapterNext
<1> QED
  BY <1>1, CoreAlways, PTL DEF ChapterSpec, HeldStaysInactive

(* A chapter that has an active version never loses it, but by a switch to  *)
(* a version that was active when the request loaded it.                    *)
THEOREM ActiveVersionSurvives ==
  ASSUME ChapterAssumption
  PROVE  ChapterSpec => ActiveSurvives
<1>1. Core /\ [ChapterNext]_chapterVars => [ActiveKept]_versions
  <2> SUFFICES ASSUME Core, [ChapterNext]_chapterVars, versions' # versions
               PROVE  ActiveKept
    OBVIOUS
  <2> USE DEF Core, TypeInv
  <2>1. ASSUME NEW x \in Texts, ReplaceActive(x) PROVE ActiveKept
    <3>1. Len(versions) + 1 \in Active(versions')
      BY <2>1, Replaced DEF Active, StoreType, ChapterAssumption, StoreAssumption
    <3> QED
      BY <3>1 DEF ActiveKept
  <2>2. ASSUME NEW x \in Texts, AddInactive(x) PROVE ActiveKept
    <3>1. Active(versions) \subseteq Active(versions')
      BY <2>2, Added DEF Active, StoreType, ChapterAssumption, StoreAssumption
    <3> QED
      BY <3>1 DEF ActiveKept
  <2>3. ASSUME UserNext PROVE ActiveKept
    BY <2>3, UserStep DEF ActiveLeft, ActiveKept
  <2>4. ASSUME StreamNext PROVE ActiveKept
    BY <2>1, <2>4, StreamStep DEF StreamDone, StreamEffect
  <2>5. ASSUME TaskNext PROVE ActiveKept
    BY <2>1, <2>2, <2>5, TaskStep DEF TaskDone, TaskEffect
  <2>6. ASSUME ExtractionNext \/ UNCHANGED chapterVars PROVE ActiveKept
    BY <2>6, ExtractionStep DEF chapterVars, store
  <2> QED
    BY <2>3, <2>4, <2>5, <2>6 DEF ChapterNext
<1> QED
  BY <1>1, CoreAlways, PTL DEF ChapterSpec, ActiveSurvives

-----------------------------------------------------------------------------
(* A completed chapter is whole.                                            *)

\* A rollback that the chapter's text comes from stays one.
LEMMA RollbackStays ==
  ASSUME RolledBack, UNCHANGED chapter,
         UNCHANGED edits \/ \E u \in Users : UserEffect(u)
  PROVE  RolledBack'
  BY DEF RolledBack, UserEffect

\* A text of a stream that a user puts into the chapter comes from a rollback.
LEMMA UserWrites ==
  ASSUME ChapterAssumption, Core, NEW u \in Users, UserEffect(u), chapter' # chapter
  PROVE  /\ RolledBack' \/ chapter'.text.by \notin Streams
         /\ chapter'.text = edits[u].text
<1>1. /\ edits[u].op \in {"rollback", "update"} /\ chapter' = [chapter EXCEPT !.text = edits[u].text]
      /\ edits'[u] = [edits[u] EXCEPT !.pc = "done"]
  BY DEF UserEffect
<1>2. edits[u] \in Edit /\ chapter'.text = edits[u].text
  BY <1>1 DEF Core, TypeInv, StoreType
<1>3. edits'[u].pc = "done" /\ edits'[u].op = edits[u].op /\ edits'[u].text = edits[u].text
  BY <1>1, <1>2 DEF Edit
<1>4. CASE edits[u].op = "rollback"
  BY <1>2, <1>3, <1>4 DEF RolledBack
<1>5. CASE edits[u].op = "update"
  <2>1. edits[u].text.by \in {u, Nobody}
    BY <1>5 DEF Core, EditInv
  <2> QED
    BY <1>2, <2>1 DEF ChapterAssumption, StreamAssumption
<1> QED
  BY <1>1, <1>2, <1>4, <1>5

(* A text of a stream that breaks off is never a completed chapter, unless  *)
(* a user has brought it back.                                              *)
THEOREM CompletedChapterIsWhole ==
  ASSUME ChapterAssumption
  PROVE  ChapterSpec => []CompletedIsWhole
<1>1. ChapterInit => CompletedIsWhole
  BY TextFacts DEF ChapterInit, StoreInit, CompletedIsWhole, ChapterAssumption, StreamAssumption
<1>2. Core /\ CompletedIsWhole /\ [ChapterNext]_chapterVars => CompletedIsWhole'
  <2> SUFFICES ASSUME Core, CompletedIsWhole, [ChapterNext]_chapterVars
               PROVE  CompletedIsWhole'
    OBVIOUS
  <2> USE DEF Core, TypeInv
  <2>1. CASE UNCHANGED <<chapter, edits>>
    BY <2>1 DEF CompletedIsWhole, RolledBack
  <2>2. CASE UserNext
    <3>1. PICK u \in Users : UserEffect(u)
      BY <2>2, UserStep
    <3>2. CASE chapter' # chapter
      BY <3>1, <3>2, UserWrites DEF CompletedIsWhole
    <3>3. CASE chapter' = chapter
      BY <3>1, <3>3, RollbackStays DEF CompletedIsWhole
    <3> QED
      BY <3>2, <3>3
  <2>3. CASE StreamNext
    <3>1. PICK s \in Streams : ChapterEffect(s) /\ UNCHANGED edits
      BY <2>3, StreamStep DEF StreamDone, StreamEffect
    <3> QED
      BY <2>1, <3>1 DEF ChapterEffect, CompletedIsWhole
  <2>4. CASE TaskNext
    <3>1. PICK t \in Tasks : (UNCHANGED chapter \/ chapter'.text.by = t) /\ UNCHANGED edits
      BY <2>4, TaskStep DEF TaskDone, TaskEffect
    <3> QED
      BY <2>1, <3>1 DEF CompletedIsWhole, ChapterAssumption
  <2>5. CASE ExtractionNext \/ UNCHANGED chapterVars
    BY <2>1, <2>5, ExtractionStep DEF chapterVars, store
  <2> QED
    BY <2>2, <2>3, <2>4, <2>5 DEF ChapterNext
<1> QED
  BY <1>1, <1>2, CoreAlways, PTL DEF ChapterSpec

-----------------------------------------------------------------------------
(* What was given up is gone.  A stream begins on a text that is not its    *)
(* own: before it begins, no text anywhere bears its name.                  *)

Seen == {chapter.text} \cup VersionTexts \cup {edits[u].text : u \in Users}
          \cup {stream[s].base : s \in Streams}
NewcomerInv ==
  \A s \in Streams :
    /\ stream[s].base.by # s
    /\ stream[s].pc = "idle" => \A x \in Seen : x.by # s
GoneInv ==
  \A s \in Streams :
    stream[s].restored /\ stream[s].base # Blank
      => \/ chapter.text.by # s \/ RolledBack
         \/ \E r \in Streams \ {s} : stream[r].restored /\ stream[r].base = chapter.text

\* A text that is seen anew is of a user, a task, or a stream that has begun.
SeenGrows == \A x \in Seen' : x \in Seen \/ x.by \notin Streams \/ stream'[x.by].pc # "idle"

LEMMA SeenUser ==
  ASSUME ChapterAssumption, Core, UserNext, UNCHANGED strm
  PROVE  SeenGrows
<1> USE DEF Core, TypeInv, strm
<1>1. PICK u \in Users : UserEffect(u)
  BY UserStep
<1>2. VersionTexts' \subseteq VersionTexts \cup {edits[u].text}
  BY <1>1 DEF VersionTexts, UserEffect
<1>3. chapter'.text \in {chapter.text, edits[u].text}
  BY <1>1, UserWrites
<1>4. \A q \in Users : \/ edits'[q].text \in {edits[q].text} \cup VersionTexts
                       \/ edits'[q].text.by \in {q, Nobody}
  BY <1>1 DEF UserEffect, VersionTexts
<1>5. Nobody \notin Streams /\ \A q \in Users : q \notin Streams
  BY DEF ChapterAssumption, StreamAssumption
<1> QED
  BY <1>2, <1>3, <1>4, <1>5 DEF SeenGrows, Seen

LEMMA SeenStream ==
  ASSUME ChapterAssumption, Core, StreamNext
  PROVE  SeenGrows
<1> USE DEF Core, TypeInv
<1>1. PICK s \in Streams : StreamEffect(s) /\ ChapterEffect(s)
  BY StreamStep DEF StreamDone
<1>2. Nobody \notin Streams
  BY DEF ChapterAssumption, StreamAssumption
<1>3. \A x \in VersionTexts' : x \in VersionTexts \/ x.by = s
  <2>1. CASE UNCHANGED versions
    BY <2>1 DEF VersionTexts
  <2>2. ASSUME NEW x \in Texts, x.by = s, ReplaceActive(x)
        PROVE  VersionTexts' \subseteq VersionTexts \cup {x}
    BY <2>2, AddedBehind DEF VersionTexts, VersionsGrow, StoreType
  <2> QED
    BY <1>1, <2>1, <2>2 DEF StreamEffect
<1>4. chapter'.text \in {chapter.text, stream[s].base} \/ chapter'.text.by \in {s, Nobody}
  BY <1>1 DEF ChapterEffect
<1>5. \A r \in Streams : stream'[r].base \in {stream[r].base, Blank, chapter.text}
  BY <1>1 DEF StreamEffect
<1>6. stream'[s].pc # "idle" /\ UNCHANGED edits
  BY <1>1 DEF StreamEffect
<1>7. Blank.by = Nobody
  BY TextFacts
<1> QED
  BY <1>2, <1>3, <1>4, <1>5, <1>6, <1>7 DEF SeenGrows, Seen

LEMMA SeenTask ==
  ASSUME ChapterAssumption, Core, TaskNext, UNCHANGED strm
  PROVE  SeenGrows
<1> USE DEF Core, TypeInv, strm
<1>1. PICK t \in Tasks : TaskEffect(t)
  BY TaskStep DEF TaskDone
<1>2. t \notin Streams
  BY DEF ChapterAssumption
<1>3. \A x \in VersionTexts' : x \in VersionTexts \/ x.by = t
  <2>1. CASE UNCHANGED versions
    BY <2>1 DEF VersionTexts
  <2>2. ASSUME NEW x \in Texts, x.by = t, ReplaceActive(x) \/ AddInactive(x)
        PROVE  VersionTexts' \subseteq VersionTexts \cup {x}
    BY <2>2, AddedBehind DEF VersionTexts, VersionsGrow, StoreType
  <2> QED
    BY <1>1, <2>1, <2>2 DEF TaskEffect
<1>4. (chapter'.text = chapter.text \/ chapter'.text.by = t) /\ UNCHANGED edits
  BY <1>1 DEF TaskEffect
<1> QED
  BY <1>2, <1>3, <1>4 DEF SeenGrows, Seen

(* Once a stream's rollback is written, its drafts are gone from a chapter  *)
(* that had a text before.                                                  *)
THEOREM GivenUpDraftIsGone ==
  ASSUME ChapterAssumption
  PROVE  ChapterSpec => []GivenUpIsGone
<1>1. ChapterInit => NewcomerInv /\ GoneInv
  <2> SUFFICES ASSUME ChapterInit PROVE NewcomerInv /\ GoneInv
    OBVIOUS
  <2>1. \A s \in Streams : stream[s] = NoStream
    BY DEF ChapterInit, StreamInit
  <2>2. NoStream.base = Blank /\ NoStream.restored = FALSE /\ Blank.by = Nobody /\ Prior.by = Nobody
    BY TextFacts DEF NoStream
  <2>3. \A x \in Seen : x.by = Nobody
    <3>1. chapter.text \in {Blank, Prior} /\ \A u \in Users : edits[u].text = Blank
      BY DEF ChapterInit, StoreInit, NoEdit
    <3>2. \A x \in VersionTexts : x = Prior
      BY DEF ChapterInit, StoreInit, VersionTexts, VersionRow
    <3> QED
      BY <2>1, <2>2, <3>1, <3>2 DEF Seen
  <2> QED
    BY <2>1, <2>2, <2>3 DEF NewcomerInv, GoneInv, ChapterAssumption, StreamAssumption
<1>2. Core /\ NewcomerInv /\ GoneInv /\ [ChapterNext]_chapterVars => NewcomerInv' /\ GoneInv'
  <2> SUFFICES ASSUME Core, NewcomerInv, GoneInv, [ChapterNext]_chapterVars
               PROVE  NewcomerInv' /\ GoneInv'
    OBVIOUS
  <2> USE DEF Core, TypeInv
  <2>1. CASE UNCHANGED <<chapter, versions, edits, stream>>
    BY <2>1 DEF NewcomerInv, GoneInv, RolledBack, Seen, VersionTexts
  <2>2. ASSUME SeenGrows, UNCHANGED stream PROVE NewcomerInv'
    BY <2>2 DEF SeenGrows, NewcomerInv
  <2>3. CASE UserNext /\ UNCHANGED strm
    <3>1. PICK u \in Users : UserEffect(u)
      BY <2>3, UserStep
    <3>2. GoneInv'
      <4>1. CASE chapter' # chapter
        BY <2>3, <3>1, <4>1, UserWrites DEF GoneInv, strm
      <4>2. CASE chapter' = chapter
        BY <2>3, <3>1, <4>2, RollbackStays DEF GoneInv, strm
      <4> QED
        BY <4>1, <4>2
    <3> QED
      BY <2>2, <2>3, <3>2, SeenUser DEF strm
  <2>4. CASE TaskNext /\ UNCHANGED strm
    <3>1. PICK t \in Tasks : (UNCHANGED chapter \/ chapter'.text.by = t) /\ UNCHANGED edits
      BY <2>4, TaskStep DEF TaskDone, TaskEffect
    <3>2. GoneInv'
      BY <2>4, <3>1 DEF GoneInv, RolledBack, strm, ChapterAssumption
    <3> QED
      BY <2>2, <2>4, <3>2, SeenTask DEF strm
  <2>5. CASE StreamNext
    <3>1. PICK s \in Streams : StreamEffect(s) /\ ChapterEffect(s)
      BY <2>5, StreamStep DEF StreamDone
    <3>2. /\ \A r \in Streams \ {s} : stream'[r] = stream[r]
          /\ UNCHANGED edits /\ stream'[s].pc # "idle"
          /\ stream[s].restored => stream'[s].restored /\ stream'[s].base = stream[s].base
          /\ stream'[s].base.by # s
      <4>1. Blank.by # s
        BY TextFacts DEF ChapterAssumption, StreamAssumption
      <4>2. stream[s].pc = "idle" => chapter.text.by # s
        BY DEF NewcomerInv, Seen
      <4> QED
        BY <3>1, <4>1, <4>2 DEF StreamEffect, NewcomerInv
    <3>3. NewcomerInv'
      <4>1. \A r \in Streams : stream'[r].pc = "idle" => r # s /\ stream[r].pc = "idle"
        BY <3>2
      <4> QED
        BY <2>5, <3>2, <4>1, SeenStream DEF SeenGrows, NewcomerInv
    <3>4. GoneInv'
      <4> SUFFICES ASSUME NEW q \in Streams, stream'[q].restored, stream'[q].base # Blank,
                          chapter'.text.by = q, ~RolledBack'
                   PROVE  \E r \in Streams \ {q} : stream'[r].restored /\ stream'[r].base = chapter'.text
        BY DEF GoneInv
      <4>1. CASE UNCHANGED chapter /\ (stream'[s].restored => stream[s].restored)
        <5>1. stream[q].restored /\ stream[q].base = stream'[q].base /\ ~RolledBack
          BY <3>2, <4>1 DEF RolledBack
        <5>2. PICK r \in Streams \ {q} : stream[r].restored /\ stream[r].base = chapter.text
          BY <4>1, <5>1 DEF GoneInv
        <5> QED
          BY <3>2, <4>1, <5>2
      <4>2. CASE chapter'.text.by = s /\ ~stream'[s].restored
        BY <4>2
      <4>3. CASE /\ stream'[s].restored /\ stream'[s].base = stream[s].base
                 /\ IF stream[s].base # Blank THEN chapter'.text = stream[s].base
                    ELSE chapter'.text.by \in {s, Nobody}
        <5>1. q # Nobody
          BY DEF ChapterAssumption, StreamAssumption
        <5>2. q # s /\ chapter'.text = stream[s].base
          BY <3>2, <4>3, <5>1
        <5> QED
          BY <4>3, <5>2
      <4> QED
        BY <3>1, <4>1, <4>2, <4>3 DEF ChapterEffect
    <3> QED
      BY <3>3, <3>4
  <2>6. CASE (ExtractionNext \/ UNCHANGED <<store, extr>>) /\ UNCHANGED strm
    BY <2>1, <2>6, ExtractionStep DEF store, strm
  <2> QED
    BY <2>3, <2>4, <2>5, <2>6 DEF ChapterNext, chapterVars
<1>3. GoneInv => GivenUpIsGone
  BY DEF GoneInv, GivenUpIsGone
<1> QED
  BY <1>1, <1>2, <1>3, CoreAlways, PTL DEF ChapterSpec
=============================================================================
