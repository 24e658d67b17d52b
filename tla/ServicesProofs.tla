--------------------------- MODULE ServicesProofs ---------------------------
(***************************************************************************)
(* Proofs about components of the sum MCServices: the retry of a           *)
(* decompiled book, the foreshadows' read model, the outlines of a volume, *)
(* the quotas, and the history of a character.  Each invariant speaks of   *)
(* the component's own variables and is kept by its steps; the sum's       *)
(* other steps leave those variables alone.                                *)
(***************************************************************************)
EXTENDS MCServices, FiniteSetTheorems, TLAPS

-----------------------------------------------------------------------------
(* Decompile.                                                               *)
DRow == Nat \X Slices
DCard == DRow \X D!Branch
WaveLocals == [pc : {"idle", "start", "fill", "write", "release"}, locked : BOOLEAN,
               todo : SUBSET DCard, status : {"none", "error", "ready", "partial"}]
IngestLocals == [running : BOOLEAN, run : Nat, old : SUBSET DRow, unborn : SUBSET Slices,
           due : SUBSET DCard]

DecompileTypes ==
  /\ slices \subseteq DRow
  /\ queue \in Nat /\ redeliver \in Nat /\ broken \in BOOLEAN /\ holder \in Waves \cup {Nobody}
  /\ wave \in [Waves -> WaveLocals] /\ ingest \in IngestLocals

\* Without an ingest nothing is left to be cut or carded.
IngestInv == ~ingest.running => ingest.unborn = {} /\ ingest.due = {}

\* A lock that is not of a wave that is gone is of one at work.
LockInv == \A w \in Waves : wave[w].locked => ~D!At(w, "idle")

DecompileInv == DecompileTypes /\ IngestInv /\ LockInv /\ D!BackfillAlive

LEMMA DecompileStarts ==
  ASSUME D!DecompileAssumption, D!DecompileInit
  PROVE  DecompileInv
<1> USE DEF D!DecompileAssumption, D!DecompileInit
<1>1. DecompileTypes
  <2>1. wave \in [Waves -> WaveLocals]
    BY DEF WaveLocals, D!NoWave
  <2>2. ingest \in IngestLocals
    BY DEF IngestLocals
  <2>3. slices \subseteq DRow /\ queue \in Nat
    BY DEF DRow
  <2> QED
    BY <2>1, <2>2, <2>3 DEF DecompileTypes
<1>2. LockInv /\ IngestInv
  BY DEF LockInv, IngestInv, D!NoWave
<1>3. D!BackfillAlive
  BY DEF D!BackfillAlive, D!Missing
<1> QED
  BY <1>1, <1>2, <1>3 DEF DecompileInv

\* A step that leaves no new card missing, and takes nothing away that will
\* look for one.
LEMMA DecompileQuiet ==
  ASSUME DecompileInv, UNCHANGED wave,
         D!Missing(slices)' \subseteq D!Missing(slices),
         broken => broken',
         queue > 0 \/ redeliver > 0 => queue' > 0 \/ redeliver' > 0,
         ingest.running => ingest'.running
  PROVE  LockInv' /\ D!BackfillAlive'
<1>1. LockInv'
  BY DEF DecompileInv, LockInv, D!At
<1>2. D!BackfillAlive'
  BY DEF DecompileInv, D!BackfillAlive, D!Looks
<1> QED
  BY <1>1, <1>2

LEMMA IngestStep ==
  ASSUME D!DecompileAssumption, DecompileInv,
         D!StartIngest \/ D!EmptyIngest \/ D!PersistSlice \/ D!IngestBranch \/ D!CommitIngest
           \/ D!LoseIngest
  PROVE  DecompileInv'
<1> USE DEF DecompileInv
<1>1. CASE D!StartIngest
  <2>1. DecompileTypes' /\ IngestInv'
    BY <1>1 DEF D!StartIngest, DecompileTypes, IngestLocals, IngestInv
  <2>2. LockInv' /\ D!BackfillAlive'
    BY <1>1 DEF D!StartIngest, LockInv, D!BackfillAlive, D!At
  <2> QED
    BY <2>1, <2>2
<1>2. CASE D!EmptyIngest
  <2>1. DecompileTypes' /\ IngestInv'
    BY <1>2 DEF D!EmptyIngest, DecompileTypes, IngestLocals, IngestInv
  <2>2. D!Missing(slices)' \subseteq D!Missing(slices)
    BY <1>2 DEF D!EmptyIngest, D!Missing, D!CardsOf
  <2>3. LockInv' /\ D!BackfillAlive'
    BY <1>2, <2>2, DecompileQuiet DEF D!EmptyIngest, DecompileTypes, IngestLocals
  <2> QED
    BY <2>1, <2>3
<1>3. CASE D!PersistSlice
  <2>1. PICK n \in ingest.unborn :
          \/ /\ slices' = slices \cup {<<ingest.run, n>>}
             /\ ingest' = [ingest EXCEPT !.unborn = @ \ {n},
                                         !.due = @ \cup ({<<ingest.run, n>>} \X D!Branch)]
          \/ ingest' = [ingest EXCEPT !.unborn = @ \ {n}] /\ UNCHANGED slices
    BY <1>3 DEF D!PersistSlice
  <2>2. ingest.running
    BY <2>1 DEF IngestInv
  <2>3. <<ingest.run, n>> \in DRow
    BY <2>1 DEF DecompileTypes, IngestLocals, DRow
  <2>4. DecompileTypes' /\ IngestInv' /\ ingest'.running
    <3>1. ingest' \in IngestLocals /\ ingest'.running
      <4>1. {<<ingest.run, n>>} \X D!Branch \subseteq DCard
        BY <2>3 DEF DCard
      <4> QED
        BY <2>1, <2>2, <4>1 DEF DecompileTypes, IngestLocals
    <3> QED
      BY <1>3, <2>1, <2>3, <3>1 DEF D!PersistSlice, DecompileTypes, IngestInv
  <2>5. LockInv' /\ D!BackfillAlive'
    BY <1>3, <2>4 DEF D!PersistSlice, LockInv, D!BackfillAlive, D!At
  <2> QED
    BY <2>4, <2>5
<1>4. CASE D!IngestBranch
  <2>1. DecompileTypes' /\ IngestInv' /\ ingest'.running = ingest.running
    BY <1>4 DEF D!IngestBranch, DecompileTypes, IngestLocals, IngestInv
  <2>2. D!Missing(slices)' \subseteq D!Missing(slices)
    BY <1>4 DEF D!IngestBranch, D!Missing
  <2>3. LockInv' /\ D!BackfillAlive'
    BY <1>4, <2>1, <2>2, DecompileQuiet DEF D!IngestBranch
  <2> QED
    BY <2>1, <2>3
<1>5. CASE D!CommitIngest
  <2>1. DecompileTypes' /\ IngestInv'
    <3>1. queue' \in Nat
      BY <1>5 DEF D!CommitIngest, DecompileTypes
    <3>5. broken' \in BOOLEAN
      <4>1. broken' = TRUE \/ broken' = broken
        BY <1>5 DEF D!CommitIngest
      <4> QED
        BY <4>1 DEF DecompileTypes
    <3>2. slices' \subseteq DRow
      BY <1>5 DEF D!CommitIngest, DecompileTypes
    <3>3. ingest' \in IngestLocals /\ IngestInv'
      BY <1>5 DEF D!CommitIngest, DecompileTypes, IngestLocals, IngestInv, D!NoIngest
    <3>4. UNCHANGED <<wave, holder, redeliver>>
      BY <1>5 DEF D!CommitIngest
    <3> QED
      BY <3>1, <3>2, <3>3, <3>4, <3>5 DEF DecompileTypes
  <2>2. broken' \/ D!Missing(slices)' = {} \/ queue' > 0
    BY <1>5 DEF D!CommitIngest, D!Missing, D!Classify, D!CardsOf, DecompileTypes
  <2>3. LockInv' /\ D!BackfillAlive'
    BY <1>5, <2>2 DEF D!CommitIngest, LockInv, D!BackfillAlive, D!At
  <2> QED
    BY <2>1, <2>3
<1>6. CASE D!LoseIngest
  <2>1. DecompileTypes' /\ IngestInv'
    BY <1>6 DEF D!LoseIngest, DecompileTypes, IngestLocals, IngestInv, D!NoIngest
  <2>2. LockInv' /\ D!BackfillAlive'
    BY <1>6 DEF D!LoseIngest, LockInv, D!BackfillAlive, D!At
  <2> QED
    BY <2>1, <2>2
<1> QED
  BY <1>1, <1>2, <1>3, <1>4, <1>5, <1>6

LEMMA WaveStep ==
  ASSUME D!DecompileAssumption, DecompileInv, NEW w \in Waves,
         D!TakeWave(w) \/ D!Snapshot(w) \/ D!FillCard(w) \/ D!CountCards(w) \/ D!WriteStatus(w)
           \/ D!Release(w) \/ D!RaiseWave(w) \/ D!CrashWave(w)
  PROVE  DecompileInv'
<1> USE DEF DecompileInv
<1>1. UNCHANGED <<slices, ingest>> /\ IngestInv'
  BY DEF D!TakeWave, D!Snapshot, D!FillCard, D!CountCards, D!WriteStatus, D!Release,
         D!RaiseWave, D!CrashWave, IngestInv
<1>2. D!Missing(slices)' \subseteq D!Missing(slices)
  BY <1>1 DEF D!TakeWave, D!Snapshot, D!FillCard, D!CountCards, D!WriteStatus, D!Release,
              D!RaiseWave, D!CrashWave, D!Missing
<1>3. wave[w] \in WaveLocals
  BY DEF DecompileTypes
<1>4. D!NoWave \in WaveLocals
  BY DEF D!NoWave, WaveLocals
<1>5. CASE D!TakeWave(w)
  <2> DEFINE Dropped == wave' = wave /\ holder # Nobody /\ broken' = (broken \/ D!Orphaned)
             Starts(l) == wave' = [wave EXCEPT ![w] = [D!NoWave EXCEPT !.pc = "start", !.locked = l]]
  <2>1. /\ UNCHANGED redeliver /\ queue' \in Nat /\ holder' \in Waves \cup {Nobody}
        /\ UNCHANGED <<slices, ingest>>
    BY <1>5 DEF D!TakeWave, D!Begin, DecompileTypes
  <2>2. Dropped \/ \E l \in BOOLEAN : Starts(l) /\ broken' = FALSE
    <3>1. ASSUME NEW l \in BOOLEAN, D!Begin(w, l)
          PROVE  Starts(l) /\ broken' = FALSE
      BY <3>1 DEF D!Begin, D!SetWave
    <3> HIDE DEF Starts
    <3>2. D!Begin(w, TRUE) \/ D!Begin(w, FALSE) \/ Dropped
      BY <1>5 DEF D!TakeWave
    <3> QED
      BY <3>1, <3>2
  <2>3. CASE Dropped
    <3>1. DecompileTypes'
      <4>1. broken' \in BOOLEAN
        BY <2>3
      <4> QED
        BY <2>1, <2>3, <4>1 DEF DecompileTypes
    <3>2. LockInv'
      BY <2>3 DEF LockInv, D!At
    <3>3. D!BackfillAlive'
      <4>1. CASE D!Orphaned
        BY <2>3, <4>1 DEF D!BackfillAlive
      <4>2. CASE ~D!Orphaned
        <5>1. holder \in Waves /\ wave[holder].locked
          BY <2>3, <4>2 DEF D!Orphaned, DecompileTypes
        <5>2. wave[holder] \in WaveLocals /\ wave[holder].pc # "idle"
          BY <5>1 DEF LockInv, D!At, DecompileTypes
        <5>3. ingest.running \/ wave[holder].pc \in {"start", "fill"}
          BY <1>5, <5>1, <5>2 DEF D!TakeWave, D!At, WaveLocals
        <5> QED
          BY <2>1, <2>3, <5>1, <5>3 DEF D!BackfillAlive, D!Looks
      <4> QED
        BY <4>1, <4>2
    <3> QED
      BY <1>1, <3>1, <3>2, <3>3
  <2>4. ASSUME NEW l \in BOOLEAN, Starts(l), broken' = FALSE
        PROVE  DecompileInv'
    <3>1. [D!NoWave EXCEPT !.pc = "start", !.locked = l] \in WaveLocals
      BY DEF D!NoWave, WaveLocals
    <3>2. DecompileTypes'
      BY <2>1, <2>4, <3>1 DEF DecompileTypes
    <3>3. wave'[w].pc = "start"
      BY <2>4 DEF D!NoWave, DecompileTypes
    <3>4. LockInv'
      BY <2>4, <3>3 DEF LockInv, D!At, DecompileTypes
    <3>5. D!BackfillAlive'
      BY <3>3 DEF D!BackfillAlive, D!Looks
    <3> QED
      BY <1>1, <3>2, <3>4, <3>5
  <2> QED
    BY <2>2, <2>3, <2>4
<1>6. CASE D!Snapshot(w) \/ D!FillCard(w)
  <2>1. /\ UNCHANGED <<status, slices, ingest, holder, queue, redeliver, broken>>
        /\ \E S \in SUBSET DCard, step \in {"start", "fill"} :
             /\ wave[w].pc = step
             /\ wave' = [wave EXCEPT ![w] = [wave[w] EXCEPT !.pc = "fill", !.todo = S]]
    <3>1. CASE D!Snapshot(w)
      BY <3>1 DEF D!Snapshot, D!SetWave, D!At, D!Missing, DecompileTypes, DCard
    <3>2. CASE D!FillCard(w)
      <4>1. PICK x \in wave[w].todo :
              wave' = [wave EXCEPT ![w] = [wave[w] EXCEPT !.todo = @ \ {x}]]
        BY <3>2 DEF D!FillCard, D!SetWave
      <4>2. wave[w].pc = "fill" /\ wave[w].todo \ {x} \in SUBSET DCard
        BY <1>3, <3>2 DEF D!FillCard, D!At, WaveLocals
      <4>3. [wave[w] EXCEPT !.todo = @ \ {x}]
              = [wave[w] EXCEPT !.pc = "fill", !.todo = wave[w].todo \ {x}]
        BY <1>3, <4>2 DEF WaveLocals
      <4> QED
        BY <3>2, <4>1, <4>2, <4>3 DEF D!FillCard
    <3> QED
      BY <1>6, <3>1, <3>2
  <2>2. PICK S \in SUBSET DCard :
          wave' = [wave EXCEPT ![w] = [wave[w] EXCEPT !.pc = "fill", !.todo = S]]
    BY <2>1
  <2>3. DecompileTypes'
    <3>1. [wave[w] EXCEPT !.pc = "fill", !.todo = S] \in WaveLocals
      BY <1>3 DEF WaveLocals
    <3> QED
      BY <2>1, <2>2, <3>1 DEF DecompileTypes
  <2>4. wave[w].pc \in {"start", "fill"} /\ wave'[w].pc = "fill"
    BY <1>3, <2>1, <2>2 DEF DecompileTypes, WaveLocals
  <2>5. LockInv'
    BY <1>3, <2>2, <2>4 DEF DecompileTypes, WaveLocals, LockInv, D!At
  <2>6. D!BackfillAlive'
    BY <2>4 DEF D!BackfillAlive, D!Looks
  <2> QED
    BY <1>1, <2>3, <2>5, <2>6
<1>7. CASE D!CountCards(w)
  <2>1. D!Classify(slices) \in {"error", "ready", "partial"}
        /\ (D!Classify(slices) # "partial" => D!Missing(slices) = {})
    BY DEF D!Classify, D!Missing
  <2>2. DecompileTypes'
    BY <1>3, <1>7, <2>1 DEF D!CountCards, D!SetWave, DecompileTypes, WaveLocals
  <2>3. LockInv'
    BY <1>3, <1>7 DEF D!CountCards, D!SetWave, D!At, DecompileTypes, WaveLocals, LockInv
  <2>4. D!BackfillAlive'
    <3>1. CASE D!Classify(slices) = "partial"
      BY <1>3, <1>7, <3>1 DEF D!CountCards, D!SetWave, DecompileTypes, WaveLocals,
                              D!BackfillAlive, D!Looks
    <3>2. CASE D!Classify(slices) # "partial"
      BY <1>2, <2>1, <3>2 DEF D!BackfillAlive
    <3> QED
      BY <3>1, <3>2
  <2> QED
    BY <1>1, <2>2, <2>3, <2>4
<1>8. CASE D!WriteStatus(w)
  <2>1. DecompileTypes'
    BY <1>1, <1>3, <1>8 DEF D!WriteStatus, D!SetWave, DecompileTypes, WaveLocals
  <2>2. LockInv'
    BY <1>3, <1>8 DEF D!WriteStatus, D!SetWave, D!At, DecompileTypes, WaveLocals, LockInv
  <2>3. \A v \in Waves : D!Looks(v) => D!Looks(v)'
    BY <1>3, <1>8 DEF D!WriteStatus, D!SetWave, D!At, DecompileTypes, WaveLocals, D!Looks
  <2>4. D!BackfillAlive'
    BY <1>1, <1>2, <1>8, <2>3 DEF D!WriteStatus, D!BackfillAlive
  <2> QED
    BY <1>1, <2>1, <2>2, <2>4
<1>9. CASE D!Release(w) \/ D!RaiseWave(w) \/ D!CrashWave(w)
  <2>1. wave' = [wave EXCEPT ![w] = D!NoWave]
    BY <1>9 DEF D!Release, D!RaiseWave, D!CrashWave, D!SetWave
  <2>2. DecompileTypes'
    <3>1. queue' \in Nat /\ redeliver' \in Nat
      BY <1>9 DEF D!Release, D!RaiseWave, D!CrashWave, D!NextWave, DecompileTypes
    <3>3. broken' \in BOOLEAN
      <4>1. broken' = TRUE \/ broken' = broken
        BY <1>9 DEF D!Release, D!RaiseWave, D!CrashWave
      <4> QED
        BY <4>1 DEF DecompileTypes
    <3>2. holder' \in Waves \cup {Nobody}
      BY <1>9 DEF D!Release, D!RaiseWave, D!CrashWave, D!Unlock, DecompileTypes
    <3> QED
      BY <1>1, <1>4, <2>1, <3>1, <3>2, <3>3 DEF DecompileTypes
  <2>3. LockInv'
    BY <2>1 DEF D!NoWave, DecompileTypes, LockInv, D!At
  <2>4. CASE broken' \/ queue' > 0 \/ redeliver' > 0
    BY <1>1, <2>2, <2>3, <2>4 DEF D!BackfillAlive
  <2>5. CASE ~(broken' \/ queue' > 0 \/ redeliver' > 0)
    <3>1. /\ D!Release(w) /\ wave[w].status # "partial"
          /\ broken' = broken /\ queue' = queue /\ redeliver' = redeliver
      BY <1>9, <2>5 DEF D!Release, D!RaiseWave, D!CrashWave, D!NextWave, DecompileTypes
    <3>2. ~D!Looks(w)
      BY <3>1 DEF D!Release, D!Looks, D!At
    <3>3. \A v \in Waves : D!Looks(v) => D!Looks(v)'
      BY <2>1, <3>2 DEF D!Looks, DecompileTypes
    <3> QED
      BY <1>1, <1>2, <2>2, <2>3, <3>1, <3>3 DEF D!BackfillAlive
  <2> QED
    BY <2>4, <2>5
<1> QED
  BY <1>5, <1>6, <1>7, <1>8, <1>9

LEMMA DecompileStep ==
  ASSUME D!DecompileAssumption, DecompileInv, D!DecompileNext
  PROVE  DecompileInv'
<1>1. CASE D!RetryMissing \/ D!Redeliver \/ D!LockExpires
  <2>1. /\ UNCHANGED <<status, slices, cards, ingest, wave, broken>>
        /\ queue' \in Nat /\ redeliver' \in Nat /\ holder' \in Waves \cup {Nobody}
        /\ queue > 0 \/ redeliver > 0 => queue' > 0 \/ redeliver' > 0
    BY <1>1 DEF D!RetryMissing, D!Redeliver, D!LockExpires, DecompileInv, DecompileTypes
  <2>2. DecompileTypes' /\ IngestInv'
    BY <2>1 DEF DecompileInv, DecompileTypes, IngestInv
  <2>3. D!Missing(slices)' \subseteq D!Missing(slices)
    BY <2>1 DEF D!Missing
  <2>4. LockInv' /\ D!BackfillAlive'
    BY <2>1, <2>3, DecompileQuiet
  <2> QED
    BY <2>2, <2>4 DEF DecompileInv
<1>2. CASE ~(D!RetryMissing \/ D!Redeliver \/ D!LockExpires)
  BY <1>2, IngestStep, WaveStep DEF D!DecompileNext
<1> QED
  BY <1>1, <1>2

\* While a card of a decompiled book is missing, something that will look for it
\* is under way ("the missing-card backfill must keep probing", tasks/__init__.py),
\* unless an ingest or a wave was lost since one last got to work; for any slices,
\* waves and ingests.
THEOREM BackfillGoesOn == ServicesSpec => []BackfillAlive
<1> DEFINE Inv == focus = "decompile" => DecompileInv
<1>1. ServicesInit => Inv
  BY DecompileStarts, ServicesAssumption DEF ServicesInit, InitD
<1>2. Inv /\ [ServicesNext]_<<focus, chapterVars, revisionVars, routerVars, decompileVars,
                 timelineVars, foreshadowVars, usageVars, plannerVars, outlinesVars>> => Inv'
  <2>1. ASSUME Inv, focus = "decompile", D!DecompileNext, UNCHANGED focus
        PROVE  Inv'
    BY <2>1, DecompileStep, ServicesAssumption
  <2>2. ASSUME Inv, UNCHANGED decompileVars, UNCHANGED focus
        PROVE  Inv'
    BY <2>2 DEF decompileVars, DecompileInv, DecompileTypes, LockInv, IngestInv,
                D!BackfillAlive, D!Looks, D!At, D!Missing
  <2> QED
    BY <2>1, <2>2 DEF ServicesNext, OthersRest
<1>3. Inv => BackfillAlive
  BY DEF DecompileInv, BackfillAlive
<1> QED
  BY <1>1, <1>2, <1>3, PTL DEF ServicesSpec

-----------------------------------------------------------------------------
(* Foreshadow.                                                              *)
Ops == {"create", "update", "delete", "resolve", "project"}
Project == [pc : {"idle", "write", "snapshot", "upsert", "reply"}, op : Ops,
            id : Nodes \cup {"none"}, snap : SUBSET (Nodes \X F!Status), at : Nat]

ForeshadowTypes ==
  /\ node \in [Nodes -> F!Status \cup {"none", "gone"}]
  /\ DOMAIN row = Nodes \cup Plans
  /\ work \in [F!Projectors -> Project]
  /\ writes \in Nat /\ shown \in Nat /\ newest \in Nat /\ need \in Nat /\ aside \in BOOLEAN

\* The graph as a projection reads it, and the rows that would be left by one.
Graph == {<<i, node[i]>> : i \in F!Showable}

Ids == \A p \in F!Projectors : F!At(p, "write") => work[p].op # "project" /\ work[p].id \in Nodes

\* A node that is being made is not there yet, and nobody else makes it.
MadeOnce ==
  \A p \in F!Projectors : F!At(p, "write") /\ work[p].op = "create" =>
    /\ node[work[p].id] = "none"
    /\ \A q \in F!Projectors \ {p} :
         F!At(q, "write") /\ work[q].op = "create" => work[q].id # work[p].id

\* A node that a request deleted is gone for good.
GoneInv ==
  \A p \in F!Projectors : work[p].op = "delete" /\ work[p].pc \in {"snapshot", "upsert", "reply"} =>
    work[p].id \in Nodes /\ node[work[p].id] = "gone"

\* Something will bring, or has brought, a later state of the graph than the one
\* after n writes; or has failed to.
Later(n) ==
  \/ \E p \in F!Projectors : F!At(p, "snapshot") \/ (F!At(p, "upsert") /\ work[p].at > n)
  \/ newest > n \/ need > n

\* A projection that has read the graph, and the rows, show the graph as it is,
\* unless a later projection is under way, came first or failed.
ReadInv ==
  \A p \in F!Projectors : F!At(p, "upsert") =>
    /\ work[p].at <= writes
    /\ work[p].at = writes => work[p].snap = Graph
    /\ work[p].snap = Graph \/ Later(work[p].at)
IsShown == row = F!Shown(Graph)
ShownInv ==
  /\ shown <= writes /\ need <= writes
  /\ ~aside => /\ shown = writes => IsShown
               /\ IsShown \/ Later(shown)

ForeshadowInv == ForeshadowTypes /\ Ids /\ MadeOnce /\ GoneInv /\ ReadInv /\ ShownInv

LEMMA NewerOf ==
  ASSUME NEW a \in Nat, NEW b \in Nat
  PROVE  F!Max({a, b}) \in {a, b} /\ F!Max({a, b}) >= a /\ F!Max({a, b}) >= b
<1>1. \E x \in {a, b} : \A y \in {a, b} : x >= y
  OBVIOUS
<1> QED
  BY <1>1 DEF F!Max

LEMMA ShownGraph ==
  ASSUME ForeshadowTypes
  PROVE  /\ DOMAIN F!Shown(Graph) = Nodes \cup Plans
         /\ \A i \in Nodes \cup Plans :
              F!Shown(Graph)[i] = IF i \in F!Showable THEN node[i] ELSE "none"
<1>1. ASSUME NEW i \in Nodes \cup Plans, NEW s \in F!Status
      PROVE  <<i, s>> \in Graph <=> i \in F!Showable /\ s = node[i]
  BY <1>1 DEF Graph, F!Showable
<1>2. ASSUME NEW i \in Nodes \cup Plans
      PROVE  F!Shown(Graph)[i] = IF i \in F!Showable THEN node[i] ELSE "none"
  <2>1. CASE i \in F!Showable
    <3>1. node[i] \in F!Status /\ <<i, node[i]>> \in Graph
      BY <1>1, <2>1 DEF F!Showable, F!Alive
    <3>2. (CHOOSE s \in F!Status : <<i, s>> \in Graph) = node[i]
      BY <1>1, <3>1
    <3> QED
      BY <2>1, <3>1, <3>2 DEF F!Shown
  <2>2. CASE ~(i \in F!Showable)
    BY <1>1, <2>2 DEF F!Shown
  <2> QED
    BY <2>1, <2>2
<1> QED
  BY <1>2 DEF F!Shown

LEMMA ForeshadowStarts ==
  ASSUME F!ForeshadowInit
  PROVE  ForeshadowInv
<1> USE DEF F!ForeshadowInit
<1>1. ForeshadowTypes
  <2>1. F!Idle \in Project
    BY DEF F!Idle, Project, Ops
  <2>2. work \in [F!Projectors -> Project]
    BY <2>1
  <2>3. node \in [Nodes -> F!Status \cup {"none", "gone"}] /\ DOMAIN row = Nodes \cup Plans
    BY DEF F!Status
  <2> QED
    BY <2>2, <2>3 DEF ForeshadowTypes
<1>2. \A p \in F!Projectors : F!At(p, "idle")
  BY DEF F!At, F!Idle
<1>3. Ids /\ MadeOnce /\ GoneInv /\ ReadInv
  BY <1>2 DEF Ids, MadeOnce, GoneInv, ReadInv, F!At
<1>4. row = F!Shown(Graph)
  <2>1. \A i \in Nodes \cup Plans : row[i] = F!Shown(Graph)[i]
    BY <1>1, ShownGraph DEF F!Showable, F!Alive, F!Status
  <2>2. row = [i \in Nodes \cup Plans |-> row[i]]
    OBVIOUS
  <2> QED
    BY <2>1, <2>2 DEF F!Shown
<1> QED
  BY <1>1, <1>3, <1>4 DEF ForeshadowInv, ShownInv, IsShown

-----------------------------------------------------------------------------
\* What is later than n stays so, as far as projector p has no part in it.
LEMMA LaterStays ==
  ASSUME ForeshadowTypes, NEW p \in F!Projectors, NEW n \in Nat, Later(n),
         \A q \in F!Projectors \ {p} : work'[q] = work[q],
         newest' \in Nat, need' \in Nat, newest' >= newest, need' >= need
  PROVE  \/ Later(n)'
         \/ F!At(p, "snapshot")
         \/ F!At(p, "upsert") /\ work[p].at > n
<1>1. CASE newest > n \/ need > n
  BY <1>1 DEF Later, ForeshadowTypes
<1>2. ASSUME NEW q \in F!Projectors, F!At(q, "snapshot") \/ (F!At(q, "upsert") /\ work[q].at > n)
      PROVE  \/ Later(n)'
             \/ F!At(p, "snapshot")
             \/ F!At(p, "upsert") /\ work[p].at > n
  <2>1. CASE q = p
    BY <1>2, <2>1
  <2>2. CASE q # p
    BY <1>2, <2>2 DEF Later, F!At
  <2> QED
    BY <2>1, <2>2
<1> QED
  BY <1>1, <1>2 DEF Later

\* A step of a projector that neither writes the graph nor has to do with its
\* projection.
LEMMA AsideStep ==
  ASSUME ForeshadowInv, NEW p \in F!Projectors, work[p].pc \notin {"snapshot", "upsert"},
         \A q \in F!Projectors \ {p} : work'[q] = work[q], ~F!At(p, "upsert")',
         UNCHANGED <<node, blank, row, writes, shown, newest, need, aside>>
  PROVE  ReadInv' /\ ShownInv'
<1> USE DEF ForeshadowInv
<1>1. Graph' = Graph
  BY DEF Graph, F!Showable, F!Alive
<1>2. \A n \in Nat : Later(n) => Later(n)'
  BY LaterStays DEF F!At, ForeshadowTypes
<1>3. ReadInv'
  BY <1>1, <1>2 DEF ReadInv, F!At, ForeshadowTypes, Project
<1>4. ShownInv'
  BY <1>1, <1>2 DEF ShownInv, IsShown, ForeshadowTypes
<1> QED
  BY <1>3, <1>4

LEMMA RequestStarts ==
  ASSUME ForeshadowInv, NEW r \in F!Projectors,
         \/ F!StartRequest(r) \/ F!StartResolve(r)
         \/ r = Batch /\ (F!CheckResolution \/ F!RegisterFromText)
  PROVE  ForeshadowInv'
<1> USE DEF ForeshadowInv
<1> DEFINE Begins(locals) ==
             /\ locals.pc \in {"write", "snapshot", "reply"}
             /\ locals.pc = "write" => locals.op # "project" /\ locals.id \in Nodes
             /\ locals.pc # "write" => locals.op = "project"
             /\ locals.pc = "write" /\ locals.op = "create" =>
                  node[locals.id] = "none" /\ \A p \in F!Projectors : work[p].id # locals.id
             /\ work' = [work EXCEPT ![r] = locals]
<1>1. PICK locals \in Project : Begins(locals)
  <2>1. ASSUME F!Create(r) PROVE \E locals \in Project : Begins(locals)
    <3>1. PICK i \in Nodes :
            /\ node[i] = "none" /\ \A p \in F!Projectors : work[p].id # i
            /\ F!Set(r, [F!Idle EXCEPT !.pc = "write", !.op = "create", !.id = i])
      BY <2>1 DEF F!Create
    <3> DEFINE new == [F!Idle EXCEPT !.pc = "write", !.op = "create", !.id = i]
    <3>2. new \in Project /\ new.pc = "write" /\ new.op = "create" /\ new.id = i
      BY DEF F!Idle, Project, Ops
    <3> QED
      BY <3>1, <3>2 DEF F!Set
  <2>2. ASSUME NEW op \in {"update", "delete", "resolve"}, NEW i \in Nodes,
               F!Set(r, [F!Idle EXCEPT !.pc = "write", !.op = op, !.id = i])
        PROVE  \E locals \in Project : Begins(locals)
    <3> DEFINE new == [F!Idle EXCEPT !.pc = "write", !.op = op, !.id = i]
    <3>1. new \in Project /\ new.pc = "write" /\ new.op = op /\ new.id = i
      BY DEF F!Idle, Project, Ops
    <3> QED
      BY <2>2, <3>1 DEF F!Set
  <2>3. ASSUME NEW step \in {"snapshot", "reply"}, F!Set(r, [F!Idle EXCEPT !.pc = step])
        PROVE  \E locals \in Project : Begins(locals)
    <3> DEFINE new == [F!Idle EXCEPT !.pc = step]
    <3>1. new \in Project /\ new.pc = step /\ new.op = "project"
      BY DEF F!Idle, Project, Ops
    <3> QED
      BY <2>3, <3>1 DEF F!Set
  <2>4. CASE F!StartRequest(r)
    <3> HIDE DEF Begins
    <3> QED
      BY <2>1, <2>2, <2>3, <2>4 DEF F!StartRequest
  <2>5. CASE F!StartResolve(r)
    <3> HIDE DEF Begins
    <3> QED
      BY <2>2, <2>5 DEF F!StartResolve
  <2>6. CASE r = Batch /\ (F!CheckResolution \/ F!RegisterFromText)
    <3> HIDE DEF Begins
    <3> QED
      BY <2>1, <2>3, <2>6 DEF F!CheckResolution, F!RegisterFromText
  <2> QED
    BY <2>4, <2>5, <2>6
<1>2. F!At(r, "idle") \/ F!At(r, "reply")
  BY DEF F!StartRequest, F!StartResolve, F!CheckResolution, F!RegisterFromText
<1>3. UNCHANGED <<node, blank, row, writes, shown, newest, need, aside>>
  BY DEF F!StartRequest, F!StartResolve, F!CheckResolution, F!RegisterFromText
<1>4. work'[r] = locals /\ \A q \in F!Projectors \ {r} : work'[q] = work[q]
  BY <1>1 DEF ForeshadowTypes
<1>5. ForeshadowTypes'
  BY <1>1, <1>3 DEF ForeshadowTypes
<1>6. Ids' /\ GoneInv'
  BY <1>1, <1>3, <1>4 DEF Ids, GoneInv, F!At
<1>7. MadeOnce'
  BY <1>1, <1>3, <1>4 DEF MadeOnce, F!At
<1>8. ReadInv' /\ ShownInv'
  BY <1>1, <1>2, <1>3, <1>4, AsideStep DEF F!At
<1> QED
  BY <1>5, <1>6, <1>7, <1>8

LEMMA NodeWritten ==
  ASSUME ForeshadowInv, NEW p \in F!Projectors, F!WriteNode(p)
  PROVE  ForeshadowInv'
<1> USE DEF ForeshadowInv
<1> DEFINE i == work[p].id
           op == work[p].op
<1>1. /\ F!At(p, "write") /\ i \in Nodes /\ op \in {"create", "update", "resolve", "delete"}
      /\ writes' = writes + 1 /\ UNCHANGED <<row, shown, newest, need, aside>>
      /\ op = "create" => node[i] = "none"
  BY DEF F!WriteNode, Ids, MadeOnce, ForeshadowTypes, Project, Ops
<1>2. PICK s : /\ node' = [node EXCEPT ![i] = s]
               /\ op = "create" => s = "planted"
               /\ op # "create" /\ ~F!Alive(i) => s = node[i]
               /\ op \in {"update", "resolve"} /\ F!Alive(i) => s \in F!Status
               /\ op = "delete" /\ F!Alive(i) => s = "gone"
  <2>1. PICK s \in CASE op = "create" -> {"planted"}
                     [] op = "update" -> IF F!Alive(i) THEN F!Status ELSE {node[i]}
                     [] op = "resolve" -> IF F!Alive(i) THEN {"resolved"} ELSE {node[i]}
                     [] op = "delete" -> IF F!Alive(i) THEN {"gone"} ELSE {node[i]} :
          node' = [node EXCEPT ![i] = s]
    BY DEF F!WriteNode
  <2>2. CASE op = "create"
    BY <2>1, <2>2
  <2>3. CASE op = "update"
    BY <2>1, <2>3
  <2>4. CASE op = "resolve"
    BY <2>1, <2>4 DEF F!Status
  <2>5. CASE op = "delete"
    BY <2>1, <2>5
  <2> QED
    BY <1>1, <2>2, <2>3, <2>4, <2>5
<1>3. node' \in [Nodes -> F!Status \cup {"none", "gone"}]
  BY <1>1, <1>2 DEF ForeshadowTypes, F!Status
<1>4. ASSUME NEW j \in Nodes
      PROVE  /\ node[j] = "gone" => node'[j] = "gone"
             /\ node[j] = "none" => node'[j] = "none" \/ (op = "create" /\ j = i)
  <2>1. CASE j # i
    BY <1>1, <1>2, <2>1 DEF ForeshadowTypes
  <2>2. CASE j = i
    <3>1. node'[i] = s
      BY <1>1, <1>2 DEF ForeshadowTypes
    <3>2. node[i] \in {"gone", "none"} => ~F!Alive(i)
      BY DEF F!Alive, F!Status
    <3> QED
      BY <1>1, <1>2, <2>2, <3>1, <3>2
  <2> QED
    BY <2>1, <2>2
<1>5. \/ op = "delete" /\ ~F!Alive(i) /\ work' = [work EXCEPT ![p] = F!Idle]
      \/ (op = "delete" => F!Alive(i)) /\ work' = [work EXCEPT ![p] = [work[p] EXCEPT !.pc = "snapshot"]]
  BY DEF F!WriteNode, F!Set, F!Go
<1>6. /\ \A q \in F!Projectors \ {p} : work'[q] = work[q]
      /\ \/ work'[p].pc = "idle" /\ work'[p].op = "project" /\ op = "delete" /\ ~F!Alive(i)
         \/ work'[p].pc = "snapshot" /\ work'[p].op = op /\ work'[p].id = i /\ (op = "delete" => F!Alive(i))
  BY <1>5 DEF ForeshadowTypes, Project, F!Idle
<1>7. ForeshadowTypes'
  <2>1. F!Idle \in Project /\ [work[p] EXCEPT !.pc = "snapshot"] \in Project
    BY DEF ForeshadowTypes, Project, F!Idle, Ops
  <2>2. work' \in [F!Projectors -> Project]
    BY <1>5, <2>1 DEF ForeshadowTypes
  <2> QED
    BY <1>1, <1>3, <2>2 DEF ForeshadowTypes
<1>8. Ids'
  BY <1>6 DEF Ids, F!At
<1>9. MadeOnce'
  BY <1>1, <1>4, <1>6 DEF MadeOnce, F!At, Ids
<1>10. GoneInv'
  <2>1. op = "delete" /\ F!Alive(i) => node'[i] = "gone"
    BY <1>1, <1>2 DEF ForeshadowTypes
  <2> QED
    BY <1>1, <1>4, <1>6, <2>1 DEF GoneInv
<1>11. \A n \in Nat : Later(n) => Later(n)'
  BY <1>1, <1>6, LaterStays DEF F!At, ForeshadowTypes
<1>12. Graph' = Graph \/ F!At(p, "snapshot")'
  <2>1. CASE op = "delete" /\ ~F!Alive(i)
    <3>1. node' = node /\ blank' = blank
      BY <1>1, <1>2, <2>1 DEF F!WriteNode, ForeshadowTypes
    <3> QED
      BY <3>1 DEF Graph, F!Showable, F!Alive
  <2> QED
    BY <1>6, <2>1 DEF F!At
<1>13. ReadInv'
  BY <1>1, <1>6, <1>11, <1>12 DEF ReadInv, Later, F!At, ForeshadowTypes, Project
<1>14. ShownInv'
  BY <1>1, <1>11, <1>12 DEF ShownInv, IsShown, Later, ForeshadowTypes
<1> QED
  BY <1>7, <1>8, <1>9, <1>10, <1>13, <1>14

LEMMA GraphRead ==
  ASSUME ForeshadowInv, NEW p \in F!Projectors, F!Snapshot(p)
  PROVE  ForeshadowInv'
<1> USE DEF ForeshadowInv
<1>1. /\ F!At(p, "snapshot") /\ UNCHANGED <<node, blank, row, writes, shown, newest, need, aside>>
      /\ work' = [work EXCEPT ![p] = [work[p] EXCEPT !.pc = "upsert", !.at = writes, !.snap = Graph]]
  BY DEF F!Snapshot, F!Set, Graph
<1>2. Graph \in SUBSET (Nodes \X F!Status) /\ Graph' = Graph
  BY <1>1 DEF Graph, F!Showable, F!Alive
<1>3. /\ \A q \in F!Projectors \ {p} : work'[q] = work[q]
      /\ work'[p].pc = "upsert" /\ work'[p].at = writes /\ work'[p].snap = Graph
      /\ work'[p].op = work[p].op /\ work'[p].id = work[p].id
  BY <1>1 DEF ForeshadowTypes, Project
<1>4. ForeshadowTypes'
  <2>1. [work[p] EXCEPT !.pc = "upsert", !.at = writes, !.snap = Graph] \in Project
    BY <1>2 DEF ForeshadowTypes, Project
  <2> QED
    BY <1>1, <2>1 DEF ForeshadowTypes
<1>5. Ids' /\ MadeOnce'
  BY <1>1, <1>3 DEF Ids, MadeOnce, F!At
<1>6. GoneInv'
  BY <1>1, <1>3 DEF GoneInv, F!At
<1>7. \A n \in Nat : Later(n) /\ n < writes => Later(n)'
  BY <1>1, <1>3 DEF Later, F!At, ForeshadowTypes
<1>8. ReadInv'
  <2>1. ASSUME NEW q \in F!Projectors, F!At(q, "upsert"), q # p
        PROVE  /\ work'[q].at <= writes'
               /\ work'[q].at = writes' => work'[q].snap = Graph'
               /\ work'[q].snap = Graph' \/ Later(work[q].at)'
    <3>1. work'[q] = work[q] /\ work[q].at \in Nat
      BY <1>3, <2>1 DEF ForeshadowTypes, Project
    <3>2. Later(work[q].at) /\ work[q].at < writes => Later(work[q].at)'
      BY <1>7, <3>1 DEF Later
    <3> QED
      BY <1>1, <1>2, <2>1, <3>1, <3>2 DEF ReadInv, ForeshadowTypes
  <2> QED
    BY <1>1, <1>2, <1>3, <2>1 DEF ReadInv, F!At, ForeshadowTypes
<1>9. ShownInv'
  BY <1>1, <1>2, <1>7 DEF ShownInv, IsShown, ForeshadowTypes
<1> QED
  BY <1>4, <1>5, <1>6, <1>8, <1>9

LEMMA GraphShown ==
  ASSUME ForeshadowInv, NEW p \in F!Projectors, F!Upsert(p) \/ F!FailUpsert(p)
  PROVE  ForeshadowInv'
<1> USE DEF ForeshadowInv
<1>1. /\ F!At(p, "upsert") /\ UNCHANGED <<node, blank, writes>>
      /\ work' = [work EXCEPT ![p] = [work[p] EXCEPT !.pc = "reply"]]
      /\ \/ /\ row' = F!Shown(work[p].snap) /\ shown' = work[p].at
            /\ newest' = F!Max({newest, work[p].at}) /\ aside' = FALSE /\ need' = need
         \/ need' = writes /\ UNCHANGED <<row, shown, newest, aside>>
  BY DEF F!Upsert, F!FailUpsert, F!Go, F!Set
<1>2. work[p].at \in Nat /\ work[p].at <= writes
  BY <1>1 DEF ForeshadowTypes, Project, ReadInv
<1>3. /\ \A q \in F!Projectors \ {p} : work'[q] = work[q]
      /\ work'[p].pc = "reply" /\ work'[p].op = work[p].op /\ work'[p].id = work[p].id
  BY <1>1 DEF ForeshadowTypes, Project
<1>4. /\ newest' \in Nat /\ need' \in Nat /\ newest' >= newest
      /\ need' >= need /\ need' <= writes
      /\ newest' >= work[p].at \/ (need' = writes /\ newest' = newest)
  <2>1. newest \in Nat /\ need \in Nat /\ writes \in Nat
    BY DEF ForeshadowTypes
  <2>2. need <= writes
    BY DEF ShownInv
  <2>3. CASE newest' = F!Max({newest, work[p].at}) /\ need' = need
    BY <1>2, <2>1, <2>2, <2>3, NewerOf
  <2>4. CASE need' = writes /\ newest' = newest
    BY <2>1, <2>2, <2>4
  <2> QED
    BY <1>1, <2>3, <2>4
<1>5. ForeshadowTypes'
  <2>1. [work[p] EXCEPT !.pc = "reply"] \in Project
    BY DEF ForeshadowTypes, Project
  <2>2. work' \in [F!Projectors -> Project]
    BY <1>1, <2>1 DEF ForeshadowTypes
  <2>3. DOMAIN row' = Nodes \cup Plans
    BY <1>1 DEF ForeshadowTypes, F!Shown
  <2> QED
    BY <1>1, <1>2, <1>4, <2>2, <2>3 DEF ForeshadowTypes
<1>6. Ids' /\ MadeOnce' /\ GoneInv'
  <2>1. Ids' /\ MadeOnce'
    BY <1>1, <1>3 DEF Ids, MadeOnce, F!At
  <2>2. GoneInv'
    BY <1>1, <1>3 DEF GoneInv, F!At
  <2> QED
    BY <2>1, <2>2
<1>7. Graph' = Graph
  BY <1>1 DEF Graph, F!Showable, F!Alive
\* A state later than n is shown, or has failed to be, or is still to come.
<1>8. ASSUME NEW n \in Nat, n <= writes, Later(n)
      PROVE  Later(n)'
  <2>1. CASE newest > n
    BY <1>4, <2>1 DEF Later, ForeshadowTypes
  <2>2. CASE need > n
    BY <1>1, <1>4, <1>8, <2>2 DEF Later, ForeshadowTypes
  <2>3. ASSUME NEW q \in F!Projectors,
               F!At(q, "snapshot") \/ (F!At(q, "upsert") /\ work[q].at > n)
        PROVE  Later(n)'
    <3>1. CASE q = p
      BY <1>1, <1>2, <1>4, <2>3, <3>1 DEF Later, F!At, ForeshadowTypes
    <3>2. CASE q # p
      BY <1>3, <2>3, <3>2 DEF Later, F!At
    <3> QED
      BY <3>1, <3>2
  <2> QED
    BY <1>8, <2>1, <2>2, <2>3 DEF Later
<1>9. ReadInv'
  <2>1. ASSUME NEW q \in F!Projectors, F!At(q, "upsert"), q # p
        PROVE  /\ work'[q].at <= writes'
               /\ work'[q].at = writes' => work'[q].snap = Graph'
               /\ work'[q].snap = Graph' \/ Later(work[q].at)'
    <3>1. work'[q] = work[q] /\ work[q].at \in Nat /\ work[q].at <= writes
      BY <1>3, <2>1 DEF ForeshadowTypes, Project, ReadInv
    <3>2. Later(work[q].at) => Later(work[q].at)'
      BY <1>8, <3>1 DEF Later
    <3> QED
      BY <1>1, <1>7, <2>1, <3>1, <3>2 DEF ReadInv
  <2> QED
    BY <1>1, <1>3, <2>1 DEF ReadInv, F!At, ForeshadowTypes
<1>10. ShownInv'
  <2>1. CASE UNCHANGED <<row, shown, aside>>
    <3>1. Later(shown) => Later(shown)'
      BY <1>8, <2>1 DEF Later, ShownInv, ForeshadowTypes
    <3> QED
      BY <1>1, <1>4, <1>7, <2>1, <3>1 DEF ShownInv, IsShown
  <2>2. CASE row' = F!Shown(work[p].snap) /\ shown' = work[p].at
    <3>1. Later(work[p].at) => (Later(shown))'
      BY <1>2, <1>8, <2>2 DEF Later
    <3>2. work[p].snap = Graph => IsShown'
      BY <1>7, <2>2 DEF IsShown
    <3> QED
      BY <1>1, <1>2, <1>4, <2>2, <3>1, <3>2 DEF ShownInv, ReadInv
  <2> QED
    BY <1>1, <2>1, <2>2
<1> QED
  BY <1>5, <1>6, <1>9, <1>10

\* The reply to a request that deleted takes a row away that no graph has.
LEMMA ReplySent ==
  ASSUME ForeshadowInv, NEW p \in F!Projectors,
         F!Reply(p) \/ F!FailNode(p) \/ (p = Batch /\ F!NextChapter)
  PROVE  ForeshadowInv'
<1> USE DEF ForeshadowInv
<1>1. /\ work[p].pc \in {"write", "reply"} /\ UNCHANGED <<node, blank, writes, shown, newest, need, aside>>
      /\ \E new \in {F!Idle, [F!Idle EXCEPT !.pc = "reply"]} : work' = [work EXCEPT ![p] = new]
      /\ \/ row' = row
         \/ work[p].pc = "reply" /\ work[p].op = "delete" /\ row' = [row EXCEPT ![work[p].id] = "none"]
  BY DEF F!Reply, F!FailNode, F!NextChapter, F!Set, F!At
<1>2. /\ \A q \in F!Projectors \ {p} : work'[q] = work[q]
      /\ work'[p].pc \in {"idle", "reply"} /\ work'[p].op = "project"
  BY <1>1 DEF ForeshadowTypes, F!Idle
<1>3. ForeshadowTypes'
  <2>1. F!Idle \in Project /\ [F!Idle EXCEPT !.pc = "reply"] \in Project
    BY DEF Project, F!Idle, Ops
  <2> QED
    BY <1>1, <2>1 DEF ForeshadowTypes
<1>4. Ids' /\ MadeOnce' /\ GoneInv'
  BY <1>1, <1>2 DEF Ids, MadeOnce, GoneInv, F!At
<1>5. Graph' = Graph
  BY <1>1 DEF Graph, F!Showable, F!Alive
<1>6. IsShown => IsShown'
  <2>1. ASSUME IsShown, work[p].pc = "reply", work[p].op = "delete"
        PROVE  [row EXCEPT ![work[p].id] = "none"] = row
    <3>1. work[p].id \in Nodes /\ ~F!Alive(work[p].id)
      BY <2>1 DEF GoneInv, F!Alive, F!Status
    <3>2. row[work[p].id] = "none"
      <4>1. ~(work[p].id \in F!Showable)
        BY <3>1 DEF F!Showable
      <4> QED
        BY <2>1, <3>1, <4>1, ShownGraph DEF IsShown
    <3>3. row = [i \in Nodes \cup Plans |-> row[i]]
      BY <2>1 DEF IsShown, F!Shown
    <3> QED
      BY <3>1, <3>2, <3>3
  <2> QED
    BY <1>1, <1>5, <2>1 DEF IsShown
<1>7. \A n \in Nat : Later(n) => Later(n)'
  BY <1>1, <1>2, LaterStays DEF F!At, ForeshadowTypes
<1>8. ReadInv'
  BY <1>1, <1>2, <1>5, <1>7 DEF ReadInv, F!At, ForeshadowTypes, Project
<1>9. ShownInv'
  BY <1>1, <1>6, <1>7 DEF ShownInv, ForeshadowTypes
<1> QED
  BY <1>3, <1>4, <1>8, <1>9

LEMMA OutlineWrites ==
  ASSUME ForeshadowInv, F!InsertPlanned \/ F!ResolvePlanned \/ F!Aclose
  PROVE  ForeshadowInv'
<1> USE DEF ForeshadowInv
<1>1. /\ UNCHANGED <<node, blank, work, writes, shown, newest, need>>
      /\ aside' \/ UNCHANGED <<row, aside>>
      /\ aside' \in BOOLEAN /\ DOMAIN row' = DOMAIN row
  BY DEF F!InsertPlanned, F!ResolvePlanned, F!Aclose, ForeshadowTypes
<1>2. Graph' = Graph /\ \A n \in Nat : Later(n)' = Later(n)
  BY <1>1 DEF Graph, F!Showable, F!Alive, Later, F!At
<1>3. ForeshadowTypes' /\ Ids' /\ MadeOnce' /\ GoneInv'
  BY <1>1 DEF ForeshadowTypes, Ids, MadeOnce, GoneInv, F!At
<1>4. ReadInv' /\ ShownInv'
  BY <1>1, <1>2 DEF ReadInv, ShownInv, IsShown, F!At, Later
<1> QED
  BY <1>3, <1>4

LEMMA ForeshadowStep ==
  ASSUME ForeshadowInv, F!ForeshadowNext
  PROVE  ForeshadowInv'
<1>1. Batch \in F!Projectors /\ Requests \subseteq F!Projectors
  BY DEF F!Projectors
<1> QED
  BY <1>1, RequestStarts, NodeWritten, GraphRead, GraphShown, ReplySent, OutlineWrites
     DEF F!ForeshadowNext

\* When nobody is at work, the rows of the read model are the nodes of the graph
\* that can be shown, unless a projection that failed, one that had read the graph earlier or an
\* outline came last (_materialize_entities_to_postgres), for any requests,
\* nodes and number of writes.
THEOREM RowsAreNodes == ServicesSpec => []Reconciled
<1> DEFINE Inv == focus = "foreshadow" => ForeshadowInv
<1>1. ServicesInit => Inv
  BY ForeshadowStarts DEF ServicesInit, InitF
<1>2. Inv /\ [ServicesNext]_<<focus, chapterVars, revisionVars, routerVars, decompileVars,
                 timelineVars, foreshadowVars, usageVars, plannerVars, outlinesVars>> => Inv'
  <2>1. ASSUME Inv, focus = "foreshadow", F!ForeshadowNext, UNCHANGED focus
        PROVE  Inv'
    BY <2>1, ForeshadowStep
  <2>2. ASSUME Inv, UNCHANGED foreshadowVars, UNCHANGED focus
        PROVE  Inv'
    BY <2>2 DEF foreshadowVars, ForeshadowInv, ForeshadowTypes, Ids, MadeOnce, GoneInv, ReadInv,
                ShownInv, IsShown, Graph, Later, F!At, F!Showable, F!Alive
  <2> QED
    BY <2>1, <2>2 DEF ServicesNext, OthersRest
<1>3. Inv => Reconciled
  <2>1. ASSUME ForeshadowInv, \A p \in F!Projectors : F!At(p, "idle"), shown = newest,
               newest >= need, ~aside
        PROVE  \A i \in DOMAIN row : row[i] = IF i \in F!Showable THEN node[i] ELSE "none"
    <3>1. ~Later(shown)
      BY <2>1 DEF Later, F!At, ForeshadowInv, ForeshadowTypes
    <3>2. IsShown
      BY <2>1, <3>1 DEF ForeshadowInv, ShownInv
    <3> QED
      BY <2>1, <3>2, ShownGraph DEF IsShown, ForeshadowInv
  <2> QED
    BY <2>1 DEF Reconciled, F!Reconciled
<1> QED
  BY <1>1, <1>2, <1>3, PTL DEF ServicesSpec

-----------------------------------------------------------------------------
(* Outlines.                                                                *)
BookRow == [id : Nat, confirmed : BOOLEAN]
OutlineRow == [id : Nat, child : BOOLEAN]
VolumeRow == [by : Nat, copy : O!Copies]
ChapterRow == [vol : VolumeRow, idx : Indices, copy : O!Copies, by : Nat, full : BOOLEAN]
OutlineJob == [pc : {"idle", "book", "wait", "find", "count", "rows", "stream", "saved", "failed",
                     "chapter"},
               op : Nat, vol : VolumeRow, fresh : BOOLEAN, dead : SUBSET ChapterRow,
               gone : SUBSET OutlineRow, idx : Indices \cup {0}, parent : Nat, lost : BOOLEAN]

OutlineTypes ==
  /\ book \subseteq BookRow /\ outlines \subseteq OutlineRow /\ chapters \subseteq ChapterRow
  /\ volumes \subseteq VolumeRow /\ IsFiniteSet(volumes)
  /\ writer \in [Writers -> OutlineJob]
  /\ ops \in Nat /\ apart \in BOOLEAN /\ undone \in BOOLEAN /\ made \in BOOLEAN

AtMostOne(S) == S = {} \/ \E x \in S : S = {x}

\* There is one book outline, or none, and one that was made is there.
BookInv == AtMostOne(book) /\ (made => book # {})

Working(w) == writer[w].pc # "idle"
Alone == apart => \A v, w \in Writers : Working(v) /\ Working(w) => v = w

\* The second of two rows was made later, and not by the user.
Again(x, y) == x.by < y.by /\ y.by \notin posted

\* Rows have the number of the operation that made them.
BornInv ==
  /\ \A v \in volumes : v.by <= ops
  /\ \A c \in chapters : c.by <= ops
  /\ \A w \in Writers : writer[w].op <= ops /\ writer[w].vol.by <= ops

\* A writer that found no volume still finds none.
VolumeInv ==
  apart => /\ \A x, y \in volumes : ~Again(x, y)
           /\ \A w \in Writers :
                writer[w].pc \in {"book", "count", "rows"} /\ writer[w].fresh => volumes = {}

\* Where rows are about to be added there are none, but those of a regeneration
\* that are about to be deleted.
RoomInv ==
  apart => \A w \in Writers, c \in chapters :
    /\ writer[w].pc = "rows" => c.vol # writer[w].vol
    /\ writer[w].pc = "stream" => c \in writer[w].dead \/ c.vol # writer[w].vol

DeadInv ==
  \A w \in Writers :
    writer[w].pc \in {"stream", "saved", "failed"} /\ writer[w].fresh => writer[w].dead = {}

\* A number was given again: a regeneration has saved, and will delete one row.
Twins(c, d) == c.vol = d.vol /\ c.idx = d.idx /\ Again(c, d)
TwinInv ==
  apart /\ ~undone => \A c, d \in chapters : Twins(c, d) =>
    \E w \in Writers : writer[w].pc = "saved" /\ (c \in writer[w].dead \/ d \in writer[w].dead)

RowInv == Alone /\ BornInv /\ VolumeInv /\ RoomInv /\ DeadInv /\ TwinInv
OutlineInv == OutlineTypes /\ BookInv /\ RowInv

LEMMA CountOne ==
  ASSUME NEW S, AtMostOne(S)
  PROVE  IsFiniteSet(S) /\ Cardinality(S) <= 1
<1>1. CASE S = {}
  BY <1>1, FS_EmptySet
<1>2. CASE \E x \in S : S = {x}
  BY <1>2, FS_Singleton
<1> QED
  BY <1>1, <1>2 DEF AtMostOne

LEMMA OneCounted ==
  ASSUME NEW S, IsFiniteSet(S), ~(Cardinality(S) > 1), S # {}
  PROVE  \E x \in S : S = {x}
<1>1. PICK x \in S : TRUE
  OBVIOUS
<1>2. IsFiniteSet(S \ {x}) /\ Cardinality(S \ {x}) = Cardinality(S) - 1
  BY <1>1, FS_RemoveElement
<1>3. Cardinality(S) \in Nat /\ Cardinality(S \ {x}) \in Nat
  BY <1>2, FS_CardinalityType
<1>4. S \ {x} = {}
  BY <1>2, <1>3, FS_EmptySet
<1> QED
  BY <1>1, <1>4

LEMMA SameCount ==
  ASSUME NEW S
  PROVE  O!Cardinality(S) = Cardinality(S)
BY DEF O!Cardinality, Cardinality

-----------------------------------------------------------------------------
LEMMA IdleType == O!Idle \in OutlineJob /\ O!Idle.pc = "idle" /\ O!Idle.op = 0 /\ O!Idle.vol.by = 0
BY DEF O!Idle, O!NoVolume, O!Copies, OutlineJob, VolumeRow

\* The row of a writer that starts keeps its type.
LEMMA StartTypes ==
  ASSUME OutlineTypes, NEW w \in Writers, NEW r \in OutlineJob, O!Start(w, r)
  PROVE  /\ writer' \in [Writers -> OutlineJob] /\ ops' \in Nat /\ apart' \in BOOLEAN
         /\ \A v \in Writers \ {w} : writer'[v] = writer[v]
         /\ ~Working(w) /\ (apart' => apart /\ \A v \in Writers : ~Working(v))
         /\ writer'[w] \in OutlineJob /\ writer'[w].op <= ops' /\ ops' = ops + 1
         /\ \/ writer'[w].pc = "idle" /\ writer'[w].vol.by = 0
            \/ /\ writer'[w].pc = r.pc /\ writer'[w].fresh = r.fresh
               /\ writer'[w].vol = r.vol /\ writer'[w].dead = r.dead
<1>1. O!Idle \in OutlineJob /\ [r EXCEPT !.op = ops + 1] \in OutlineJob /\ O!Idle.pc = "idle"
      /\ O!Idle.op = 0 /\ O!Idle.vol.by = 0 /\ ops \in Nat
  BY IdleType DEF OutlineJob, OutlineTypes
<1>2. PICK new \in OutlineJob :
        /\ writer' = [writer EXCEPT ![w] = new] /\ new.op <= ops + 1
        /\ \/ new.pc = "idle" /\ new.vol.by = 0
           \/ /\ new.pc = r.pc /\ new.fresh = r.fresh
              /\ new.vol = r.vol /\ new.dead = r.dead
  <2>1. CASE r.pc = "idle"
    <3>1. writer' = [writer EXCEPT ![w] = O!Idle]
      BY <2>1 DEF O!Start, O!Set
    <3>2. O!Idle.op <= ops + 1
      BY <1>1
    <3> QED
      BY <1>1, <3>1, <3>2
  <2>2. CASE r.pc # "idle"
    <3> DEFINE new == [r EXCEPT !.op = ops + 1]
    <3>1. /\ new.pc = r.pc /\ new.fresh = r.fresh /\ new.vol = r.vol /\ new.dead = r.dead
          /\ new.op <= ops + 1
      BY <1>1 DEF OutlineJob
    <3>2. writer' = [writer EXCEPT ![w] = new]
      BY <2>2 DEF O!Start, O!Set
    <3>3. new \in OutlineJob
      BY <1>1
    <3> HIDE DEF new
    <3> QED
      BY <3>1, <3>2, <3>3
  <2> QED
    BY <2>1, <2>2
<1>3. /\ ~Working(w) /\ ops' \in Nat /\ apart' \in BOOLEAN
      /\ apart' => apart /\ \A v \in Writers : ~Working(v)
  <2>1. ~Working(w) /\ ops' = ops + 1
    BY DEF O!Start, O!At, Working
  <2>2. apart' = (apart /\ \A v \in Writers : ~Working(v))
    BY DEF O!Start, O!At, Working
  <2>3. PICK b \in BOOLEAN : b = (apart /\ \A v \in Writers : ~Working(v))
    OBVIOUS
  <2>4. apart' \in BOOLEAN
    BY <2>2, <2>3
  <2>5. apart' => apart /\ \A v \in Writers : ~Working(v)
    BY <2>2
  <2>6. ops' \in Nat
    BY <2>1 DEF OutlineTypes
  <2> QED
    BY <2>1, <2>4, <2>5, <2>6
<1>4. ops' = ops + 1
  BY DEF O!Start
<1> QED
  BY <1>2, <1>3, <1>4 DEF OutlineTypes

\* An operation starts: it may take rows away, or add those the user asks for.
LEMMA RowsStart ==
  ASSUME OutlineInv, NEW w \in Writers, NEW r \in OutlineJob, O!Start(w, r),
         r.pc \in {"idle", "book", "wait", "find", "stream", "chapter"},
         r.pc = "book" /\ r.fresh => volumes' = {},
         r.pc = "stream" => /\ r.dead = {c \in chapters : c.vol = r.vol} /\ ~r.fresh
                            /\ chapters' = chapters,
         \A v \in volumes' \ volumes : v.by = ops + 1 /\ v.by \in posted',
         \A c \in chapters' \ chapters : c.by = ops + 1 /\ c.by \in posted',
         posted \subseteq posted', undone' = undone, r.vol.by <= ops
  PROVE  RowInv'
<1> USE StartTypes DEF OutlineInv, RowInv
<1>1. Alone'
  BY DEF Alone, Working
<1>2. BornInv'
  <2>1. /\ ops \in Nat /\ ops' = ops + 1 /\ writer \in [Writers -> OutlineJob]
        /\ volumes \subseteq VolumeRow /\ chapters \subseteq ChapterRow
    BY DEF OutlineTypes
  <2>2. \A v \in volumes' : v.by <= ops'
    BY <2>1 DEF BornInv, VolumeRow
  <2>3. \A c \in chapters' : c.by <= ops'
    BY <2>1 DEF BornInv, ChapterRow
  <2>4. \A v \in Writers : writer'[v].op <= ops' /\ writer'[v].vol.by <= ops'
    BY <2>1 DEF BornInv, OutlineJob, VolumeRow
  <2> QED
    BY <2>2, <2>3, <2>4 DEF BornInv
<1>3. /\ \A x, y \in volumes' : Again(x, y)' => x \in volumes /\ y \in volumes /\ Again(x, y)
      /\ \A x, y \in chapters' : Again(x, y)' => x \in chapters /\ y \in chapters /\ Again(x, y)
  BY DEF Again, BornInv, OutlineTypes, VolumeRow, ChapterRow
<1>4. VolumeInv'
  BY <1>3 DEF VolumeInv, Working
<1>5. RoomInv'
  BY DEF RoomInv, Working
<1>6. DeadInv'
  BY DEF DeadInv
<1>7. TwinInv'
  BY <1>3 DEF TwinInv, Twins, Working
<1> QED
  BY <1>1, <1>2, <1>4, <1>5, <1>6, <1>7

\* A step of a running operation that leaves the rows alone.
LEMMA RowsKept ==
  ASSUME OutlineInv, NEW w \in Writers, Working(w),
         UNCHANGED <<volumes, chapters, ops, posted, apart>>, undone => undone',
         \A v \in Writers \ {w} : writer'[v] = writer[v], writer'[w].op <= ops, writer'[w].vol.by <= ops,
         writer'[w].pc \in {"book", "count", "rows"} /\ writer'[w].fresh /\ apart => volumes = {},
         writer'[w].pc = "rows" /\ apart => \A c \in chapters : c.vol # writer'[w].vol,
         writer'[w].pc = "stream" => UNCHANGED writer,
         writer'[w].pc \in {"saved", "failed"} =>
           writer'[w].dead = writer[w].dead /\ writer'[w].fresh = writer[w].fresh
             /\ writer[w].pc \in {"stream", "saved", "failed"},
         writer[w].pc = "saved" => writer'[w].pc = "saved" \/ undone' \/ writer[w].dead = {}
  PROVE  RowInv'
<1> USE DEF OutlineInv, RowInv
<1>1. Alone'
  BY DEF Alone, Working
<1>2. VolumeInv'
  BY DEF VolumeInv, Again
<1>3. RoomInv'
  BY DEF RoomInv
<1>4. DeadInv'
  BY DEF DeadInv
<1>5. TwinInv'
  BY DEF TwinInv, Twins, Again
<1>6. BornInv'
  BY DEF BornInv
<1> QED
  BY <1>1, <1>2, <1>3, <1>4, <1>5, <1>6

\* A running operation sets its locals, or goes on to its next step.
LEMMA LocalsSet ==
  ASSUME OutlineTypes, NEW w \in Writers, NEW new \in OutlineJob, O!Set(w, new)
  PROVE  /\ writer' \in [Writers -> OutlineJob] /\ writer'[w] = new
         /\ \A v \in Writers \ {w} : writer'[v] = writer[v]
BY DEF O!Set, OutlineTypes

LEMMA StepTaken ==
  ASSUME OutlineTypes, NEW w \in Writers,
         NEW step \in {"rows", "failed", "saved"}, O!Go(w, step)
  PROVE  /\ writer' \in [Writers -> OutlineJob]
         /\ \A v \in Writers \ {w} : writer'[v] = writer[v]
         /\ writer'[w].pc = step /\ writer'[w].vol = writer[w].vol
         /\ writer'[w].fresh = writer[w].fresh /\ writer'[w].dead = writer[w].dead
         /\ writer'[w].op = writer[w].op
<1> DEFINE new == [writer[w] EXCEPT !.pc = step]
<1>1. /\ new \in OutlineJob /\ new.pc = step /\ new.vol = writer[w].vol
      /\ new.fresh = writer[w].fresh /\ new.dead = writer[w].dead /\ new.op = writer[w].op
  BY DEF OutlineTypes, OutlineJob
<1>2. O!Set(w, new)
  BY DEF O!Go
<1> HIDE DEF new
<1> QED
  BY <1>1, <1>2, LocalsSet

-----------------------------------------------------------------------------
\* A row that the user adds.
LEMMA RowAdded ==
  ASSUME O!OutlinesAssumption, OutlineInv, NEW w \in Writers,
         O!CreateVolume(w) \/ O!CreateChapter(w) \/ O!DeleteVolume(w)
  PROVE  OutlineInv'
<1> USE DEF OutlineInv
<1>1. O!Start(w, O!Idle) /\ UNCHANGED <<book, outlines, undone, made>> /\ ops \in Nat
  BY DEF O!CreateVolume, O!CreateChapter, O!DeleteVolume, OutlineTypes
<1>2. CASE O!CreateVolume(w)
  <2> DEFINE new == [by |-> ops + 1, copy |-> 1]
  <2>1. /\ volumes' = volumes \cup {new} /\ posted' = posted \cup {ops + 1}
        /\ chapters' = chapters
    BY <1>2 DEF O!CreateVolume
  <2>2. new.by = ops + 1 /\ new \in VolumeRow
    BY <1>1 DEF VolumeRow, O!Copies
  <2> HIDE DEF new
  <2>3. volumes' \subseteq VolumeRow /\ IsFiniteSet(volumes')
    BY <2>1, <2>2, FS_AddElement DEF OutlineTypes
  <2>4. RowInv'
    BY <1>1, <2>1, <2>2, IdleType, RowsStart
  <2> QED
    BY <1>1, <2>1, <2>3, <2>4, IdleType, StartTypes DEF OutlineTypes, BookInv
<1>3. CASE O!CreateChapter(w)
  <2>1. PICK v \in volumes, i \in Indices : chapters' = chapters \cup {O!Row(v, i, 1, ops + 1)}
    BY <1>3 DEF O!CreateChapter
  <2> DEFINE new == O!Row(v, i, 1, ops + 1)
  <2>2. /\ chapters' = chapters \cup {new} /\ posted' = posted \cup {ops + 1}
        /\ volumes' = volumes
    BY <1>3, <2>1 DEF O!CreateChapter
  <2>3. v \in VolumeRow
    BY DEF OutlineTypes
  <2>4. new.by = ops + 1 /\ new \in ChapterRow
    BY <1>1, <2>3 DEF O!Row, ChapterRow, O!Copies
  <2> HIDE DEF new
  <2>5. RowInv'
    BY <1>1, <2>2, <2>4, IdleType, RowsStart
  <2> QED
    BY <1>1, <2>2, <2>4, <2>5, IdleType, StartTypes DEF OutlineTypes, BookInv
<1>4. CASE O!DeleteVolume(w)
  <2>1. volumes' \subseteq volumes /\ chapters' \subseteq chapters /\ posted' = posted
    BY <1>4 DEF O!DeleteVolume
  <2>2. RowInv'
    BY <1>1, <2>1, IdleType, RowsStart
  <2>3. IsFiniteSet(volumes')
    BY <2>1, FS_Subset DEF OutlineTypes
  <2> QED
    BY <1>1, <2>1, <2>2, <2>3, IdleType, StartTypes DEF OutlineTypes, BookInv
<1> QED
  BY <1>2, <1>3, <1>4

\* The operations that start.
LEMMA OutlineOpens ==
  ASSUME O!OutlinesAssumption, OutlineInv, NEW w \in Writers,
         O!BookTask(w) \/ O!BookStream(w) \/ O!VolumeStream(w) \/ O!Regenerate(w)
         \/ O!ChapterStream(w) \/ O!CreateVolume(w)
         \/ O!CreateChapter(w) \/ O!DeleteVolume(w)
  PROVE  OutlineInv'
<1> USE DEF OutlineInv
<1>1. CASE O!BookTask(w)
  <2> DEFINE r == [O!Idle EXCEPT !.pc = IF bookLocker = Nobody THEN "book" ELSE "wait",
                                 !.fresh = volumes = {}]
  <2>1. r \in OutlineJob /\ r.pc \in {"book", "wait"} /\ (r.fresh => volumes = {})
        /\ r.vol.by = 0
    BY IdleType DEF O!Idle, OutlineJob
  <2>2. O!Start(w, r) /\ UNCHANGED <<book, outlines, volumes, chapters, posted, undone, made>>
    BY <1>1 DEF O!BookTask
  <2> HIDE DEF r
  <2>3. RowInv'
    BY <2>1, <2>2, RowsStart DEF OutlineTypes
  <2>4. OutlineTypes' /\ BookInv'
    BY <2>1, <2>2, StartTypes DEF OutlineTypes, BookInv
  <2> QED
    BY <2>3, <2>4
<1>2. CASE O!BookStream(w)
  <2>1. /\ O!Start(w, O!Idle) /\ UNCHANGED <<outlines, volumes, chapters, posted, undone>> /\ made'
        /\ made' \in BOOLEAN
        /\ book' = IF book = {} THEN {[id |-> ops + 1, confirmed |-> FALSE]} ELSE book
    BY <1>2 DEF O!BookStream
  <2>2. RowInv'
    BY <2>1, IdleType, RowsStart DEF OutlineTypes
  <2>3. book' \subseteq BookRow /\ AtMostOne(book') /\ book' # {}
    <3>1. CASE book = {}
      <4> DEFINE b == [id |-> ops + 1, confirmed |-> FALSE]
      <4>1. b \in BookRow
        BY DEF OutlineTypes, BookRow
      <4>2. book' = {b}
        BY <2>1, <3>1
      <4> HIDE DEF b
      <4> QED
        BY <4>1, <4>2 DEF AtMostOne
    <3>2. CASE book # {}
      BY <2>1, <3>2 DEF BookInv, OutlineTypes
    <3> QED
      BY <3>1, <3>2
  <2>4. OutlineTypes' /\ BookInv'
    BY <2>1, <2>3, IdleType, StartTypes DEF OutlineTypes, BookInv, AtMostOne
  <2> QED
    BY <2>2, <2>4
<1>3. CASE O!VolumeStream(w)
  <2> DEFINE r == [O!Idle EXCEPT !.pc = "find"]
  <2>1. r \in OutlineJob /\ r.pc = "find" /\ r.vol.by = 0
    BY IdleType DEF O!Idle, OutlineJob
  <2>2. /\ O!Start(w, r) /\ UNCHANGED <<book, volumes, chapters, posted, undone, made>>
        /\ \E child \in BOOLEAN : outlines' = outlines \cup {[id |-> ops + 1, child |-> child]}
    BY <1>3 DEF O!VolumeStream
  <2> HIDE DEF r
  <2>3. RowInv'
    BY <2>1, <2>2, RowsStart DEF OutlineTypes
  <2>4. OutlineTypes' /\ BookInv'
    BY <2>1, <2>2, StartTypes DEF OutlineTypes, OutlineRow, BookInv
  <2> QED
    BY <2>3, <2>4
<1>4. CASE O!Regenerate(w)
  <2>1. PICK v \in volumes, b \in book :
          O!Start(w, [O!Idle EXCEPT !.pc = "stream", !.vol = v, !.parent = b.id,
                                    !.dead = {c \in chapters : c.vol = v},
                                    !.gone = {o \in outlines : o.child}])
    BY <1>4 DEF O!Regenerate
  <2> DEFINE r == [O!Idle EXCEPT !.pc = "stream", !.vol = v, !.parent = b.id,
                                 !.dead = {c \in chapters : c.vol = v},
                                 !.gone = {o \in outlines : o.child}]
  <2>2. v \in VolumeRow /\ v.by <= ops /\ b.id \in Nat /\ {c \in chapters : c.vol = v} \in SUBSET ChapterRow
        /\ {o \in outlines : o.child} \in SUBSET OutlineRow
    BY DEF OutlineTypes, BookRow, RowInv, BornInv
  <2>3. /\ r \in OutlineJob /\ r.pc = "stream" /\ r.vol = v /\ ~r.fresh
        /\ r.dead = {c \in chapters : c.vol = v}
    BY <2>2 DEF O!Idle, OutlineJob
  <2>4. O!Start(w, r) /\ UNCHANGED <<book, outlines, volumes, chapters, posted, undone, made>>
    BY <1>4, <2>1 DEF O!Regenerate
  <2> HIDE DEF r
  <2>5. RowInv'
    BY <2>2, <2>3, <2>4, RowsStart
  <2>6. OutlineTypes' /\ BookInv'
    BY <2>3, <2>4, StartTypes DEF OutlineTypes, BookInv
  <2> QED
    BY <2>5, <2>6
<1>5. CASE O!ChapterStream(w)
  <2>1. PICK i \in Indices : O!Start(w, [O!Idle EXCEPT !.pc = "chapter", !.idx = i])
    BY <1>5 DEF O!ChapterStream
  <2> DEFINE r == [O!Idle EXCEPT !.pc = "chapter", !.idx = i]
  <2>2. r \in OutlineJob /\ r.pc = "chapter" /\ r.vol.by = 0
    BY IdleType DEF O!Idle, OutlineJob
  <2>3. O!Start(w, r) /\ UNCHANGED <<book, outlines, volumes, chapters, posted, undone, made>>
    BY <1>5, <2>1 DEF O!ChapterStream
  <2> HIDE DEF r
  <2>4. RowInv'
    BY <2>2, <2>3, RowsStart DEF OutlineTypes
  <2>5. OutlineTypes' /\ BookInv'
    BY <2>2, <2>3, StartTypes DEF OutlineTypes, BookInv
  <2> QED
    BY <2>4, <2>5
<1>6. CASE O!CreateVolume(w) \/ O!CreateChapter(w) \/ O!DeleteVolume(w)
  BY <1>6, RowAdded
<1> QED
  BY <1>1, <1>2, <1>3, <1>4, <1>5, <1>6

-----------------------------------------------------------------------------
\* As long as operations do not overlap, the others rest.
LEMMA OthersIdle ==
  ASSUME Alone, apart, NEW w \in Writers, Working(w)
  PROVE  \A v \in Writers \ {w} : writer[v].pc = "idle"
BY DEF Alone, Working

\* Then no two rows share a number, unless this one has saved.
LEMMA NoTwinYet ==
  ASSUME OutlineInv, apart, ~undone, NEW w \in Writers, Working(w), writer[w].pc # "saved"
  PROVE  \A c, d \in chapters : ~Twins(c, d)
BY OthersIdle DEF OutlineInv, RowInv, TwinInv

\* An operation ends.
LEMMA OperationEnds ==
  ASSUME OutlineInv, NEW w \in Writers, Working(w), O!Set(w, O!Idle),
         UNCHANGED <<volumes, chapters, ops, posted, apart>>, undone => undone',
         writer[w].pc = "saved" => undone' \/ writer[w].dead = {}
  PROVE  RowInv' /\ writer' \in [Writers -> OutlineJob]
<1>1. /\ writer' \in [Writers -> OutlineJob] /\ writer'[w].pc = "idle" /\ writer'[w].op <= ops
      /\ writer'[w].vol.by <= ops
      /\ \A v \in Writers \ {w} : writer'[v] = writer[v]
  BY IdleType, LocalsSet DEF OutlineInv, OutlineTypes
<1> QED
  BY <1>1, RowsKept

\* The book outline of a task is committed.
LEMMA BookCommitted ==
  ASSUME OutlineInv, NEW w \in Writers, O!CommitBook(w)
  PROVE  OutlineInv'
<1> DEFINE new(v) == IF v = w THEN O!Idle
                     ELSE IF writer[v].pc = "wait" THEN [writer[v] EXCEPT !.lost = TRUE] ELSE writer[v]
<1>1. /\ writer[w].pc = "book" /\ writer' = [v \in Writers |-> new(v)]
      /\ UNCHANGED <<chapters, ops, posted, apart, undone>>
      /\ \E n \in O!Copies :
           volumes' = IF writer[w].fresh
                      THEN volumes \cup {[by |-> writer[w].op, copy |-> i] : i \in 1 .. n} ELSE volumes
      /\ book' = {[id |-> writer[w].op, confirmed |-> FALSE]} /\ made' = TRUE
      /\ outlines' = O!Orphaned
  BY DEF O!CommitBook, O!At
<1>2. /\ writer[w].op \in Nat /\ writer \in [Writers -> OutlineJob]
      /\ \A v \in Writers : writer[v] \in OutlineJob
  BY DEF OutlineInv, OutlineTypes, OutlineJob
<1>3. \A v \in Writers : new(v) \in OutlineJob
  BY <1>2, IdleType DEF OutlineJob
<1>4. \A v \in Writers \ {w} :
        /\ new(v).pc = writer[v].pc /\ new(v).dead = writer[v].dead
        /\ new(v).fresh = writer[v].fresh /\ new(v).vol = writer[v].vol
        /\ new(v).op = writer[v].op
  BY <1>2 DEF OutlineJob
<1>5. new(w).pc = "idle" /\ new(w).op = 0 /\ new(w).vol.by = 0
  BY IdleType
<1> HIDE DEF new
<1>6. /\ writer' \in [Writers -> OutlineJob] /\ \A v \in Writers : writer'[v] = new(v)
  BY <1>1, <1>3
<1>10. PICK added \in SUBSET VolumeRow :
         /\ volumes' = volumes \cup added /\ IsFiniteSet(added)
         /\ \A v \in added : v.by = writer[w].op
         /\ ~writer[w].fresh => added = {}
  <2>1. PICK n \in O!Copies :
          volumes' = IF writer[w].fresh
                     THEN volumes \cup {[by |-> writer[w].op, copy |-> i] : i \in 1 .. n} ELSE volumes
    BY <1>1
  <2> DEFINE one == [by |-> writer[w].op, copy |-> 1]
             two == [by |-> writer[w].op, copy |-> 2]
  <2>2. /\ one \in VolumeRow /\ one.by = writer[w].op /\ two \in VolumeRow /\ two.by = writer[w].op
    BY <1>2 DEF VolumeRow, O!Copies
  <2>3. {[by |-> writer[w].op, copy |-> i] : i \in 1 .. n} \in {{one}, {one, two}}
    <3>1. CASE n = 1
      <4>1. 1 .. n = {1}
        BY <3>1
      <4> QED
        BY <4>1
    <3>2. CASE n = 2
      <4>1. 1 .. n = {1, 2}
        BY <3>2
      <4> QED
        BY <4>1
    <3> QED
      BY <3>1, <3>2 DEF O!Copies
  <2> HIDE DEF one, two
  <2>4. IsFiniteSet({one}) /\ IsFiniteSet({one, two})
    <3>1. IsFiniteSet({one})
      BY FS_Singleton
    <3>2. {one, two} = {one} \cup {two}
      OBVIOUS
    <3> QED
      BY <3>1, <3>2, FS_AddElement
  <2>5. CASE writer[w].fresh
    BY <2>1, <2>2, <2>3, <2>4, <2>5
  <2>6. CASE ~writer[w].fresh
    BY <2>1, <2>6, FS_EmptySet
  <2> QED
    BY <2>5, <2>6
<1>7. OutlineTypes'
  <2>1. book' \subseteq BookRow
    BY <1>1, <1>2 DEF BookRow
  <2>2. outlines' \subseteq OutlineRow
    BY <1>1 DEF O!Orphaned, OutlineRow, OutlineInv, OutlineTypes
  <2>3. volumes' \subseteq VolumeRow /\ IsFiniteSet(volumes')
    BY <1>10, FS_Union DEF OutlineInv, OutlineTypes
  <2> QED
    BY <1>1, <1>6, <2>1, <2>2, <2>3 DEF OutlineInv, OutlineTypes
<1>8. BookInv'
  BY <1>1 DEF BookInv, AtMostOne
<1>9. RowInv'
  <2>1. Alone'
    BY <1>1, <1>4, <1>5, <1>6 DEF OutlineInv, RowInv, Alone, Working
  <2>2. VolumeInv'
    <3>1. SUFFICES ASSUME apart PROVE  /\ \A x, y \in volumes' : ~Again(x, y)
                                        /\ \A v \in Writers : writer'[v].pc = "idle"
      BY <1>1 DEF VolumeInv, Again
    <3>2. \A v \in Writers : writer'[v].pc = "idle"
      BY <1>1, <1>4, <1>5, <1>6, <3>1, OthersIdle DEF OutlineInv, RowInv, Working
    <3>3. \A x, y \in volumes' : ~Again(x, y)
      <4>1. added = {} \/ volumes = {}
        BY <1>1, <1>10, <3>1 DEF OutlineInv, RowInv, VolumeInv
      <4>2. \A x, y \in added : ~Again(x, y)
        BY <1>2, <1>10 DEF Again
      <4> QED
        BY <1>10, <3>1, <4>1, <4>2 DEF OutlineInv, RowInv, VolumeInv
    <3> QED
      BY <3>2, <3>3
  <2>3. RoomInv'
    BY <1>1, <1>4, <1>5, <1>6 DEF OutlineInv, RowInv, RoomInv
  <2>4. DeadInv'
    BY <1>4, <1>5, <1>6 DEF OutlineInv, RowInv, DeadInv
  <2>5. TwinInv'
    BY <1>1, <1>4, <1>5, <1>6 DEF OutlineInv, RowInv, TwinInv, Twins, Again
  <2>6. BornInv'
    <3>1. \A v \in volumes' : v.by <= ops
      BY <1>10 DEF OutlineInv, RowInv, BornInv
    <3>2. \A v \in Writers : writer'[v].op <= ops /\ writer'[v].vol.by <= ops
      BY <1>4, <1>5, <1>6 DEF OutlineInv, OutlineTypes, RowInv, BornInv
    <3> QED
      BY <1>1, <3>1, <3>2 DEF OutlineInv, RowInv, BornInv
  <2> QED
    BY <2>1, <2>2, <2>3, <2>4, <2>5, <2>6 DEF RowInv
<1> QED
  BY <1>7, <1>8, <1>9 DEF OutlineInv

\* A task waits for its book outline, or gives it up.
LEMMA BookAwaited ==
  ASSUME OutlineInv, NEW w \in Writers, O!AbortBook(w) \/ O!WaitBook(w)
  PROVE  OutlineInv'
<1>1. /\ writer[w].pc \in {"book", "wait"}
      /\ UNCHANGED <<book, outlines, volumes, chapters, ops, posted, apart, undone, made>>
      /\ O!Set(w, O!Idle) \/ O!Set(w, [writer[w] EXCEPT !.pc = "book", !.fresh = volumes = {}])
  BY DEF O!AbortBook, O!WaitBook, O!At
<1>2. Working(w)
  BY <1>1 DEF Working
<1>3. RowInv' /\ writer' \in [Writers -> OutlineJob]
  <2>1. CASE O!Set(w, O!Idle)
    BY <1>1, <1>2, <2>1, OperationEnds
  <2>2. CASE O!Set(w, [writer[w] EXCEPT !.pc = "book", !.fresh = volumes = {}])
    <3> DEFINE new == [writer[w] EXCEPT !.pc = "book", !.fresh = volumes = {}]
    <3>1. /\ new \in OutlineJob /\ new.pc = "book" /\ (new.fresh => volumes = {})
          /\ new.op <= ops /\ new.vol.by <= ops
      BY DEF OutlineInv, OutlineTypes, OutlineJob, RowInv, BornInv
    <3> HIDE DEF new
    <3>2. /\ writer' \in [Writers -> OutlineJob] /\ writer'[w] = new
          /\ \A v \in Writers \ {w} : writer'[v] = writer[v]
      BY <2>2, <3>1, LocalsSet DEF new, OutlineInv
    <3>3. RowInv'
      BY <1>1, <1>2, <3>1, <3>2, RowsKept
    <3> QED
      BY <3>2, <3>3
  <2> QED
    BY <1>1, <2>1, <2>2
<1> QED
  BY <1>1, <1>3 DEF OutlineInv, OutlineTypes, BookInv

\* A stream finds its volume and whether it has chapters.
LEMMA VolumeFound ==
  ASSUME OutlineInv, NEW w \in Writers, O!FindVolume(w) \/ O!CountChapters(w)
  PROVE  OutlineInv'
<1>1. /\ writer[w].pc \in {"find", "count"} /\ Working(w)
      /\ UNCHANGED <<book, outlines, volumes, chapters, ops, posted, apart, undone, made>>
  BY DEF O!FindVolume, O!CountChapters, O!At, Working
<1>2. RowInv' /\ writer' \in [Writers -> OutlineJob]
  <2>1. CASE O!Set(w, O!Idle)
    BY <1>1, <2>1, OperationEnds
  <2>2. CASE O!FindVolume(w) /\ ~(Cardinality(volumes) > 1)
    <3> DEFINE vol == IF volumes = {} THEN [by |-> writer[w].op, copy |-> 1]
                      ELSE CHOOSE v \in volumes : TRUE
               new == [writer[w] EXCEPT !.pc = "count", !.fresh = volumes = {}, !.vol = vol]
    <3>1. ~(Cardinality(volumes) > 1) /\ O!Set(w, new)
      BY <2>2, SameCount, Zenon DEF O!FindVolume
    <3>2. vol \in VolumeRow /\ vol.by <= ops
      <4>1. CASE volumes = {}
        BY <4>1 DEF OutlineInv, OutlineTypes, OutlineJob, VolumeRow, O!Copies, RowInv, BornInv
      <4>2. CASE volumes # {}
        BY <4>2 DEF OutlineInv, OutlineTypes, RowInv, BornInv
      <4> QED
        BY <4>1, <4>2
    <3> HIDE DEF vol
    <3>3. /\ new \in OutlineJob /\ new.pc = "count" /\ (new.fresh => volumes = {})
          /\ new.op <= ops /\ new.vol.by <= ops
      BY <3>2 DEF OutlineInv, OutlineTypes, OutlineJob, RowInv, BornInv
    <3> HIDE DEF new
    <3>4. /\ writer' \in [Writers -> OutlineJob] /\ writer'[w] = new
          /\ \A v \in Writers \ {w} : writer'[v] = writer[v]
      BY <3>1, <3>3, LocalsSet DEF OutlineInv
    <3>5. RowInv'
      BY <1>1, <3>3, <3>4, RowsKept
    <3> QED
      BY <3>4, <3>5
  <2>3. CASE O!CountChapters(w) /\ ~\E c \in chapters : c.vol = writer[w].vol
    <3>1. /\ writer[w].pc = "count" /\ O!Go(w, "rows")
          /\ \A c \in chapters : c.vol # writer[w].vol
      BY <2>3 DEF O!CountChapters, O!At
    <3>2. /\ writer' \in [Writers -> OutlineJob]
          /\ \A v \in Writers \ {w} : writer'[v] = writer[v]
          /\ writer'[w].pc = "rows" /\ writer'[w].vol = writer[w].vol
          /\ writer'[w].fresh = writer[w].fresh /\ writer'[w].dead = writer[w].dead
          /\ writer'[w].op <= ops /\ writer'[w].vol.by <= ops
      BY <3>1, StepTaken DEF OutlineInv, RowInv, BornInv
    <3>3. writer[w].fresh /\ apart => volumes = {}
      BY <3>1 DEF OutlineInv, RowInv, VolumeInv
    <3>4. RowInv'
      BY <1>1, <3>1, <3>2, <3>3, RowsKept
    <3> QED
      BY <3>2, <3>4
  <2>4. CASE O!FindVolume(w) /\ Cardinality(volumes) > 1
    BY <2>1, <2>4, SameCount, Zenon DEF O!FindVolume
  <2>5. CASE O!CountChapters(w) /\ \E c \in chapters : c.vol = writer[w].vol
    BY <2>1, <2>5, Zenon DEF O!CountChapters
  <2> QED
    BY <2>2, <2>3, <2>4, <2>5
<1> QED
  BY <1>1, <1>2 DEF OutlineInv, OutlineTypes, BookInv

\* A new row has the volume and the number of its writer.
LEMMA RowFacts ==
  ASSUME OutlineTypes, BornInv, NEW w \in Writers, NEW v \in VolumeRow, NEW twice \in SUBSET Indices
  PROVE  /\ O!Rows(w, v, twice) \subseteq ChapterRow
         /\ \A c \in O!Rows(w, v, twice) : c.vol = v /\ c.by <= ops
         /\ \A c, d \in O!Rows(w, v, twice) : ~Twins(c, d)
<1>1. writer[w].op \in Nat /\ writer[w].op <= ops
  BY DEF OutlineTypes, OutlineJob, BornInv
<1>2. ASSUME NEW c \in O!Rows(w, v, twice)
      PROVE  c \in ChapterRow /\ c.vol = v /\ c.by = writer[w].op
  <2>1. PICK i \in Indices, n \in {1, 2} :
          c = [vol |-> v, idx |-> i, copy |-> n, by |-> writer[w].op, full |-> FALSE]
    BY <1>2 DEF O!Rows, O!Row
  <2> QED
    BY <1>1, <2>1 DEF ChapterRow, O!Copies
<1>3. \A c, d \in O!Rows(w, v, twice) : ~Twins(c, d)
  BY <1>1, <1>2 DEF Twins, Again
<1> QED
  BY <1>1, <1>2, <1>3

\* A streamed volume outline commits its volume and its chapters.
LEMMA RowsCommitted ==
  ASSUME OutlineInv, NEW w \in Writers, O!CommitRows(w)
  PROVE  OutlineInv'
<1>1. /\ writer[w].pc = "rows" /\ Working(w) /\ O!Set(w, O!Idle)
      /\ UNCHANGED <<book, outlines, ops, posted, apart, undone, made>>
  BY DEF O!CommitRows, O!At, Working
<1>2. CASE UNCHANGED <<volumes, chapters>>
  BY <1>1, <1>2, OperationEnds DEF OutlineInv, OutlineTypes, BookInv
<1>3. CASE ~UNCHANGED <<volumes, chapters>>
  <2> DEFINE vol == writer[w].vol
  <2>1. PICK twice \in SUBSET Indices :
          /\ writer[w].fresh \/ vol \in volumes
          /\ volumes' = volumes \cup {vol} /\ chapters' = chapters \cup O!Rows(w, vol, twice)
    BY <1>3 DEF O!CommitRows
  <2>2. vol \in VolumeRow
    BY DEF OutlineInv, OutlineTypes, OutlineJob
  <2> DEFINE rows == O!Rows(w, vol, twice)
  <2>3. /\ chapters' = chapters \cup rows /\ rows \subseteq ChapterRow
        /\ \A c \in rows : c.vol = vol /\ c.by <= ops
        /\ \A c, d \in rows : ~Twins(c, d)
    BY <2>1, <2>2, RowFacts DEF OutlineInv, RowInv
  <2> HIDE DEF rows
  <2>4. /\ writer' \in [Writers -> OutlineJob] /\ writer'[w].pc = "idle" /\ writer'[w].op = 0 /\ writer'[w].vol.by = 0
        /\ \A v \in Writers \ {w} : writer'[v] = writer[v]
    BY <1>1, IdleType, LocalsSet DEF OutlineInv
  <2>5. apart => \A c \in chapters : c.vol # vol
    BY <1>1 DEF OutlineInv, RowInv, RoomInv
  <2>6. apart => \A x, y \in volumes' : ~Again(x, y)
    BY <1>1, <2>1, <2>2 DEF OutlineInv, RowInv, VolumeInv, Again, VolumeRow
  <2> HIDE DEF vol
  <2>7. OutlineTypes' /\ BookInv'
    <3>1. volumes' \subseteq VolumeRow /\ IsFiniteSet(volumes')
      BY <2>1, <2>2, FS_AddElement DEF OutlineInv, OutlineTypes
    <3>2. chapters' \subseteq ChapterRow
      BY <2>1, <2>3 DEF OutlineInv, OutlineTypes
    <3> QED
      BY <1>1, <2>4, <3>1, <3>2 DEF OutlineInv, OutlineTypes, BookInv
  <2>8. DeadInv' /\ BornInv'
    <3>1. \A v \in volumes' : v.by <= ops
      BY <2>1 DEF vol, OutlineInv, RowInv, BornInv
    <3>2. \A c \in chapters' : c.by <= ops
      BY <2>3 DEF OutlineInv, RowInv, BornInv
    <3>3. \A v \in Writers : writer'[v].op <= ops /\ writer'[v].vol.by <= ops
      BY <2>4 DEF OutlineInv, OutlineTypes, RowInv, BornInv
    <3> QED
      BY <1>1, <2>4, <3>1, <3>2, <3>3 DEF OutlineInv, RowInv, DeadInv, BornInv
  <2>9. ASSUME apart
        PROVE  RowInv'
    <3>1. \A v \in Writers : writer'[v].pc = "idle"
      BY <1>1, <2>4, <2>9, OthersIdle DEF OutlineInv, RowInv
    <3>2. Alone' /\ VolumeInv' /\ RoomInv'
      BY <1>1, <2>6, <2>9, <3>1 DEF Alone, VolumeInv, RoomInv, Working, Again
    <3>3. ASSUME ~undone
          PROVE  \A c, d \in chapters' : ~Twins(c, d)
      BY <1>1, <2>1, <2>3, <2>5, <2>9, <3>3, NoTwinYet DEF Twins
    <3>4. TwinInv'
      BY <1>1, <3>3 DEF TwinInv, Twins, Again
    <3> QED
      BY <2>8, <3>2, <3>4 DEF RowInv
  <2>10. ASSUME ~apart
         PROVE  RowInv'
    BY <1>1, <2>8, <2>10 DEF RowInv, Alone, VolumeInv, RoomInv, TwinInv
  <2> QED
    BY <2>7, <2>9, <2>10 DEF OutlineInv
<1> QED
  BY <1>2, <1>3

-----------------------------------------------------------------------------
\* A regeneration fails, ends, or is cut off.
LEMMA RegenerationStops ==
  ASSUME OutlineInv, NEW w \in Writers, O!FailStream(w) \/ O!EndRegenerate(w) \/ O!CutOff(w)
  PROVE  OutlineInv'
<1>1. CASE O!FailStream(w)
  <2>1. /\ writer[w].pc = "stream" /\ Working(w) /\ O!Go(w, "failed")
        /\ UNCHANGED <<book, outlines, volumes, chapters, ops, posted, apart, undone, made>>
    BY <1>1 DEF O!FailStream, O!At, Working
  <2>2. /\ writer' \in [Writers -> OutlineJob]
        /\ \A v \in Writers \ {w} : writer'[v] = writer[v]
        /\ writer'[w].pc = "failed"
        /\ writer'[w].fresh = writer[w].fresh /\ writer'[w].dead = writer[w].dead
        /\ writer'[w].op <= ops /\ writer'[w].vol.by <= ops
    BY <2>1, StepTaken DEF OutlineInv, RowInv, BornInv
  <2>3. RowInv'
    BY <2>1, <2>2, RowsKept
  <2> QED
    BY <2>1, <2>2, <2>3 DEF OutlineInv, OutlineTypes, BookInv
<1>2. CASE O!EndRegenerate(w) \/ O!CutOff(w)
  <2>1. /\ writer[w].pc \in {"stream", "saved", "failed"} /\ Working(w) /\ O!Set(w, O!Idle)
        /\ UNCHANGED <<book, outlines, volumes, chapters, ops, posted, apart, made>>
    BY <1>2 DEF O!EndRegenerate, O!CutOff, Working
  <2>2. undone' \in BOOLEAN
    <3>1. CASE O!EndRegenerate(w)
      BY <3>1 DEF O!EndRegenerate, OutlineInv, OutlineTypes
    <3>2. CASE O!CutOff(w)
      <4>1. PICK b \in BOOLEAN : b = (undone \/ O!At(w, "saved"))
        OBVIOUS
      <4> QED
        BY <3>2, <4>1 DEF O!CutOff
    <3> QED
      BY <1>2, <3>1, <3>2
  <2>3. writer[w].pc = "saved" => undone' \/ writer[w].dead = {}
    <3>1. CASE O!EndRegenerate(w)
      BY <2>1, <3>1 DEF O!EndRegenerate, OutlineInv, RowInv, DeadInv
    <3>2. CASE O!CutOff(w)
      BY <3>2 DEF O!CutOff, O!At
    <3> QED
      BY <1>2, <3>1, <3>2
  <2>5. undone => undone'
    <3>1. CASE O!EndRegenerate(w)
      BY <3>1 DEF O!EndRegenerate
    <3>2. CASE O!CutOff(w)
      BY <3>2, Zenon DEF O!CutOff
    <3> QED
      BY <1>2, <3>1, <3>2
  <2>4. RowInv' /\ writer' \in [Writers -> OutlineJob]
    BY <2>1, <2>3, <2>5, OperationEnds
  <2> QED
    BY <2>1, <2>2, <2>4 DEF OutlineInv, OutlineTypes, BookInv
<1> QED
  BY <1>1, <1>2

\* A regeneration saves its outline and its chapters.
LEMMA RegenerationSaves ==
  ASSUME OutlineInv, NEW w \in Writers, O!SaveRegenerated(w)
  PROVE  OutlineInv'
<1> DEFINE vol == writer[w].vol
<1>1. /\ writer[w].pc = "stream" /\ Working(w) /\ O!Go(w, "saved")
      /\ outlines' = outlines \cup {[id |-> writer[w].op, child |-> TRUE]}
      /\ \E rows \in {{}} \cup {O!Rows(w, vol, twice) : twice \in SUBSET Indices} :
           chapters' = chapters \cup rows
      /\ UNCHANGED <<book, volumes, ops, posted, apart, undone, made>>
  BY DEF O!SaveRegenerated, O!At, Working
<1>2. vol \in VolumeRow /\ writer[w].op \in Nat
  BY DEF OutlineInv, OutlineTypes, OutlineJob
<1>3. PICK rows : /\ chapters' = chapters \cup rows /\ rows \subseteq ChapterRow
                  /\ \A c \in rows : c.vol = vol /\ c.by <= ops
                  /\ \A c, d \in rows : ~Twins(c, d)
  BY <1>1, <1>2, RowFacts DEF OutlineInv, RowInv
<1>4. /\ writer' \in [Writers -> OutlineJob]
      /\ \A v \in Writers \ {w} : writer'[v] = writer[v]
      /\ writer'[w].pc = "saved"
      /\ writer'[w].fresh = writer[w].fresh /\ writer'[w].dead = writer[w].dead
      /\ writer'[w].op <= ops /\ writer'[w].vol.by <= ops
  BY <1>1, StepTaken DEF OutlineInv, RowInv, BornInv
<1>5. apart => \A c \in chapters : c \in writer[w].dead \/ c.vol # vol
  BY <1>1 DEF OutlineInv, RowInv, RoomInv
<1> HIDE DEF vol
<1>6. OutlineTypes' /\ BookInv'
  <2>1. outlines' \subseteq OutlineRow
    <3>1. writer[w].op \in Nat
      BY DEF OutlineInv, OutlineTypes, OutlineJob
    <3>2. [id |-> writer[w].op, child |-> TRUE] \in OutlineRow
      BY <3>1 DEF OutlineRow
    <3> QED
      BY <1>1, <3>2 DEF OutlineInv, OutlineTypes
  <2>2. chapters' \subseteq ChapterRow
    BY <1>3 DEF OutlineInv, OutlineTypes
  <2> QED
    BY <1>1, <1>4, <2>1, <2>2 DEF OutlineInv, OutlineTypes, BookInv
<1>7. DeadInv' /\ BornInv'
  BY <1>1, <1>3, <1>4 DEF OutlineInv, RowInv, DeadInv, BornInv
<1>8. ASSUME apart
      PROVE  RowInv'
  <2>1. \A v \in Writers \ {w} : writer'[v].pc = "idle"
    BY <1>1, <1>4, <1>8, OthersIdle DEF OutlineInv, RowInv
  <2>2. Alone' /\ VolumeInv' /\ RoomInv'
    BY <1>1, <1>4, <1>8, <2>1 DEF OutlineInv, RowInv, Alone, VolumeInv, RoomInv, Working, Again
  <2>3. ASSUME ~undone, NEW c \in chapters', NEW d \in chapters', Twins(c, d)
        PROVE  c \in writer[w].dead \/ d \in writer[w].dead
    <3>1. \A x, y \in chapters : ~Twins(x, y)
      BY <1>1, <1>8, <2>3, NoTwinYet
    <3>2. (c \in chapters /\ c.vol = vol) \/ (d \in chapters /\ d.vol = vol)
      BY <1>3, <2>3, <3>1 DEF Twins
    <3> QED
      BY <1>5, <1>8, <3>2
  <2>4. TwinInv'
    BY <1>1, <1>4, <2>3 DEF TwinInv, Twins, Again
  <2> QED
    BY <1>7, <2>2, <2>4 DEF RowInv
<1>9. ASSUME ~apart
      PROVE  RowInv'
  BY <1>1, <1>7, <1>9 DEF RowInv, Alone, VolumeInv, RoomInv, TwinInv
<1> QED
  BY <1>6, <1>8, <1>9 DEF OutlineInv

\* The deletions of a regeneration are committed.
LEMMA DeletionsCommitted ==
  ASSUME OutlineInv, NEW w \in Writers, O!CommitDeletes(w)
  PROVE  OutlineInv'
<1> DEFINE new == [writer[w] EXCEPT !.dead = {}, !.fresh = TRUE]
<1>1. /\ writer[w].pc \in {"stream", "saved", "failed"} /\ Working(w) /\ O!Set(w, new)
      /\ chapters' = chapters \ writer[w].dead /\ outlines' \subseteq outlines
      /\ UNCHANGED <<book, volumes, ops, posted, apart, undone, made>>
  BY DEF O!CommitDeletes, Working
<1>2. /\ new \in OutlineJob /\ new.pc = writer[w].pc /\ new.vol = writer[w].vol /\ new.dead = {}
      /\ new.op = writer[w].op
  BY DEF OutlineInv, OutlineTypes, OutlineJob
<1> HIDE DEF new
<1>3. /\ writer' \in [Writers -> OutlineJob] /\ writer'[w] = new
      /\ \A v \in Writers \ {w} : writer'[v] = writer[v]
  BY <1>1, <1>2, LocalsSet DEF OutlineInv
<1>4. OutlineTypes' /\ BookInv'
  BY <1>1, <1>3 DEF OutlineInv, OutlineTypes, BookInv
<1>5. DeadInv' /\ BornInv'
  BY <1>1, <1>2, <1>3 DEF OutlineInv, RowInv, DeadInv, BornInv
<1>6. ASSUME apart
      PROVE  RowInv'
  <2>1. \A v \in Writers \ {w} : writer'[v].pc = "idle" /\ writer[v].pc = "idle"
    BY <1>1, <1>3, <1>6, OthersIdle DEF OutlineInv, RowInv
  <2>2. Alone' /\ VolumeInv'
    BY <1>1, <1>2, <1>3, <2>1 DEF OutlineInv, RowInv, Alone, VolumeInv, Working, Again
  <2>3. RoomInv'
    BY <1>1, <1>2, <1>3, <2>1 DEF OutlineInv, RowInv, RoomInv
  <2>4. TwinInv'
    BY <1>1, <1>2, <1>3, <2>1 DEF OutlineInv, RowInv, TwinInv, Twins, Again
  <2> QED
    BY <1>5, <2>2, <2>3, <2>4 DEF RowInv
<1>7. ASSUME ~apart
      PROVE  RowInv'
  BY <1>1, <1>5, <1>7 DEF RowInv, Alone, VolumeInv, RoomInv, TwinInv
<1> QED
  BY <1>4, <1>6, <1>7 DEF OutlineInv

-----------------------------------------------------------------------------
\* Filling or copying over the outline of a row leaves its number.
LEMMA Refilled ==
  ASSUME NEW c \in ChapterRow, NEW full \in BOOLEAN
  PROVE  /\ [c EXCEPT !.full = full] \in ChapterRow
         /\ [c EXCEPT !.full = full].vol = c.vol /\ [c EXCEPT !.full = full].idx = c.idx
         /\ [c EXCEPT !.full = full].by = c.by
BY DEF ChapterRow

\* A chapter outline is merged into its row.
LEMMA ChapterEnriched ==
  ASSUME OutlineInv, NEW w \in Writers, O!Enrich(w)
  PROVE  OutlineInv'
<1> DEFINE hit == {c \in chapters : c.vol \in volumes /\ c.idx = writer[w].idx}
           filled(c) == [c EXCEPT !.full = TRUE]
<1>1. /\ writer[w].pc = "chapter" /\ Working(w) /\ O!Set(w, O!Idle)
      /\ UNCHANGED <<book, outlines, volumes, ops, posted, apart, undone, made>>
      /\ chapters' = chapters \/ chapters' = (chapters \ hit) \cup {filled(c) : c \in hit}
  BY DEF O!Enrich, O!At, Working
<1>2. CASE chapters' = chapters
  BY <1>1, <1>2, OperationEnds DEF OutlineInv, OutlineTypes, BookInv
<1>3. CASE chapters' = (chapters \ hit) \cup {filled(c) : c \in hit}
  <2>1. \A c \in hit : filled(c) \in ChapterRow /\ filled(c).vol = c.vol /\ filled(c).idx = c.idx
                       /\ filled(c).by = c.by
    BY Refilled DEF OutlineInv, OutlineTypes
  <2>2. hit \subseteq chapters
    OBVIOUS
  <2> HIDE DEF filled, hit
  <2>3. /\ writer' \in [Writers -> OutlineJob] /\ writer'[w].pc = "idle"
        /\ writer'[w].op = 0 /\ writer'[w].vol.by = 0
        /\ \A v \in Writers \ {w} : writer'[v] = writer[v]
    BY <1>1, IdleType, LocalsSet DEF OutlineInv
  <2>4. chapters' \subseteq ChapterRow
    BY <1>3, <2>1 DEF OutlineInv, OutlineTypes
  <2>5. OutlineTypes' /\ BookInv'
    BY <1>1, <2>3, <2>4 DEF OutlineInv, OutlineTypes, BookInv
  <2>6. DeadInv' /\ BornInv'
    <3>1. \A c \in chapters' : c.by <= ops
      BY <1>3, <2>1, <2>2 DEF OutlineInv, RowInv, BornInv
    <3>2. \A v \in Writers : writer'[v].op <= ops /\ writer'[v].vol.by <= ops
      BY <2>3 DEF OutlineInv, OutlineTypes, RowInv, BornInv
    <3> QED
      BY <1>1, <2>3, <3>1, <3>2 DEF OutlineInv, RowInv, DeadInv, BornInv
  <2>7. ASSUME apart
        PROVE  RowInv'
    <3>1. \A v \in Writers : writer'[v].pc = "idle"
      BY <1>1, <2>3, <2>7, OthersIdle DEF OutlineInv, RowInv
    <3>2. Alone' /\ VolumeInv' /\ RoomInv'
      BY <1>1, <2>7, <3>1 DEF OutlineInv, RowInv, Alone, VolumeInv, RoomInv, Working, Again
    <3>3. ASSUME ~undone, NEW c \in chapters', NEW d \in chapters', Twins(c, d)
          PROVE  FALSE
      <4>1. \A x, y \in chapters : ~Twins(x, y)
        BY <1>1, <2>7, <3>3, NoTwinYet
      <4>2. PICK x \in chapters : x.vol = c.vol /\ x.idx = c.idx /\ x.by = c.by
        BY <1>3, <2>1, <2>2
      <4>3. PICK y \in chapters : y.vol = d.vol /\ y.idx = d.idx /\ y.by = d.by
        BY <1>3, <2>1, <2>2
      <4> QED
        BY <3>3, <4>1, <4>2, <4>3 DEF Twins, Again
    <3>4. TwinInv'
      BY <1>1, <3>3 DEF TwinInv, Twins, Again
    <3> QED
      BY <2>6, <3>2, <3>4 DEF RowInv
  <2>8. ASSUME ~apart
        PROVE  RowInv'
    BY <1>1, <2>6, <2>8 DEF RowInv, Alone, VolumeInv, RoomInv, TwinInv
  <2> QED
    BY <2>5, <2>7, <2>8 DEF OutlineInv
<1> QED
  BY <1>1, <1>2, <1>3

\* A user edits the volume outline while no chapters wait to be deleted.
LEMMA VolumeEdited ==
  ASSUME OutlineInv, O!EditVolume
  PROVE  OutlineInv'
<1> DEFINE emptied(c) == [c EXCEPT !.full = FALSE]
<1>1. PICK hit \in SUBSET chapters : chapters' = (chapters \ hit) \cup {emptied(c) : c \in hit}
  BY DEF O!EditVolume
<1>2. /\ UNCHANGED <<book, outlines, volumes, writer, ops, posted, apart, undone, made>>
      /\ \A w \in Writers : writer[w].dead = {}
  BY DEF O!EditVolume, O!Doomed
<1>3. \A c \in chapters : /\ emptied(c) \in ChapterRow /\ emptied(c).vol = c.vol
                          /\ emptied(c).idx = c.idx /\ emptied(c).by = c.by
  BY Refilled DEF OutlineInv, OutlineTypes
<1> HIDE DEF emptied
<1>4. ASSUME NEW c \in chapters'
      PROVE  /\ c \in ChapterRow
             /\ \E x \in chapters : x.vol = c.vol /\ x.idx = c.idx /\ x.by = c.by
  BY <1>1, <1>3, <1>4 DEF OutlineInv, OutlineTypes
<1>5. OutlineTypes' /\ BookInv'
  <2>1. chapters' \subseteq ChapterRow
    BY <1>4
  <2> QED
    BY <1>2, <2>1 DEF OutlineInv, OutlineTypes, BookInv
<1>6. Alone' /\ VolumeInv' /\ DeadInv' /\ BornInv'
  BY <1>2, <1>4 DEF OutlineInv, RowInv, Alone, VolumeInv, DeadInv, BornInv, Working, Again
<1>7. RoomInv'
  BY <1>2, <1>4 DEF OutlineInv, RowInv, RoomInv
<1>8. TwinInv'
  <2>1. SUFFICES ASSUME apart, ~undone, NEW c \in chapters', NEW d \in chapters', Twins(c, d)
                 PROVE  FALSE
    BY <1>2 DEF TwinInv, Twins, Again
  <2>2. \A x, y \in chapters : ~Twins(x, y)
    BY <1>2, <2>1 DEF OutlineInv, RowInv, TwinInv
  <2>3. PICK x \in chapters : x.vol = c.vol /\ x.idx = c.idx /\ x.by = c.by
    BY <1>4
  <2>4. PICK y \in chapters : y.vol = d.vol /\ y.idx = d.idx /\ y.by = d.by
    BY <1>4
  <2> QED
    BY <2>1, <2>2, <2>3, <2>4 DEF Twins, Again
<1> QED
  BY <1>5, <1>6, <1>7, <1>8 DEF OutlineInv, RowInv

\* A user confirms or deletes the book outline.
LEMMA BookEdited ==
  ASSUME OutlineInv, O!Confirm \/ O!DeleteBook
  PROVE  OutlineInv'
<1>1. UNCHANGED <<volumes, chapters, writer, ops, posted, apart, undone>>
  BY DEF O!Confirm, O!DeleteBook
<1>2. RowInv'
  BY <1>1 DEF OutlineInv, RowInv, Alone, BornInv, VolumeInv, RoomInv, DeadInv, TwinInv, Twins, Again,
              Working
<1>3. CASE O!Confirm
  <2>1. UNCHANGED <<outlines, made>> /\ book' = {[b EXCEPT !.confirmed = TRUE] : b \in book}
    BY <1>3 DEF O!Confirm
  <2>2. book' \subseteq BookRow
    <3>1. \A b \in BookRow : [b EXCEPT !.confirmed = TRUE] \in BookRow
      BY DEF BookRow
    <3> QED
      BY <2>1, <3>1 DEF OutlineInv, OutlineTypes
  <2>3. BookInv'
    <3>1. CASE book = {}
      BY <2>1, <3>1 DEF OutlineInv, BookInv, AtMostOne
    <3>2. CASE \E b \in book : book = {b}
      <4>1. PICK b \in book : book = {b}
        BY <3>2
      <4>2. book' = {[b EXCEPT !.confirmed = TRUE]}
        BY <2>1, <4>1
      <4> QED
        BY <4>2 DEF BookInv, AtMostOne
    <3> QED
      BY <3>1, <3>2 DEF OutlineInv, BookInv, AtMostOne
  <2> QED
    BY <1>1, <1>2, <2>1, <2>2, <2>3 DEF OutlineInv, OutlineTypes
<1>4. CASE O!DeleteBook
  <2>1. book' = {} /\ outlines' = O!Orphaned /\ made' = FALSE
    BY <1>4 DEF O!DeleteBook
  <2>2. outlines' \subseteq OutlineRow
    BY <2>1 DEF O!Orphaned, OutlineRow, OutlineInv, OutlineTypes
  <2> QED
    BY <1>1, <1>2, <2>1, <2>2 DEF OutlineInv, OutlineTypes, BookInv, AtMostOne
<1> QED
  BY <1>3, <1>4

-----------------------------------------------------------------------------
\* At first there is nothing, and nobody works.
LEMMA OutlinesStart == O!OutlinesInit => OutlineInv
<1> SUFFICES ASSUME O!OutlinesInit PROVE OutlineInv
  OBVIOUS
<1>1. \A w \in Writers : /\ writer[w] = O!Idle /\ writer[w].pc = "idle"
                         /\ writer[w].op = 0 /\ writer[w].vol.by = 0
  BY IdleType DEF O!OutlinesInit
<1>2. OutlineTypes
  BY IdleType, FS_EmptySet DEF O!OutlinesInit, OutlineTypes
<1>3. BookInv
  BY DEF O!OutlinesInit, BookInv, AtMostOne
<1>4. RowInv
  BY <1>1 DEF O!OutlinesInit, RowInv, Alone, BornInv, VolumeInv, RoomInv, DeadInv, TwinInv, Working
<1> QED
  BY <1>2, <1>3, <1>4 DEF OutlineInv

LEMMA OutlineStep ==
  ASSUME O!OutlinesAssumption, OutlineInv, O!OutlinesNext
  PROVE  OutlineInv'
<1>1. ASSUME NEW w \in Writers,
             O!BookTask(w) \/ O!BookStream(w) \/ O!VolumeStream(w) \/ O!Regenerate(w)
             \/ O!ChapterStream(w) \/ O!CreateVolume(w)
             \/ O!CreateChapter(w) \/ O!DeleteVolume(w)
      PROVE  OutlineInv'
  BY <1>1, OutlineOpens
<1>2. ASSUME NEW w \in Writers, O!CommitBook(w)
      PROVE  OutlineInv'
  BY <1>2, BookCommitted
<1>3. ASSUME NEW w \in Writers, O!AbortBook(w) \/ O!WaitBook(w)
      PROVE  OutlineInv'
  BY <1>3, BookAwaited
<1>4. ASSUME NEW w \in Writers, O!FindVolume(w) \/ O!CountChapters(w)
      PROVE  OutlineInv'
  BY <1>4, VolumeFound
<1>5. ASSUME NEW w \in Writers, O!CommitRows(w)
      PROVE  OutlineInv'
  BY <1>5, RowsCommitted
<1>6. ASSUME NEW w \in Writers, O!FailStream(w) \/ O!EndRegenerate(w) \/ O!CutOff(w)
      PROVE  OutlineInv'
  BY <1>6, RegenerationStops
<1>7. ASSUME NEW w \in Writers, O!SaveRegenerated(w) \/ O!CommitDeletes(w)
      PROVE  OutlineInv'
  BY <1>7, RegenerationSaves, DeletionsCommitted
<1>8. ASSUME NEW w \in Writers, O!Enrich(w)
      PROVE  OutlineInv'
  BY <1>8, ChapterEnriched
<1>9. CASE O!Confirm \/ O!DeleteBook \/ O!EditVolume
  BY <1>9, BookEdited, VolumeEdited
<1> QED
  BY <1>1, <1>2, <1>3, <1>4, <1>5, <1>6, <1>7, <1>8, <1>9 DEF O!OutlinesNext

\* There is one book outline, and one that was made is there; while operations
\* run alone and no regeneration is cut off after it has saved, no generation
\* gives a number to a volume or a chapter that has one of it from before: two
\* rows of one number are of one answer, or the later was added by the user
\* (tasks/generation_tasks.py, api/generate.py, api/volumes.py, api/chapters.py).
THEOREM NumbersAreUnique == ServicesSpec => []OutlineSound
<1> DEFINE Inv == focus = "outlines" => OutlineInv
<1>1. ServicesInit => Inv
  BY OutlinesStart DEF ServicesInit, InitO
<1>2. Inv /\ [ServicesNext]_<<focus, chapterVars, revisionVars, routerVars, decompileVars,
                 timelineVars, foreshadowVars, usageVars, plannerVars, outlinesVars>> => Inv'
  <2>1. ASSUME Inv, focus = "outlines", O!OutlinesNext, UNCHANGED focus
        PROVE  Inv'
    BY <2>1, OutlineStep, ServicesAssumption
  <2>2. ASSUME Inv, UNCHANGED outlinesVars, UNCHANGED focus
        PROVE  Inv'
    BY <2>2 DEF outlinesVars, OutlineInv, OutlineTypes, BookInv, RowInv, Alone, BornInv, VolumeInv,
                RoomInv, DeadInv, TwinInv, Twins, Again, Working
  <2> QED
    BY <2>1, <2>2 DEF ServicesNext, OthersRest
<1>3. Inv => OutlineSound
  <2>1. ASSUME OutlineInv
        PROVE  O!BookKept
    <3>1. AtMostOne(book) /\ (made => book # {})
      BY <2>1 DEF OutlineInv, BookInv
    <3>2. Cardinality(book) <= 1
      BY <3>1, CountOne
    <3> QED
      BY <3>1, <3>2, SameCount, Zenon DEF O!BookKept
  <2>2. ASSUME OutlineInv
        PROVE  O!NoTwins
    <3>1. SUFFICES ASSUME apart, ~undone, \A w \in Writers : writer[w].pc = "idle"
                   PROVE  /\ \A x, y \in volumes : ~Again(x, y)
                          /\ \A c, d \in chapters : ~Twins(c, d)
      BY DEF O!NoTwins, O!At, Twins, Again
    <3> QED
      BY <2>2, <3>1 DEF OutlineInv, RowInv, VolumeInv, TwinInv
  <2> QED
    BY <2>1, <2>2 DEF OutlineSound, O!OutlineSound
<1> QED
  BY <1>1, <1>2, <1>3, PTL DEF ServicesSpec

-----------------------------------------------------------------------------
(* Usage, for any sessions of calls, gates and administrators, any quotas   *)
(* and any number of calls: what the month's row may count although its     *)
(* tokens are written back as values that were read before.                 *)
MonthRow == [there : BOOLEAN, tokens : Nat, quota : Nat]
Session == [pc : {"idle", "create", "write", "commit"}, row : MonthRow, log : BOOLEAN,
            met : BOOLEAN, quota : Nat]

UsageTypes ==
  /\ month \in MonthRow
  /\ tx \in [Sessions -> Session]
  /\ logs \in Nat /\ done \in Nat /\ alone \in Nat /\ asked \in Nat
  /\ inserter \in Sessions \cup {NoSession} /\ locker \in Sessions \cup {NoSession}

\* Before the row is committed, nothing else is.
MonthInv ==
  ~month.there => month = NoRow /\ done = 0 /\ alone = 0 /\ asked = Default

\* A session that writes has a row to write: the committed one, or its own.
InsertInv ==
  \A s \in Sessions :
    /\ tx[s].pc \in {"write", "commit"} => month.there \/ inserter = s
    /\ inserter = s => /\ ~month.there /\ tx[s].row = NewRow
                       /\ tx[s].pc \in {"write", "commit"}

\* No call that met no other was committed since a running call read the row.
CallsInv ==
  \A c \in Calls :
    /\ tx[c].pc # "idle" => alone <= tx[c].row.tokens /\ tx[c].row.tokens <= done
    /\ \A d \in Calls \ {c} : tx[c].pc # "idle" /\ tx[d].pc # "idle" => tx[c].met

UsageInv == UsageTypes /\ MonthInv /\ InsertInv /\ CallsInv /\ UsageSound

-----------------------------------------------------------------------------
\* Everything starts without a row, a call or a session at work.
LEMMA UsageStarts ==
  ASSUME UsageAssumption, UsageInit
  PROVE  UsageInv
  BY DEF UsageAssumption, UsageInit, UsageInv, UsageTypes, MonthInv, InsertInv, CallsInv, UsageSound,
         MonthRow, Session, NoRow, NewRow, Idle, Sessions

\* Reading the row: the reader's copy is the row, and calls at work have met.
LEMMA MonthRead ==
  ASSUME UsageAssumption, UsageInv, NEW s \in Sessions, ReadMonth(s)
  PROVE  UsageInv'
<1>1. PICK q \in (IF s \in Admins THEN Quotas ELSE {Default}) :
        tx' = [c \in Sessions |->
                IF c = s THEN [pc |-> IF month.there THEN "write" ELSE "create", row |-> month,
                               log |-> s \in Calls, met |-> s \in Calls /\ Busy(s) # {}, quota |-> q]
                ELSE IF s \in Calls /\ c \in Busy(s) THEN [tx[c] EXCEPT !.met = TRUE] ELSE tx[c]]
  BY DEF ReadMonth
<1>2. q \in Nat
  BY DEF UsageAssumption
<1>3. UNCHANGED <<month, logs, inserter, locker, done, alone, asked>> /\ tx[s].pc = "idle"
  BY DEF ReadMonth, Doing
<1>4. /\ tx'[s] = [pc |-> IF month.there THEN "write" ELSE "create", row |-> month,
                   log |-> s \in Calls, met |-> s \in Calls /\ Busy(s) # {}, quota |-> q]
      /\ tx'[s] \in Session
  <2>1. (s \in Calls) \in BOOLEAN /\ (s \in Calls /\ Busy(s) # {}) \in BOOLEAN
    OBVIOUS
  <2> QED
    BY <1>1, <1>2, <2>1 DEF UsageInv, UsageTypes, Session, MonthRow
<1>5. ASSUME NEW c \in Sessions \ {s}
      PROVE  /\ tx'[c].pc = tx[c].pc /\ tx'[c].row = tx[c].row
             /\ tx'[c] \in Session /\ (tx[c].met => tx'[c].met)
             /\ s \in Calls /\ c \in Calls /\ tx[c].pc # "idle" => tx'[c].met
  BY <1>1 DEF UsageInv, UsageTypes, Session, Busy, Doing
<1>6. UsageTypes'
  <2>1. tx' \in [Sessions -> Session]
    BY <1>1, <1>4, <1>5
  <2> QED
    BY <1>3, <2>1 DEF UsageInv, UsageTypes
<1>7. MonthInv' /\ UsageSound'
  BY <1>3 DEF UsageInv, MonthInv, UsageSound
<1>8. InsertInv'
  BY <1>3, <1>4, <1>5 DEF UsageInv, InsertInv
<1>9. CallsInv'
  <2> SUFFICES ASSUME NEW c \in Calls
               PROVE  /\ tx'[c].pc # "idle" =>
                           alone <= tx'[c].row.tokens /\ tx'[c].row.tokens <= done
                      /\ \A d \in Calls \ {c} : tx'[c].pc # "idle" /\ tx'[d].pc # "idle" => tx'[c].met
    BY <1>3 DEF CallsInv
  <2>1. c \in Sessions /\ Calls \subseteq Sessions
    BY DEF Sessions
  <2>2. CASE c = s
    <3>1. alone <= tx'[c].row.tokens /\ tx'[c].row.tokens <= done
      BY <1>4, <2>2 DEF UsageInv, UsageSound
    <3>2. ASSUME NEW d \in Calls \ {c}, tx'[d].pc # "idle"
          PROVE  tx'[c].met
      <4>1. tx[d].pc # "idle" /\ d # s
        BY <1>5, <2>1, <2>2, <3>2
      <4>2. d \in Busy(s)
        BY <4>1 DEF Busy, Doing
      <4>3. s \in Calls /\ Busy(s) # {}
        BY <2>2, <4>2
      <4>4. tx'[s].met = (s \in Calls /\ Busy(s) # {})
        BY <1>4
      <4> QED
        BY <2>2, <4>3, <4>4
    <3> QED
      BY <3>1, <3>2
  <2>3. CASE c # s
    <3>1. tx'[c].pc # "idle" => alone <= tx'[c].row.tokens /\ tx'[c].row.tokens <= done
      BY <1>5, <2>1, <2>3 DEF UsageInv, CallsInv
    <3>2. ASSUME NEW d \in Calls \ {c}, tx'[c].pc # "idle", tx'[d].pc # "idle"
          PROVE  tx'[c].met
      BY <1>5, <2>1, <2>3, <3>2 DEF UsageInv, CallsInv
    <3> QED
      BY <3>1, <3>2
  <2> QED
    BY <2>2, <2>3
<1> QED
  BY <1>6, <1>7, <1>8, <1>9 DEF UsageInv

\* The steps between: the insert, the lost race, the flush.
LEMMA MonthWritten ==
  ASSUME UsageAssumption, UsageInv, NEW s \in Sessions,
         CreateMonth(s) \/ LoseRace(s) \/ WriteMonth(s)
  PROVE  UsageInv'
<1>1. UNCHANGED <<month, logs, done, alone, asked>>
  BY DEF CreateMonth, LoseRace, WriteMonth
<1>2. MonthInv' /\ UsageSound'
  BY <1>1 DEF UsageInv, MonthInv, UsageSound
<1>3. CASE CreateMonth(s)
  <2> USE <1>3 DEF CreateMonth, Doing, Step, UsageInv, NewRow
  <2>1. UsageTypes'
    <3>1. tx[s] \in Session /\ NewRow \in MonthRow
      BY DEF UsageTypes, MonthRow, UsageAssumption
    <3>2. tx' \in [Sessions -> Session]
      BY <3>1 DEF UsageTypes, Session
    <3> QED
      BY <1>1, <3>2 DEF UsageTypes
  <2>2. InsertInv'
    BY <1>1 DEF UsageTypes, InsertInv, Session, UsageAssumption, Sessions
  <2>3. CallsInv'
    BY <1>1 DEF UsageTypes, CallsInv, MonthInv, Session, Sessions
  <2> QED
    BY <1>2, <2>1, <2>2, <2>3
<1>4. CASE LoseRace(s)
  <2> USE <1>4 DEF LoseRace, Doing, Step, UsageInv
  <2>1. UsageTypes'
    BY <1>1 DEF UsageTypes, Session, MonthRow
  <2>2. InsertInv'
    BY <1>1 DEF UsageTypes, InsertInv, Session
  <2>3. CallsInv'
    BY <1>1 DEF UsageTypes, CallsInv, UsageSound, Session, Sessions
  <2> QED
    BY <1>2, <2>1, <2>2, <2>3
<1>5. CASE WriteMonth(s)
  <2> USE <1>5 DEF WriteMonth, Doing, Step, UsageInv
  <2>1. UsageTypes'
    BY <1>1 DEF UsageTypes, Session
  <2>2. InsertInv'
    BY <1>1 DEF UsageTypes, InsertInv, Session
  <2>3. CallsInv'
    BY <1>1 DEF UsageTypes, CallsInv, Session, Sessions
  <2> QED
    BY <1>2, <2>1, <2>2, <2>3
<1> QED
  BY <1>3, <1>4, <1>5

\* The commit: what was read plus one is within the two counts.
LEMMA UsageCommitted ==
  ASSUME UsageAssumption, UsageInv, NEW s \in Sessions, CommitUsage(s)
  PROVE  UsageInv'
<1> DEFINE base == IF inserter = s THEN tx[s].row ELSE month
<1>1. /\ tx[s].pc = "commit" /\ tx' = [tx EXCEPT ![s] = Idle]
      /\ done' = (IF s \in Calls THEN done + 1 ELSE done)
      /\ alone' = (IF s \in Calls /\ ~tx[s].met THEN alone + 1 ELSE alone)
      /\ asked' = (IF s \in Admins THEN tx[s].quota ELSE asked)
      /\ inserter' = (IF inserter = s THEN NoSession ELSE inserter)
      /\ locker' = (IF locker = s THEN NoSession ELSE locker)
  BY DEF CommitUsage, Doing, Step, Free
<1>2. tx[s] \in Session /\ Idle \in Session /\ Idle.pc = "idle"
  BY DEF UsageInv, UsageTypes, Session, Idle, NoRow, MonthRow, UsageAssumption
<1>3. /\ base \in MonthRow /\ base.there
      /\ inserter # s => base = month
      /\ inserter = s => base = NewRow /\ alone = 0 /\ done = 0 /\ asked = Default
  <2>1. CASE inserter = s
    <3>1. tx[s].row = NewRow /\ ~month.there
      BY <2>1 DEF UsageInv, InsertInv
    <3>2. alone = 0 /\ done = 0 /\ asked = Default
      BY <3>1 DEF UsageInv, MonthInv
    <3> QED
      BY <2>1, <3>1, <3>2 DEF NewRow, MonthRow, UsageAssumption
  <2>2. CASE inserter # s
    <3>1. month.there
      BY <1>1, <2>2 DEF UsageInv, InsertInv
    <3> QED
      BY <2>2, <3>1 DEF UsageInv, UsageTypes
  <2> QED
    BY <2>1, <2>2
<1>4. /\ month' \in MonthRow /\ month'.there
      /\ month'.tokens = (IF s \in Calls THEN tx[s].row.tokens + 1 ELSE base.tokens)
      /\ month'.quota = (IF s \in Admins THEN tx[s].quota ELSE base.quota)
  <2>1. month' = [base EXCEPT !.tokens = IF s \in Calls THEN tx[s].row.tokens + 1 ELSE @,
                              !.quota = IF s \in Admins THEN tx[s].quota ELSE @]
    BY DEF CommitUsage, Written
  <2>2. tx[s].row.tokens + 1 \in Nat /\ tx[s].quota \in Nat
    BY <1>2 DEF Session, MonthRow
  <2> HIDE DEF base
  <2> QED
    BY <1>3, <2>1, <2>2 DEF MonthRow
<1>5. base.quota = asked /\ alone <= base.tokens /\ base.tokens <= done
  BY <1>3 DEF UsageInv, UsageSound, NewRow
<1>6. UsageSound'
  <2>1. CASE s \in Calls
    <3>1. alone <= tx[s].row.tokens /\ tx[s].row.tokens <= done
      BY <1>1, <2>1 DEF UsageInv, CallsInv
    <3> QED
      BY <1>1, <1>2, <1>4, <1>5, <2>1, <3>1 DEF UsageSound, UsageInv, UsageTypes, Session, MonthRow
  <2>2. CASE s \notin Calls
    BY <1>1, <1>4, <1>5, <2>2 DEF UsageSound
  <2> QED
    BY <2>1, <2>2
<1>7. UsageTypes'
  <2>1. logs' \in Nat
    BY DEF CommitUsage, UsageInv, UsageTypes
  <2>2. done' \in Nat /\ alone' \in Nat /\ asked' \in Nat
    BY <1>1, <1>2 DEF UsageInv, UsageTypes, Session
  <2>3. tx' \in [Sessions -> Session]
    BY <1>1, <1>2 DEF UsageInv, UsageTypes
  <2> QED
    BY <1>1, <1>4, <2>1, <2>2, <2>3 DEF UsageInv, UsageTypes
<1>8. MonthInv'
  BY <1>4 DEF MonthInv
<1>9. InsertInv'
  <2> SUFFICES ASSUME NEW q \in Sessions
               PROVE  inserter' # q
    BY <1>4 DEF InsertInv
  <2>1. inserter \in {s, NoSession} \/ ~month.there
    BY DEF UsageInv, UsageTypes, InsertInv
  <2>2. month.there \/ inserter = s
    BY <1>1 DEF UsageInv, InsertInv
  <2> QED
    BY <1>1, <2>1, <2>2 DEF UsageAssumption, Sessions
<1>10. CallsInv'
  <2> SUFFICES ASSUME NEW c \in Calls, tx'[c].pc # "idle"
               PROVE  /\ alone' <= tx'[c].row.tokens /\ tx'[c].row.tokens <= done'
                      /\ \A d \in Calls \ {c} : tx'[d].pc # "idle" => tx'[c].met
    BY DEF CallsInv
  <2>1. c \in Sessions /\ c # s /\ tx'[c] = tx[c]
    BY <1>1, <1>2 DEF Sessions, UsageInv, UsageTypes
  <2>2. s \in Calls => tx[s].met
    BY <1>1, <2>1 DEF UsageInv, CallsInv
  <2>3. alone' = alone /\ done <= done'
    BY <1>1, <2>2 DEF UsageInv, UsageTypes
  <2>4. alone' <= tx'[c].row.tokens /\ tx'[c].row.tokens <= done'
    <3>1. alone <= tx[c].row.tokens /\ tx[c].row.tokens <= done
      BY <2>1 DEF UsageInv, CallsInv
    <3>2. tx[c].row.tokens \in Nat /\ done \in Nat /\ done' \in Nat
      BY <1>7, <2>1 DEF UsageInv, UsageTypes, Session, MonthRow
    <3> QED
      BY <2>1, <2>3, <3>1, <3>2
  <2>5. ASSUME NEW d \in Calls \ {c}, tx'[d].pc # "idle"
        PROVE  tx'[c].met
    <3>1. d # s /\ tx'[d] = tx[d]
      BY <1>1, <1>2, <2>5 DEF Sessions, UsageInv, UsageTypes
    <3> QED
      BY <2>1, <2>5, <3>1 DEF UsageInv, CallsInv
  <2> QED
    BY <2>4, <2>5
<1> QED
  BY <1>6, <1>7, <1>8, <1>9, <1>10 DEF UsageInv

\* A lost session leaves the row as it was and nothing of its own behind.
LEMMA UsageLost ==
  ASSUME UsageAssumption, UsageInv, NEW s \in Sessions, LoseUsage(s)
  PROVE  UsageInv'
<1>1. /\ UNCHANGED <<month, logs, done, alone, asked>> /\ tx' = [tx EXCEPT ![s] = Idle]
      /\ inserter' = (IF inserter = s THEN NoSession ELSE inserter)
      /\ locker' = (IF locker = s THEN NoSession ELSE locker)
  BY DEF LoseUsage, Step, Free
<1>2. Idle \in Session /\ Idle.pc = "idle"
  BY DEF Session, Idle, NoRow, MonthRow, UsageAssumption
<1>3. UsageTypes'
  BY <1>1, <1>2 DEF UsageInv, UsageTypes
<1>4. MonthInv' /\ UsageSound'
  BY <1>1 DEF UsageInv, MonthInv, UsageSound
<1>5. InsertInv'
  BY <1>1, <1>2 DEF UsageInv, UsageTypes, InsertInv, UsageAssumption, Sessions
<1>6. CallsInv'
  BY <1>1, <1>2 DEF UsageInv, UsageTypes, CallsInv, Sessions
<1> QED
  BY <1>3, <1>4, <1>5, <1>6 DEF UsageInv

-----------------------------------------------------------------------------
\* For any number of sessions: the row never counts a call that was not made,
\* counts at least the calls that met no other, and keeps the quota the
\* administrator asked for (services/usage_service.py and api/admin_usage.py).
THEOREM UsageIsBounded == ServicesSpec => []UsageSound
<1>1. ServicesInit => UsageInv
  BY UsageStarts, ServicesAssumption DEF ServicesInit
<1>2. UsageInv /\ [ServicesNext]_<<focus, chapterVars, revisionVars, routerVars, decompileVars,
                 timelineVars, foreshadowVars, usageVars, plannerVars, outlinesVars>> => UsageInv'
  <2>1. ASSUME UsageInv, UsageNext
        PROVE  UsageInv'
    BY <2>1, MonthRead, MonthWritten, UsageCommitted, UsageLost, ServicesAssumption DEF UsageNext
  <2>2. ASSUME UsageInv, UNCHANGED usageVars
        PROVE  UsageInv'
    BY <2>2 DEF usageVars, UsageInv, UsageTypes, MonthInv, InsertInv, CallsInv, UsageSound
  <2> QED
    BY <2>1, <2>2 DEF ServicesNext, OthersRest
<1>3. UsageInv => UsageSound
  BY DEF UsageInv
<1> QED
  BY <1>1, <1>2, <1>3, PTL DEF ServicesSpec

-----------------------------------------------------------------------------
(* The history of a character (Timeline).                                   *)
Contents == Values \cup {0}
Span == [kind : {"state", "bond", "place"}, from : 0 .. 98, to : 0 .. T!Open, val : Contents, id : Nat]
StateSteps == {"add", "initial", "probe", "closeState", "createState"}
OtherSteps == {"meet", "closeBond", "createBond", "appear", "leave", "arrive"}
Extraction == [pc : StateSteps \cup OtherSteps \cup {"idle", "next"}, chapter : 0 .. 98, stage : 0 .. 5,
               val : Contents]

AtWork(w) == extraction[w].pc # "idle"
TimelineTypes ==
  /\ known \in BOOLEAN /\ inOrder \in BOOLEAN /\ clean \in BOOLEAN /\ reports \in Nat
  /\ facts \subseteq Span
  /\ extraction \in [Workers -> Extraction]
  /\ \A w \in Workers : AtWork(w) => extraction[w].chapter # 0
  /\ latest \in [chapter : 0 .. 98, state : SUBSET Contents]

\* Extractions in the order of the chapters: one at a time, in the latest
\* chapter, and every fact is open or ends before it.
JobsInv ==
  inOrder =>
  /\ \A v, w \in Workers : AtWork(v) /\ AtWork(w) => v = w
  /\ \A w \in Workers : AtWork(w) => extraction[w].chapter = latest.chapter
FactsInv ==
  inOrder => \A f \in facts : f.from <= latest.chapter /\ (f.to = T!Open \/ f.to < latest.chapter)

\* The places of a character follow each other.
PlaceInv ==
  inOrder =>
  /\ \A f, g \in T!Of("place") : (f.from = g.from => f = g) /\ (f.from < g.from => f.to < g.from)
  /\ \A w \in Workers : extraction[w].pc = "arrive" => T!OpenOf("place") = {}

\* The open states: between two reports the latest of them is the last reported.
Rested == T!Latest(T!OpenOf("state")) # {} /\ \A f \in T!Latest(T!OpenOf("state")) : latest.state = {f.val}
StepInv(w) ==
  /\ extraction[w].pc \in {"add", "initial"} => \A f \in T!Of("state") : f.from # 0
  /\ extraction[w].pc \in {"initial", "probe", "closeState", "createState"} => known
  /\ extraction[w].pc \in StateSteps => latest.state = {extraction[w].val}
  /\ extraction[w].pc = "createState" => T!OpenOf("state") = {}
OpenInv == \A f, g \in T!OpenOf("state") : f.from = g.from => f = g
RestInv == (\A w \in Workers : extraction[w].pc \notin StateSteps) /\ latest.state # {} => Rested
StateInv == inOrder /\ clean => OpenInv /\ (\A w \in Workers : StepInv(w)) /\ RestInv

TimelineInv == TimelineTypes /\ JobsInv /\ FactsInv /\ PlaceInv /\ StateInv

LEMMA TimelineStarts == ASSUME T!TimelineInit PROVE TimelineInv
<1> USE DEF T!TimelineInit
<1>1. TimelineTypes
  <2>1. T!Idle \in Extraction
    BY DEF T!Idle, Extraction, Contents
  <2>2. latest \in [chapter : 0 .. 98, state : SUBSET Contents]
    <3>1. {} \in SUBSET Contents /\ 0 \in 0 .. 98
      OBVIOUS
    <3> QED
      BY <3>1
  <2> QED
    BY <2>1, <2>2 DEF TimelineTypes, AtWork, T!Idle
<1>2. JobsInv /\ FactsInv /\ PlaceInv
  BY DEF JobsInv, FactsInv, PlaceInv, T!Of, T!Idle, AtWork
<1>3. StateInv
  BY DEF StateInv, OpenInv, StepInv, RestInv, T!Of, T!OpenOf, T!Idle, StateSteps
<1> QED
  BY <1>1, <1>2, <1>3 DEF TimelineInv

\* What the invariant says of the answers.
LEMMA TimelineHolds == ASSUME TimelineInv, T!TimelineAssumption PROVE T!TimelineSound
<1>1. /\ facts \subseteq Span /\ latest.chapter \in 0 .. 98
  BY DEF TimelineInv, TimelineTypes
<1>2. T!LastReportServed
  <2> SUFFICES ASSUME inOrder, clean, \A w \in Workers : T!At(w, "idle") \/ T!At(w, "next"),
                      latest.state # {}
               PROVE  T!StateAt(latest.chapter) = latest.state
    BY DEF T!LastReportServed
  <2>1. T!Covering("state", latest.chapter) = T!OpenOf("state")
    <3>1. ASSUME NEW f \in T!Of("state")
          PROVE  (f.from <= latest.chapter /\ latest.chapter <= f.to) <=> f.to = T!Open
      <4>1. f \in Span /\ f \in facts
        BY <1>1 DEF T!Of
      <4>2. f.from <= latest.chapter /\ (f.to = T!Open \/ f.to < latest.chapter)
        BY <4>1 DEF TimelineInv, FactsInv
      <4> QED
        BY <1>1, <4>1, <4>2 DEF Span, T!Open
    <3> QED
      BY <3>1 DEF T!Covering, T!OpenOf
  <2>2. Rested
    BY DEF TimelineInv, StateInv, RestInv, StateSteps, T!At
  <2> QED
    BY <2>1, <2>2 DEF T!StateAt, Rested
<1>3. T!OnePlace
  <2> SUFFICES ASSUME inOrder, NEW c \in Chapters
               PROVE  T!Cardinality(T!Covering("place", c)) <= 1
    BY DEF T!OnePlace
  <2> DEFINE S == T!Covering("place", c)
  <2>1. ASSUME NEW f \in S, NEW g \in S PROVE f = g
    <3>1. /\ f \in T!Of("place") /\ g \in T!Of("place") /\ f.from <= c /\ c <= f.to /\ g.from <= c /\ c <= g.to
      BY DEF T!Covering
    <3>2. f \in Span /\ g \in Span /\ c \in Nat
      BY <1>1, <3>1 DEF T!Of, T!TimelineAssumption
    <3>3. f.from \in Nat /\ g.from \in Nat /\ f.to \in Nat /\ g.to \in Nat
      BY <3>2 DEF Span
    <3>4. f.from < g.from \/ g.from < f.from \/ f.from = g.from
      BY <3>3
    <3>5. ~(f.from < g.from) /\ ~(g.from < f.from)
      BY <3>1, <3>2, <3>3 DEF TimelineInv, PlaceInv
    <3> QED
      BY <3>1, <3>4, <3>5 DEF TimelineInv, PlaceInv
  <2>2. T!Cardinality(S) = Cardinality(S)
    BY DEF T!Cardinality, Cardinality
  <2>3. Cardinality(S) <= 1
    <3> HIDE DEF S
    <3>1. AtMostOne(S)
      <4>1. CASE S = {}
        BY <4>1 DEF AtMostOne
      <4>2. ASSUME NEW x \in S PROVE AtMostOne(S)
        <5>1. S = {x}
          BY <2>1, <4>2
        <5> QED
          BY <4>2, <5>1 DEF AtMostOne
      <4> QED
        BY <4>1, <4>2
    <3> QED
      BY <3>1, CountOne
  <2> QED
    BY <2>2, <2>3
<1> QED
  BY <1>2, <1>3 DEF T!TimelineSound

-----------------------------------------------------------------------------
\* A worker's step from one statement to the next.
LEMMA WorkerGoes ==
  ASSUME TimelineInv, NEW w \in Workers, AtWork(w), NEW s \in StateSteps \cup OtherSteps \cup {"next"},
         T!Go(w, s), UNCHANGED <<latest, inOrder>>
  PROVE  /\ extraction' \in [Workers -> Extraction]
         /\ \A v \in Workers : AtWork(v)' => extraction'[v].chapter # 0
         /\ extraction'[w].pc = s /\ extraction'[w].val = extraction[w].val
         /\ extraction'[w].chapter = extraction[w].chapter
         /\ \A v \in Workers \ {w} : extraction'[v] = extraction[v]
         /\ inOrder => \A v \in Workers \ {w} : extraction[v].pc = "idle"
         /\ JobsInv'
<1>1. extraction \in [Workers -> Extraction] /\ extraction' = [extraction EXCEPT ![w].pc = s]
  BY DEF TimelineInv, TimelineTypes, T!Go
<1> DEFINE e == [extraction[w] EXCEPT !.pc = s]
<1>2. e \in Extraction /\ e.pc = s /\ e.val = extraction[w].val /\ e.chapter = extraction[w].chapter
  BY <1>1 DEF Extraction
<1>3. extraction' = [extraction EXCEPT ![w] = e]
  BY <1>1
<1> HIDE DEF e
<1>4. /\ extraction' \in [Workers -> Extraction] /\ extraction'[w] = e
      /\ \A v \in Workers \ {w} : extraction'[v] = extraction[v]
  BY <1>1, <1>2, <1>3
<1>5. \A v \in Workers : AtWork(v)' => AtWork(v) /\ extraction'[v].chapter = extraction[v].chapter
  BY <1>2, <1>4 DEF AtWork
<1>6. inOrder => \A v \in Workers \ {w} : extraction[v].pc = "idle"
  BY DEF TimelineInv, JobsInv, AtWork
<1>7. JobsInv'
  BY <1>5 DEF TimelineInv, JobsInv
<1>8. \A v \in Workers : AtWork(v)' => extraction'[v].chapter # 0
  BY <1>5 DEF TimelineInv, TimelineTypes
<1> QED
  BY <1>2, <1>4, <1>6, <1>7, <1>8

\* The states are what they were when no state was written.
LEMMA StatesKept ==
  ASSUME T!Of("state")' = T!Of("state")
  PROVE  /\ T!OpenOf("state")' = T!OpenOf("state")
         /\ T!Latest(T!OpenOf("state"))' = T!Latest(T!OpenOf("state"))
         /\ T!PastKept
BY DEF T!OpenOf, T!Latest, T!PastKept, T!StateAt, T!Covering

\* The part of a step that is about the states, with one worker at work.
LEMMA StatesFollow ==
  ASSUME NEW w \in Workers, inOrder /\ clean => \A v \in Workers \ {w} : extraction'[v].pc = "idle",
         inOrder' /\ clean' => inOrder /\ clean,
         inOrder' /\ clean' => OpenInv' /\ StepInv(w)',
         inOrder' /\ clean' /\ extraction'[w].pc \notin StateSteps /\ latest'.state # {} => Rested'
  PROVE  StateInv'
<1>1. \A v \in Workers \ {w} : extraction'[v].pc = "idle" => StepInv(v)'
  BY DEF StepInv, StateSteps
<1> QED
  BY <1>1 DEF StateInv, RestInv

\* The steps that write no fact.
LEMMA TimelineQuiet ==
  ASSUME TimelineInv, NEW w \in Workers, T!AddCharacter(w) \/ T!ProbeState(w) \/ T!Appear(w) \/ T!FailStatement(w)
  PROVE  TimelineInv' /\ T!PastKept
<1>1. UNCHANGED <<facts, reports, latest, inOrder>> /\ known' \in BOOLEAN /\ clean' \in BOOLEAN /\ AtWork(w)
  BY DEF T!AddCharacter, T!ProbeState, T!Appear, T!FailStatement, TimelineInv, TimelineTypes, AtWork, T!At
<1>2. PICK s \in StateSteps \cup OtherSteps \cup {"next"} : T!Go(w, s) /\ s # "arrive"
  <2>1. CASE T!AddCharacter(w)
    BY <2>1 DEF T!AddCharacter, StateSteps
  <2>2. CASE T!ProbeState(w)
    BY <2>2 DEF T!ProbeState, StateSteps
  <2>3. CASE T!Appear(w)
    BY <2>3 DEF T!Appear, OtherSteps
  <2>4. CASE T!FailStatement(w)
    BY <2>4 DEF T!FailStatement, StateSteps, OtherSteps
  <2> QED
    BY <2>1, <2>2, <2>3, <2>4
<1>3. TimelineTypes' /\ JobsInv'
  BY <1>1, <1>2, WorkerGoes DEF TimelineInv, TimelineTypes
<1>4. FactsInv'
  BY <1>1 DEF TimelineInv, FactsInv
<1>5. PlaceInv'
  BY <1>1, <1>2, WorkerGoes DEF TimelineInv, PlaceInv, T!Of, T!OpenOf
<1>6. T!Of("state")' = T!Of("state")
  BY <1>1 DEF T!Of
<1>7. T!PastKept
  BY <1>6, StatesKept
<1>8. /\ extraction'[w].pc = s /\ extraction'[w].val = extraction[w].val
      /\ inOrder => \A v \in Workers \ {w} : extraction'[v].pc = "idle"
      /\ inOrder => \A v \in Workers \ {w} : extraction[v].pc = "idle"
  BY <1>1, <1>2, WorkerGoes
<1>9. inOrder' /\ clean' => inOrder /\ clean
  BY <1>1 DEF T!AddCharacter, T!ProbeState, T!Appear, T!FailStatement
<1>10. inOrder /\ clean => OpenInv' /\ OpenInv /\ StepInv(w) /\ RestInv
  BY <1>6, StatesKept DEF TimelineInv, StateInv, OpenInv
<1>11. CASE T!AddCharacter(w)
  <2>1. extraction[w].pc = "add" /\ s = "initial" /\ known' = TRUE
    <3>1. T!Go(w, "initial") /\ extraction[w].pc = "add" /\ known' = TRUE
      BY <1>11 DEF T!AddCharacter, T!At
    <3>2. extraction'[w].pc = "initial"
      BY <1>1, <3>1, WorkerGoes DEF StateSteps
    <3> QED
      BY <1>8, <3>1, <3>2
  <2>2. inOrder /\ clean => StepInv(w)'
    BY <1>1, <1>6, <1>8, <1>10, <2>1 DEF StepInv, StateSteps
  <2> QED
    BY <1>3, <1>4, <1>5, <1>7, <1>8, <1>9, <1>10, <2>1, <2>2, StatesFollow DEF TimelineInv, StateSteps
<1>12. CASE T!ProbeState(w)
  <2>1. extraction[w].pc = "probe" /\ known' = known /\ s \in {"next", "closeState"}
    <3>1. extraction[w].pc = "probe" /\ known' = known /\ (T!Go(w, "next") \/ T!Go(w, "closeState"))
      BY <1>12 DEF T!ProbeState, T!At
    <3>2. extraction'[w].pc \in {"next", "closeState"}
      BY <1>1, <3>1, WorkerGoes DEF StateSteps
    <3> QED
      BY <1>8, <3>1, <3>2
  <2>2. inOrder /\ clean => StepInv(w)'
    BY <1>1, <1>6, <1>8, <1>10, <2>1, StatesKept DEF StepInv, StateSteps
  <2>3. ASSUME inOrder, clean, s = "next" PROVE Rested
    <3> DEFINE S == T!OpenOf("state")
    <3>1. T!Go(w, "next") /\ ~T!Go(w, "closeState")
      <4>1. T!Go(w, "next")
        BY <1>2, <2>3
      <4>2. ASSUME T!Go(w, "closeState") PROVE FALSE
        <5>1. extraction'[w].pc = "closeState"
          BY <1>1, <4>2, WorkerGoes DEF StateSteps
        <5> QED
          BY <1>8, <2>3, <5>1
      <4> QED
        BY <4>1, <4>2
    <3>2. PICK f \in T!Latest(S) : f.val = extraction[w].val
      BY <1>12, <3>1 DEF T!ProbeState
    <3>3. latest.state = {f.val}
      BY <1>10, <2>1, <2>3, <3>2 DEF StepInv, StateSteps
    <3>4. ASSUME NEW g \in T!Latest(S) PROVE g = f
      <4>1. f \in S /\ g \in S /\ f.from <= g.from /\ g.from <= f.from
        BY <3>2 DEF T!Latest
      <4>2. f.from \in Nat /\ g.from \in Nat
        BY <4>1 DEF T!OpenOf, T!Of, TimelineInv, TimelineTypes, Span
      <4>3. f.from = g.from
        BY <4>1, <4>2
      <4> QED
        BY <1>10, <2>3, <4>1, <4>3 DEF OpenInv
    <3> QED
      BY <3>2, <3>3, <3>4 DEF Rested
  <2>4. inOrder' /\ clean' /\ extraction'[w].pc \notin StateSteps => Rested'
    <3>1. Rested' <=> Rested
      BY <1>1, <1>6, StatesKept DEF Rested
    <3> QED
      BY <1>8, <1>9, <2>1, <2>3, <3>1 DEF StateSteps
  <2>5. StateInv'
    BY <1>8, <1>9, <1>10, <2>2, <2>4, StatesFollow
  <2> QED
    BY <1>3, <1>4, <1>5, <1>7, <2>5 DEF TimelineInv
<1>13. CASE T!Appear(w)
  <2>1. extraction[w].pc = "appear" /\ s = "leave"
    <3>1. T!Go(w, "leave") /\ extraction[w].pc = "appear"
      BY <1>13 DEF T!Appear, T!At
    <3>2. extraction'[w].pc = "leave"
      BY <1>1, <3>1, WorkerGoes DEF OtherSteps
    <3> QED
      BY <1>8, <3>1, <3>2
  <2>2. inOrder /\ clean => StepInv(w)'
    BY <1>8, <2>1 DEF StepInv, StateSteps
  <2>3. inOrder' /\ clean' /\ latest'.state # {} => Rested'
    <3>1. Rested' <=> Rested
      BY <1>1, <1>6, StatesKept DEF Rested
    <3>2. inOrder /\ clean => \A v \in Workers : extraction[v].pc \notin StateSteps
      BY <1>8, <2>1 DEF StateSteps
    <3> QED
      BY <1>1, <1>9, <1>10, <3>1, <3>2 DEF RestInv
  <2>4. StateInv'
    BY <1>8, <1>9, <1>10, <2>2, <2>3, StatesFollow
  <2> QED
    BY <1>3, <1>4, <1>5, <1>7, <2>4 DEF TimelineInv
<1>14. CASE T!FailStatement(w)
  BY <1>3, <1>4, <1>5, <1>7, <1>14 DEF TimelineInv, StateInv, T!FailStatement
<1> QED
  BY <1>11, <1>12, <1>13, <1>14

\* Extractions begin, take up reports and end.
LEMMA ExtractionEnds ==
  ASSUME TimelineInv, NEW w \in Workers, T!EndExtraction(w)
  PROVE  TimelineInv' /\ T!PastKept
<1>1. /\ UNCHANGED <<known, facts, reports, latest, inOrder, clean>> /\ extraction[w].pc = "next"
      /\ extraction' = [extraction EXCEPT ![w] = T!Idle]
  BY DEF T!EndExtraction, T!At
<1>2. T!Idle \in Extraction /\ T!Idle.pc = "idle"
  BY DEF T!Idle, Extraction, Contents
<1>3. /\ extraction' \in [Workers -> Extraction] /\ extraction'[w] = T!Idle
      /\ \A v \in Workers \ {w} : extraction'[v] = extraction[v]
  BY <1>1, <1>2 DEF TimelineInv, TimelineTypes
<1>4. \A v \in Workers : AtWork(v)' => v # w /\ AtWork(v) /\ extraction'[v] = extraction[v]
  BY <1>2, <1>3 DEF AtWork
<1>5. TimelineTypes' /\ JobsInv'
  BY <1>1, <1>3, <1>4 DEF TimelineInv, TimelineTypes, JobsInv
<1>6. FactsInv' /\ PlaceInv'
  BY <1>1, <1>2, <1>3 DEF TimelineInv, FactsInv, PlaceInv, T!Of, T!OpenOf
<1>7. T!Of("state")' = T!Of("state")
  BY <1>1 DEF T!Of
<1>8. StateInv'
  <2>1. SUFFICES ASSUME inOrder, clean PROVE OpenInv' /\ (\A v \in Workers : StepInv(v)') /\ RestInv'
    BY <1>1 DEF StateInv
  <2>2. \A v \in Workers : StepInv(v)'
    <3>1. StepInv(w)'
      BY <1>2, <1>3 DEF StepInv, StateSteps
    <3>2. ASSUME NEW v \in Workers \ {w} PROVE StepInv(v)'
      BY <1>1, <1>3, <1>7, <2>1, StatesKept DEF TimelineInv, StateInv, StepInv
    <3> QED
      BY <3>1, <3>2
  <2>3. OpenInv' /\ (Rested' <=> Rested)
    BY <1>1, <1>7, <2>1, StatesKept DEF TimelineInv, StateInv, OpenInv, Rested
  <2>4. (\A v \in Workers : extraction'[v].pc \notin StateSteps) => \A v \in Workers : extraction[v].pc \notin StateSteps
    BY <1>1, <1>3 DEF StateSteps
  <2> QED
    BY <1>1, <2>1, <2>2, <2>3, <2>4 DEF TimelineInv, StateInv, RestInv
<1> QED
  BY <1>5, <1>6, <1>7, <1>8, StatesKept DEF TimelineInv

LEMMA LaterOf ==
  ASSUME NEW a \in Nat, NEW c \in Nat
  PROVE  /\ T!Max({a, c}) \in {a, c}
         /\ c >= a => T!Max({a, c}) = c
<1>1. \E x \in {a, c} : \A y \in {a, c} : x >= y
  <2>1. CASE a >= c
    BY <2>1
  <2>2. CASE ~(a >= c)
    BY <2>2
  <2> QED
    BY <2>1, <2>2
<1>2. T!Max({a, c}) = CHOOSE x \in {a, c} : \A y \in {a, c} : x >= y
  BY DEF T!Max
<1>3. T!Max({a, c}) \in {a, c} /\ \A y \in {a, c} : T!Max({a, c}) >= y
  BY <1>1, <1>2
<1> HIDE DEF T!Max
<1> QED
  BY <1>3

LEMMA ExtractionStarts ==
  ASSUME TimelineInv, T!TimelineAssumption, NEW w \in Workers, T!StartExtraction(w)
  PROVE  TimelineInv' /\ T!PastKept
<1> PICK c \in Chapters :
      /\ extraction' = [extraction EXCEPT ![w] = [T!Idle EXCEPT !.pc = "next", !.chapter = c]]
      /\ inOrder' = (inOrder /\ c >= latest.chapter /\ \A v \in Workers : T!At(v, "idle"))
      /\ latest' = [latest EXCEPT !.chapter = T!Max({latest.chapter, c})]
  BY DEF T!StartExtraction
<1> DEFINE e == [T!Idle EXCEPT !.pc = "next", !.chapter = c]
           m == T!Max({latest.chapter, c})
<1>1. UNCHANGED <<known, facts, reports, clean>> /\ extraction[w].pc = "idle"
  BY DEF T!StartExtraction, T!At
<1>2. latest.chapter \in 0 .. 98 /\ c \in 1 .. 98
  <2>1. latest.chapter \in 0 .. 98
    BY DEF TimelineInv, TimelineTypes
  <2>2. c \in 1 .. 98
    BY DEF T!TimelineAssumption, T!Open
  <2> QED
    BY <2>1, <2>2
<1>3. m \in 0 .. 98 /\ (c >= latest.chapter => m = c)
  <2>1. latest.chapter \in Nat /\ c \in Nat
    BY <1>2
  <2>2. m \in {latest.chapter, c} /\ (c >= latest.chapter => m = c)
    BY <2>1, LaterOf
  <2> HIDE DEF m
  <2> QED
    BY <1>2, <2>2
<1>4. e \in Extraction /\ e.pc = "next" /\ e.chapter = c
  <2>1. 0 \in 0 .. 5 /\ 0 \in Contents /\ c \in 0 .. 98
    BY <1>2 DEF Contents
  <2> QED
    BY <2>1 DEF T!Idle, Extraction
<1>5. extraction' = [extraction EXCEPT ![w] = e] /\ latest' = [latest EXCEPT !.chapter = m]
  OBVIOUS
<1>6. latest' \in [chapter : 0 .. 98, state : SUBSET Contents] /\ latest'.chapter = m /\ latest'.state = latest.state
  <2> HIDE DEF m
  <2> QED
    BY <1>3, <1>5 DEF TimelineInv, TimelineTypes
<1> HIDE DEF e, m
<1>7. /\ extraction' \in [Workers -> Extraction] /\ extraction'[w] = e
      /\ \A v \in Workers \ {w} : extraction'[v] = extraction[v]
  BY <1>4, <1>5 DEF TimelineInv, TimelineTypes
<1>8. inOrder' => inOrder /\ m = c /\ c >= latest.chapter /\ \A v \in Workers : ~AtWork(v)
  BY <1>3 DEF AtWork, T!At
<1>9. inOrder' \in BOOLEAN
  BY DEF TimelineInv, TimelineTypes
<1>10. TimelineTypes'
  <2>1. \A v \in Workers : AtWork(v)' => extraction'[v].chapter # 0
    BY <1>2, <1>4, <1>7 DEF AtWork, TimelineInv, TimelineTypes
  <2> QED
    BY <1>1, <1>6, <1>7, <1>9, <2>1 DEF TimelineInv, TimelineTypes
<1>11. JobsInv'
  BY <1>4, <1>6, <1>7, <1>8 DEF JobsInv, AtWork
<1>12. FactsInv'
  <2> SUFFICES ASSUME inOrder', NEW f \in facts
               PROVE  f.from <= latest'.chapter /\ (f.to = T!Open \/ f.to < latest'.chapter)
    BY <1>1 DEF FactsInv
  <2>1. f.from \in Nat /\ f.to \in Nat
    BY DEF TimelineInv, TimelineTypes, Span, T!Open
  <2>2. f.from <= latest.chapter /\ (f.to = T!Open \/ f.to < latest.chapter) /\ latest'.chapter = c
    BY <1>6, <1>8 DEF TimelineInv, FactsInv
  <2> QED
    BY <1>2, <1>8, <2>1, <2>2
<1>13. PlaceInv'
  BY <1>1, <1>4, <1>7, <1>8 DEF TimelineInv, PlaceInv, T!Of, T!OpenOf
<1>14. T!Of("state")' = T!Of("state")
  BY <1>1 DEF T!Of
<1>15. StateInv'
  <2>1. ASSUME inOrder', clean' PROVE inOrder /\ clean /\ \A v \in Workers : extraction[v].pc = "idle"
    BY <1>1, <1>8, <2>1 DEF AtWork
  <2>2. ASSUME inOrder', clean' PROVE OpenInv' /\ StepInv(w)'
    BY <1>4, <1>7, <1>14, <2>1, <2>2, StatesKept DEF TimelineInv, StateInv, OpenInv, StepInv, StateSteps
  <2>3. ASSUME inOrder', clean', latest'.state # {} PROVE Rested'
    <3>1. Rested
      BY <1>6, <2>1, <2>3 DEF TimelineInv, StateInv, RestInv, StateSteps
    <3> QED
      BY <1>6, <1>14, <3>1, StatesKept DEF Rested
  <2>4. ASSUME inOrder', clean' PROVE \A v \in Workers : StepInv(v)'
    BY <1>7, <2>1, <2>2, <2>4 DEF StepInv, StateSteps
  <2> QED
    BY <2>2, <2>3, <2>4 DEF StateInv, RestInv
<1> QED
  BY <1>10, <1>11, <1>12, <1>13, <1>14, <1>15, StatesKept DEF TimelineInv

LEMMA ReportTaken ==
  ASSUME TimelineInv, T!TimelineAssumption, NEW w \in Workers, T!TakeReport(w)
  PROVE  TimelineInv' /\ T!PastKept
<1> PICK kind \in Kinds, c \in Values :
      /\ extraction' = [extraction EXCEPT ![w] =
           [extraction[w] EXCEPT !.pc = T!First(kind), !.stage = T!Stage(kind), !.val = c]]
      /\ latest' = IF kind \in {"new", "state"} THEN [latest EXCEPT !.state = {c}] ELSE latest
      /\ clean' = (clean /\ (kind = "new" => \A f \in T!Of("state") : f.from # 0)
                         /\ (kind = "state" => known))
  BY DEF T!TakeReport
<1> DEFINE e == [extraction[w] EXCEPT !.pc = T!First(kind), !.stage = T!Stage(kind), !.val = c]
<1>1. UNCHANGED <<known, facts, inOrder>> /\ extraction[w].pc = "next" /\ reports' \in Nat
  BY DEF T!TakeReport, T!At, TimelineInv, TimelineTypes
<1>2. kind \in {"new", "state", "meet", "bond", "move"}
  BY DEF T!TimelineAssumption, T!Reports
<1>3. /\ T!First(kind) \in StateSteps \cup OtherSteps /\ T!First(kind) # "arrive"
      /\ kind = "new" => T!First(kind) = "add"
      /\ kind = "state" => T!First(kind) = "probe"
      /\ kind \notin {"new", "state"} => T!First(kind) \notin StateSteps
  BY <1>2 DEF T!First, StateSteps, OtherSteps
<1>4. T!Stage(kind) \in 0 .. 5
  BY <1>2 DEF T!Stage
<1>5. extraction[w] \in Extraction /\ c \in Contents
  BY DEF TimelineInv, TimelineTypes, Contents
<1>6. e \in Extraction
  <2> DEFINE p == T!First(kind)
             n == T!Stage(kind)
  <2>1. p \in StateSteps \cup OtherSteps /\ n \in 0 .. 5
    BY <1>3, <1>4
  <2> HIDE DEF p, n
  <2>2. [extraction[w] EXCEPT !.pc = p, !.stage = n, !.val = c] \in Extraction
    BY <1>5, <2>1 DEF Extraction
  <2> QED
    BY <2>2 DEF p, n
<1>7. e.pc = T!First(kind) /\ e.val = c /\ e.chapter = extraction[w].chapter
  BY <1>5 DEF Extraction
<1>8. extraction' = [extraction EXCEPT ![w] = e]
  OBVIOUS
<1> HIDE DEF e
<1>9. /\ extraction' \in [Workers -> Extraction] /\ extraction'[w] = e
      /\ \A v \in Workers \ {w} : extraction'[v] = extraction[v]
  BY <1>6, <1>8 DEF TimelineInv, TimelineTypes
<1>10. /\ latest' \in [chapter : 0 .. 98, state : SUBSET Contents] /\ latest'.chapter = latest.chapter
       /\ kind \in {"new", "state"} => latest'.state = {c}
       /\ kind \notin {"new", "state"} => latest' = latest
  BY <1>5 DEF TimelineInv, TimelineTypes
<1>11. \A v \in Workers : AtWork(v)' => AtWork(v) /\ extraction'[v].chapter = extraction[v].chapter
  BY <1>1, <1>7, <1>9 DEF AtWork
<1>12. clean' \in BOOLEAN
  BY DEF TimelineInv, TimelineTypes
<1>13. TimelineTypes'
  BY <1>1, <1>9, <1>10, <1>11, <1>12 DEF TimelineInv, TimelineTypes
<1>14. JobsInv'
  BY <1>1, <1>10, <1>11 DEF TimelineInv, JobsInv
<1>15. FactsInv'
  BY <1>1, <1>10 DEF TimelineInv, FactsInv
<1>16. PlaceInv'
  BY <1>1, <1>3, <1>7, <1>9 DEF TimelineInv, PlaceInv, T!Of, T!OpenOf
<1>17. T!Of("state")' = T!Of("state")
  BY <1>1 DEF T!Of
<1>18. inOrder => \A v \in Workers \ {w} : extraction[v].pc = "idle"
  BY <1>1 DEF TimelineInv, JobsInv, AtWork
<1>19. StateInv'
  <2>1. clean' => clean
    OBVIOUS
  <2>2. ASSUME inOrder', clean' PROVE OpenInv'
    BY <1>1, <1>17, <2>1, <2>2, StatesKept DEF TimelineInv, StateInv, OpenInv
  <2>3. ASSUME inOrder', clean' PROVE StepInv(w)'
    <3>1. CASE kind = "new"
      <4>1. \A f \in T!Of("state")' : f.from # 0
        BY <1>17, <2>3, <3>1
      <4>2. extraction'[w].pc = "add" /\ latest'.state = {extraction'[w].val}
        BY <1>3, <1>7, <1>9, <1>10, <3>1
      <4> QED
        BY <4>1, <4>2 DEF StepInv
    <3>2. CASE kind = "state"
      <4>1. known'
        BY <1>1, <2>3, <3>2
      <4>2. extraction'[w].pc = "probe" /\ latest'.state = {extraction'[w].val}
        BY <1>3, <1>7, <1>9, <1>10, <3>2
      <4> QED
        BY <4>1, <4>2 DEF StepInv
    <3>3. CASE kind \notin {"new", "state"}
      BY <1>3, <1>7, <1>9, <3>3 DEF StepInv, StateSteps
    <3> QED
      BY <3>1, <3>2, <3>3
  <2>4. ASSUME inOrder', clean', extraction'[w].pc \notin StateSteps, latest'.state # {} PROVE Rested'
    <3>1. kind \notin {"new", "state"}
      BY <1>3, <1>7, <1>9, <2>4 DEF StateSteps
    <3>2. latest' = latest
      BY <1>10, <3>1
    <3>3. \A v \in Workers : extraction[v].pc \notin StateSteps
      BY <1>1, <1>18, <2>4 DEF StateSteps
    <3>4. Rested
      BY <1>1, <2>1, <2>4, <3>2, <3>3 DEF TimelineInv, StateInv, RestInv
    <3> QED
      BY <1>17, <3>2, <3>4, StatesKept DEF Rested
  <2>5. inOrder => \A v \in Workers \ {w} : extraction'[v].pc = "idle"
    BY <1>9, <1>18
  <2> QED
    BY <1>1, <2>1, <2>2, <2>3, <2>4, <2>5, StatesFollow
<1> QED
  BY <1>13, <1>14, <1>15, <1>16, <1>17, <1>19, StatesKept DEF TimelineInv

\* A fact that is written is open, and begins now or with the book.
LEMMA FactWritten ==
  ASSUME TimelineInv, NEW w \in Workers, AtWork(w), NEW k \in {"state", "bond", "place"},
         NEW from \in {0, extraction[w].chapter},
         facts' = facts \cup {T!Fact(k, from, extraction[w].val)}, UNCHANGED <<latest, inOrder>>
  PROVE  /\ facts' \subseteq Span /\ FactsInv'
         /\ T!Fact(k, from, extraction[w].val).kind = k /\ T!Fact(k, from, extraction[w].val).from = from
         /\ T!Fact(k, from, extraction[w].val).to = T!Open
         /\ T!Fact(k, from, extraction[w].val).val = extraction[w].val
         /\ T!Of(k)' = T!Of(k) \cup {T!Fact(k, from, extraction[w].val)}
         /\ \A other : other # k => T!Of(other)' = T!Of(other)
<1> DEFINE n == T!Fact(k, from, extraction[w].val)
<1>1. n.kind = k /\ n.from = from /\ n.to = T!Open /\ n.val = extraction[w].val
  BY DEF T!Fact
<1>2. extraction[w].chapter \in 0 .. 98 /\ extraction[w].val \in Contents /\ reports \in Nat
  BY DEF TimelineInv, TimelineTypes, Extraction
<1>3. n \in Span
  <2>1. from \in 0 .. 98 /\ T!Open \in 0 .. T!Open
    BY <1>2 DEF T!Open
  <2> QED
    BY <1>2, <2>1 DEF T!Fact, Span
<1>4. facts' = facts \cup {n}
  OBVIOUS
<1> HIDE DEF n
<1>5. facts' \subseteq Span
  BY <1>3, <1>4 DEF TimelineInv, TimelineTypes
<1>6. FactsInv'
  <2>1. inOrder => from <= latest.chapter
    <3>1. inOrder => latest.chapter = extraction[w].chapter
      BY DEF TimelineInv, JobsInv
    <3> QED
      BY <1>2, <3>1
  <2> QED
    BY <1>1, <1>4, <2>1 DEF TimelineInv, FactsInv, T!Open
<1>7. T!Of(k)' = T!Of(k) \cup {n} /\ \A other : other # k => T!Of(other)' = T!Of(other)
  BY <1>1, <1>4 DEF T!Of
<1> QED
  BY <1>1, <1>5, <1>6, <1>7 DEF n

\* The state that a character is introduced with is open from the start.
LEMMA FirstState ==
  ASSUME TimelineInv, T!TimelineAssumption, NEW w \in Workers, T!InitialState(w)
  PROVE  TimelineInv' /\ T!PastKept
<1> DEFINE n == T!Fact("state", 0, extraction[w].val)
<1>1. /\ UNCHANGED <<known, reports, latest, inOrder, clean>> /\ T!Go(w, "probe")
      /\ extraction[w].pc = "initial" /\ AtWork(w) /\ facts' = facts \cup {n}
  BY DEF T!InitialState, T!At, AtWork
<1>2. /\ facts' \subseteq Span /\ FactsInv' /\ T!Of("state")' = T!Of("state") \cup {n}
      /\ n.kind = "state" /\ n.from = 0 /\ n.to = T!Open /\ n.val = extraction[w].val
      /\ T!Of("place")' = T!Of("place")
  BY <1>1, FactWritten
<1> HIDE DEF n
<1>3. /\ extraction' \in [Workers -> Extraction] /\ JobsInv'
      /\ \A v \in Workers : AtWork(v)' => extraction'[v].chapter # 0
      /\ extraction'[w].pc = "probe" /\ extraction'[w].val = extraction[w].val
      /\ inOrder => \A v \in Workers \ {w} : extraction'[v].pc = "idle"
      /\ inOrder => \A v \in Workers \ {w} : extraction[v].pc = "idle"
  BY <1>1, WorkerGoes DEF StateSteps
<1>4. TimelineTypes'
  BY <1>1, <1>2, <1>3 DEF TimelineInv, TimelineTypes
<1>5. PlaceInv'
  BY <1>1, <1>2, <1>3 DEF TimelineInv, PlaceInv
<1>6. inOrder /\ clean => \A f \in T!Of("state") : f.from # 0
  BY <1>1 DEF TimelineInv, StateInv, StepInv
<1>7. StateInv'
  <2>1. T!OpenOf("state")' = T!OpenOf("state") \cup {n}
    BY <1>2 DEF T!OpenOf
  <2>2. inOrder /\ clean => OpenInv'
    <3>1. inOrder /\ clean => \A f \in T!OpenOf("state") : f.from # 0
      BY <1>6 DEF T!OpenOf
    <3> QED
      BY <1>2, <2>1, <3>1 DEF TimelineInv, StateInv, OpenInv
  <2>3. inOrder /\ clean => StepInv(w)'
    BY <1>1, <1>3 DEF TimelineInv, StateInv, StepInv, StateSteps
  <2> QED
    BY <1>1, <1>3, <2>2, <2>3, StatesFollow DEF StateSteps
<1>8. T!PastKept
  <2> SUFFICES ASSUME inOrder, clean, NEW c \in Chapters, T!StateAt(c) # {}
               PROVE  T!StateAt(c)' = T!StateAt(c)
    BY <1>1 DEF T!PastKept
  <2> DEFINE S == T!Covering("state", c)
  <2>1. c \in 1 .. 98
    BY DEF T!TimelineAssumption, T!Open
  <2>2. T!Covering("state", c)' = S \cup {n}
    BY <1>2, <2>1 DEF T!Covering, T!Open
  <2>3. ASSUME NEW f \in S PROVE f.from \in Nat /\ f.from > 0
    <3>1. f \in T!Of("state") /\ f \in Span
      BY <2>3 DEF T!Covering, T!Of, TimelineInv, TimelineTypes
    <3>2. f.from # 0 /\ f.from \in 0 .. 98
      BY <1>6, <3>1 DEF Span
    <3> QED
      BY <3>2
  <2>4. PICK g \in S : TRUE
    BY DEF T!StateAt, T!Latest
  <2> HIDE DEF S
  <2>5. T!Latest(S \cup {n}) = T!Latest(S)
    <3>1. ~(g.from <= n.from)
      BY <1>2, <2>3, <2>4
    <3>2. \A f \in S : n.from <= f.from
      BY <1>2, <2>3
    <3> QED
      BY <2>4, <3>1, <3>2 DEF T!Latest
  <2>6. T!StateAt(c)' = {f.val : f \in T!Latest(S \cup {n})}
    BY <2>2 DEF T!StateAt, T!Latest
  <2> QED
    BY <2>5, <2>6 DEF T!StateAt, S
<1> QED
  BY <1>2, <1>3, <1>4, <1>5, <1>7, <1>8 DEF TimelineInv

\* A state that is written after the open ones were closed is the only one.
LEMMA NextState ==
  ASSUME TimelineInv, T!TimelineAssumption, NEW w \in Workers, T!CreateState(w)
  PROVE  TimelineInv' /\ T!PastKept
<1> DEFINE n == T!Fact("state", extraction[w].chapter, extraction[w].val)
<1>1. /\ UNCHANGED <<known, reports, latest, inOrder, clean>> /\ T!Go(w, "next")
      /\ extraction[w].pc = "createState" /\ AtWork(w) /\ facts' = IF known THEN facts \cup {n} ELSE facts
  BY DEF T!CreateState, T!At, AtWork
<1>2. known => /\ facts' \subseteq Span /\ FactsInv' /\ T!Of("state")' = T!Of("state") \cup {n}
               /\ n.kind = "state" /\ n.from = extraction[w].chapter /\ n.to = T!Open /\ n.val = extraction[w].val
               /\ T!Of("place")' = T!Of("place")
  BY <1>1, FactWritten
<1>3. ~known => facts' \subseteq Span /\ FactsInv' /\ T!Of("place")' = T!Of("place")
  BY <1>1 DEF TimelineInv, TimelineTypes, FactsInv, T!Of
<1> HIDE DEF n
<1>4. /\ extraction' \in [Workers -> Extraction] /\ JobsInv'
      /\ \A v \in Workers : AtWork(v)' => extraction'[v].chapter # 0
      /\ extraction'[w].pc = "next" /\ extraction'[w].val = extraction[w].val
      /\ inOrder => \A v \in Workers \ {w} : extraction'[v].pc = "idle"
      /\ inOrder => \A v \in Workers \ {w} : extraction[v].pc = "idle"
  BY <1>1, WorkerGoes DEF StateSteps
<1>5. TimelineTypes'
  BY <1>1, <1>2, <1>3, <1>4 DEF TimelineInv, TimelineTypes
<1>6. PlaceInv'
  BY <1>1, <1>2, <1>3, <1>4 DEF TimelineInv, PlaceInv, T!OpenOf
<1>7. inOrder /\ clean => known /\ T!OpenOf("state") = {} /\ latest.state = {extraction[w].val}
  BY <1>1 DEF TimelineInv, StateInv, StepInv, StateSteps
<1>8. StateInv'
  <2>1. inOrder /\ clean => T!OpenOf("state")' = {n}
    BY <1>2, <1>7 DEF T!OpenOf
  <2>2. inOrder /\ clean => OpenInv'
    BY <2>1 DEF OpenInv
  <2>3. inOrder /\ clean => StepInv(w)'
    BY <1>4 DEF StepInv, StateSteps
  <2>4. inOrder /\ clean => Rested'
    <3>1. inOrder /\ clean => T!Latest(T!OpenOf("state"))' = {n}
      <4>1. inOrder /\ clean => n.from \in Nat
        BY <1>2, <1>7 DEF TimelineInv, TimelineTypes, Extraction
      <4> QED
        BY <2>1, <4>1 DEF T!Latest
    <3> QED
      BY <1>1, <1>2, <1>7, <3>1 DEF Rested
  <2> QED
    BY <1>1, <1>4, <2>2, <2>3, <2>4, StatesFollow
<1>9. T!PastKept
  <2> SUFFICES ASSUME inOrder, clean, NEW c \in Chapters, c < latest.chapter
               PROVE  T!StateAt(c)' = T!StateAt(c)
    BY <1>1 DEF T!PastKept
  <2>1. c \in Nat /\ latest.chapter \in Nat /\ n.from = latest.chapter
    BY <1>1, <1>2, <1>7 DEF T!TimelineAssumption, TimelineInv, TimelineTypes, JobsInv
  <2>2. T!Covering("state", c)' = T!Covering("state", c)
    BY <1>2, <1>7, <2>1 DEF T!Covering
  <2> QED
    BY <2>2 DEF T!StateAt, T!Latest
<1> QED
  BY <1>2, <1>3, <1>4, <1>5, <1>6, <1>8, <1>9 DEF TimelineInv

\* A step that is about the relations or the places leaves the states alone.
LEMMA OthersFollow ==
  ASSUME TimelineInv, NEW w \in Workers, extraction[w].pc \in OtherSteps, NEW s \in OtherSteps \cup {"next"},
         T!Go(w, s), UNCHANGED <<reports, latest, inOrder, clean>>, known' \in BOOLEAN,
         facts' \subseteq Span, FactsInv', PlaceInv', T!Of("state")' = T!Of("state")
  PROVE  TimelineInv' /\ T!PastKept
<1>1. AtWork(w)
  BY DEF AtWork, OtherSteps
<1>2. /\ extraction' \in [Workers -> Extraction] /\ JobsInv' /\ extraction'[w].pc = s
      /\ \A v \in Workers : AtWork(v)' => extraction'[v].chapter # 0
      /\ \A v \in Workers \ {w} : extraction'[v] = extraction[v]
      /\ inOrder => \A v \in Workers \ {w} : extraction[v].pc = "idle"
  BY <1>1, WorkerGoes
<1>3. TimelineTypes'
  BY <1>2 DEF TimelineInv, TimelineTypes
<1>4. extraction[w].pc \notin StateSteps /\ s \notin StateSteps
  BY DEF StateSteps, OtherSteps
<1>5. inOrder /\ clean => OpenInv' /\ StepInv(w)'
  BY <1>2, <1>4, StatesKept DEF TimelineInv, StateInv, OpenInv, StepInv, StateSteps
<1>6. inOrder /\ clean /\ latest'.state # {} => Rested'
  <2>1. Rested' <=> Rested
    BY StatesKept DEF Rested
  <2>2. inOrder /\ clean => \A v \in Workers : extraction[v].pc \notin StateSteps
    BY <1>2, <1>4 DEF StateSteps
  <2> QED
    BY <2>1, <2>2 DEF TimelineInv, StateInv, RestInv
<1>7. StateInv'
  BY <1>2, <1>5, <1>6, StatesFollow
<1> QED
  BY <1>2, <1>3, <1>7, StatesKept DEF TimelineInv

LEMMA BondWritten ==
  ASSUME TimelineInv, NEW w \in Workers, T!AddRelationship(w) \/ T!CreateBond(w)
  PROVE  TimelineInv' /\ T!PastKept
<1>1. /\ UNCHANGED <<reports, latest, inOrder, clean>> /\ T!Go(w, "next") /\ known' \in BOOLEAN
      /\ extraction[w].pc \in OtherSteps
      /\ \/ facts' = facts
         \/ facts' = facts \cup {T!Fact("bond", extraction[w].chapter, extraction[w].val)}
  BY DEF T!AddRelationship, T!CreateBond, T!At, OtherSteps, TimelineInv, TimelineTypes
<1>2. AtWork(w)
  BY <1>1 DEF AtWork, OtherSteps
<1>3. /\ facts' \subseteq Span /\ FactsInv' /\ T!Of("state")' = T!Of("state") /\ T!Of("place")' = T!Of("place")
  <2>1. CASE facts' = facts
    BY <1>1, <2>1 DEF TimelineInv, TimelineTypes, FactsInv, T!Of
  <2>2. CASE facts' = facts \cup {T!Fact("bond", extraction[w].chapter, extraction[w].val)}
    BY <1>1, <1>2, <2>2, FactWritten
  <2> QED
    BY <1>1, <2>1, <2>2
<1>4. \A v \in Workers : extraction'[v].pc = "arrive" => extraction[v].pc = "arrive"
  BY <1>1, <1>2, WorkerGoes
<1>5. PlaceInv'
  BY <1>1, <1>3, <1>4 DEF TimelineInv, PlaceInv, T!OpenOf
<1> QED
  BY <1>1, <1>3, <1>5, OthersFollow

\* A new place begins in the latest chapter, when every other has ended before.
LEMMA PlaceWritten ==
  ASSUME TimelineInv, NEW w \in Workers, T!Arrive(w)
  PROVE  TimelineInv' /\ T!PastKept
<1> DEFINE c == extraction[w].chapter
           n == T!Fact("place", c, extraction[w].val)
<1>1. /\ UNCHANGED <<known, reports, latest, inOrder, clean>> /\ T!Go(w, "next")
      /\ extraction[w].pc = "arrive"
      /\ \/ facts' = facts
         \/ facts' = facts \cup {n} /\ \A f \in T!Of("place") : f.from # c
  BY DEF T!Arrive, T!At
<1>2. AtWork(w) /\ extraction[w].pc \in OtherSteps
  BY <1>1 DEF AtWork, OtherSteps
<1>3. CASE facts' = facts
  <2>1. T!Of("state")' = T!Of("state") /\ T!Of("place")' = T!Of("place") /\ facts' \subseteq Span /\ FactsInv'
    BY <1>1, <1>3 DEF TimelineInv, TimelineTypes, FactsInv, T!Of
  <2>2. \A v \in Workers : extraction'[v].pc = "arrive" => extraction[v].pc = "arrive"
    BY <1>1, <1>2, WorkerGoes
  <2>3. PlaceInv'
    BY <1>1, <2>1, <2>2 DEF TimelineInv, PlaceInv, T!OpenOf
  <2> QED
    BY <1>1, <1>2, <2>1, <2>3, OthersFollow DEF TimelineInv, TimelineTypes
<1>4. CASE facts' = facts \cup {n} /\ \A f \in T!Of("place") : f.from # c
  <2>1. /\ facts' \subseteq Span /\ FactsInv' /\ T!Of("state")' = T!Of("state")
        /\ T!Of("place")' = T!Of("place") \cup {n} /\ n.from = c
    BY <1>1, <1>2, <1>4, FactWritten
  <2>2. inOrder => \A v \in Workers : extraction'[v].pc # "arrive"
    <3>1. extraction'[w].pc = "next"
      BY <1>1, <1>2, WorkerGoes
    <3>2. inOrder => \A v \in Workers \ {w} : extraction'[v].pc = "idle"
      BY <1>1, <1>2, WorkerGoes
    <3> QED
      BY <3>1, <3>2
  <2>3. ASSUME inOrder, NEW f \in T!Of("place") PROVE f.from < c /\ f.to < c
    <3>1. f \in facts /\ f \in Span /\ c \in 0 .. 98 /\ latest.chapter = c
      BY <1>2, <2>3 DEF T!Of, TimelineInv, TimelineTypes, JobsInv, Extraction
    <3>2. f.to # T!Open
      BY <1>1, <2>3 DEF TimelineInv, PlaceInv, T!OpenOf
    <3>3. f.from <= c /\ f.to < c /\ f.from # c
      BY <1>4, <2>3, <3>1, <3>2 DEF TimelineInv, FactsInv
    <3>4. f.from \in 0 .. 98 /\ f.to \in 0 .. T!Open /\ T!Open \in Nat
      BY <3>1 DEF Span, T!Open
    <3> HIDE DEF c, n
    <3> QED
      BY <3>1, <3>3, <3>4
  <2>4. ASSUME inOrder, NEW f \in T!Of("place") \cup {n}, NEW g \in T!Of("place") \cup {n}
        PROVE  (f.from = g.from => f = g) /\ (f.from < g.from => f.to < g.from)
    <3>0. c \in Nat
      BY DEF TimelineInv, TimelineTypes, Extraction
    <3> HIDE DEF n, c
    <3>1. CASE f \in T!Of("place") /\ g \in T!Of("place")
      BY <2>4, <3>1 DEF TimelineInv, PlaceInv
    <3>2. CASE f = n /\ g \in T!Of("place")
      <4>1. g.from < c /\ f.from = c /\ g.from \in Nat
        BY <2>1, <2>3, <2>4, <3>2 DEF T!Of, TimelineInv, TimelineTypes, Span
      <4> QED
        BY <3>0, <4>1
    <3>3. CASE g = n /\ f \in T!Of("place")
      <4>1. f.from < c /\ g.from = c /\ f.from \in Nat /\ f.to < c
        BY <2>1, <2>3, <2>4, <3>3 DEF T!Of, TimelineInv, TimelineTypes, Span
      <4> QED
        BY <3>0, <4>1
    <3>4. CASE f = n /\ g = n
      BY <2>1, <3>0, <3>4
    <3> QED
      BY <2>4, <3>1, <3>2, <3>3, <3>4
  <2> HIDE DEF n, c
  <2>5. PlaceInv'
    BY <1>1, <2>1, <2>2, <2>4 DEF PlaceInv
  <2> QED
    BY <1>1, <1>2, <2>1, <2>5, OthersFollow DEF TimelineInv, TimelineTypes
<1> QED
  BY <1>1, <1>3, <1>4

\* To close is to end the open facts of a kind before the chapter.
Shut(f, k, d) == IF f.kind = k /\ f.to = T!Open THEN [f EXCEPT !.to = d - 1] ELSE f
LEMMA ShutFact ==
  ASSUME NEW f \in Span, NEW k, NEW d \in 1 .. 98
  PROVE  /\ Shut(f, k, d) \in Span /\ Shut(f, k, d).kind = f.kind /\ Shut(f, k, d).from = f.from
         /\ Shut(f, k, d).val = f.val
         /\ IF f.kind = k /\ f.to = T!Open THEN Shut(f, k, d).to = d - 1 ELSE Shut(f, k, d) = f
<1>1. d - 1 \in 0 .. T!Open
  BY DEF T!Open
<1>2. CASE f.kind = k /\ f.to = T!Open
  <2> DEFINE t == d - 1
  <2>1. t \in 0 .. T!Open /\ Shut(f, k, d) = [f EXCEPT !.to = t]
    BY <1>1, <1>2 DEF Shut
  <2> HIDE DEF t
  <2>2. [f EXCEPT !.to = t] \in Span
    BY <2>1 DEF Span
  <2>3. /\ [f EXCEPT !.to = t].kind = f.kind /\ [f EXCEPT !.to = t].from = f.from
        /\ [f EXCEPT !.to = t].val = f.val /\ [f EXCEPT !.to = t].to = t
    BY DEF Span
  <2>4. t = d - 1
    BY DEF t
  <2> QED
    BY <1>2, <2>1, <2>2, <2>3, <2>4
<1>3. CASE ~(f.kind = k /\ f.to = T!Open)
  BY <1>3 DEF Shut
<1> QED
  BY <1>2, <1>3

LEMMA FactsClosed ==
  ASSUME TimelineInv, NEW w \in Workers, AtWork(w), NEW k, facts' = T!Close(w, k), UNCHANGED <<latest, inOrder>>
  PROVE  /\ extraction[w].chapter \in 1 .. 98 /\ facts \subseteq Span
         /\ facts' = {Shut(f, k, extraction[w].chapter) : f \in facts}
         /\ facts' \subseteq Span /\ FactsInv' /\ T!OpenOf(k)' = {}
         /\ T!Of(k)' = {Shut(f, k, extraction[w].chapter) : f \in T!Of(k)}
         /\ \A other : other # k => T!Of(other)' = T!Of(other)
<1> DEFINE d == extraction[w].chapter
<1>1. d \in 1 .. 98 /\ facts \subseteq Span /\ latest.chapter \in 0 .. 98
  BY DEF TimelineInv, TimelineTypes, Extraction
<1>2. facts' = {Shut(f, k, d) : f \in facts}
  BY DEF T!Close, T!OpenOf, T!Of, Shut
<1>3. inOrder => latest.chapter = d
  BY DEF TimelineInv, JobsInv
<1> HIDE DEF d
<1>4. \A f \in facts : /\ Shut(f, k, d) \in Span /\ Shut(f, k, d).kind = f.kind /\ Shut(f, k, d).from = f.from
                       /\ IF f.kind = k /\ f.to = T!Open THEN Shut(f, k, d).to = d - 1 ELSE Shut(f, k, d) = f
  BY <1>1, ShutFact
<1>5. facts' \subseteq Span
  BY <1>2, <1>4
<1>6. FactsInv'
  <2> SUFFICES ASSUME inOrder, NEW f \in facts
               PROVE  /\ Shut(f, k, d).from <= latest.chapter
                      /\ Shut(f, k, d).to = T!Open \/ Shut(f, k, d).to < latest.chapter
    BY <1>2 DEF FactsInv
  <2>1. f.from <= latest.chapter /\ (f.to = T!Open \/ f.to < latest.chapter)
    BY DEF TimelineInv, FactsInv
  <2>2. d - 1 < d
    BY <1>1
  <2> QED
    BY <1>3, <1>4, <2>1, <2>2
<1>7. T!OpenOf(k)' = {}
  <2>1. d - 1 # T!Open
    BY <1>1 DEF T!Open
  <2> QED
    BY <1>2, <1>4, <2>1 DEF T!OpenOf, T!Of
<1>8. T!Of(k)' = {Shut(f, k, d) : f \in T!Of(k)}
  BY <1>2, <1>4 DEF T!Of
<1>9. ASSUME NEW other, other # k PROVE T!Of(other)' = T!Of(other)
  BY <1>2, <1>4, <1>9 DEF T!Of
<1> QED
  BY <1>1, <1>2, <1>5, <1>6, <1>7, <1>8, <1>9 DEF d

LEMMA BondsClosed ==
  ASSUME TimelineInv, NEW w \in Workers, T!CloseBond(w)
  PROVE  TimelineInv' /\ T!PastKept
<1>1. /\ UNCHANGED <<known, reports, latest, inOrder, clean>> /\ T!Go(w, "createBond")
      /\ extraction[w].pc \in OtherSteps /\ facts' = T!Close(w, "bond") /\ AtWork(w)
  BY DEF T!CloseBond, T!At, OtherSteps, AtWork
<1>2. facts' \subseteq Span /\ FactsInv' /\ T!Of("state")' = T!Of("state") /\ T!Of("place")' = T!Of("place")
  BY <1>1, FactsClosed
<1>3. \A v \in Workers : extraction'[v].pc = "arrive" => extraction[v].pc = "arrive"
  BY <1>1, WorkerGoes DEF OtherSteps
<1>4. PlaceInv'
  BY <1>1, <1>2, <1>3 DEF TimelineInv, PlaceInv, T!OpenOf
<1> QED
  BY <1>1, <1>2, <1>4, OthersFollow DEF TimelineInv, TimelineTypes, OtherSteps

LEMMA PlacesClosed ==
  ASSUME TimelineInv, NEW w \in Workers, T!Leave(w)
  PROVE  TimelineInv' /\ T!PastKept
<1> DEFINE d == extraction[w].chapter
<1>1. /\ UNCHANGED <<known, reports, latest, inOrder, clean>> /\ T!Go(w, "arrive")
      /\ extraction[w].pc \in OtherSteps /\ facts' = T!Close(w, "place") /\ AtWork(w)
  BY DEF T!Leave, T!At, OtherSteps, AtWork
<1>2. /\ facts' \subseteq Span /\ FactsInv' /\ T!Of("state")' = T!Of("state") /\ T!OpenOf("place")' = {}
      /\ T!Of("place")' = {Shut(f, "place", d) : f \in T!Of("place")} /\ d \in 1 .. 98 /\ facts \subseteq Span
  BY <1>1, FactsClosed
<1> HIDE DEF d
<1>3. \A f \in T!Of("place") :
        /\ Shut(f, "place", d).from = f.from /\ f \in facts
        /\ IF f.to = T!Open THEN Shut(f, "place", d).to = d - 1 ELSE Shut(f, "place", d) = f
  <2> TAKE f \in T!Of("place")
  <2>1. f \in facts /\ f.kind = "place" /\ f \in Span
    BY <1>2 DEF T!Of
  <2> HIDE DEF Shut
  <2> QED
    BY <1>2, <2>1, ShutFact
<1>4. ASSUME inOrder, NEW f \in T!Of("place"), NEW g \in T!Of("place")
      PROVE  /\ Shut(f, "place", d).from = Shut(g, "place", d).from => f = g
             /\ Shut(f, "place", d).from < Shut(g, "place", d).from => Shut(f, "place", d).to < g.from
  <2>1. (f.from = g.from => f = g) /\ (f.from < g.from => f.to < g.from)
    BY <1>4 DEF TimelineInv, PlaceInv
  <2>2. f.from < g.from => f.to # T!Open
    <3>1. g.from \in 0 .. 98
      BY <1>2, <1>3 DEF Span
    <3> QED
      BY <2>1, <3>1 DEF T!Open
  <2> QED
    BY <1>3, <2>1, <2>2
<1>5. PlaceInv'
  <2> SUFFICES ASSUME inOrder, NEW f \in T!Of("place"), NEW g \in T!Of("place")
               PROVE  /\ Shut(f, "place", d).from = Shut(g, "place", d).from => Shut(f, "place", d) = Shut(g, "place", d)
                      /\ Shut(f, "place", d).from < Shut(g, "place", d).from =>
                           Shut(f, "place", d).to < Shut(g, "place", d).from
    BY <1>1, <1>2 DEF PlaceInv
  <2> QED
    BY <1>3, <1>4
<1> QED
  BY <1>1, <1>2, <1>5, OthersFollow DEF TimelineInv, TimelineTypes, OtherSteps

\* The open states end before the chapter: what is told of earlier ones stays.
LEMMA StatesClosed ==
  ASSUME TimelineInv, T!TimelineAssumption, NEW w \in Workers, T!CloseState(w)
  PROVE  TimelineInv' /\ T!PastKept
<1> DEFINE d == extraction[w].chapter
<1>1. /\ UNCHANGED <<known, reports, latest, inOrder, clean>> /\ T!Go(w, "createState")
      /\ extraction[w].pc = "closeState" /\ facts' = T!Close(w, "state") /\ AtWork(w)
  BY DEF T!CloseState, T!At, AtWork
<1>2. /\ facts' \subseteq Span /\ FactsInv' /\ T!Of("place")' = T!Of("place") /\ T!OpenOf("state")' = {}
      /\ T!Of("state")' = {Shut(f, "state", d) : f \in T!Of("state")} /\ d \in 1 .. 98 /\ facts \subseteq Span
  BY <1>1, FactsClosed
<1>3. /\ extraction' \in [Workers -> Extraction] /\ JobsInv'
      /\ \A v \in Workers : AtWork(v)' => extraction'[v].chapter # 0
      /\ extraction'[w].pc = "createState" /\ extraction'[w].val = extraction[w].val
      /\ inOrder => \A v \in Workers \ {w} : extraction'[v].pc = "idle"
      /\ \A v \in Workers \ {w} : extraction'[v] = extraction[v]
  BY <1>1, WorkerGoes DEF StateSteps
<1>4. inOrder => latest.chapter = d
  BY <1>1 DEF TimelineInv, JobsInv
<1> HIDE DEF d
<1>5. TimelineTypes'
  BY <1>1, <1>2, <1>3 DEF TimelineInv, TimelineTypes
<1>6. PlaceInv'
  BY <1>1, <1>2, <1>3 DEF TimelineInv, PlaceInv, T!OpenOf
<1>7. StateInv'
  <2>1. inOrder /\ clean => StepInv(w)'
    BY <1>1, <1>2, <1>3 DEF TimelineInv, StateInv, StepInv, StateSteps
  <2>2. OpenInv'
    BY <1>2 DEF OpenInv
  <2> QED
    BY <1>1, <1>3, <2>1, <2>2, StatesFollow DEF StateSteps
<1>8. T!PastKept
  <2> SUFFICES ASSUME inOrder, clean, NEW c \in Chapters, c < latest.chapter
               PROVE  T!StateAt(c)' = T!StateAt(c)
    BY <1>1 DEF T!PastKept
  <2> DEFINE S == T!Covering("state", c)
             Of == T!Of("state")
             C(f) == Shut(f, "state", d)
  <2>1. c \in 1 .. 98 /\ c <= d - 1 /\ c <= T!Open
    <3>1. c \in 1 .. 98
      BY DEF T!TimelineAssumption, T!Open
    <3> QED
      BY <1>2, <1>4, <3>1 DEF T!Open
  <2>2. ASSUME NEW f \in Of
        PROVE  /\ C(f).from = f.from /\ C(f).val = f.val
               /\ (C(f).from <= c /\ c <= C(f).to) <=> (f.from <= c /\ c <= f.to)
    <3>1. f \in Span /\ f.kind = "state"
      BY <1>2, <2>2 DEF T!Of
    <3>2. /\ C(f).from = f.from /\ C(f).val = f.val
          /\ IF f.to = T!Open THEN C(f).to = d - 1 ELSE C(f) = f
      BY <1>2, <3>1, ShutFact
    <3> QED
      BY <2>1, <3>2
  <2>3. T!Of("state")' = {C(f) : f \in Of}
    BY <1>2
  <2>4. T!Covering("state", c)' = {C(f) : f \in S}
    <3>1. T!Covering("state", c)' = {g \in T!Of("state")' : g.from <= c /\ c <= g.to}
      BY DEF T!Covering
    <3>2. S = {f \in Of : f.from <= c /\ c <= f.to}
      BY DEF T!Covering
    <3> HIDE DEF S, Of, C
    <3> QED
      BY <2>2, <2>3, <3>1, <3>2
  <2>5. \A f \in S : C(f).from = f.from /\ C(f).val = f.val
    BY <2>2 DEF T!Covering
  <2>6. T!StateAt(c)' = {g.val : g \in {x \in {C(f) : f \in S} : \A y \in {C(f) : f \in S} : y.from <= x.from}}
    BY <2>4 DEF T!StateAt, T!Latest
  <2>7. T!StateAt(c) = {g.val : g \in {x \in S : \A y \in S : y.from <= x.from}}
    BY DEF T!StateAt, T!Latest
  <2> HIDE DEF S, Of, C
  <2>8. {x \in {C(f) : f \in S} : \A y \in {C(f) : f \in S} : y.from <= x.from}
        = {C(f) : f \in {x \in S : \A y \in S : y.from <= x.from}}
    BY <2>5
  <2> QED
    BY <2>5, <2>6, <2>7, <2>8
<1> QED
  BY <1>2, <1>3, <1>5, <1>6, <1>7, <1>8 DEF TimelineInv

LEMMA TimelineStep ==
  ASSUME TimelineInv, T!TimelineAssumption, T!TimelineNext
  PROVE  TimelineInv' /\ T!PastKept
<1> PICK w \in Workers :
      \/ T!StartExtraction(w) \/ T!TakeReport(w) \/ T!EndExtraction(w)
      \/ T!AddCharacter(w) \/ T!InitialState(w) \/ T!ProbeState(w) \/ T!CloseState(w) \/ T!CreateState(w)
      \/ T!AddRelationship(w) \/ T!CloseBond(w) \/ T!CreateBond(w)
      \/ T!Appear(w) \/ T!Leave(w) \/ T!Arrive(w) \/ T!FailStatement(w)
  BY DEF T!TimelineNext
<1> HIDE DEF TimelineInv
<1> QED
  BY ExtractionStarts, ReportTaken, ExtractionEnds, TimelineQuiet, FirstState, StatesClosed, NextState,
     BondWritten, BondsClosed, PlacesClosed, PlaceWritten

LEMMA TimelineRests ==
  ASSUME TimelineInv, UNCHANGED timelineVars
  PROVE  TimelineInv'
BY DEF timelineVars, TimelineInv, TimelineTypes, AtWork, JobsInv, FactsInv, PlaceInv, StateInv, OpenInv, StepInv, RestInv,
       Rested, T!Of, T!OpenOf, T!Latest

\* Extractions that ran one at a time and in the order of the chapters: a
\* character is never in two places in one chapter, the state of the latest
\* chapter is the one last reported, and no step of a later chapter changes what
\* is told of the state in an earlier one, whatever the chapters, the workers
\* and the bound on reports (entity_timeline.py).
THEOREM TimelineIsKept == ServicesSpec => TimelineSound
<1> DEFINE Inv == focus = "timeline" => TimelineInv
           Good == focus = "timeline" => T!TimelineSound
           Vars == <<focus, chapterVars, revisionVars, routerVars, decompileVars,
                     timelineVars, foreshadowVars, usageVars, plannerVars, outlinesVars>>
<1>1. T!TimelineAssumption
  BY ServicesAssumption DEF ServicesAssumption
<1>2. ServicesInit => Inv
  BY TimelineStarts DEF ServicesInit, InitT
<1>3. ASSUME Inv, [ServicesNext]_Vars
      PROVE  Inv'
  <2>1. CASE focus = "timeline" /\ T!TimelineNext
    BY <1>1, <1>3, <2>1, TimelineStep DEF ServicesNext, OthersRest
  <2>2. CASE UNCHANGED focus /\ UNCHANGED timelineVars
    BY <1>3, <2>2, TimelineRests
  <2> QED
    BY <1>3, <2>1, <2>2 DEF ServicesNext, OthersRest
<1>4. Inv => Good
  BY <1>1, TimelineHolds
<1>5. ASSUME Inv, Good', [ServicesNext]_Vars
      PROVE  [focus = "timeline" => T!TimelineSound' /\ T!PastKept]_timelineVars
  <2>1. CASE focus = "timeline" /\ T!TimelineNext /\ UNCHANGED focus
    BY <1>1, <1>5, <2>1, TimelineStep
  <2>2. CASE UNCHANGED timelineVars
    BY <2>2
  <2> QED
    BY <1>5, <2>1, <2>2 DEF ServicesNext, OthersRest
<1> QED
  BY <1>2, <1>3, <1>4, <1>5, PTL DEF ServicesSpec, TimelineSound
=============================================================================
