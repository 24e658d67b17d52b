-------------------------- MODULE AuthoringProofs --------------------------
(***************************************************************************)
(* Proofs about components of the sum MCAuthoring.  Each invariant speaks  *)
(* of one component's variables and is kept by its steps; the sum's other  *)
(* steps leave those variables alone.                                      *)
(***************************************************************************)
EXTENDS MCAuthoring, FiniteSetTheorems, TLAPS

-----------------------------------------------------------------------------
(* The rows of prompt_assets and the requests that edit them.               *)
PromptRow == [type : Types, ver : Nat, on : BOOLEAN, body : Nat, live : BOOLEAN]
PromptEdit == [pc : {"idle", "begun", "staged"},
               op : {"none", "create", "update", "switch", "delete", "seed"},
               type : Types \cup {"none"}, hit : SUBSET Nat, ver : Nat]

RowsInv(Administrators) ==
  /\ rows \in Seq(PromptRow) /\ Len(rows) <= MaxRows
  /\ edits \in Nat /\ edit \in [Administrators -> PromptEdit]
  /\ \A e \in Administrators :
       /\ edit[e].op \in {"create", "seed"} => edit[e].type \in Types
       /\ edit[e].op \in {"none", "seed"} => edit[e].hit = {}

\* Rows that are rewritten in place stay as many; an insert adds to them.
LEMMA RowsAppended ==
  ASSUME NEW s \in Seq(PromptRow), NEW f \in [DOMAIN s -> PromptRow],
         NEW t, t = <<>> \/ \E r \in PromptRow : t = <<r>>
  PROVE  /\ f \o t \in Seq(PromptRow) /\ Len(f \o t) = Len(s \o t)
         /\ Len(s) <= Len(f \o t)
<1>1. Len(s) \in Nat /\ DOMAIN s = 1 .. Len(s)
  OBVIOUS
<1>2. f \in Seq(PromptRow) /\ Len(f) = Len(s)
  BY <1>1
<1>3. t \in Seq(PromptRow) /\ Len(t) \in Nat
  <2>1. CASE t = <<>>
    BY <2>1
  <2>2. ASSUME NEW r \in PromptRow, t = <<r>>
        PROVE  t \in Seq(PromptRow) /\ Len(t) \in Nat
    BY <2>2
  <2> QED
    BY <2>1, <2>2
<1> QED
  BY <1>1, <1>2, <1>3

\* An edit rewrites rows in place.
LEMMA RowRewritten ==
  ASSUME rows \in Seq(PromptRow), NEW x \in PromptEdit, x.op \in {"none", "seed"} => x.hit = {}
  PROVE  K!Rewritten(x) \in [DOMAIN rows -> PromptRow]
<1> DEFINE new(i) ==
      CASE x.op = "create" -> [rows[i] EXCEPT !.on = FALSE]
        [] x.op = "update" -> [rows[i] EXCEPT !.body = @ + 1]
        [] x.op = "switch" -> [rows[i] EXCEPT !.on = ~@]
        [] x.op = "delete" -> [rows[i] EXCEPT !.live = FALSE]
<1>1. ASSUME NEW i \in DOMAIN rows
      PROVE  rows[i] \in PromptRow
  OBVIOUS
<1>2. ASSUME NEW i \in DOMAIN rows, i \in x.hit
      PROVE  new(i) \in PromptRow
  <2>1. PICK b \in BOOLEAN : b = ~rows[i].on
    OBVIOUS
  <2>2. ASSUME NEW c \in BOOLEAN
        PROVE  /\ [rows[i] EXCEPT !.on = c] \in PromptRow
               /\ [rows[i] EXCEPT !.live = c] \in PromptRow
    BY <1>1 DEF PromptRow
  <2>3. [rows[i] EXCEPT !.on = ~@] = [rows[i] EXCEPT !.on = b]
    BY <2>1
  <2>4. x.op \in {"create", "update", "switch", "delete"}
    BY <1>2 DEF PromptEdit
  <2>5. ASSUME NEW r \in PromptRow
        PROVE  [r EXCEPT !.body = @ + 1] \in PromptRow
    <3>1. r.body + 1 \in Nat
      BY DEF PromptRow
    <3> QED
      BY <3>1 DEF PromptRow
  <2>6. [rows[i] EXCEPT !.body = @ + 1] \in PromptRow
    BY <1>1, <2>5
  <2> QED
    BY <2>2, <2>3, <2>4, <2>6
<1>3. K!Rewritten(x) = [i \in DOMAIN rows |-> IF i \notin x.hit THEN rows[i] ELSE new(i)]
  BY DEF K!Rewritten
<1> HIDE DEF new
<1> QED
  BY <1>1, <1>2, <1>3

\* What an edit writes down when it begins, is staged and is committed.
NewEdit(op, ty, hit, ver) == [pc |-> "begun", op |-> op, type |-> ty, hit |-> hit, ver |-> ver]
RowsBegun(e) ==
  /\ UNCHANGED rows /\ edits' = edits + 1
  /\ \E ty \in Types :
       \/ \E v \in {rows[i].ver + 1 : i \in K!Of(ty)} \cup (IF K!Of(ty) = {} THEN {1} ELSE {}) :
            edit' = [edit EXCEPT ![e] = NewEdit("create", ty, K!Of(ty), v)]
       \/ \E op \in {"update", "switch", "delete"}, i \in K!Of(ty) :
            edit' = [edit EXCEPT ![e] = NewEdit(op, ty, {i}, 0)]
       \/ edit' = [edit EXCEPT ![e] = NewEdit("seed", ty, {}, 1)]
RowsStaged(e) == UNCHANGED <<rows, edits>> /\ edit' = [edit EXCEPT ![e] = [edit[e] EXCEPT !.pc = "staged"]]

\* Beginning, staging and committing an edit keep the rows' types, and never
\* take a row's number away.
LEMMA RowsStep ==
  ASSUME NEW Administrators, RowsInv(Administrators), NEW e \in Administrators,
         RowsBegun(e) \/ RowsStaged(e) \/ K!CommitRows(e)
  PROVE  RowsInv(Administrators)' /\ Len(rows) <= Len(rows')
<1> USE DEF RowsInv
<1>1. Len(rows) \in Nat /\ edit[e] \in PromptEdit
  OBVIOUS
<1>2. ASSUME NEW r \in PromptEdit, r.op \in {"create", "seed"} => r.type \in Types,
             r.op \in {"none", "seed"} => r.hit = {},
             edit' = [edit EXCEPT ![e] = r], UNCHANGED rows, edits' \in Nat
      PROVE  RowsInv(Administrators)' /\ Len(rows) <= Len(rows')
  BY <1>1, <1>2
<1>3. CASE RowsBegun(e)
  <2>1. UNCHANGED rows /\ edits' \in Nat
    BY <1>3 DEF RowsBegun
  <2>2. PICK ty \in Types :
       \/ \E v \in {rows[i].ver + 1 : i \in K!Of(ty)} \cup (IF K!Of(ty) = {} THEN {1} ELSE {}) :
            edit' = [edit EXCEPT ![e] = NewEdit("create", ty, K!Of(ty), v)]
       \/ \E op \in {"update", "switch", "delete"}, i \in K!Of(ty) :
            edit' = [edit EXCEPT ![e] = NewEdit(op, ty, {i}, 0)]
       \/ edit' = [edit EXCEPT ![e] = NewEdit("seed", ty, {}, 1)]
    BY <1>3 DEF RowsBegun
  <2>3. K!Of(ty) \subseteq 1 .. Len(rows) /\ \A i \in K!Of(ty) : rows[i].ver \in Nat
    <3>1. ASSUME NEW i \in K!Of(ty)
          PROVE  i \in 1 .. Len(rows) /\ rows[i] \in PromptRow
      BY <1>1 DEF K!Of
    <3> QED
      BY <3>1 DEF PromptRow
  <2>4. ASSUME NEW op \in {"create", "update", "switch", "delete", "seed"}, NEW hit \in SUBSET Nat,
               NEW ver \in Nat, op = "seed" => hit = {},
               edit' = [edit EXCEPT ![e] = NewEdit(op, ty, hit, ver)]
        PROVE  RowsInv(Administrators)' /\ Len(rows) <= Len(rows')
    <3>1. NewEdit(op, ty, hit, ver) \in PromptEdit
      BY DEF PromptEdit, NewEdit
    <3> QED
      BY <1>2, <2>1, <2>4, <3>1 DEF NewEdit
  <2>5. ASSUME NEW v \in {rows[i].ver + 1 : i \in K!Of(ty)} \cup (IF K!Of(ty) = {} THEN {1} ELSE {}),
               edit' = [edit EXCEPT ![e] = NewEdit("create", ty, K!Of(ty), v)]
        PROVE  RowsInv(Administrators)' /\ Len(rows) <= Len(rows')
    <3>1. v \in Nat /\ K!Of(ty) \in SUBSET Nat
      BY <2>3
    <3> QED
      BY <2>4, <2>5, <3>1
  <2>6. ASSUME NEW op \in {"update", "switch", "delete"}, NEW i \in K!Of(ty),
               edit' = [edit EXCEPT ![e] = NewEdit(op, ty, {i}, 0)]
        PROVE  RowsInv(Administrators)' /\ Len(rows) <= Len(rows')
    <3>1. {i} \in SUBSET Nat
      BY <2>3
    <3> QED
      BY <2>4, <2>6, <3>1
  <2> QED
    BY <2>2, <2>4, <2>5, <2>6
<1>4. CASE RowsStaged(e)
  <2>1. [edit[e] EXCEPT !.pc = "staged"] \in PromptEdit
    BY <1>1 DEF PromptEdit
  <2> QED
    BY <1>2, <1>4, <2>1 DEF RowsStaged, PromptEdit
<1>5. CASE K!CommitRows(e)
  <2> DEFINE x == edit[e]
  <2>1. rows' = IF K!Stale(x) THEN rows ELSE K!Rewritten(x) \o K!Inserted(x)
    BY <1>5 DEF K!CommitRows
  <2>2. Len(rows \o K!Inserted(x)) <= MaxRows
    BY <1>5 DEF K!CommitRows
  <2>3. K!SetEdit(e, K!NoEdit) /\ UNCHANGED edits
    BY <1>5 DEF K!CommitRows
  <2>4. K!NoEdit \in PromptEdit /\ K!NoEdit.op = "none"
    BY DEF K!NoEdit, PromptEdit
  <2>5. K!Rewritten(x) \in [DOMAIN rows -> PromptRow]
    BY RowRewritten, <1>1
  <2>6. K!Inserted(x) = <<>> \/ \E r \in PromptRow : K!Inserted(x) = <<r>>
    <3>1. CASE x.op \in {"create", "seed"}
      <4>1. K!Row(x.type, x.ver) \in PromptRow
        BY <1>1, <3>1 DEF K!Row, PromptRow, PromptEdit
      <4> QED
        BY <3>1, <4>1 DEF K!Inserted
    <3>2. CASE x.op \notin {"create", "seed"}
      BY <3>2 DEF K!Inserted
    <3> QED
      BY <3>1, <3>2
  <2>7. rows' \in Seq(PromptRow) /\ Len(rows') <= MaxRows /\ Len(rows) <= Len(rows')
    <3>1. CASE K!Stale(x)
      BY <2>1, <3>1, <1>1
    <3>2. CASE ~K!Stale(x)
      BY <2>1, <2>2, <2>5, <2>6, <3>2, RowsAppended
    <3> QED
      BY <3>1, <3>2
  <2>8. edit' \in [Administrators -> PromptEdit]
    BY <2>3, <2>4 DEF K!SetEdit
  <2>9. /\ \A f \in Administrators : edit'[f].op \in {"create", "seed"} => edit'[f].type \in Types
        /\ \A f \in Administrators : edit'[f].op \in {"none", "seed"} => edit'[f].hit = {}
    BY <2>3 DEF K!SetEdit, K!NoEdit
  <2> QED
    BY <2>3, <2>7, <2>8, <2>9
<1> QED
  BY <1>3, <1>4, <1>5

-----------------------------------------------------------------------------
(* The counts of calls.                                                     *)
CountersInv ==
  /\ K!CountersTypeOK /\ lost \in BOOLEAN /\ twice \in BOOLEAN
  /\ ~K!Flushing => flight = 0
  /\ K!TicksKept

LEMMA CountersStart ==
  ASSUME K!CountersInit
  PROVE  CountersInv
<1> USE DEF K!CountersInit
<1>1. K!CountersTypeOK /\ K!TicksKept
  BY DEF K!CountersTypeOK, K!TicksKept
<1>2. lost \in BOOLEAN /\ twice \in BOOLEAN
  OBVIOUS
<1>3. ~K!Flushing => flight = 0
  OBVIOUS
<1> QED
  BY <1>1, <1>2, <1>3 DEF CountersInv

\* A step of the counters moves counts from the calls to the buffers, to the
\* flush and to the rows, or marks what was lost or told twice.
LEMMA CountersStep ==
  ASSUME CountersInv, K!CountersNext
  PROVE  CountersInv'
<1> DEFINE counted == buffer + flight + stored
<1>1. /\ buffer \in Nat /\ flight \in Nat /\ stored \in Nat /\ ticks \in Nat
      /\ ~lost => counted >= ticks
      /\ ~twice => counted <= ticks
      /\ flusher \notin {"flush", "drain"} => flight = 0
  BY DEF CountersInv, K!CountersTypeOK, K!Flushing, K!TicksKept
<1>2. lost \in BOOLEAN /\ twice \in BOOLEAN
  BY DEF CountersInv
<1> DEFINE Numbers == /\ buffer' \in Nat /\ flight' \in Nat /\ stored' \in Nat /\ ticks' \in Nat
                      /\ flusher' \in {"none", "sleep", "flush", "stopped", "drain", "closed"}
                      /\ flusher' \notin {"flush", "drain"} => flight' = 0
<1> DEFINE Bounds == (~lost' => counted' >= ticks') /\ (~twice' => counted' <= ticks')
<1> SUFFICES Numbers /\ Bounds /\ lost' \in BOOLEAN /\ twice' \in BOOLEAN
  BY DEF CountersInv, K!CountersTypeOK, K!Flushing, K!TicksKept
<1>3. CASE K!BufferTick \/ K!TakeTicks \/ K!NothingLeft
  <2>1. lost' = lost /\ twice' = twice
    BY <1>3 DEF K!BufferTick, K!TakeTicks, K!NothingLeft
  <2>2. Numbers
    BY <1>1, <1>3 DEF K!BufferTick, K!TakeTicks, K!NothingLeft, CountersInv, K!CountersTypeOK
  <2>3. Bounds
    BY <1>1, <1>3 DEF K!BufferTick, K!TakeTicks, K!NothingLeft
  <2> QED
    BY <1>2, <2>1, <2>2, <2>3, Zenon
<1>4. CASE K!FlushTicks
  <2>1. PICK n \in 0 .. flight : stored' = stored + n /\ lost' = (lost \/ n < flight)
    BY <1>4 DEF K!FlushTicks
  <2>2. /\ flight' = 0 /\ flusher' \in {"sleep", "closed"}
        /\ buffer' = buffer /\ ticks' = ticks /\ twice' = twice
    BY <1>4 DEF K!FlushTicks, K!AfterFlush
  <2>3. lost' \in BOOLEAN /\ twice' \in BOOLEAN
    BY <1>2, <2>1, <2>2, Zenon
  <2>4. Numbers
    BY <1>1, <2>1, <2>2
  <2>5. ~lost' => ~lost /\ ~(n < flight)
    BY <2>1, Zenon
  <2>6. stored' = stored + n /\ n \in 0 .. flight
    BY <2>1
  <2>7. Bounds
    BY <1>1, <2>2, <2>5, <2>6
  <2> QED
    BY <2>3, <2>4, <2>7, Zenon
<1>5. CASE K!FlushFails
  <2>1. /\ buffer' = buffer + flight /\ flight' = 0 /\ flusher' \in {"sleep", "closed"}
        /\ ticks' = ticks /\ lost' = lost
        /\ (stored' = stored /\ twice' = twice) \/ (stored' = stored + flight /\ twice' = TRUE)
    BY <1>5 DEF K!FlushFails, K!AfterFlush, K!Rebuffered
  <2>2. lost' \in BOOLEAN /\ twice' \in BOOLEAN
    BY <1>2, <2>1, Zenon
  <2>3. Numbers
    BY <1>1, <2>1
  <2>4. Bounds
    BY <1>1, <2>1
  <2> QED
    BY <2>2, <2>3, <2>4, Zenon
<1>6. CASE K!StopFlusher
  <2>1. /\ flight' = 0 /\ lost' = (lost \/ flight > 0) /\ flusher' \in {"stopped", "none"}
        /\ buffer' = buffer /\ stored' = stored /\ ticks' = ticks /\ twice' = twice
    BY <1>6 DEF K!StopFlusher
  <2>2. lost' \in BOOLEAN /\ twice' \in BOOLEAN
    BY <1>2, <2>1, Zenon
  <2>3. Numbers
    BY <1>1, <2>1
  <2>4. ~lost' => ~lost /\ ~(flight > 0)
    BY <2>1, Zenon
  <2>5. flight' = 0 /\ buffer' = buffer /\ stored' = stored /\ ticks' = ticks /\ twice' = twice
    BY <2>1
  <2>6. Bounds
    BY <1>1, <2>4, <2>5
  <2> QED
    BY <2>2, <2>3, <2>6, Zenon
<1> QED
  BY <1>3, <1>4, <1>5, <1>6 DEF K!CountersNext

-----------------------------------------------------------------------------
(* The snapshots of prompts.                                                *)
PromptAges == 0 .. K!Old
Snap == [row : Nat, left : 0 .. Ttl, age : PromptAges]
Asking == [pc : {"idle", "resolve", "select", "selected", "call"}, type : Types \cup {"none"},
           row : Nat, since : PromptAges, age : PromptAges, again : BOOLEAN]

\* An entry will be dropped before it is older than it may be.
SnapOK(x) ==
  /\ x \in Snap /\ x.row <= Len(rows)
  /\ x.left > 0 => x.age + x.left <= K!Life(x)

\* What a call has selected is no older than the moment it noted before.
AskerOK(r) ==
  /\ r \in Asking /\ r.row <= Len(rows)
  /\ r.pc # "idle" => r.type \in Types
  /\ r.age <= r.since
  /\ r.pc # "selected" => r.age = 0

SnapsInv ==
  /\ RowsInv(Editors)
  /\ snaps \in [Types -> Snap] /\ asker \in [Askers -> Asking]
  /\ \A ty \in Types : SnapOK(snaps[ty])
  /\ \A a \in Askers : AskerOK(asker[a])

LEMMA SnapsStart ==
  ASSUME K!CacheAssumption, K!CacheInit
  PROVE  SnapsInv
<1> USE DEF K!CacheAssumption, K!RowsAssumption
<1>1. RowsInv(Editors)
  <2>1. PICK ty \in Types : rows = <<K!Row(ty, 1)>>
    BY DEF K!CacheInit, K!RowsInit
  <2>2. K!Row(ty, 1) \in PromptRow
    BY DEF K!Row, PromptRow
  <2>3. rows \in Seq(PromptRow) /\ Len(rows) = 1
    BY <2>1, <2>2
  <2>4. edits = 0 /\ edit = [e \in Editors |-> K!NoEdit]
    BY DEF K!CacheInit, K!RowsInit
  <2>5. K!NoEdit \in PromptEdit /\ K!NoEdit.op = "none" /\ K!NoEdit.hit = {}
    BY DEF K!NoEdit, PromptEdit
  <2> QED
    BY <2>3, <2>4, <2>5 DEF RowsInv
<1>2. 0 \in PromptAges /\ Len(rows) \in Nat
  BY <1>1 DEF PromptAges, K!Old, RowsInv
<1>3. K!NoSnap \in Snap /\ SnapOK(K!NoSnap)
  BY <1>2 DEF K!NoSnap, Snap, SnapOK
<1>4. K!NoCall \in Asking /\ AskerOK(K!NoCall)
  BY <1>2 DEF K!NoCall, Asking, AskerOK
<1> QED
  BY <1>1, <1>3, <1>4 DEF SnapsInv, K!CacheInit

\* What is known of an entry or a call stays true while rows are added.
LEMMA RowsAdded ==
  ASSUME SnapsInv, RowsInv(Editors)', Len(rows) <= Len(rows')
  PROVE  /\ \A x : SnapOK(x) => SnapOK(x)'
         /\ \A r : AskerOK(r) => AskerOK(r)'
<1>1. Len(rows) \in Nat /\ Len(rows') \in Nat
  BY DEF SnapsInv, RowsInv
<1>2. \A n \in Nat : n <= Len(rows) => n <= Len(rows')
  BY <1>1
<1>3. ASSUME NEW x, SnapOK(x)
      PROVE  SnapOK(x)'
  BY <1>2, <1>3 DEF SnapOK, Snap
<1>4. ASSUME NEW r, AskerOK(r)
      PROVE  AskerOK(r)'
  BY <1>2, <1>4 DEF AskerOK, Asking
<1> QED
  BY <1>3, <1>4

\* An editor's step drops entries at most.
LEMMA SnapsEdited ==
  ASSUME K!CacheAssumption, SnapsInv, NEW e \in Editors,
         K!BeginEdit(e) \/ K!StageEdit(e) \/ K!CommitEdit(e)
  PROVE  SnapsInv'
<1>1. RowsBegun(e) \/ RowsStaged(e) \/ K!CommitRows(e)
  BY DEF K!BeginEdit, K!StageEdit, K!CommitEdit, K!BeginRows, K!StageRows, K!SetEdit,
         RowsBegun, RowsStaged, NewEdit
<1>2. RowsInv(Editors)' /\ Len(rows) <= Len(rows')
  BY <1>1, RowsStep DEF SnapsInv
<1>3. asker' = asker
  BY DEF K!BeginEdit, K!StageEdit, K!CommitEdit
<1>4. \E S \in SUBSET Types : snaps' = [ty \in Types |-> IF ty \in S THEN K!NoSnap ELSE snaps[ty]]
  <2>1. CASE K!StageEdit(e)
    <3> DEFINE S == {ty \in Types : e \notin Remote /\ (edit[e].op = "seed" \/ ty = edit[e].type)}
    <3>1. snaps' = [ty \in Types |-> IF e \notin Remote /\ (edit[e].op = "seed" \/ ty = edit[e].type)
                                     THEN K!NoSnap ELSE snaps[ty]]
      BY <2>1 DEF K!StageEdit
    <3>2. \A ty \in Types : ty \in S <=> e \notin Remote /\ (edit[e].op = "seed" \/ ty = edit[e].type)
      OBVIOUS
    <3> HIDE DEF S
    <3>3. snaps' = [ty \in Types |-> IF ty \in S THEN K!NoSnap ELSE snaps[ty]]
      BY <3>1, <3>2
    <3>4. S \in SUBSET Types
      BY DEF S
    <3> QED
      BY <3>3, <3>4
  <2>2. CASE K!BeginEdit(e) \/ K!CommitEdit(e)
    <3>1. snaps' = snaps
      BY <2>2 DEF K!BeginEdit, K!CommitEdit
    <3>2. snaps' = [ty \in Types |-> IF ty \in {} THEN K!NoSnap ELSE snaps[ty]]
      BY <3>1 DEF SnapsInv
    <3>3. {} \in SUBSET Types
      OBVIOUS
    <3> QED
      BY <3>2, <3>3
  <2> QED
    BY <2>1, <2>2
<1>5. K!NoSnap \in Snap /\ SnapOK(K!NoSnap)
  BY DEF K!CacheAssumption, K!NoSnap, Snap, SnapOK, SnapsInv, RowsInv, PromptAges, K!Old
<1>6. \A x : SnapOK(x) => SnapOK(x)'
  BY <1>2, RowsAdded
<1>7. \A r : AskerOK(r) => AskerOK(r)'
  BY <1>2, RowsAdded
<1>8. snaps' \in [Types -> Snap] /\ \A ty \in Types : SnapOK(snaps'[ty])
  BY <1>4, <1>5 DEF SnapsInv
<1>9. \A ty \in Types : SnapOK(snaps[ty])'
  BY <1>6, <1>8
<1>10. \A a \in Askers : AskerOK(asker[a])'
  BY <1>3, <1>7 DEF SnapsInv
<1> QED
  BY <1>2, <1>3, <1>8, <1>9, <1>10 DEF SnapsInv

\* Time passes: what is kept gets older by what it has less to live.
LEMMA SnapsAged ==
  ASSUME K!CacheAssumption, SnapsInv, K!PassTime
  PROVE  SnapsInv'
<1>1. UNCHANGED <<rows, edit, edits>>
  BY DEF K!PassTime, K!promptRows
<1>2. Ttl \in Nat /\ NegTtl \in Nat /\ NegTtl <= Ttl /\ K!Old = Ttl + 1 /\ PromptAges = 0 .. Ttl + 1
  BY DEF K!CacheAssumption, K!Old, PromptAges
<1>3. \A n \in PromptAges : K!Aged(n) \in PromptAges /\ n <= K!Aged(n) /\ K!Aged(n) <= n + 1
  BY <1>2 DEF K!Aged
<1>4. \A m, n \in PromptAges : m <= n => K!Aged(m) <= K!Aged(n)
  BY <1>2 DEF K!Aged
<1>5. \A x : SnapOK(x) => SnapOK(x)'
  BY <1>1 DEF SnapOK
<1>6. ASSUME NEW ty \in Types
      PROVE  snaps'[ty] \in Snap /\ SnapOK(snaps'[ty])
  <2> DEFINE x == snaps[ty]
  <2>1. x \in Snap /\ SnapOK(x)
    BY DEF SnapsInv
  <2>2. CASE x.left <= 1
    <3>1. snaps'[ty] = K!NoSnap
      BY <2>2 DEF K!PassTime
    <3> QED
      BY <1>2, <3>1 DEF K!NoSnap, Snap, SnapOK, SnapsInv, RowsInv
  <2>3. CASE ~(x.left <= 1)
    <3>1. snaps'[ty] = [x EXCEPT !.left = @ - 1, !.age = K!Aged(@)]
      BY <2>3 DEF K!PassTime
    <3>2. x.left \in 0 .. Ttl /\ x.age \in PromptAges /\ x.row \in Nat
      BY <2>1 DEF Snap
    <3>3. snaps'[ty] = [row |-> x.row, left |-> x.left - 1, age |-> K!Aged(x.age)]
      BY <2>1, <3>1 DEF Snap
    <3>4. K!Aged(x.age) \in PromptAges /\ K!Aged(x.age) <= x.age + 1
      BY <1>3, <3>2
    <3>5. x.left - 1 \in 0 .. Ttl
      BY <1>2, <2>3, <3>2
    <3> HIDE DEF x
    <3>6. K!Aged(x.age) + (x.left - 1) <= x.age + x.left
      BY <1>2, <3>2, <3>4
    <3>7. x.age + x.left <= K!Life(x) /\ K!Life(x) \in Nat /\ K!Life(snaps'[ty]) = K!Life(x)
      BY <1>2, <2>1, <2>3, <3>2, <3>3 DEF SnapOK, K!Life
    <3>8. snaps'[ty].age + snaps'[ty].left <= K!Life(snaps'[ty])
      BY <1>2, <3>2, <3>3, <3>4, <3>6, <3>7
    <3> QED
      BY <2>1, <3>2, <3>3, <3>4, <3>5, <3>8 DEF Snap, SnapOK
  <2> QED
    BY <2>2, <2>3
<1>7. ASSUME NEW a \in Askers
      PROVE  asker'[a] \in Asking /\ AskerOK(asker'[a])
  <2> DEFINE r == asker[a]
  <2>1. r \in Asking /\ AskerOK(r)
    BY DEF SnapsInv
  <2>2. asker'[a] = CASE r.pc = "select" -> [r EXCEPT !.since = K!Aged(@)]
                      [] r.pc = "selected" -> [r EXCEPT !.since = K!Aged(@), !.age = K!Aged(@)]
                      [] OTHER -> r
    BY DEF K!PassTime
  <2> HIDE DEF r
  <2>3. r.since \in PromptAges /\ r.age \in PromptAges
    BY <2>1 DEF Asking
  <2>4. r.age <= r.since
    BY <2>1 DEF AskerOK
  <2>5. K!Aged(r.since) \in PromptAges /\ K!Aged(r.age) \in PromptAges /\ r.since <= K!Aged(r.since)
    BY <1>3, <2>3
  <2>6. K!Aged(r.age) <= K!Aged(r.since)
    BY <1>4, <2>3, <2>4
  <2>7. /\ K!Aged(r.since) \in PromptAges /\ K!Aged(r.age) \in PromptAges
        /\ K!Aged(r.age) <= K!Aged(r.since) /\ r.age <= K!Aged(r.since)
    BY <1>2, <2>3, <2>4, <2>5, <2>6
  <2>8. CASE r.pc = "select"
    BY <2>1, <2>2, <2>7, <2>8 DEF Asking, AskerOK
  <2>9. CASE r.pc = "selected"
    BY <2>1, <2>2, <2>7, <2>9 DEF Asking, AskerOK
  <2>10. CASE r.pc \notin {"select", "selected"}
    BY <2>1, <2>2, <2>10
  <2> QED
    BY <2>8, <2>9, <2>10
<1>8. snaps' \in [Types -> Snap] /\ asker' \in [Askers -> Asking]
  BY <1>6, <1>7 DEF K!PassTime
<1>9. \A ty \in Types : SnapOK(snaps[ty])'
  BY <1>5, <1>6
<1>10. \A a \in Askers : AskerOK(asker[a])'
  BY <1>1, <1>7 DEF AskerOK
<1> QED
  BY <1>1, <1>8, <1>9, <1>10 DEF SnapsInv, RowsInv

\* What a call goes on as when its type's row is found or not found.
LEMMA ResolvedOK ==
  ASSUME K!CacheAssumption, SnapsInv, NEW r, r.type \in Types, r.again \in BOOLEAN, NEW i
  PROVE  AskerOK(K!Resolved(r, i))
<1>1. FallbackOf[r.type] \in Types
  BY DEF K!CacheAssumption, K!RowsAssumption
<1>2. K!NoCall \in Asking /\ AskerOK(K!NoCall)
  BY DEF K!NoCall, Asking, AskerOK, PromptAges, K!Old, K!CacheAssumption, SnapsInv, RowsInv
<1> DEFINE another == [K!NoCall EXCEPT !.type = r.type, !.again = r.again]
<1>3. AskerOK([another EXCEPT !.pc = "call"])
  BY <1>2 DEF AskerOK, Asking, K!NoCall
<1>4. AskerOK([another EXCEPT !.pc = "resolve", !.type = FallbackOf[r.type]])
  BY <1>1, <1>2 DEF AskerOK, Asking, K!NoCall
<1> QED
  BY <1>2, <1>3, <1>4 DEF K!Resolved

\* A call's step stores what it selected for the rest of its life at most.
LEMMA SnapsAsked ==
  ASSUME K!CacheAssumption, SnapsInv, NEW a \in Askers,
         K!Resolve(a) \/ K!Select(a) \/ K!StoreSnap(a) \/ K!SelectFails(a) \/ K!Answer(a)
  PROVE  SnapsInv'
<1> DEFINE r == asker[a]
<1>1. UNCHANGED <<rows, edit, edits>>
  BY DEF K!Resolve, K!Select, K!StoreSnap, K!SelectFails, K!Answer, K!promptRows
<1>2. r \in Asking /\ AskerOK(r) /\ Len(rows) \in Nat
  BY DEF SnapsInv, RowsInv
<1>3. ASSUME NEW n, K!SetAsker(a, n), AskerOK(n), UNCHANGED snaps
      PROVE  SnapsInv'
  <2>1. asker' = [asker EXCEPT ![a] = n] /\ n \in Asking
    BY <1>3 DEF K!SetAsker, AskerOK
  <2>2. \A b \in Askers : AskerOK(asker'[b])
    BY <1>3, <2>1 DEF SnapsInv
  <2>3. \A b \in Askers : AskerOK(asker[b])'
    BY <1>1, <2>2 DEF AskerOK
  <2> QED
    BY <1>1, <1>3, <2>1, <2>3 DEF SnapsInv, RowsInv, SnapOK
<1>4. K!NoCall \in Asking /\ AskerOK(K!NoCall)
  BY DEF K!NoCall, Asking, AskerOK, PromptAges, K!Old, K!CacheAssumption, SnapsInv, RowsInv
<1>5. CASE K!Resolve(a)
  <2>1. PICK ty \in Types :
          K!SetAsker(a, IF snaps[ty].left > 0 THEN K!Resolved([r EXCEPT !.type = ty], snaps[ty].row)
                        ELSE [[r EXCEPT !.type = ty] EXCEPT !.pc = "select"])
    BY <1>2, <1>5 DEF K!Resolve, K!At, AskerOK
  <2>2. r.pc \in {"idle", "resolve"} /\ UNCHANGED snaps
    BY <1>5 DEF K!Resolve, K!At
  <2>3. AskerOK([[r EXCEPT !.type = ty] EXCEPT !.pc = "select"])
    BY <1>2, <2>2 DEF AskerOK, Asking
  <2>4. AskerOK(K!Resolved([r EXCEPT !.type = ty], snaps[ty].row))
    <3>1. [r EXCEPT !.type = ty].type \in Types /\ [r EXCEPT !.type = ty].again \in BOOLEAN
      BY <1>2 DEF Asking
    <3> QED
      BY <3>1, ResolvedOK
  <2> QED
    BY <1>3, <2>1, <2>2, <2>3, <2>4
<1>6. CASE K!Select(a)
  <2>1. PICK i \in K!Found(r.type) : K!SetAsker(a, [r EXCEPT !.pc = "selected", !.row = i])
    BY <1>6 DEF K!Select
  <2>2. i \in 0 .. Len(rows)
    <3>1. DOMAIN rows = 1 .. Len(rows)
      BY DEF SnapsInv, RowsInv
    <3>2. K!On(r.type) \subseteq DOMAIN rows
      BY DEF K!On, K!Of
    <3>3. K!Found(r.type) \subseteq {0} \cup K!On(r.type)
      BY DEF K!Found, K!Highest
    <3> QED
      BY <1>2, <3>1, <3>2, <3>3
  <2>3. AskerOK([r EXCEPT !.pc = "selected", !.row = i])
    <3>1. r.pc = "select"
      BY <1>6 DEF K!Select, K!At
    <3> HIDE DEF r
    <3>2. r.type \in Types /\ r.age <= r.since
      BY <1>2, <3>1 DEF AskerOK
    <3> DEFINE n == [r EXCEPT !.pc = "selected", !.row = i]
    <3>3. n \in Asking
      <4>1. i \in Nat /\ r \in Asking
        BY <1>2, <2>2
      <4> QED
        BY <4>1 DEF Asking
    <3>4. /\ n.type = r.type /\ n.age = r.age /\ n.since = r.since
          /\ n.row = i /\ n.pc = "selected"
      BY <1>2 DEF Asking
    <3> HIDE DEF n
    <3>5. n.row <= Len(rows)
      BY <1>2, <2>2, <3>4
    <3>6. AskerOK(n)
      BY <3>2, <3>3, <3>4, <3>5 DEF AskerOK
    <3> QED
      BY <3>6 DEF n
  <2> QED
    BY <1>3, <1>6, <2>1, <2>3 DEF K!Select
<1>7. CASE K!SelectFails(a)
  <2>1. r.type \in Types /\ r.again \in BOOLEAN
    BY <1>2, <1>7 DEF K!SelectFails, K!At, AskerOK, Asking
  <2> QED
    BY <1>3, <1>7, <2>1, ResolvedOK DEF K!SelectFails
<1>8. CASE K!Answer(a)
  <2>1. AskerOK([K!NoCall EXCEPT !.pc = "resolve", !.type = r.type, !.again = TRUE])
    BY <1>2, <1>4, <1>8 DEF K!Answer, K!At, K!NoCall, AskerOK, Asking
  <2> QED
    BY <1>3, <1>4, <1>8, <2>1 DEF K!Answer
<1>9. CASE K!StoreSnap(a)
  <2> DEFINE x == IF K!Remaining(r) = 0 THEN K!NoSnap
                  ELSE [row |-> r.row, left |-> K!Remaining(r), age |-> r.age]
  <2>1. r.pc = "selected" /\ snaps' = [snaps EXCEPT ![r.type] = x] /\ K!SetAsker(a, K!Resolved(r, r.row))
    BY <1>9 DEF K!StoreSnap, K!At
  <2>2. r.type \in Types /\ r.again \in BOOLEAN /\ r.row \in Nat /\ r.since \in PromptAges /\ r.age \in PromptAges
    BY <1>2, <2>1 DEF AskerOK, Asking
  <2>3. Ttl \in Nat /\ NegTtl \in Nat /\ NegTtl <= Ttl /\ PromptAges = 0 .. Ttl + 1
    BY DEF K!CacheAssumption, K!Old, PromptAges
  <2>4. K!Life(r) \in 0 .. Ttl
    BY <2>3 DEF K!Life
  <2>5. /\ K!Remaining(r) \in 0 .. Ttl
        /\ K!Remaining(r) > 0 => K!Remaining(r) = K!Life(r) - r.since
    BY <2>2, <2>3, <2>4 DEF K!Remaining
  <2>6. SnapOK(x)
    <3>1. CASE K!Remaining(r) = 0
      BY <1>2, <2>3, <3>1 DEF SnapOK, Snap, K!NoSnap
    <3>2. CASE K!Remaining(r) # 0
      <4>1. x = [row |-> r.row, left |-> K!Remaining(r), age |-> r.age]
        BY <3>2
      <4> HIDE DEF x
      <4>2. x \in Snap /\ x.row <= Len(rows)
        BY <1>2, <2>2, <2>5, <4>1 DEF Snap, AskerOK
      <4>3. K!Life(x) = K!Life(r)
        BY <4>1 DEF K!Life
      <4>4. r.age + K!Remaining(r) <= K!Life(r)
        BY <1>2, <2>2, <2>3, <2>4, <2>5, <3>2 DEF AskerOK
      <4> QED
        BY <4>1, <4>2, <4>3, <4>4 DEF SnapOK
    <3> QED
      BY <3>1, <3>2
  <2> HIDE DEF x
  <2>7. snaps' \in [Types -> Snap] /\ \A ty \in Types : SnapOK(snaps'[ty])
    BY <2>1, <2>6 DEF SnapsInv, SnapOK
  <2>8. AskerOK(K!Resolved(r, r.row))
    BY <2>2, ResolvedOK
  <2>9. asker' \in [Askers -> Asking] /\ \A b \in Askers : AskerOK(asker'[b])
    BY <2>1, <2>8 DEF SnapsInv, AskerOK, K!SetAsker
  <2>10. (\A ty \in Types : SnapOK(snaps[ty])') /\ \A b \in Askers : AskerOK(asker[b])'
    BY <1>1, <2>7, <2>9 DEF SnapOK, AskerOK
  <2> QED
    BY <1>1, <2>7, <2>9, <2>10 DEF SnapsInv, RowsInv
<1> QED
  BY <1>5, <1>6, <1>7, <1>8, <1>9

LEMMA SnapsStep ==
  ASSUME K!CacheAssumption, SnapsInv, K!CacheNext
  PROVE  SnapsInv'
  BY SnapsAged, SnapsEdited, SnapsAsked DEF K!CacheNext

\* The invariant is what the run checks, and more.
LEMMA SnapsSound ==
  ASSUME K!CacheAssumption, SnapsInv
  PROVE  K!CacheTypeOK /\ K!SnapshotsFresh
<1>1. rows \in Seq(PromptRow) /\ Len(rows) \in Nat /\ Len(rows) <= MaxRows
  BY DEF SnapsInv, RowsInv
<1>2. \A i \in DOMAIN rows : rows[i].type \in Types
  <2>1. \A i \in DOMAIN rows : rows[i] \in PromptRow
    BY <1>1
  <2> QED
    BY <2>1 DEF PromptRow
<1>3. ASSUME NEW ty \in Types
      PROVE  snaps[ty] \in [row : 0 .. Len(rows), left : 0 .. Ttl, age : 0 .. K!Old]
  <2>1. snaps[ty] \in Snap /\ snaps[ty].row <= Len(rows)
    BY DEF SnapsInv, SnapOK
  <2>2. snaps[ty].row \in 0 .. Len(rows)
    BY <1>1, <2>1 DEF Snap
  <2> QED
    BY <2>1, <2>2 DEF Snap, PromptAges
<1>4. ASSUME NEW a \in Askers
      PROVE  asker[a].row \in 0 .. Len(rows)
  BY <1>1 DEF SnapsInv, AskerOK, Asking
<1>5. K!SnapshotsFresh
  BY DEF K!SnapshotsFresh, SnapsInv, SnapOK
<1> QED
  BY <1>1, <1>2, <1>3, <1>4, <1>5 DEF K!CacheTypeOK

-----------------------------------------------------------------------------
(* The router.                                                              *)
Begun == {e \in RouterEditors : edit[e].pc = "begun"}
Eras == 0 .. MaxRouterEdits

\* Every reset was begun as an edit, and the edits are counted.
EraInv == IsFiniteSet(Begun) /\ router.era + Cardinality(Begun) <= edits /\ edits <= MaxRouterEdits

Route == [row : Nat, body : Nat]
\* A loaded router has the routes of the rows, unless a commit came later.
RouterOK(x) ==
  /\ x \in [era : Nat, made : BOOLEAN, loaded : BOOLEAN, routes : SUBSET Route]
  /\ x.loaded /\ ~overtaken => x.routes = L!Routes

\* What a caller read in this era is what the rows say, until a commit.
CallerOK(r) ==
  /\ r \in [pc : {"idle", "wait", "load", "loaded", "call"}, lock : Eras, era : Nat,
            routes : SUBSET Route]
  /\ r.era <= router.era
  /\ r.pc = "loaded" /\ r.era = router.era /\ ~overtaken => r.routes = L!Routes

RouterInv ==
  /\ RowsInv(RouterEditors) /\ EraInv /\ RouterOK(router)
  /\ turn \in [Eras -> SUBSET Askers] /\ DOMAIN caller = Askers
  /\ \A a \in Askers : CallerOK(caller[a])

LEMMA RoutesType ==
  ASSUME RowsInv(RouterEditors)
  PROVE  L!Routes \subseteq Route
<1>1. Len(rows) \in Nat /\ \A i \in DOMAIN rows : i \in 1 .. Len(rows) /\ rows[i] \in PromptRow
  BY DEF RowsInv
<1>2. \A i \in UNION {L!On(ty) : ty \in Types} : i \in DOMAIN rows
  BY DEF L!On, L!Of
<1>3. \A i \in UNION {L!On(ty) : ty \in Types} : i \in Nat /\ rows[i].body \in Nat
  BY <1>1, <1>2 DEF PromptRow
<1> QED
  BY <1>3 DEF L!Routes, Route

LEMMA RouterStart ==
  ASSUME L!RowsAssumption, L!RouterCacheInit
  PROVE  RouterInv
<1> USE DEF L!RowsAssumption
<1>1. RowsInv(RouterEditors)
  <2>1. PICK ty \in Types : rows = <<L!Row(ty, 1)>>
    BY DEF L!RouterCacheInit, L!RowsInit
  <2>2. L!Row(ty, 1) \in PromptRow
    BY DEF L!Row, PromptRow
  <2>3. rows \in Seq(PromptRow) /\ Len(rows) = 1
    BY <2>1, <2>2
  <2>4. edits = 0 /\ edit = [e \in RouterEditors |-> L!NoEdit]
    BY DEF L!RouterCacheInit, L!RowsInit
  <2>5. L!NoEdit \in PromptEdit /\ L!NoEdit.op = "none" /\ L!NoEdit.hit = {}
    BY DEF L!NoEdit, PromptEdit
  <2> QED
    BY <2>3, <2>4, <2>5 DEF RowsInv
<1>2. /\ router = L!NoRouter(0) /\ turn = [n \in Eras |-> {}]
      /\ caller = [a \in Askers |-> L!NoLoad]
  BY DEF L!RouterCacheInit, Eras
<1>3. RouterOK(router) /\ turn \in [Eras -> SUBSET Askers] /\ DOMAIN caller = Askers
  BY <1>2 DEF RouterOK, L!NoRouter
<1>4. EraInv
  <2>1. Begun = {}
    BY DEF Begun, L!RouterCacheInit, L!RowsInit, L!NoEdit
  <2>2. edits = 0
    BY DEF L!RouterCacheInit, L!RowsInit
  <2>3. IsFiniteSet(Begun) /\ Cardinality(Begun) = 0
    BY <2>1, FS_EmptySet
  <2> QED
    BY <1>2, <2>2, <2>3 DEF EraInv, L!NoRouter
<1>5. \A a \in Askers : CallerOK(caller[a])
  BY <1>2 DEF CallerOK, L!NoRouter, L!NoLoad, Eras
<1> QED
  BY <1>1, <1>3, <1>4, <1>5 DEF RouterInv

\* A caller's step loads the routes it read into the router of their era only.
LEMMA RouterCalled ==
  ASSUME L!RowsAssumption, RouterInv, NEW a \in Askers,
         L!GetRouter(a) \/ L!EnterLock(a) \/ L!LoadRoutes(a) \/ L!FinishLoad(a)
         \/ L!LoadFails(a) \/ L!EndCall(a)
  PROVE  RouterInv'
<1> DEFINE r == caller[a]
<1>1. UNCHANGED <<rows, edit, edits, overtaken>>
  BY DEF L!GetRouter, L!EnterLock, L!LoadRoutes, L!FinishLoad, L!LoadFails, L!EndCall, L!promptRows
<1>2. /\ router.era \in Nat /\ edits \in Nat /\ MaxRouterEdits \in Nat
      /\ RouterOK(router) /\ CallerOK(r) /\ turn \in [Eras -> SUBSET Askers]
  BY DEF RouterInv, RouterOK, RowsInv, L!RowsAssumption
<1>3. router.era \in Eras /\ 0 \in Eras
  <2>1. Cardinality(Begun) \in Nat /\ router.era + Cardinality(Begun) <= edits /\ edits <= MaxRouterEdits
    BY FS_CardinalityType DEF RouterInv, EraInv
  <2> QED
    BY <1>2, <2>1 DEF Eras
<1>4. L!Routes' = L!Routes /\ L!Routes \subseteq Route
  BY <1>1, RoutesType DEF L!Routes, L!On, L!Of, RouterInv
<1>5. ASSUME NEW n, CallerOK(n), L!SetCaller(a, n), RouterOK(router'), router'.era = router.era,
             turn' \in [Eras -> SUBSET Askers]
      PROVE  RouterInv'
  <2>1. RowsInv(RouterEditors)' /\ EraInv'
    BY <1>1, <1>5 DEF RouterInv, RowsInv, EraInv, Begun
  <2>2. RouterOK(router)'
    BY <1>1, <1>4, <1>5 DEF RouterOK
  <2>3. DOMAIN caller' = Askers /\ \A b \in Askers : CallerOK(caller'[b])
    BY <1>5 DEF RouterInv, L!SetCaller
  <2>4. \A b \in Askers : CallerOK(caller[b])'
    BY <1>1, <1>4, <1>5, <2>3 DEF CallerOK
  <2> QED
    BY <1>5, <2>1, <2>2, <2>3, <2>4 DEF RouterInv
<1>6. CallerOK(L!NoLoad) /\ CallerOK(L!Called(r))
  BY <1>2, <1>3 DEF CallerOK, L!NoLoad, L!Called
<1>7. ASSUME NEW S \in SUBSET Askers, NEW n
      PROVE  [turn EXCEPT ![n] = S] \in [Eras -> SUBSET Askers]
  BY <1>2
<1>8. CASE L!GetRouter(a)
  <2>1. CallerOK([r EXCEPT !.pc = "wait", !.lock = router.era])
    BY <1>2, <1>3 DEF CallerOK
  <2> QED
    BY <1>2, <1>5, <1>6, <1>8, <2>1 DEF L!GetRouter
<1>9. CASE L!EnterLock(a)
  <2>1. CallerOK([r EXCEPT !.pc = "call"])
    BY <1>2 DEF CallerOK
  <2>2. CallerOK([r EXCEPT !.pc = "load", !.era = router.era])
    <3> DEFINE n == [r EXCEPT !.pc = "load", !.era = router.era]
    <3> HIDE DEF r
    <3>1. n \in [pc : {"idle", "wait", "load", "loaded", "call"}, lock : Eras, era : Nat, routes : SUBSET Route]
      BY <1>2 DEF CallerOK
    <3>2. n.era = router.era /\ n.pc = "load"
      BY <1>2 DEF CallerOK
    <3> HIDE DEF n
    <3>3. CallerOK(n)
      BY <1>2, <3>1, <3>2 DEF CallerOK
    <3> QED
      BY <3>3 DEF n
  <2>3. RouterOK([router EXCEPT !.made = TRUE]) /\ [router EXCEPT !.made = TRUE].era = router.era
    BY <1>2 DEF RouterOK
  <2>4. CASE router.loaded
    BY <1>2, <1>5, <1>9, <2>1, <2>4 DEF L!EnterLock
  <2>5. CASE ~router.loaded
    <3>1. turn' \in [Eras -> SUBSET Askers]
      BY <1>7, <1>9, <2>5 DEF L!EnterLock
    <3> QED
      BY <1>5, <1>9, <2>2, <2>3, <2>5, <3>1 DEF L!EnterLock
  <2> QED
    BY <2>4, <2>5
<1>10. CASE L!LoadRoutes(a)
  <2> DEFINE n == [r EXCEPT !.pc = "loaded", !.routes = L!Routes]
  <2> HIDE DEF r
  <2>1. n \in [pc : {"idle", "wait", "load", "loaded", "call"}, lock : Eras, era : Nat, routes : SUBSET Route]
    BY <1>2, <1>4 DEF CallerOK
  <2>2. n.era = r.era /\ n.routes = L!Routes
    BY <1>2 DEF CallerOK
  <2> HIDE DEF n
  <2>3. CallerOK(n)
    BY <1>2, <2>1, <2>2 DEF CallerOK
  <2> QED
    BY <1>2, <1>5, <1>10, <2>3 DEF L!LoadRoutes, n, r
<1>11. CASE L!FinishLoad(a)
  <2>1. RouterOK(router') /\ router'.era = router.era
    BY <1>2, <1>11 DEF L!FinishLoad, L!Loaded, L!CallerAt, RouterOK, CallerOK
  <2>2. turn' \in [Eras -> SUBSET Askers]
    BY <1>7, <1>11 DEF L!FinishLoad
  <2> QED
    BY <1>5, <1>6, <1>11, <2>1, <2>2 DEF L!FinishLoad
<1>12. CASE L!LoadFails(a)
  <2>1. turn' \in [Eras -> SUBSET Askers]
    BY <1>7, <1>12 DEF L!LoadFails
  <2> QED
    BY <1>2, <1>5, <1>6, <1>12, <2>1 DEF L!LoadFails
<1>13. CASE L!EndCall(a)
  BY <1>2, <1>5, <1>6, <1>13 DEF L!EndCall
<1> QED
  BY <1>8, <1>9, <1>10, <1>11, <1>12, <1>13

\* An edit that resets the router begins an era that nobody has read in; one
\* that is committed makes what was read in this era old.
LEMMA RouterEdited ==
  ASSUME L!RowsAssumption, RouterInv, NEW e \in RouterEditors,
         L!BeginEditing(e) \/ L!StageEditing(e) \/ L!CommitEditing(e)
  PROVE  RouterInv'
<1>1. RowsBegun(e) \/ RowsStaged(e) \/ K!CommitRows(e)
  BY DEF L!BeginEditing, L!StageEditing, L!CommitEditing, L!BeginRows, L!StageRows, L!SetEdit,
         RowsBegun, RowsStaged, NewEdit, L!Of, K!Of, L!CommitRows, K!CommitRows, L!Stale, K!Stale,
         L!Rewritten, K!Rewritten, L!Inserted, K!Inserted, L!Row, K!Row, K!SetEdit, L!NoEdit, K!NoEdit
<1>2. RowsInv(RouterEditors)'
  BY <1>1, RowsStep DEF RouterInv
<1>3. /\ router.era \in Nat /\ edits \in Nat /\ MaxRouterEdits \in Nat /\ RouterOK(router)
      /\ edit \in [RouterEditors -> PromptEdit]
  BY DEF RouterInv, RouterOK, RowsInv, L!RowsAssumption
<1>4. turn' = turn /\ caller' = caller
  BY DEF L!BeginEditing, L!StageEditing, L!CommitEditing
<1>5. IsFiniteSet(Begun) /\ Cardinality(Begun) \in Nat
      /\ router.era + Cardinality(Begun) <= edits /\ edits <= MaxRouterEdits
  BY FS_CardinalityType DEF RouterInv, EraInv
<1>6. ASSUME UNCHANGED router, UNCHANGED rows, UNCHANGED overtaken
      PROVE  RouterOK(router)' /\ \A a \in Askers : CallerOK(caller[a])'
  <2>1. L!Routes' = L!Routes
    BY <1>6 DEF L!Routes, L!On, L!Of
  <2> QED
    BY <1>4, <1>6, <2>1 DEF RouterOK, CallerOK, RouterInv
<1>7. CASE L!BeginEditing(e)
  <2>1. edits' = edits + 1 /\ edits < MaxRouterEdits /\ UNCHANGED <<rows, router, overtaken>>
        /\ edit[e].pc = "idle"
    BY <1>7 DEF L!BeginEditing, L!BeginRows
  <2>2. Begun' \subseteq Begun \cup {e}
    <3>1. \A f \in RouterEditors \ {e} : edit'[f] = edit[f]
      BY <1>3, <1>7 DEF L!BeginEditing, L!BeginRows, L!SetEdit
    <3> QED
      BY <3>1 DEF Begun
  <2>3. IsFiniteSet(Begun \cup {e}) /\ Cardinality(Begun \cup {e}) <= Cardinality(Begun) + 1
    <3>1. CASE e \in Begun
      <4> DEFINE T == Begun \cup {e}
      <4>1. T = Begun
        BY <3>1
      <4> HIDE DEF T
      <4>2. IsFiniteSet(T) /\ Cardinality(T) <= Cardinality(Begun) + 1
        BY <1>5, <4>1
      <4> QED
        BY <4>2 DEF T
    <3>2. CASE e \notin Begun
      BY <1>5, <3>2, FS_AddElement
    <3> QED
      BY <3>1, <3>2
  <2>4. IsFiniteSet(Begun') /\ Cardinality(Begun') <= Cardinality(Begun \cup {e})
    BY <2>2, <2>3, FS_Subset
  <2>5. Cardinality(Begun') \in Nat /\ Cardinality(Begun \cup {e}) \in Nat
    BY <2>3, <2>4, FS_CardinalityType
  <2>6. EraInv'
    <3>1. router'.era + Cardinality(Begun') <= edits' /\ edits' <= MaxRouterEdits
      BY <1>3, <1>5, <2>1, <2>3, <2>4, <2>5
    <3> QED
      BY <2>4, <3>1 DEF EraInv
  <2> QED
    BY <1>2, <1>4, <1>6, <2>1, <2>6 DEF RouterInv
<1>8. CASE L!StageEditing(e)
  <2>1. /\ edit[e].pc = "begun" /\ UNCHANGED <<rows, edits>>
        /\ edit' = [edit EXCEPT ![e] = [edit[e] EXCEPT !.pc = "staged"]]
        /\ router' = IF L!Resets(edit[e].op) THEN L!NoRouter(router.era + 1) ELSE router
        /\ overtaken' = (overtaken /\ ~L!Resets(edit[e].op))
    BY <1>8 DEF L!StageEditing, L!StageRows, L!SetEdit
  <2>2. Begun' = Begun \ {e} /\ e \in Begun
    <3>1. edit'[e].pc = "staged"
      BY <1>3, <2>1 DEF PromptEdit
    <3>2. \A f \in RouterEditors \ {e} : edit'[f] = edit[f]
      BY <1>3, <2>1
    <3> QED
      BY <2>1, <3>1, <3>2 DEF Begun
  <2>3. IsFiniteSet(Begun') /\ Cardinality(Begun') = Cardinality(Begun) - 1
    BY <1>5, <2>2, FS_RemoveElement
  <2>4. router'.era \in Nat /\ router'.era <= router.era + 1
    BY <1>3, <2>1 DEF L!NoRouter
  <2>5. EraInv'
    <3>1. router'.era + Cardinality(Begun') <= edits' /\ edits' <= MaxRouterEdits
      BY <1>3, <1>5, <2>1, <2>3, <2>4
    <3> QED
      BY <2>3, <3>1 DEF EraInv
  <2>6. CASE L!Resets(edit[e].op)
    <3>1. router' = L!NoRouter(router.era + 1) /\ ~overtaken'
      BY <2>1, <2>6
    <3>2. RouterOK(router)'
      BY <1>3, <3>1 DEF RouterOK, L!NoRouter
    <3>3. ASSUME NEW a \in Askers
          PROVE  CallerOK(caller[a])'
      <4>1. CallerOK(caller[a]) /\ router'.era = router.era + 1
        BY <3>1 DEF RouterInv, L!NoRouter
      <4>2. caller[a].era \in Nat /\ caller[a].era <= router'.era /\ caller[a].era # router'.era
        BY <1>3, <4>1 DEF CallerOK
      <4> QED
        BY <1>4, <4>1, <4>2 DEF CallerOK
    <3> QED
      BY <1>2, <1>4, <2>5, <3>2, <3>3 DEF RouterInv
  <2>7. CASE ~L!Resets(edit[e].op)
    <3>1. UNCHANGED router /\ (overtaken' <=> overtaken)
      BY <2>1, <2>7
    <3>2. L!Routes' = L!Routes
      BY <2>1 DEF L!Routes, L!On, L!Of
    <3>3. RouterOK(router)' /\ \A a \in Askers : CallerOK(caller[a])'
      BY <1>4, <3>1, <3>2 DEF RouterOK, CallerOK, RouterInv
    <3> QED
      BY <1>2, <1>4, <2>5, <3>3 DEF RouterInv
  <2> QED
    BY <2>6, <2>7
<1>9. CASE L!CommitEditing(e)
  <2>1. /\ edit' = [edit EXCEPT ![e] = L!NoEdit] /\ UNCHANGED <<router, edits>>
        /\ overtaken' = (overtaken \/ router.loaded
                   \/ \E a \in Askers : caller[a].pc = "loaded" /\ caller[a].era = router.era)
    BY <1>9 DEF L!CommitEditing, L!CommitRows, L!SetEdit
  <2>2. Begun' \subseteq Begun
    BY <1>3, <2>1 DEF Begun, L!NoEdit
  <2>3. IsFiniteSet(Begun') /\ Cardinality(Begun') <= Cardinality(Begun)
    BY <1>5, <2>2, FS_Subset
  <2>4. EraInv'
    <3>1. Cardinality(Begun') \in Nat
      BY <2>3, FS_CardinalityType
    <3>2. router'.era + Cardinality(Begun') <= edits' /\ edits' <= MaxRouterEdits
      BY <1>3, <1>5, <2>1, <2>3, <3>1
    <3> QED
      BY <2>3, <3>2 DEF EraInv
  <2>5. RouterOK(router)'
    BY <1>3, <2>1 DEF RouterOK
  <2>6. ASSUME NEW a \in Askers
        PROVE  CallerOK(caller[a])'
    BY <1>4, <2>1 DEF CallerOK, RouterInv
  <2> QED
    BY <1>2, <1>4, <2>4, <2>5, <2>6 DEF RouterInv
<1> QED
  BY <1>7, <1>8, <1>9

LEMMA RouterSound ==
  ASSUME L!RowsAssumption, RouterInv
  PROVE  L!RouterCacheTypeOK /\ L!RouterFollows
<1>1. Len(rows) <= MaxRows /\ router.era \in Nat /\ edits \in Nat /\ MaxRouterEdits \in Nat
  BY DEF RouterInv, RouterOK, RowsInv, L!RowsAssumption
<1>2. router.era \in 0 .. MaxRouterEdits
  <2>1. Cardinality(Begun) \in Nat /\ router.era + Cardinality(Begun) <= edits /\ edits <= MaxRouterEdits
    BY FS_CardinalityType DEF RouterInv, EraInv
  <2> QED
    BY <1>1, <2>1
<1>3. /\ \A n \in 0 .. MaxRouterEdits : turn[n] \subseteq Askers
      /\ \A a \in Askers : caller[a].lock \in 0 .. MaxRouterEdits
  BY DEF RouterInv, CallerOK, Eras
<1>4. L!RouterFollows
  BY DEF L!RouterFollows, RouterInv, RouterOK
<1> QED
  BY <1>1, <1>2, <1>3, <1>4 DEF L!RouterCacheTypeOK

-----------------------------------------------------------------------------
(* The rebuild script (Rebuild).                                            *)
Pieces == {"none", "good", "tagged", "flawed", "local"}
Whole == {"none", "good", "local", "own"}
Answers == {"none", "short", "near", "flawed", "drift", "good", "tagged"}
Files == [skeleton : {"none", "good", "local"}, sections : [G!Number -> Whole],
          batches : [G!Number -> [1 .. Batches -> Pieces]]]
Processes ==
  [at : {"stopped", "skeleton", "section", "plan", "batch", "ask", "asked", "assemble", "volumes", "persist"},
   allow : BOOLEAN, use : BOOLEAN, fails : 0 .. Threshold, local : BOOLEAN, inherited : BOOLEAN,
   s : Nat, b : Nat, tries : 0 .. 3, best : Answers, parts : SUBSET (Pieces \ {"none"}),
   text : SUBSET Whole, own : BOOLEAN]

\* What a process has tried, and where it is in the book.
Placed(r) ==
  /\ r.at \in {"section", "batch", "assemble"} => r.tries = 0
  /\ r.at = "ask" => r.tries <= 1
  /\ r.at = "skeleton" => r.tries <= 2
  /\ r.at \in {"plan", "batch", "ask", "asked", "assemble"} => r.s \in G!Number
  /\ r.at \in {"plan", "batch"} => r.b \in 1 .. Batches
  /\ r.at \in {"ask", "asked"} => r.b \in 0 .. Batches

\* Local text that a process has, or can find in its file, is told by its marks.
Accounted(r) == G!Noted(r) \/ r.inherited
Known(r, f) ==
  /\ "local" \in r.text \cup r.parts => Accounted(r)
  /\ r.use /\ G!HasLocal(f) => Accounted(r)

StoredOK == /\ storedBook.book \in {"old", "good", "local"} /\ storedBook.volumes \in {"old", "new"}
            /\ storedBook.book = "local" => storedBook.marked \/ storedBook.inherited
RebuildInv ==
  /\ sections \in Books
  /\ saved \in Files
  /\ run \in Processes /\ Placed(run) /\ Known(run, saved)
  /\ StoredOK

\* A script that is not running has nothing.
LEMMA NotRunningOK ==
  ASSUME G!RebuildAssumption
  PROVE  /\ G!NotRunning \in Processes /\ Placed(G!NotRunning)
         /\ \A f : Known(G!NotRunning, f)
<1> DEFINE r == G!NotRunning
<1>1. r \in Processes
  <2>1. {} \in SUBSET (Pieces \ {"none"}) /\ {} \in SUBSET Whole
    OBVIOUS
  <2>2. 0 \in 0 .. Threshold
    BY DEF G!RebuildAssumption
  <2> QED
    BY <2>1, <2>2 DEF G!NotRunning, Processes, Answers
<1>2. Placed(r)
  BY DEF Placed, G!NotRunning
<1>3. \A f : Known(r, f)
  BY DEF Known, G!NotRunning
<1> QED
  BY <1>1, <1>2, <1>3

\* What a step that stores nothing has to show.
LEMMA Moved ==
  ASSUME RebuildInv, sections' = sections, UNCHANGED storedBook, saved' \in Files,
         NEW q \in Processes, Placed(q), Known(q, saved'), run' = q
  PROVE  RebuildInv'
<1>1. run' \in Processes /\ Placed(run') /\ Known(run', saved')
  OBVIOUS
<1> QED
  BY <1>1 DEF RebuildInv, StoredOK, Files, Processes, Placed, Known, Accounted, G!HasLocal, G!Number, G!Noted, G!Degraded

LEMMA Halted ==
  ASSUME G!RebuildAssumption, RebuildInv, G!Stop, sections' = sections, saved' \in Files, UNCHANGED storedBook
  PROVE  RebuildInv'
BY NotRunningOK, Moved DEF G!Stop

LEMMA RebuildStarts == ASSUME G!RebuildAssumption, G!RebuildInit PROVE RebuildInv
<1>1. saved \in Files
  BY DEF G!RebuildInit, G!NoneSaved, Files, Whole, Pieces
<1>2. run \in Processes /\ Placed(run) /\ Known(run, saved)
  BY NotRunningOK DEF G!RebuildInit
<1> QED
  BY <1>1, <1>2 DEF G!RebuildInit, RebuildInv, StoredOK

\* The step to the next section takes one text.
LEMMA NextSectionOK ==
  ASSUME NEW r \in Processes, NEW txt \in Whole
  PROVE  /\ G!NextSection(r, txt) \in Processes /\ Placed(G!NextSection(r, txt))
         /\ Accounted(G!NextSection(r, txt)) <=> Accounted(r)
         /\ G!NextSection(r, txt).text = r.text \cup {txt}
         /\ G!NextSection(r, txt).parts = {} /\ G!NextSection(r, txt).use = r.use
<1> DEFINE q == G!NextSection(r, txt)
<1>1. q \in Processes
  <2>1. r.s + 1 \in Nat /\ r.text \cup {txt} \in SUBSET Whole /\ {} \in SUBSET (Pieces \ {"none"})
    BY DEF Processes
  <2>2. 0 \in Nat /\ 0 \in 0 .. 3 /\ "none" \in Answers /\ FALSE \in BOOLEAN
    BY DEF Answers
  <2> HIDE DEF Whole, Pieces, Answers
  <2> QED
    BY <2>1, <2>2 DEF Processes, G!NextSection
<1>2. q.at = "section" /\ q.tries = 0 /\ q.text = r.text \cup {txt} /\ q.parts = {}
  BY DEF Processes, G!NextSection
<1>3. q.use = r.use /\ q.fails = r.fails /\ q.local = r.local /\ q.inherited = r.inherited
  BY DEF Processes, G!NextSection
<1> QED
  BY <1>1, <1>2, <1>3 DEF Placed, Accounted, G!Noted, G!Degraded

LEMMA SectionSaved ==
  ASSUME G!RebuildAssumption, RebuildInv, UNCHANGED sections,
         NEW r \in Processes, r.s \in G!Number, Known(r, saved),
         NEW txt, txt = "local" => Accounted(r), G!SectionDone(r, txt)
  PROVE  RebuildInv'
<1>1. CASE ~G!Valid(txt) \/ G!MustStop(r)
  BY <1>1, Halted DEF G!SectionDone, G!Quiet, RebuildInv
<1>2. CASE G!Valid(txt) /\ ~G!MustStop(r)
  <2> DEFINE q == G!NextSection(r, txt)
  <2>1. /\ run' = q /\ UNCHANGED storedBook
        /\ saved' = IF r.use THEN [saved EXCEPT !.sections[r.s] = txt] ELSE saved
    BY <1>2 DEF G!SectionDone, G!Continue
  <2>2. txt \in Whole
    BY <1>2 DEF G!Valid, Whole
  <2>3. saved' \in Files
    BY <2>1, <2>2 DEF RebuildInv, Files
  <2>4. q \in Processes /\ Placed(q)
    BY <2>2, NextSectionOK
  <2>5. "local" \in q.text \cup q.parts => Accounted(q)
    BY <2>2, NextSectionOK DEF Known
  <2>6. ASSUME q.use, G!HasLocal(saved') PROVE Accounted(q)
    <3>1. r.use /\ saved' = [saved EXCEPT !.sections[r.s] = txt]
      BY <2>1, <2>2, <2>6, NextSectionOK
    <3>2. saved'.batches = saved.batches
      BY <3>1 DEF RebuildInv, Files
    <3>3. \A s \in G!Number : saved'.sections[s] = saved.sections[s] \/ saved'.sections[s] = txt
      BY <3>1 DEF RebuildInv, Files
    <3>4. G!HasLocal(saved) \/ txt = "local"
      BY <2>6, <3>2, <3>3 DEF G!HasLocal, G!Number
    <3> QED
      BY <2>2, <3>1, <3>4, NextSectionOK DEF Known
  <2> HIDE DEF q
  <2>7. Known(q, saved')
    BY <2>5, <2>6 DEF Known
  <2> QED
    BY <2>1, <2>3, <2>4, <2>7, Moved
<1> QED
  BY <1>1, <1>2

\* The step to the next batch takes one piece.
LEMMA NextBatchOK ==
  ASSUME G!RebuildAssumption, NEW r \in Processes, r.s \in G!Number, r.b \in 1 .. Batches,
         NEW txt \in Pieces \ {"none"}
  PROVE  /\ G!NextBatch(r, txt) \in Processes /\ Placed(G!NextBatch(r, txt))
         /\ Accounted(G!NextBatch(r, txt)) <=> Accounted(r)
         /\ G!NextBatch(r, txt).text = r.text /\ G!NextBatch(r, txt).parts = r.parts \cup {txt}
         /\ G!NextBatch(r, txt).use = r.use
<1> DEFINE q == G!NextBatch(r, txt)
<1>1. r.b \in Nat /\ Batches \in Nat
  BY DEF G!RebuildAssumption
<1>2. q \in Processes
  <2>1. r.b + 1 \in Nat /\ r.parts \cup {txt} \in SUBSET (Pieces \ {"none"})
    BY <1>1 DEF Processes
  <2>2. 0 \in 0 .. 3 /\ "none" \in Answers
    BY DEF Answers
  <2> HIDE DEF Whole, Pieces, Answers
  <2> QED
    BY <2>1, <2>2 DEF Processes, G!NextBatch
<1>3. /\ q.at = IF r.b = Batches THEN "assemble" ELSE "batch"
      /\ q.b = r.b + 1 /\ q.tries = 0 /\ q.s = r.s /\ q.text = r.text /\ q.parts = r.parts \cup {txt}
      /\ q.use = r.use /\ q.fails = r.fails /\ q.local = r.local /\ q.inherited = r.inherited
  BY DEF Processes, G!NextBatch
<1>4. q.at = "batch" => q.b \in 1 .. Batches
  BY <1>1, <1>3
<1>5. Placed(q)
  BY <1>3, <1>4 DEF Placed
<1> QED
  BY <1>2, <1>3, <1>5 DEF Accounted, G!Noted, G!Degraded

LEMMA BatchSaved ==
  ASSUME G!RebuildAssumption, RebuildInv, UNCHANGED sections,
         NEW r \in Processes, r.s \in G!Number, r.b \in 1 .. Batches, Known(r, saved),
         NEW txt \in {"good", "tagged", "flawed", "local", "drift"}, txt = "local" => Accounted(r),
         G!SaveBatch(r, txt)
  PROVE  RebuildInv'
<1>1. CASE txt = "drift" /\ r.use
  BY <1>1, Halted DEF G!SaveBatch, G!Quiet, RebuildInv
<1>2. CASE ~(txt = "drift" /\ r.use)
  <2> DEFINE piece == IF txt = "drift" THEN "flawed" ELSE txt
             q == G!NextBatch(r, piece)
  <2>1. /\ run' = q /\ UNCHANGED storedBook
        /\ saved' = IF G!Labelled(r) THEN [saved EXCEPT !.batches[r.s][r.b] = txt] ELSE saved
    BY <1>2 DEF G!SaveBatch, G!Continue
  <2>2. piece \in Pieces \ {"none"} /\ (piece = "local" => txt = "local")
    BY DEF Pieces
  <2>3. G!Labelled(r) => txt \in Pieces /\ r.use
    BY <1>2 DEF G!Labelled, Pieces
  <2>4. saved' \in Files
    <3>1. CASE G!Labelled(r)
      <4>1. saved.batches[r.s] \in [1 .. Batches -> Pieces]
        BY DEF RebuildInv, Files
      <4>2. [saved.batches[r.s] EXCEPT ![r.b] = txt] \in [1 .. Batches -> Pieces]
        BY <2>3, <3>1, <4>1
      <4>3. [saved.batches EXCEPT ![r.s] = [saved.batches[r.s] EXCEPT ![r.b] = txt]]
              \in [G!Number -> [1 .. Batches -> Pieces]]
        BY <4>2 DEF RebuildInv, Files
      <4>4. saved' = [saved EXCEPT !.batches = [saved.batches EXCEPT ![r.s] = [saved.batches[r.s] EXCEPT ![r.b] = txt]]]
        BY <2>1, <3>1
      <4> QED
        BY <4>3, <4>4 DEF RebuildInv, Files
    <3>2. CASE ~G!Labelled(r)
      BY <2>1, <3>2 DEF RebuildInv
    <3> QED
      BY <3>1, <3>2
  <2> HIDE DEF piece
  <2>5. q \in Processes /\ Placed(q)
    BY <2>2, NextBatchOK
  <2>6. "local" \in q.text \cup q.parts => Accounted(q)
    BY <2>2, NextBatchOK DEF Known
  <2>7. ASSUME q.use, G!HasLocal(saved') PROVE Accounted(q)
    <3>1. r.use
      BY <2>2, <2>7, NextBatchOK
    <3>2. G!HasLocal(saved) \/ txt = "local"
      <4>1. CASE G!Labelled(r)
        <5>1. saved'.sections = saved.sections
          BY <2>1, <4>1 DEF RebuildInv, Files
        <5>2. \A s \in G!Number, b \in 1 .. Batches :
                saved'.batches[s][b] = saved.batches[s][b] \/ saved'.batches[s][b] = txt
          BY <2>1, <4>1 DEF RebuildInv, Files
        <5> QED
          BY <2>7, <5>1, <5>2 DEF G!HasLocal, G!Number
      <4>2. CASE ~G!Labelled(r)
        BY <2>1, <2>7, <4>2
      <4> QED
        BY <4>1, <4>2
    <3> QED
      BY <2>2, <3>1, <3>2, NextBatchOK DEF Known
  <2> HIDE DEF q
  <2>8. Known(q, saved')
    BY <2>6, <2>7 DEF Known
  <2> QED
    BY <2>1, <2>4, <2>5, <2>8, Moved
<1> QED
  BY <1>1, <1>2

\* What an answer becomes: a section that is done, a batch that is saved, or the
\* end of the process.
LEMMA AnswerTaken ==
  ASSUME G!RebuildAssumption, RebuildInv, UNCHANGED sections,
         NEW r \in Processes, r.s \in G!Number, r.b \in 0 .. Batches, Known(r, saved),
         NEW txt \in Answers \cup {"local"}, txt = "local" => Accounted(r), G!Received(r, txt)
  PROVE  RebuildInv'
<1>1. CASE r.b = 0
  BY <1>1, SectionSaved DEF G!Received
<1>2. CASE r.b # 0 /\ G!Kind = "cast" /\ txt = "none"
  <2> DEFINE q == [r EXCEPT !.local = TRUE]
  <2>1. (G!MustStop(q) /\ G!Stop /\ G!Quiet) \/ G!SaveBatch(q, "local")
    BY <1>2 DEF G!Received
  <2>2. q \in Processes
    BY DEF Processes
  <2>3. q.s = r.s /\ q.b = r.b /\ q.local = TRUE
    BY DEF Processes
  <2> HIDE DEF q
  <2>4. Accounted(q) /\ Known(q, saved)
    BY <2>3 DEF Accounted, Known, G!Noted
  <2>5. q.s \in G!Number /\ q.b \in 1 .. Batches
    BY <1>2, <2>3 DEF G!RebuildAssumption
  <2> QED
    BY <2>1, <2>2, <2>4, <2>5, BatchSaved, Halted DEF G!Quiet, RebuildInv
<1>3. CASE r.b # 0 /\ ~(G!Kind = "cast" /\ txt = "none") /\ G!Short(txt)
  BY <1>3, Halted DEF G!Received, G!Quiet, RebuildInv
<1>4. CASE r.b # 0 /\ ~(G!Kind = "cast" /\ txt = "none") /\ ~G!Short(txt)
  <2>1. txt \in {"good", "tagged", "flawed", "local", "drift"}
    BY <1>4 DEF G!Short, Answers
  <2>2. r.b \in 1 .. Batches
    BY <1>4 DEF G!RebuildAssumption
  <2>3. G!SaveBatch(r, txt)
    BY <1>4 DEF G!Received
  <2> QED
    BY <2>1, <2>2, <2>3, BatchSaved
<1> QED
  BY <1>1, <1>2, <1>3, <1>4

-----------------------------------------------------------------------------
(* The steps of the script.                                                 *)
\* A run that goes on keeps its marks and, with them, what they tell.
Follows(r, q) ==
  /\ q.use = r.use /\ q.text = r.text /\ q.parts \in {r.parts, {}} /\ q.inherited = r.inherited
  /\ q.fails >= r.fails /\ (r.local => q.local)
LEMMA RunGoesOn ==
  ASSUME G!RebuildAssumption, NEW r \in Processes, NEW q \in Processes, Follows(r, q)
  PROVE  /\ Accounted(r) => Accounted(q)
         /\ \A f : Known(r, f) => Known(q, f)
<1>1. q.fails \in Nat /\ r.fails \in Nat /\ Threshold \in Nat
  BY DEF Processes, G!RebuildAssumption
<1>2. Accounted(r) => Accounted(q)
  BY <1>1 DEF Follows, Accounted, G!Noted, G!Degraded
<1>3. "local" \in q.text \cup q.parts => "local" \in r.text \cup r.parts
  BY DEF Follows
<1> QED
  BY <1>2, <1>3 DEF Follows, Known

\* One more try, one more failure, and the mark for local text.
Once(r) == [r EXCEPT !.tries = @ + 1]
Local(r) == [r EXCEPT !.local = TRUE]
SamePlace(r, q) == q.at = r.at /\ q.s = r.s /\ q.b = r.b
LEMMA OnceOK ==
  ASSUME NEW r \in Processes, r.tries \in 0 .. 2
  PROVE  /\ Once(r) \in Processes /\ SamePlace(r, Once(r))
         /\ Follows(r, Once(r)) /\ Once(r).tries = r.tries + 1
<1>1. r.tries + 1 \in 0 .. 3
  OBVIOUS
<1>2. Once(r) \in Processes
  BY <1>1 DEF Once, Processes
<1>3. SamePlace(r, Once(r)) /\ Once(r).tries = r.tries + 1
  BY DEF Once, Processes, SamePlace
<1>4. r.fails \in Nat
  BY DEF Processes
<1>5. Follows(r, Once(r))
  BY <1>4 DEF Once, Processes, Follows
<1> QED
  BY <1>2, <1>3, <1>5

LEMMA LocalOK ==
  ASSUME NEW r \in Processes
  PROVE  /\ Local(r) \in Processes /\ SamePlace(r, Local(r))
         /\ Follows(r, Local(r)) /\ Local(r).tries = r.tries /\ Accounted(Local(r))
<1>1. Local(r) \in Processes
  BY DEF Local, Processes
<1>2. SamePlace(r, Local(r)) /\ Local(r).tries = r.tries /\ Accounted(Local(r))
  BY DEF Local, Processes, SamePlace, Accounted, G!Noted
<1>3. r.fails \in Nat
  BY DEF Processes
<1>4. Follows(r, Local(r))
  BY <1>3 DEF Local, Processes, Follows
<1> QED
  BY <1>1, <1>2, <1>4

LEMMA FailedOK ==
  ASSUME G!RebuildAssumption, NEW r \in Processes
  PROVE  /\ G!Failed(r) \in Processes /\ SamePlace(r, G!Failed(r))
         /\ Follows(r, G!Failed(r)) /\ G!Failed(r).tries = r.tries
<1>1. r.fails \in 0 .. Threshold /\ Threshold \in Nat
  BY DEF Processes, G!RebuildAssumption
<1> DEFINE n == IF r.fails < Threshold THEN r.fails + 1 ELSE r.fails
           q == [r EXCEPT !.fails = n]
<1>2. n \in 0 .. Threshold /\ n >= r.fails
  BY <1>1
<1>3. G!Failed(r) = q
  BY DEF G!Failed
<1> HIDE DEF n
<1>4. q \in Processes
  BY <1>2 DEF Processes
<1>5. SamePlace(r, q) /\ q.tries = r.tries
  BY DEF Processes, SamePlace
<1>6. Follows(r, q)
  BY <1>2 DEF Processes, Follows
<1> HIDE DEF q
<1> QED
  BY <1>3, <1>4, <1>5, <1>6

LEMMA StartStep == ASSUME G!RebuildAssumption, RebuildInv, UNCHANGED sections, G!Start PROVE RebuildInv'
<1> PICK allow \in BOOLEAN, use \in BOOLEAN, reset \in BOOLEAN :
      /\ saved' = IF reset THEN G!NoneSaved ELSE saved
      /\ G!Continue([G!NotRunning EXCEPT !.at = "skeleton", !.allow = allow, !.use = use,
                                         !.inherited = use /\ ~reset /\ G!HasLocal(saved)])
  BY DEF G!Start
<1> DEFINE inherited == use /\ ~reset /\ G!HasLocal(saved)
           q == [G!NotRunning EXCEPT !.at = "skeleton", !.allow = allow, !.use = use, !.inherited = inherited]
<1>1. G!NoneSaved \in Files /\ ~G!HasLocal(G!NoneSaved)
  BY DEF G!NoneSaved, Files, Whole, Pieces, G!HasLocal
<1>2. saved' \in Files /\ UNCHANGED storedBook
  BY <1>1 DEF RebuildInv, G!Start
<1>3. inherited \in BOOLEAN /\ (use /\ G!HasLocal(saved') => inherited)
  BY <1>1 DEF G!HasLocal
<1> HIDE DEF inherited
<1>4. q \in Processes
  BY <1>3, NotRunningOK DEF Processes
<1>5. q.at = "skeleton" /\ q.tries = 0 /\ q.text = {} /\ q.parts = {} /\ q.use = use /\ q.inherited = inherited
  BY DEF G!NotRunning
<1>6. run' = q
  BY DEF G!Continue, inherited
<1> HIDE DEF q
<1>7. Placed(q) /\ Known(q, saved')
  BY <1>3, <1>5 DEF Placed, Known, Accounted
<1> QED
  BY <1>2, <1>4, <1>6, <1>7, Moved

LEMMA SkeletonTaken ==
  ASSUME G!RebuildAssumption, RebuildInv, UNCHANGED sections,
         NEW r \in Processes, Known(r, saved), NEW txt \in {"good", "local"}, G!SkeletonReady(r, txt)
  PROVE  RebuildInv'
<1>1. CASE G!MustStop(r)
  BY <1>1, Halted DEF G!SkeletonReady, G!Quiet, RebuildInv
<1>2. CASE ~G!MustStop(r)
  <2> DEFINE q == [r EXCEPT !.at = "section", !.s = 1, !.tries = 0]
  <2>1. /\ run' = q /\ UNCHANGED storedBook
        /\ saved' = IF r.use THEN [saved EXCEPT !.skeleton = txt] ELSE saved
    BY <1>2 DEF G!SkeletonReady, G!Continue
  <2>2. saved' \in Files /\ saved'.sections = saved.sections /\ saved'.batches = saved.batches
    BY <2>1 DEF RebuildInv, Files
  <2>3. G!HasLocal(saved') => G!HasLocal(saved)
    BY <2>2 DEF G!HasLocal, G!Number
  <2>4. q \in Processes
    <3>1. 1 \in Nat /\ 0 \in 0 .. 3
      OBVIOUS
    <3> QED
      BY <3>1 DEF Processes
  <2>5. q.at = "section" /\ q.tries = 0 /\ q.text = r.text /\ q.parts = r.parts /\ q.use = r.use
    BY DEF Processes
  <2>6. q.fails = r.fails /\ q.local = r.local /\ q.inherited = r.inherited
    BY DEF Processes
  <2> HIDE DEF q
  <2>7. Placed(q) /\ Known(q, saved')
    BY <2>3, <2>5, <2>6 DEF Placed, Known, Accounted, G!Noted, G!Degraded
  <2> QED
    BY <2>1, <2>2, <2>4, <2>7, Moved
<1> QED
  BY <1>1, <1>2

\* A step that saves nothing and whose process follows the one before it.
LEMMA Followed ==
  ASSUME G!RebuildAssumption, RebuildInv, UNCHANGED sections, G!Quiet,
         NEW q \in Processes, Placed(q), Follows(run, q), G!Continue(q)
  PROVE  RebuildInv'
<1>1. Known(q, saved)
  BY RunGoesOn DEF RebuildInv
<1> QED
  BY <1>1, Moved DEF G!Quiet, G!Continue, RebuildInv

LEMMA Stopped ==
  ASSUME G!RebuildAssumption, RebuildInv, UNCHANGED sections, G!Quiet, G!Stop
  PROVE  RebuildInv'
BY Halted DEF G!Quiet, RebuildInv

LEMMA SkeletonSteps ==
  ASSUME G!RebuildAssumption, RebuildInv, UNCHANGED sections,
         G!SkeletonKept \/ G!SkeletonCall \/ G!SkeletonLocal
  PROVE  RebuildInv'
<1>1. CASE G!SkeletonKept
  <2> DEFINE txt == saved.skeleton
  <2>1. txt \in {"good", "local"} /\ G!SkeletonReady(run, txt)
    BY <1>1 DEF G!SkeletonKept, RebuildInv, Files
  <2>2. run \in Processes /\ Known(run, saved)
    BY DEF RebuildInv
  <2> HIDE DEF txt
  <2> QED
    BY <2>1, <2>2, SkeletonTaken
<1>2. CASE G!SkeletonCall
  <2> DEFINE r == Once(run)
  <2>1. \/ G!SkeletonReady(r, "good") \/ (G!Stop /\ G!Quiet)
        \/ (G!Continue(G!Failed(r)) /\ G!Quiet) \/ (G!Continue(r) /\ G!Quiet)
    BY <1>2 DEF G!SkeletonCall, Once
  <2>2. run \in Processes /\ run.at = "skeleton" /\ run.tries \in 0 .. 1
    BY <1>2 DEF RebuildInv, Processes, Placed, G!SkeletonCall, G!SkeletonOver
  <2>3. /\ r \in Processes /\ Follows(run, r) /\ r.at = "skeleton" /\ r.tries <= 2
    BY <2>2, OnceOK DEF SamePlace
  <2>4. Placed(r) /\ Known(r, saved)
    BY <2>2, <2>3, RunGoesOn DEF Placed, RebuildInv
  <2> HIDE DEF r
  <2>5. ASSUME G!Continue(G!Failed(r)), G!Quiet PROVE RebuildInv'
    <3>1. G!Failed(r) \in Processes /\ Follows(r, G!Failed(r)) /\ Placed(G!Failed(r))
      BY <2>3, FailedOK DEF SamePlace, Placed
    <3>2. Known(G!Failed(r), saved)
      BY <2>3, <2>4, <3>1, RunGoesOn
    <3> QED
      BY <2>5, <3>1, <3>2, Moved DEF G!Quiet, G!Continue, RebuildInv
  <2> QED
    BY <2>1, <2>3, <2>4, <2>5, SkeletonTaken, Stopped, Followed
<1>3. CASE G!SkeletonLocal
  <2>1. G!SkeletonReady(Local(run), "local")
    BY <1>3 DEF G!SkeletonLocal, Local
  <2>2. Local(run) \in Processes /\ Known(Local(run), saved)
    BY LocalOK, RunGoesOn DEF RebuildInv
  <2> QED
    BY <2>1, <2>2, SkeletonTaken
<1> QED
  BY <1>1, <1>2, <1>3

\* A section or batch that the file has is taken as it is.
LEMMA KeptSteps ==
  ASSUME G!RebuildAssumption, RebuildInv, UNCHANGED sections, G!SectionKept \/ G!BatchKept
  PROVE  RebuildInv'
<1>1. run \in Processes /\ Known(run, saved)
  BY DEF RebuildInv
<1>2. CASE G!SectionKept
  <2> DEFINE txt == saved.sections[run.s]
             q == G!NextSection(run, txt)
  <2>1. run' = q /\ saved' = saved /\ UNCHANGED storedBook /\ run.s \in G!Number /\ run.use
    BY <1>2 DEF G!SectionKept, G!Continue, G!Quiet, G!Writing
  <2>2. txt \in Whole
    BY <2>1 DEF RebuildInv, Files
  <2>3. txt = "local" => Accounted(run)
    BY <1>1, <2>1 DEF Known, G!HasLocal
  <2> HIDE DEF txt
  <2>4. q \in Processes /\ Placed(q)
    BY <1>1, <2>2, NextSectionOK
  <2>5. Known(q, saved)
    BY <1>1, <2>2, <2>3, NextSectionOK DEF Known
  <2> HIDE DEF q
  <2> QED
    BY <2>1, <2>4, <2>5, Moved DEF RebuildInv
<1>3. CASE G!BatchKept
  <2> DEFINE txt == saved.batches[run.s][run.b]
             q == G!NextBatch(run, txt)
  <2>1. run' = q /\ saved' = saved /\ UNCHANGED storedBook /\ run.use /\ txt # "none" /\ run.at = "batch"
    BY <1>3 DEF G!BatchKept, G!Continue, G!Quiet, G!Cached, G!Labelled
  <2>2. run.s \in G!Number /\ run.b \in 1 .. Batches
    BY <2>1 DEF RebuildInv, Placed
  <2>3. txt \in Pieces \ {"none"}
    BY <2>1, <2>2 DEF RebuildInv, Files
  <2>4. txt = "local" => Accounted(run)
    BY <1>1, <2>1, <2>2 DEF Known, G!HasLocal
  <2> HIDE DEF txt
  <2>5. q \in Processes /\ Placed(q)
    BY <1>1, <2>2, <2>3, NextBatchOK
  <2>6. Known(q, saved)
    BY <1>1, <2>2, <2>3, <2>4, NextBatchOK DEF Known
  <2> HIDE DEF q
  <2> QED
    BY <2>1, <2>5, <2>6, Moved DEF RebuildInv
<1> QED
  BY <1>2, <1>3

\* A section, or a batch, is begun.
LEMMA BeginSteps ==
  ASSUME G!RebuildAssumption, RebuildInv, UNCHANGED sections, G!SectionBegin \/ G!BatchBegin
  PROVE  RebuildInv'
<1>1. run \in Processes /\ Known(run, saved) /\ run.tries \in 0 .. 3 /\ Placed(run)
  BY DEF RebuildInv, Processes
<1>2. CASE G!SectionBegin /\ G!Kind = "cast" /\ G!Degraded(run)
  <2>1. G!SectionDone(Local(run), "local") /\ run.s \in G!Number
    BY <1>2 DEF G!SectionBegin, Local, G!Writing
  <2>2. Local(run) \in Processes /\ Known(Local(run), saved) /\ Accounted(Local(run)) /\ Local(run).s = run.s
    BY <1>1, LocalOK, RunGoesOn DEF SamePlace
  <2> QED
    BY <2>1, <2>2, SectionSaved
<1>3. CASE G!SectionBegin /\ ~(G!Kind = "cast" /\ G!Degraded(run))
  <2> DEFINE place == CASE G!Kind = "plain" -> "ask" [] G!Kind = "plan" -> "plan" [] OTHER -> "batch"
             b == IF G!Kind = "plain" THEN 0 ELSE 1
             q == [run EXCEPT !.at = place, !.b = b]
  <2>1. G!Continue(q) /\ G!Quiet /\ run.at = "section" /\ run.s \in G!Number
    BY <1>3 DEF G!SectionBegin, G!Writing
  <2>2. b \in Nat /\ place \in {"ask", "plan", "batch"} /\ b \in 0 .. Batches /\ (place # "ask" => b \in 1 .. Batches)
    BY DEF G!RebuildAssumption
  <2> HIDE DEF place, b
  <2>3. q \in Processes
    BY <1>1, <2>2 DEF Processes
  <2>4. q.at = place /\ q.b = b /\ q.s = run.s /\ q.tries = run.tries
    BY <1>1 DEF Processes
  <2>5. run.fails \in Nat
    BY <1>1 DEF Processes
  <2>6. Follows(run, q)
    BY <1>1, <2>5 DEF Follows, Processes
  <2> HIDE DEF q
  <2>7. Placed(q)
    BY <1>1, <2>1, <2>2, <2>4 DEF Placed
  <2> QED
    BY <2>1, <2>3, <2>6, <2>7, Followed
<1>4. CASE G!BatchBegin
  <2> DEFINE q == [run EXCEPT !.at = "ask"]
  <2>1. G!Continue(q) /\ G!Quiet /\ run.at = "batch"
    BY <1>4 DEF G!BatchBegin
  <2>2. q \in Processes
    BY <1>1 DEF Processes
  <2>3. q.at = "ask" /\ q.b = run.b /\ q.s = run.s /\ q.tries = run.tries
    BY <1>1 DEF Processes
  <2>4. run.fails \in Nat /\ Batches \in Nat
    BY <1>1 DEF Processes, G!RebuildAssumption
  <2>5. Follows(run, q)
    BY <1>1, <2>4 DEF Follows, Processes
  <2> HIDE DEF q
  <2>6. Placed(q)
    BY <1>1, <2>1, <2>3, <2>4 DEF Placed
  <2> QED
    BY <2>1, <2>2, <2>5, <2>6, Followed
<1> QED
  BY <1>2, <1>3, <1>4

\* The plan of a section's volumes.
LEMMA Planned ==
  ASSUME G!RebuildAssumption, RebuildInv, UNCHANGED sections, G!Quiet, run.at = "plan",
         NEW r \in Processes, Follows(run, r), SamePlace(run, r), NEW own \in BOOLEAN,
         G!Continue([r EXCEPT !.at = "batch", !.tries = 0, !.own = own])
  PROVE  RebuildInv'
<1> DEFINE q == [r EXCEPT !.at = "batch", !.tries = 0, !.own = own]
<1>1. q \in Processes
  <2>1. 0 \in 0 .. 3
    OBVIOUS
  <2> QED
    BY <2>1 DEF Processes
<1>2. q.at = "batch" /\ q.tries = 0 /\ q.s = r.s /\ q.b = r.b
  BY DEF Processes
<1>3. q.use = r.use /\ q.text = r.text /\ q.parts = r.parts /\ q.inherited = r.inherited
  BY DEF Processes
<1>4. q.fails = r.fails /\ q.local = r.local
  BY DEF Processes
<1>5. G!Continue(q)
  OBVIOUS
<1> HIDE DEF q
<1>6. Follows(run, q)
  BY <1>3, <1>4 DEF Follows
<1>7. run.s \in G!Number /\ run.b \in 1 .. Batches
  BY DEF RebuildInv, Placed
<1>8. Placed(q)
  BY <1>2, <1>7 DEF Placed, SamePlace
<1> QED
  BY <1>1, <1>5, <1>6, <1>8, Followed

\* A process that asks for the plan once more.
LEMMA Replans ==
  ASSUME G!RebuildAssumption, RebuildInv, UNCHANGED sections, G!Quiet, run.at = "plan",
         NEW r \in Processes, Follows(run, r), SamePlace(run, r), G!Continue(r)
  PROVE  RebuildInv'
<1>1. run.s \in G!Number /\ run.b \in 1 .. Batches
  BY DEF RebuildInv, Placed
<1>2. Placed(r)
  BY <1>1 DEF Placed, SamePlace
<1> QED
  BY <1>2, Followed

LEMMA PlanStep == ASSUME G!RebuildAssumption, RebuildInv, UNCHANGED sections, G!PlanCall PROVE RebuildInv'
<1> DEFINE Takes(q, own) == G!Continue([q EXCEPT !.at = "batch", !.tries = 0, !.own = own])
           r == Once(run)
<1>1. run \in Processes /\ G!Quiet /\ run.at = "plan"
  BY DEF RebuildInv, G!PlanCall
<1>2. Follows(run, run) /\ SamePlace(run, run)
  <2>1. run.fails \in Nat
    BY <1>1 DEF Processes
  <2> QED
    BY <2>1 DEF Follows, SamePlace
<1>3. CASE Takes(run, FALSE)
  BY <1>1, <1>2, <1>3, Planned
<1>4. CASE G!Stop
  BY <1>1, <1>4, Stopped
<1>5. CASE /\ run.tries < 3
           /\ \/ \E own \in BOOLEAN : Takes(r, own)
              \/ Takes(G!Failed(r), FALSE) \/ G!Continue(G!Failed(r)) \/ G!Continue(r)
  <2>1. run.tries \in 0 .. 2
    <3>1. run.tries \in 0 .. 3
      BY <1>1 DEF Processes
    <3>2. run.tries < 3
      BY <1>5
    <3> QED
      BY <3>1, <3>2
  <2>2. r \in Processes /\ Follows(run, r) /\ SamePlace(run, r)
    BY <1>1, <2>1, OnceOK
  <2> HIDE DEF r
  <2>3. G!Failed(r) \in Processes /\ Follows(r, G!Failed(r)) /\ SamePlace(r, G!Failed(r))
    BY <2>2, FailedOK
  <2>4. G!Failed(r).fails \in Nat /\ r.fails \in Nat /\ run.fails \in Nat
    BY <1>1, <2>2, <2>3 DEF Processes
  <2>5. Follows(run, G!Failed(r)) /\ SamePlace(run, G!Failed(r))
    BY <1>1, <2>2, <2>3, <2>4 DEF Follows, SamePlace
  <2>6. ASSUME NEW own \in BOOLEAN, Takes(r, own) PROVE RebuildInv'
    BY <1>1, <2>2, <2>6, Planned
  <2>7. ASSUME Takes(G!Failed(r), FALSE) PROVE RebuildInv'
    BY <1>1, <2>3, <2>5, <2>7, Planned
  <2>8. ASSUME G!Continue(G!Failed(r)) PROVE RebuildInv'
    BY <1>1, <2>3, <2>5, <2>8, Replans
  <2>9. ASSUME G!Continue(r) PROVE RebuildInv'
    BY <1>1, <2>2, <2>9, Replans
  <2> HIDE DEF Takes
  <2> QED
    BY <1>5, <2>6, <2>7, <2>8, <2>9
<1>6. \/ Takes(run, FALSE) \/ G!Stop
      \/ /\ run.tries < 3
         /\ \/ \E own \in BOOLEAN : Takes(r, own)
            \/ Takes(G!Failed(r), FALSE) \/ G!Continue(G!Failed(r)) \/ G!Continue(r)
  BY DEF G!PlanCall, Once
<1> HIDE DEF Takes, r
<1> QED
  BY <1>3, <1>4, <1>5, <1>6

\* The calls for a text.
LEMMA NobodyStep == ASSUME G!RebuildAssumption, RebuildInv, UNCHANGED sections, G!AskNobody PROVE RebuildInv'
<1>1. run \in Processes /\ Known(run, saved) /\ run.s \in G!Number /\ run.b \in 0 .. Batches
  BY DEF RebuildInv, Placed, G!AskNobody
<1>2. G!Received(Local(run), "local") \/ (G!Stop /\ G!Quiet)
  BY DEF G!AskNobody, Local
<1>3. Local(run) \in Processes /\ SamePlace(run, Local(run)) /\ Accounted(Local(run)) /\ Known(Local(run), saved)
  BY <1>1, LocalOK, RunGoesOn
<1>4. ASSUME G!Received(Local(run), "local") PROVE RebuildInv'
  BY <1>1, <1>3, <1>4, AnswerTaken DEF SamePlace
<1> QED
  BY <1>2, <1>4, Stopped

\* A process that has an answer, or none, asks again or is through.
LEMMA AsksAgain ==
  ASSUME G!RebuildAssumption, RebuildInv, UNCHANGED sections, G!Quiet, run.at = "ask",
         NEW r \in Processes, Follows(run, r), SamePlace(run, r), r.tries = run.tries + 1,
         G!Continue(G!AfterCall(r))
  PROVE  RebuildInv'
<1> DEFINE q == G!AfterCall(r)
<1>1. run.s \in G!Number /\ run.b \in 0 .. Batches /\ run.tries \in 0 .. 1
  BY DEF RebuildInv, Placed, Processes
<1>2. CASE r.tries = 2 \/ G!Degraded(r)
  <2>1. q = [r EXCEPT !.at = "asked"]
    BY <1>2 DEF G!AfterCall
  <2>2. q \in Processes
    BY <2>1 DEF Processes
  <2>3. q.at = "asked" /\ q.s = r.s /\ q.b = r.b
    BY <2>1 DEF Processes
  <2>4. q.use = r.use /\ q.text = r.text /\ q.parts = r.parts /\ q.inherited = r.inherited
        /\ q.fails = r.fails /\ q.local = r.local
    BY <2>1 DEF Processes
  <2> HIDE DEF q
  <2>5. Follows(run, q) /\ Placed(q)
    BY <1>1, <2>3, <2>4 DEF Follows, Placed, SamePlace
  <2> QED
    BY <2>2, <2>5, Followed DEF q
<1>3. CASE ~(r.tries = 2 \/ G!Degraded(r))
  <2>1. q = r
    BY <1>3 DEF G!AfterCall
  <2>2. Placed(r)
    BY <1>1, <1>3 DEF Placed, SamePlace
  <2> QED
    BY <2>1, <2>2, Followed
<1> QED
  BY <1>2, <1>3

LEMMA AskStep == ASSUME G!RebuildAssumption, RebuildInv, UNCHANGED sections, G!Ask PROVE RebuildInv'
<1> DEFINE r == Once(run)
           Kept(txt) == \E best \in {txt, IF run.best = "none" THEN txt ELSE run.best} :
                           G!Continue(G!AfterCall([r EXCEPT !.best = best]))
<1>1. /\ run \in Processes /\ Known(run, saved) /\ run.s \in G!Number /\ run.b \in 0 .. Batches
      /\ run.tries \in 0 .. 1 /\ run.at = "ask" /\ run.best \in Answers
  <2>1. run \in Processes /\ Known(run, saved) /\ run.at = "ask" /\ Placed(run)
    BY DEF RebuildInv, G!Ask
  <2>2. run.tries \in 0 .. 3 /\ run.best \in Answers
    BY <2>1 DEF Processes
  <2>3. run.tries \in 0 .. 1
    BY <2>1, <2>2 DEF Placed
  <2> QED
    BY <2>1, <2>2, <2>3 DEF Placed
<1>2. r \in Processes /\ SamePlace(run, r) /\ Follows(run, r) /\ r.tries = run.tries + 1
  BY <1>1, OnceOK
<1>3. Known(r, saved)
  BY <1>1, <1>2, RunGoesOn
<1>4. \/ G!Continue(G!AfterCall(G!Failed(r))) /\ G!Quiet
      \/ \E txt \in G!Texts : G!Received(r, txt) \/ (Kept(txt) /\ G!Quiet)
  BY DEF G!Ask, Once
<1>5. G!Texts \subseteq Answers
  BY DEF G!Texts, Answers
<1> HIDE DEF r
<1>6. ASSUME G!Continue(G!AfterCall(G!Failed(r))), G!Quiet PROVE RebuildInv'
  <2>1. /\ G!Failed(r) \in Processes /\ Follows(r, G!Failed(r)) /\ SamePlace(r, G!Failed(r))
        /\ G!Failed(r).tries = r.tries
    BY <1>2, FailedOK
  <2>2. G!Failed(r).fails \in Nat /\ r.fails \in Nat /\ run.fails \in Nat
    BY <1>1, <1>2, <2>1 DEF Processes
  <2>3. Follows(run, G!Failed(r)) /\ SamePlace(run, G!Failed(r))
    BY <1>2, <2>1, <2>2 DEF Follows, SamePlace
  <2> QED
    BY <1>1, <1>2, <1>6, <2>1, <2>3, AsksAgain
<1>7. ASSUME NEW txt \in Answers, G!Received(r, txt) PROVE RebuildInv'
  <2>1. txt # "local" /\ r.s \in G!Number /\ r.b \in 0 .. Batches
    BY <1>1, <1>2 DEF Answers, SamePlace
  <2> QED
    BY <1>2, <1>3, <1>7, <2>1, AnswerTaken
<1>8. ASSUME NEW txt \in Answers, Kept(txt), G!Quiet PROVE RebuildInv'
  <2> PICK best \in {txt, IF run.best = "none" THEN txt ELSE run.best} :
        G!Continue(G!AfterCall([r EXCEPT !.best = best]))
    BY <1>8
  <2> DEFINE q == [r EXCEPT !.best = best]
  <2>1. best \in Answers
    BY <1>1
  <2>2. q \in Processes
    BY <1>2, <2>1 DEF Processes
  <2>3. q.at = r.at /\ q.s = r.s /\ q.b = r.b /\ q.tries = r.tries
    BY <1>2 DEF Processes
  <2>4. q.use = r.use /\ q.text = r.text /\ q.parts = r.parts /\ q.inherited = r.inherited
        /\ q.fails = r.fails /\ q.local = r.local
    BY <1>2 DEF Processes
  <2>5. G!Continue(G!AfterCall(q))
    OBVIOUS
  <2> HIDE DEF q
  <2>6. Follows(run, q) /\ SamePlace(run, q) /\ q.tries = run.tries + 1
    BY <1>2, <2>3, <2>4 DEF Follows, SamePlace
  <2> QED
    BY <1>1, <1>8, <2>2, <2>5, <2>6, AsksAgain
<1> HIDE DEF Kept
<1> QED
  BY <1>4, <1>5, <1>6, <1>7, <1>8

LEMMA AskedStep == ASSUME G!RebuildAssumption, RebuildInv, UNCHANGED sections, G!Asked PROVE RebuildInv'
<1>1. run \in Processes /\ Known(run, saved) /\ run.s \in G!Number /\ run.b \in 0 .. Batches
      /\ run.best \in Answers
  BY DEF RebuildInv, Placed, G!Asked, Processes
<1>2. G!Extended(run.best) \in Answers
  BY <1>1 DEF Answers, G!Extended
<1>3. PICK txt \in Answers : G!Received(run, txt)
  BY <1>1, <1>2 DEF G!Asked
<1>4. txt # "local"
  BY DEF Answers
<1> QED
  BY <1>1, <1>3, <1>4, AnswerTaken

LEMMA AssembleStep == ASSUME G!RebuildAssumption, RebuildInv, UNCHANGED sections, G!Assemble PROVE RebuildInv'
<1>1. run \in Processes /\ Known(run, saved) /\ run.s \in G!Number
  BY DEF RebuildInv, Placed, G!Assemble
<1> DEFINE txt == CASE run.parts \cap {"flawed", "tagged"} # {} -> "flawed"
                     [] "local" \in run.parts -> "local"
                     [] OTHER -> IF run.own THEN "own" ELSE "good"
<1>2. G!SectionDone(run, txt) \/ (G!Stop /\ G!Quiet)
  BY DEF G!Assemble
<1>3. txt = "local" => "local" \in run.parts
  OBVIOUS
<1> HIDE DEF txt
<1>4. txt = "local" => Accounted(run)
  BY <1>1, <1>3 DEF Known
<1> QED
  BY <1>1, <1>2, <1>4, SectionSaved, Stopped

\* A process that changes nothing but where it is and what it has tried.
GoneTo(r, place, b, turns) == [r EXCEPT !.at = place, !.b = b, !.tries = turns]
LEMMA GoneToOK ==
  ASSUME NEW r \in Processes, NEW place \in {"persist", "volumes"}, NEW b \in Nat, NEW turns \in 0 .. 3
  PROVE  /\ GoneTo(r, place, b, turns) \in Processes /\ Follows(r, GoneTo(r, place, b, turns))
         /\ GoneTo(r, place, b, turns).at = place /\ GoneTo(r, place, b, turns).tries = turns
<1> DEFINE q == GoneTo(r, place, b, turns)
<1>1. q \in Processes
  BY DEF Processes, GoneTo
<1>2. q.at = place /\ q.tries = turns /\ q.use = r.use /\ q.text = r.text /\ q.parts = r.parts
  BY DEF Processes, GoneTo
<1>3. q.inherited = r.inherited /\ q.fails = r.fails /\ q.local = r.local /\ r.fails \in Nat
  BY DEF Processes, GoneTo
<1>4. Follows(r, q)
  BY <1>2, <1>3 DEF Follows
<1> QED
  BY <1>1, <1>2, <1>4

\* The gate of the whole book, and the volumes after it.
LEMMA BookStep == ASSUME G!RebuildAssumption, RebuildInv, UNCHANGED sections, G!Book PROVE RebuildInv'
<1>1. run \in Processes /\ run.at = "section" /\ G!Quiet /\ Placed(run)
  BY DEF RebuildInv, G!Book
<1>2. ASSUME NEW onward \in {"persist", "volumes"}, G!Continue([run EXCEPT !.at = onward, !.b = 1])
      PROVE  RebuildInv'
  <2> DEFINE q == [run EXCEPT !.at = onward, !.b = 1]
  <2>1. q \in Processes
    <3>1. 1 \in Nat
      OBVIOUS
    <3> QED
      BY <1>1, <3>1 DEF Processes
  <2>2. q.at = onward /\ q.use = run.use /\ q.text = run.text /\ q.parts = run.parts
    BY <1>1 DEF Processes
  <2>3. q.inherited = run.inherited /\ q.fails = run.fails /\ q.local = run.local /\ run.fails \in Nat
    BY <1>1 DEF Processes
  <2>4. G!Continue(q)
    BY <1>2
  <2> HIDE DEF q
  <2>5. Placed(q) /\ Follows(run, q)
    BY <2>2, <2>3 DEF Placed, Follows
  <2> QED
    BY <1>1, <2>1, <2>4, <2>5, Followed
<1> QED
  BY <1>1, <1>2, Stopped DEF G!Book

LEMMA VolumeStep == ASSUME G!RebuildAssumption, RebuildInv, UNCHANGED sections, G!Volume PROVE RebuildInv'
<1>1. run \in Processes /\ run.at = "volumes" /\ G!Quiet
  BY DEF RebuildInv, G!Volume
<1>2. \/ G!Continue(G!VolumeDone(Local(run))) \/ G!Continue(G!VolumeDone(run))
      \/ run.tries < 2 /\ G!Continue(Once(run))
      \/ G!Stop
  BY DEF G!Volume, Local, Once
<1>3. ASSUME NEW r \in Processes, Follows(run, r), G!Continue(G!VolumeDone(r)) PROVE RebuildInv'
  <2> DEFINE place == IF r.b >= BookVolumes THEN "persist" ELSE "volumes"
             b == r.b + 1
             q == GoneTo(r, place, b, 0)
  <2>1. b \in Nat
    BY DEF Processes
  <2>2. place \in {"persist", "volumes"} /\ 0 \in 0 .. 3
    OBVIOUS
  <2>3. G!Continue(q)
    BY <1>3 DEF G!VolumeDone, GoneTo
  <2> HIDE DEF place, b
  <2>4. q \in Processes /\ Follows(r, q) /\ q.at = place
    BY <2>1, <2>2, GoneToOK
  <2>5. Placed(q)
    BY <2>2, <2>4 DEF Placed
  <2> HIDE DEF q
  <2>6. q.fails \in Nat /\ r.fails \in Nat /\ run.fails \in Nat
    BY <1>1, <2>4 DEF Processes
  <2>7. Follows(run, q)
    BY <1>3, <2>4, <2>6 DEF Follows
  <2> QED
    BY <1>1, <2>3, <2>4, <2>5, <2>7, Followed
<1>4. Follows(run, run)
  <2>1. run.fails \in Nat
    BY <1>1 DEF Processes
  <2> QED
    BY <2>1 DEF Follows
<1>5. ASSUME G!Continue(G!VolumeDone(Local(run))) PROVE RebuildInv'
  BY <1>1, <1>3, <1>5, LocalOK
<1>6. ASSUME G!Continue(G!VolumeDone(run)) PROVE RebuildInv'
  BY <1>1, <1>3, <1>4, <1>6
<1>7. ASSUME run.tries < 2, G!Continue(Once(run)) PROVE RebuildInv'
  <2>1. run.tries \in 0 .. 3
    BY <1>1 DEF Processes
  <2>2. run.tries \in 0 .. 2
    BY <1>7, <2>1
  <2>3. Once(run) \in Processes /\ SamePlace(run, Once(run)) /\ Follows(run, Once(run))
    BY <1>1, <2>2, OnceOK
  <2>4. Placed(Once(run))
    BY <1>1, <2>3 DEF Placed, SamePlace
  <2> QED
    BY <1>1, <1>7, <2>3, <2>4, Followed
<1> QED
  BY <1>1, <1>2, <1>5, <1>6, <1>7, Stopped

\* What is stored is what the process has, with its marks.
LEMMA PersistStep == ASSUME G!RebuildAssumption, RebuildInv, UNCHANGED sections, G!Persist PROVE RebuildInv'
<1>1. run' = G!NotRunning /\ UNCHANGED saved
  BY DEF G!Persist, G!Stop
<1>2. StoredOK'
  <2>1. CASE UNCHANGED storedBook
    BY <2>1 DEF RebuildInv, StoredOK
  <2>2. CASE storedBook' = [book |-> IF "local" \in run.text THEN "local" ELSE "good",
                            volumes |-> IF run.b = 1 THEN storedBook.volumes ELSE "new",
                            marked |-> G!Noted(run), inherited |-> run.inherited]
    <3>1. storedBook'.book = IF "local" \in run.text THEN "local" ELSE "good"
      BY <2>2
    <3>2. storedBook'.volumes = IF run.b = 1 THEN storedBook.volumes ELSE "new"
      BY <2>2
    <3>3. storedBook'.marked = G!Noted(run) /\ storedBook'.inherited = run.inherited
      BY <2>2
    <3>4. "local" \in run.text => G!Noted(run) \/ run.inherited
      BY DEF RebuildInv, Known, Accounted
    <3>5. storedBook'.book = "local" => storedBook'.marked \/ storedBook'.inherited
      BY <3>1, <3>3, <3>4
    <3> QED
      BY <3>1, <3>2, <3>5 DEF StoredOK, RebuildInv
  <2> QED
    BY <2>1, <2>2 DEF G!Persist
<1>3. /\ sections' \in Books /\ (saved \in Files)'
      /\ (run \in Processes /\ Placed(run) /\ Known(run, saved))'
  BY <1>1, NotRunningOK DEF RebuildInv, Files, Processes, Placed, Known, Accounted, G!HasLocal, G!Number, G!Noted, G!Degraded
<1> QED
  BY <1>2, <1>3 DEF RebuildInv

LEMMA CrashStep == ASSUME G!RebuildAssumption, RebuildInv, UNCHANGED sections, G!Crash PROVE RebuildInv'
BY Stopped DEF G!Crash

LEMMA RebuildStep == ASSUME G!RebuildAssumption, RebuildInv, G!RebuildNext PROVE RebuildInv'
BY StartStep, CrashStep, SkeletonSteps, KeptSteps, BeginSteps, PlanStep, NobodyStep, AskStep, AskedStep,
   AssembleStep, BookStep, VolumeStep, PersistStep DEF G!RebuildNext

LEMMA RebuildHolds == ASSUME RebuildInv PROVE G!RebuildTypeOK /\ G!RebuildSound
<1>1. G!RebuildTypeOK
  BY DEF RebuildInv, Files, Processes, StoredOK, G!RebuildTypeOK, Pieces
<1>2. G!RebuildSound
  BY DEF RebuildInv, Files, StoredOK, G!RebuildSound, Whole, Pieces
<1> QED
  BY <1>1, <1>2

-----------------------------------------------------------------------------
PromptsInv ==
  /\ focus = "prompts" => SnapsInv
  /\ focus = "router_cache" => RouterInv
  /\ focus = "counters" => CountersInv

\* No snapshot of a prompt outlives its time to live, a router never has the
\* routes of an era that is over, and every call is counted once unless a flush
\* was cut off or its answer lost (services/prompt_cache.py,
\* services/model_router.py and services/prompt_registry.py).
THEOREM PromptsAreSound == AuthoringSpec => []PromptsSound
<1> DEFINE everything == <<focus, promptsVars, routerCacheVars, countersVars, crawlVars, sourcesVars,
      slicingVars, bookVars, volumeVars, chainVars, scenesVars, rebuildVars, rosterVars, cognitionVars,
      compassVars, settingsVars, recallVars, batchVars, arcVars, factsVars, packVars>>
<1>1. K!CacheAssumption /\ L!RowsAssumption
  BY AuthoringAssumption
<1>2. AuthoringInit => PromptsInv
  <2>1. ASSUME AuthoringInit, focus = "prompts" PROVE SnapsInv
    BY <1>1, <2>1, SnapsStart DEF AuthoringInit, InitK
  <2>2. ASSUME AuthoringInit, focus = "router_cache" PROVE RouterInv
    BY <1>1, <2>2, RouterStart DEF AuthoringInit, InitK
  <2>3. ASSUME AuthoringInit, focus = "counters" PROVE CountersInv
    BY <2>3, CountersStart DEF AuthoringInit, InitN
  <2> QED
    BY <2>1, <2>2, <2>3 DEF PromptsInv
<1>3. PromptsInv /\ [AuthoringNext]_everything => PromptsInv'
  <2>1. ASSUME PromptsInv, focus = "prompts", UNCHANGED focus, K!CacheNext
        PROVE  PromptsInv'
    BY <1>1, <2>1, SnapsStep DEF PromptsInv
  <2>2. ASSUME PromptsInv, focus = "router_cache", UNCHANGED focus, L!RouterCacheNext
        PROVE  PromptsInv'
    BY <1>1, <2>2, RouterCalled, RouterEdited DEF PromptsInv, L!RouterCacheNext
  <2>3. ASSUME PromptsInv, focus = "counters", UNCHANGED focus, K!CountersNext
        PROVE  PromptsInv'
    BY <2>3, CountersStep DEF PromptsInv
  <2>4. ASSUME PromptsInv, UNCHANGED <<focus, promptsVars, routerCacheVars, countersVars>>
        PROVE  PromptsInv'
    <3>1. SnapsInv => SnapsInv'
      BY <2>4 DEF promptsVars, SnapsInv, RowsInv, SnapOK, AskerOK
    <3>2. RouterInv => RouterInv'
      <4>1. L!Routes' = L!Routes
        BY <2>4 DEF routerCacheVars, L!Routes, L!On, L!Of
      <4> QED
        BY <2>4, <4>1 DEF routerCacheVars, RouterInv, RowsInv, EraInv, Begun, RouterOK, CallerOK
    <3>3. CountersInv => CountersInv'
      BY <2>4 DEF countersVars, CountersInv, K!CountersTypeOK, K!Flushing, K!TicksKept
    <3> QED
      BY <2>4, <3>1, <3>2, <3>3 DEF PromptsInv
  <2>5. ASSUME PromptsInv, focus \notin {"prompts", "router_cache", "counters"}, UNCHANGED focus
        PROVE  PromptsInv'
    BY <2>5 DEF PromptsInv
  <2> QED
    BY <2>1, <2>2, <2>3, <2>4, <2>5 DEF AuthoringNext, OthersRest
<1>4. PromptsInv => PromptsSound
  BY <1>1, SnapsSound, RouterSound DEF PromptsInv, PromptsSound, CountersInv
<1> QED
  BY <1>2, <1>3, <1>4, PTL DEF AuthoringSpec

\* Local text in a rebuilt book is marked, or was in the file before, and only
\* sections that pass their gate are in the file
\* (scripts/regenerate_shenyi_outlines.py).
THEOREM RebuildIsSound == AuthoringSpec => []RebuildSound
<1> DEFINE everything == <<focus, promptsVars, routerCacheVars, countersVars, crawlVars, sourcesVars,
      slicingVars, bookVars, volumeVars, chainVars, scenesVars, rebuildVars, rosterVars, cognitionVars,
      compassVars, settingsVars, recallVars, batchVars, arcVars, factsVars, packVars>>
           Inv == focus = "rebuild" => RebuildInv
<1>1. G!RebuildAssumption
  BY AuthoringAssumption
<1>2. AuthoringInit => Inv
  BY <1>1, RebuildStarts DEF AuthoringInit, InitG
<1>3. Inv /\ [AuthoringNext]_everything => Inv'
  <2>1. ASSUME Inv, focus = "rebuild", UNCHANGED focus, G!RebuildNext PROVE Inv'
    BY <1>1, <2>1, RebuildStep
  <2>2. ASSUME Inv, UNCHANGED <<focus, rebuildVars>> PROVE Inv'
    BY <2>2 DEF rebuildVars, RebuildInv, StoredOK, Files, Processes, Placed, Known, Accounted, G!HasLocal,
                G!Number, G!Noted, G!Degraded
  <2>3. ASSUME Inv, focus # "rebuild", UNCHANGED focus PROVE Inv'
    BY <2>3
  <2> QED
    BY <2>1, <2>2, <2>3 DEF AuthoringNext, OthersRest
<1>4. Inv => RebuildSound
  BY RebuildHolds DEF RebuildSound
<1> QED
  BY <1>2, <1>3, <1>4, PTL DEF AuthoringSpec

=============================================================================
