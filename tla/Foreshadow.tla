----------------------------- MODULE Foreshadow -----------------------------
(***************************************************************************)
(* The foreshadows of a project: nodes in Neo4j, the source of truth, and  *)
(* rows in Postgres, the read model.  A request (api/foreshadows.py), an   *)
(* extraction task and a batch of chapters (services/hook_manager.py,      *)
(* services/foreshadow_manager.py) write the graph and then project all of *)
(* it with _materialize_entities_to_postgres (tasks/entity_tasks.py).      *)
(* Outlines write rows only (services/foreshadow_lifecycle.py).            *)
(***************************************************************************)
EXTENDS Naturals, FiniteSets, FiniteSetsExt

CONSTANTS Nodes,        \* ids of foreshadows that are made in the graph
          Plans,        \* ids of rows that outlines insert
          Requests,     \* requests to the API, and extraction tasks
          Batch,        \* a batch generation
          MaxWrites     \* bound on the writes to the graph

ForeshadowAssumption == Nodes \cap Plans = {} /\ Batch \notin Requests /\ MaxWrites \in Nat

Projectors == Requests \cup {Batch}
Status == {"planted", "ready", "resolved"}

VARIABLES node,       \* status of each node; "none" before it is made, "gone" after
          blank,      \* nodes with no type, no description or no chapter
          row,        \* committed status of each row, or "none"
          work,       \* the locals of each projector
          held,       \* rows the batch has set to resolved and not committed
          writes,     \* number of writes to the graph
          shown,      \* history: writes seen by the projection last committed
          newest,     \* history: most writes seen by a committed projection
          need,       \* history: writes there were when a projection last failed
          aside       \* history: were rows written without the graph since
foreshadowVars == <<node, blank, row, work, held, writes, shown, newest, need, aside>>

Idle == [pc |-> "idle", op |-> "project", id |-> "none", snap |-> {}, at |-> 0]

ForeshadowInit ==
  /\ node \in [Nodes -> {"none", "ready"}] /\ blank = {}
  /\ row = [i \in Nodes \cup Plans |-> IF i \in Nodes THEN node[i] ELSE "none"]
  /\ work = [p \in Projectors |-> Idle]
  /\ held = {} /\ writes = 0 /\ shown = 0 /\ newest = 0 /\ need = 0 /\ aside = FALSE

At(p, step) == work[p].pc = step
Set(p, r) == work' = [work EXCEPT ![p] = r]
Go(p, step) == Set(p, [work[p] EXCEPT !.pc = step])
Alive(i) == node[i] \in Status         \* of a node

\* A node with an id that nobody has is going to be written.
Create(p) ==
  \E i \in Nodes :
    /\ node[i] = "none" /\ \A q \in Projectors : work[q].id # i
    /\ Set(p, [Idle EXCEPT !.pc = "write", !.op = "create", !.id = i])

-----------------------------------------------------------------------------
(* The graph.  update and resolve look for the node, and write it in a      *)
(* second statement, which matches nothing if it was deleted in between.    *)
StartRequest(r) ==
  /\ At(r, "idle")
  /\ \/ writes < MaxWrites /\ Create(r)
     \/ /\ writes < MaxWrites
        /\ \E i \in Nodes :
             \/ Alive(i) /\ Set(r, [Idle EXCEPT !.pc = "write", !.op = "update", !.id = i])
             \/ Set(r, [Idle EXCEPT !.pc = "write", !.op = "delete", !.id = i])
     \/ Set(r, [Idle EXCEPT !.pc = "snapshot"])          \* an extraction task
  /\ UNCHANGED <<node, blank, row, held, writes, shown, newest, need, aside>>

StartResolve(r) ==
  /\ At(r, "idle") /\ writes < MaxWrites
  /\ \E i \in Nodes :
       /\ Alive(i) /\ node[i] # "resolved"
       /\ Set(r, [Idle EXCEPT !.pc = "write", !.op = "resolve", !.id = i])
  /\ UNCHANGED <<node, blank, row, held, writes, shown, newest, need, aside>>

(* Deleting what is not there is a 404, and projects nothing.  Nobody asks  *)
(* that a type or a description be more than blanks, and an update may take *)
(* the chapter away, or give back what is missing.                          *)
WriteNode(p) ==
  LET i == work[p].id IN
  /\ At(p, "write")
  /\ \E s \in CASE work[p].op = "create" -> {"planted"}
                [] work[p].op = "update" -> IF Alive(i) THEN Status ELSE {node[i]}
                [] work[p].op = "resolve" -> IF Alive(i) THEN {"resolved"} ELSE {node[i]}
                [] work[p].op = "delete" -> IF Alive(i) THEN {"gone"} ELSE {node[i]} :
       node' = [node EXCEPT ![i] = s]
  /\ blank' \in IF work[p].op = "create" \/ (work[p].op = "update" /\ Alive(i))
                 THEN {blank \cup {i}, blank \ {i}} ELSE {blank}
  /\ writes' = writes + 1
  /\ IF work[p].op = "delete" /\ ~Alive(i) THEN Set(p, Idle) ELSE Go(p, "snapshot")
  /\ UNCHANGED <<row, held, shown, newest, need, aside>>

\* Neo4j does not answer: a 500, or the batch's next item; nothing is projected.
FailNode(p) ==
  /\ At(p, "write")
  /\ Set(p, IF p = Batch THEN [Idle EXCEPT !.pc = "reply"] ELSE Idle)
  /\ UNCHANGED <<node, blank, row, held, writes, shown, newest, need, aside>>

-----------------------------------------------------------------------------
(* The projection: the nodes are read, those with a blank field are passed  *)
(* over, and in a session of its own the rows of the rest are inserted or   *)
(* overwritten and all others are deleted.                                  *)
Showable == {n \in Nodes : Alive(n) /\ n \notin blank}

Snapshot(p) ==
  /\ At(p, "snapshot")
  /\ Set(p, [work[p] EXCEPT !.pc = "upsert", !.at = writes,
                            !.snap = {<<i, node[i]>> : i \in Showable}])
  /\ UNCHANGED <<node, blank, row, held, writes, shown, newest, need, aside>>

ShownAndKept(snap) ==   \* mutant
  [i \in Nodes \cup Plans |->
     IF \E s \in Status : <<i, s>> \in snap THEN CHOOSE s \in Status : <<i, s>> \in snap ELSE row[i]]
Shown(snap) ==
  [i \in Nodes \cup Plans |->
     IF \E s \in Status : <<i, s>> \in snap THEN CHOOSE s \in Status : <<i, s>> \in snap ELSE "none"]

(* It touches every row, so it waits as long as the batch holds one.        *)
Upsert(p) ==
  /\ At(p, "upsert") /\ held = {}
  /\ row' = Shown(work[p].snap)
  /\ shown' = work[p].at /\ newest' = Max({newest, work[p].at}) /\ aside' = FALSE
  /\ Go(p, "reply")
  /\ UNCHANGED <<node, blank, held, writes, need>>

(* An error of Postgres is logged; for the batch, also the end of the three *)
(* minutes that its hook may take.                                          *)
FailUpsert(p) ==
  /\ At(p, "upsert")
  /\ need' = writes
  /\ Go(p, "reply")
  /\ UNCHANGED <<node, blank, row, held, writes, shown, newest, aside>>

(* The request reads the row that it asked for; delete removes it if it is  *)
(* still there.                                                             *)
Reply(r) ==
  /\ r \in Requests /\ At(r, "reply")
  /\ work[r].op = "delete" => work[r].id \notin held
  /\ row' = IF work[r].op = "delete" THEN [row EXCEPT ![work[r].id] = "none"] ELSE row
  /\ Set(r, Idle)
  /\ UNCHANGED <<node, blank, held, writes, shown, newest, need, aside>>

-----------------------------------------------------------------------------
(* Outlines.                                                                *)
InsertPlanned ==
  /\ \E i \in Plans : row[i] = "none" /\ row' = [row EXCEPT ![i] = "pending"]
  /\ aside' = TRUE
  /\ UNCHANGED <<node, blank, work, held, writes, shown, newest, need>>

ResolvePlanned ==
  /\ \E i \in DOMAIN row \ held :
       /\ row[i] \notin {"none", "resolved"}
       /\ row' = [row EXCEPT ![i] = "resolved"]
  /\ aside' = TRUE
  /\ UNCHANGED <<node, blank, work, held, writes, shown, newest, need>>

-----------------------------------------------------------------------------
(* The hooks after a chapter of a batch.  check_resolution sets rows and    *)
(* flushes them in the manager's session; register_from_text then makes     *)
(* nodes, and projects after each; the session is rolled back when the      *)
(* batch is over.                                                           *)
CheckResolution ==
  /\ At(Batch, "idle") /\ writes < MaxWrites
  /\ \E S \in SUBSET {i \in DOMAIN row \ held : row[i] = "ready"} : held' = held \cup S
  /\ Set(Batch, [Idle EXCEPT !.pc = "reply"])
  /\ UNCHANGED <<node, blank, row, writes, shown, newest, need, aside>>

RegisterFromText ==
  /\ At(Batch, "reply") /\ writes < MaxWrites
  /\ Create(Batch)
  /\ UNCHANGED <<node, blank, row, held, writes, shown, newest, need, aside>>

NextChapter ==
  /\ At(Batch, "reply")
  /\ Set(Batch, Idle)
  /\ UNCHANGED <<node, blank, row, held, writes, shown, newest, need, aside>>

Aclose ==
  /\ At(Batch, "idle") /\ held # {}
  /\ held' = {}
  /\ UNCHANGED <<node, blank, row, work, writes, shown, newest, need, aside>>

ForeshadowNext ==
  \/ \E r \in Requests : StartRequest(r) \/ StartResolve(r) \/ Reply(r)
  \/ \E p \in Projectors : WriteNode(p) \/ FailNode(p) \/ Snapshot(p) \/ Upsert(p) \/ FailUpsert(p)
  \/ InsertPlanned \/ ResolvePlanned \/ CheckResolution \/ RegisterFromText \/ NextChapter \/ Aclose

-----------------------------------------------------------------------------
ForeshadowTypeOK ==
  /\ node \in [Nodes -> Status \cup {"none", "gone"}] /\ blank \subseteq Nodes
  /\ row \in [Nodes \cup Plans -> Status \cup {"none", "pending"}]
  /\ held \subseteq {i \in DOMAIN row : row[i] # "none"}

(* "Neo4j is the source of truth; Postgres is a read model".  When nobody   *)
(* is at work, the rows are the nodes that can be shown, whoever wrote and  *)
(* whatever failed, unless one of three things came last: a projection that *)
(* failed, one that had read the graph before a projection already          *)
(* committed, or an outline.                                                *)
Reconciled ==
  /\ \A p \in Projectors : At(p, "idle")
  /\ shown = newest /\ newest >= need /\ ~aside
  => \A i \in DOMAIN row : row[i] = IF i \in Showable THEN node[i] ELSE "none"
=============================================================================
