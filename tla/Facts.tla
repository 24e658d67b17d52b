-------------------------------- MODULE Facts --------------------------------
(***************************************************************************)
(* Facts taken out of the outlines of a project by an operator             *)
(* (services/outline_to_facts.py): characters, foreshadows, world rules,   *)
(* organisations and items, one kind after the other, each with its own    *)
(* order of rows in Postgres, nodes in Neo4j and a projection of the graph *)
(* (tasks/entity_tasks.py), which extractions run as well.  A run that is  *)
(* not the first must find what the earlier ones have stored.              *)
(***************************************************************************)
EXTENDS Naturals, Sequences, FiniteSets

CONSTANTS Runs,         \* operators that run the ETL
          Projectors,   \* extractions that project the graph
          NamesOf,      \* the names of each kind
          MaxRuns       \* bound on the runs

Kinds == <<"character", "foreshadow", "rule", "organization", "item">>
AllFacts == UNION {{<<Kinds[k], n>> : n \in NamesOf[Kinds[k]]} : k \in DOMAIN Kinds}
FactsAssumption == DOMAIN NamesOf = {Kinds[k] : k \in DOMAIN Kinds} /\ MaxRuns \in Nat
                   /\ Runs \cap Projectors = {}

VARIABLES rows,         \* number of committed rows of each fact; of a foreshadow, see below
          hints,        \* rows of foreshadows <<name, id>>, the number of its run as id
          nodes,        \* facts with a node
          hintNodes,    \* nodes of foreshadows
          etl,          \* each run
          reader,       \* what each projector has read of the graph
          runs,         \* history: runs begun
          overlapped,   \* history: two runs overlapped
          blind,        \* history: a run looked for rows while a node had none
          cut           \* history: a transaction was rolled back in silence
factsVars == <<rows, hints, nodes, hintNodes, etl, reader, runs, overlapped, blind, cut>>

NoRun == [pc |-> "idle", k |-> 1, no |-> 0, have |-> {}, new |-> {}, seen |-> {}, hintsSeen |-> {},
          told |-> {}, whole |-> TRUE]
NoReading == [pc |-> "idle", seen |-> {}, hintsSeen |-> {}]

FactsInit ==
  /\ rows = [f \in AllFacts |-> 0] /\ hints = {} /\ nodes = {} /\ hintNodes = {}
  /\ etl = [e \in Runs |-> NoRun] /\ reader = [p \in Projectors |-> NoReading]
  /\ runs = 0 /\ overlapped = FALSE /\ blind = FALSE /\ cut = FALSE

At(e, step) == etl[e].pc = step
Set(e, r) == etl' = [etl EXCEPT ![e] = r]
KindOf(e) == Kinds[etl[e].k]
Marked == <<runs, overlapped, blind, cut>>
Stores == <<rows, hints, nodes, hintNodes>>

Begin(e) ==
  /\ At(e, "idle") /\ runs < MaxRuns
  /\ runs' = runs + 1 /\ Set(e, [NoRun EXCEPT !.pc = "load", !.no = runs + 1])
  /\ overlapped' = (overlapped \/ \E d \in Runs : ~At(d, "idle"))
  /\ UNCHANGED <<Stores, reader, blind, cut>>

\* run_full_etl goes on with the next kind, and is done after the last.
NextKind(r) ==
  IF r.k < Len(Kinds) THEN [r EXCEPT !.pc = "load", !.k = @ + 1, !.have = {}, !.new = {}, !.seen = {}, !.hintsSeen = {}]
  ELSE [r EXCEPT !.pc = "report", !.have = {}, !.new = {}]

(* What is there already is looked up in the rows.  Characters and          *)
(* foreshadows are read from the outlines, which are edited between runs;   *)
(* of the other kinds the model finds what it finds in them.                *)
Found(e) ==
  IF KindOf(e) = "foreshadow" THEN {<<"foreshadow", h[1]>> : h \in hints}
  ELSE {f \in AllFacts : f[1] = KindOf(e) /\ rows[f] > 0}
FirstStep == [character |-> "commit", foreshadow |-> "mirror", rule |-> "mirror",
              organization |-> "commit", item |-> "commit"]
Load(e) ==
  /\ At(e, "load")
  /\ \E drawn \in SUBSET {f \in AllFacts : f[1] = KindOf(e)} :
       LET r == [etl[e] EXCEPT !.have = Found(e), !.new = drawn \ Found(e),
                               !.told = @ \cup (IF KindOf(e) = "foreshadow" THEN drawn \ Found(e) ELSE drawn)] IN
       Set(e, IF r.new = {} THEN NextKind(r) ELSE [r EXCEPT !.pc = FirstStep[KindOf(e)]])
  /\ blind' = (blind \/ (KindOf(e) = "foreshadow" /\ hintNodes \ hints # {}))
  /\ UNCHANGED <<Stores, reader, runs, overlapped, cut>>

-----------------------------------------------------------------------------
(* The nodes.  A statement that fails is logged: a foreshadow stays without *)
(* a node, a rule is skipped, and of organisations and items, of which all  *)
(* known names are merged again, the rest of the loop is lost.              *)
Mirror(e) ==
  LET r == etl[e]  kind == KindOf(e) IN
  /\ At(e, "mirror")
  /\ \E S \in SUBSET (IF kind \in {"organization", "item"} THEN r.have \cup r.new ELSE r.new) :
       LET s == [r EXCEPT !.whole = @ /\ r.new \subseteq S] IN
       /\ hintNodes' = IF kind = "foreshadow" THEN hintNodes \cup {<<f[2], r.no>> : f \in S} ELSE hintNodes
       /\ nodes' = IF kind = "foreshadow" THEN nodes ELSE nodes \cup S
       /\ Set(e, CASE kind = "foreshadow" -> [s EXCEPT !.pc = "commit"]
                   [] kind = "rule" /\ S # {} -> [s EXCEPT !.pc = "read"]
                   [] OTHER -> NextKind(s))
  /\ UNCHANGED <<rows, hints, reader, Marked>>

-----------------------------------------------------------------------------
(* The rows.  Characters and organisations are unique by name: one that was *)
(* inserted meanwhile fails the whole run, as any error of these commits.   *)
Unique == {"character", "organization"}
Commit(e) ==
  LET r == etl[e]  kind == KindOf(e) IN
  /\ At(e, "commit") /\ (kind \in Unique => \A f \in r.new : rows[f] = 0)
  /\ IF kind = "foreshadow" THEN hints' = hints \cup {<<f[2], r.no>> : f \in r.new} /\ UNCHANGED rows
     ELSE rows' = [f \in AllFacts |-> rows[f] + (IF f \in r.new THEN 1 ELSE 0)] /\ UNCHANGED hints
  /\ Set(e, CASE kind = "foreshadow" -> [r EXCEPT !.pc = "read"]
              [] kind = "character"  -> NextKind(r)
              [] OTHER               -> [r EXCEPT !.pc = "mirror"])
  /\ UNCHANGED <<nodes, hintNodes, reader, Marked>>
(* An insert of an item that fails is logged, and so are all after it: the  *)
(* transaction is aborted and its commit is a rollback that nobody sees.    *)
(* What went in before it counts as inserted and gets nodes.                *)
CommitCut(e) ==
  LET r == etl[e] IN
  /\ At(e, "commit") /\ KindOf(e) = "item"
  /\ \E S \in SUBSET r.new \ {r.new} :
       LET s == [r EXCEPT !.new = S, !.whole = FALSE] IN
       /\ Set(e, IF S = {} THEN NextKind(s) ELSE [s EXCEPT !.pc = "mirror"])
       /\ cut' = (cut \/ S # {})
  /\ UNCHANGED <<Stores, reader, runs, overlapped, blind>>
(* A statement raises: the run ends, what it has committed stays.           *)
Abort(e) ==
  /\ etl[e].pc \in {"load", "commit"} /\ Set(e, NoRun)
  /\ UNCHANGED <<Stores, reader, Marked>>

-----------------------------------------------------------------------------
(* _materialize_entities_to_postgres: the graph is read; rows are added for *)
(* rules and organisations, and the rows of foreshadows become its nodes.   *)
(* Whatever fails is logged.                                                *)
Projected(seen) ==
  [f \in AllFacts |-> IF f \in seen /\ f[1] \in {"rule", "organization"} /\ rows[f] = 0 THEN 1 ELSE rows[f]]
HintsProjected(seen) == seen
Read(e) ==
  /\ At(e, "read") /\ Set(e, [etl[e] EXCEPT !.pc = "write", !.seen = nodes, !.hintsSeen = hintNodes])
  /\ UNCHANGED <<Stores, reader, Marked>>
Write(e) ==
  /\ At(e, "write") /\ Set(e, NextKind(etl[e]))
  /\ rows' = Projected(etl[e].seen) /\ hints' = HintsProjected(etl[e].hintsSeen)
  /\ UNCHANGED <<nodes, hintNodes, reader, Marked>>
WriteFails(e) ==
  /\ etl[e].pc \in {"read", "write"} /\ Set(e, NextKind([etl[e] EXCEPT !.whole = FALSE]))
  /\ UNCHANGED <<Stores, reader, Marked>>

ReadGraph(p) ==
  /\ reader[p].pc = "idle"
  /\ reader' = [reader EXCEPT ![p] = [pc |-> "write", seen |-> nodes, hintsSeen |-> hintNodes]]
  /\ UNCHANGED <<Stores, etl, Marked>>
WriteRows(p) ==
  /\ reader[p].pc = "write"
  /\ rows' = Projected(reader[p].seen) /\ hints' = HintsProjected(reader[p].hintsSeen)
  /\ reader' = [reader EXCEPT ![p] = NoReading]
  /\ UNCHANGED <<nodes, hintNodes, etl, Marked>>

(* The run reports how many facts it inserted.                              *)
Report(e) == At(e, "report") /\ Set(e, NoRun) /\ UNCHANGED <<Stores, reader, Marked>>

FactsNext ==
  \/ \E e \in Runs : Begin(e) \/ Load(e) \/ Mirror(e) \/ Commit(e) \/ CommitCut(e) \/ Abort(e)
                     \/ Read(e) \/ Write(e) \/ WriteFails(e) \/ Report(e)
  \/ \E p \in Projectors : ReadGraph(p) \/ WriteRows(p)

FactsSpec == FactsInit /\ [][FactsNext]_factsVars
-----------------------------------------------------------------------------
FactsTypeOK ==
  /\ nodes \subseteq AllFacts /\ rows \in [AllFacts -> 0..MaxRuns]
  /\ hints \cup hintNodes \subseteq NamesOf["foreshadow"] \X (1..MaxRuns)

(* However often the ETL is run, and wherever a run breaks off, no fact is  *)
(* stored twice: unless two runs overlap, or one looks for rows while a     *)
(* node has none, after a failed commit or an old projection.               *)
StoredOnce ==
  ~overlapped /\ ~blind =>
    /\ \A f \in AllFacts : rows[f] <= 1
    /\ \A h, i \in hints \cup hintNodes : h[1] = i[1] => h = i
(* A run in which nothing failed leaves a row of all it was told, found or  *)
(* new, whatever ran beside it; and its new foreshadows have nodes, so that *)
(* the next projection does not delete their rows as stale.                 *)
RunWhole ==
  \A e \in Runs : At(e, "report") /\ etl[e].whole => \A f \in etl[e].told :
    IF f[1] = "foreshadow" THEN <<f[2], etl[e].no>> \in hintNodes ELSE rows[f] > 0
(* An item in the graph has a row, unless a rollback went unseen.           *)
ItemsHaveRows == ~cut => \A f \in nodes : f[1] = "item" => rows[f] > 0
FactsSound == StoredOnce /\ RunWhole /\ ItemsHaveRows
=============================================================================
