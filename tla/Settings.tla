------------------------------ MODULE Settings ------------------------------
(***************************************************************************)
(* The settings of a book: Neo4j is the source of truth, and tables of     *)
(* Postgres are the read model.  The endpoints of api/neo4j_settings.py    *)
(* write the graph statement by statement and then project all of it       *)
(* (tasks/entity_tasks.py); api/outlines.py:266 adds what a model finds in *)
(* an outline; api/settings.py reads, and adds to the history of a         *)
(* relationship.  One pair of figures is followed; module Foreshadow has   *)
(* the foreshadows, and world rules, which are only ever inserted, are     *)
(* left out.                                                               *)
(***************************************************************************)
EXTENDS Naturals, FiniteSets, SequencesExt

CONSTANTS Requests,     \* requests that may be open at once
          Hero, Friend, \* two figures; the hero has the profile, and moves
          Bonds,        \* canonical types of a relationship
          Sites,        \* names of locations, and of organizations
          Stages,       \* chapters at which a stay begins, volumes of a history
          MaxRequests   \* bound on the requests

SettingsAssumption == Hero # Friend /\ Stages \subseteq Nat \ {0} /\ MaxRequests \in Nat

Pair == {Hero, Friend}
Profiles == {"bare", "plain", "rich"}    \* "bare": a node without a profile, or an empty one
Open == 99

VARIABLES node,       \* graph: the profile of each figure, or "none"
          bond,       \* graph: types of the RELATES_TO edges from hero to friend
          stay,       \* graph: the hero's AT_LOCATION and MEMBER_OF edges
          person,     \* rows of characters: a profile, or "none"
          relation,   \* rows of relationships: type -> its evolution, a sequence
          stayRow,    \* rows of character_locations and character_organizations
          request,    \* the locals of each request
          begun,      \* number of requests
          current,    \* history: the last projection read all there is in the graph
          alone,      \* history: no two requests were ever open at once
          told        \* history: entries whose appending was answered
settingsVars == <<node, bond, stay, person, relation, stayRow, request, begun, current, alone, told>>
graph == <<node, bond, stay>>
rows == <<person, relation, stayRow>>

(* names, types, spells: what the projection has read; missing: figures it  *)
(* has no row for; added: figures whose rows extract-settings has inserted  *)
(* and not committed; fresh: nothing was written since the reading began.   *)
NoRequest == [pc |-> "idle", op |-> "none", val |-> "none", stage |-> 0, names |-> {}, types |-> {},
              spells |-> {}, missing |-> {}, added |-> {}, fresh |-> FALSE, list |-> <<>>]

SettingsInit ==
  /\ stay = {} /\ stayRow = {}
  /\ \/ node = [f \in Pair |-> "none"] /\ bond = {} /\ relation = <<>> /\ person \in [Pair -> {"none", "plain"}]
     \/ /\ node = [f \in Pair |-> "bare"] /\ person = node
        /\ \E k \in Bonds : bond = {k} /\ relation = [b \in bond |-> <<>>]
  /\ request = [r \in Requests |-> NoRequest]
  /\ begun = 0 /\ current = FALSE /\ alone = TRUE /\ told = {}

At(r, step) == request[r].pc = step
Set(r, rec) == request' = [request EXCEPT ![r] = rec]
Go(r, step) == Set(r, [request[r] EXCEPT !.pc = step])

\* A statement that is committed makes every reading so far an old one.
Write(r, step) ==
  /\ request' = [q \in Requests |-> [request[q] EXCEPT !.fresh = FALSE, !.pc = IF q = r THEN step ELSE @]]
  /\ current' = FALSE
  /\ UNCHANGED <<rows, begun, alone, told>>

First(op) == CASE op = "profile" -> "profile" [] op \in {"bond", "place", "group"} -> "merge"
               [] op = "extract" -> "known" [] op = "append" -> "load" [] op = "project" -> "people"
Begin(r) ==
  /\ At(r, "idle") /\ begun < MaxRequests
  /\ \E op \in {"profile", "bond", "place", "group", "extract", "append", "project"},
        val \in {"none", "bare", "plain", "rich"} \cup Bonds \cup Sites, stage \in Stages \cup {0} :
       /\ val \in CASE op = "profile" -> Profiles [] op \in {"bond", "append", "extract"} -> Bonds
                    [] op \in {"place", "group"} -> Sites [] op = "project" -> {"none"}
       /\ (op \in {"place", "group", "append"}) = (stage # 0)
       /\ op = "append" => val \in DOMAIN relation
       /\ Set(r, [NoRequest EXCEPT !.pc = First(op), !.op = op, !.val = val, !.stage = stage])
  /\ begun' = begun + 1
  /\ alone' = (alone /\ \A q \in Requests : At(q, "idle"))
  /\ UNCHANGED <<graph, rows, current, told>>

-----------------------------------------------------------------------------
(* The graph.  MERGE creates what is not there; SET replaces the profile.   *)
SetProfile(r) ==
  /\ At(r, "profile")
  /\ node' = [node EXCEPT ![Hero] = request[r].val]
  /\ Write(r, "people")
  /\ UNCHANGED <<bond, stay>>

Merged(f) == [node EXCEPT ![f] = IF @ = "none" THEN "bare" ELSE @]
MergeHero(r) ==
  /\ At(r, "merge")
  /\ node' = Merged(Hero)
  /\ Write(r, IF request[r].op \in {"bond", "extract"} THEN "mergeFriend" ELSE "leave")
  /\ UNCHANGED <<bond, stay>>

MergeFriend(r) ==
  /\ At(r, "mergeFriend")
  /\ node' = Merged(Friend) /\ Write(r, "edge")
  /\ UNCHANGED <<bond, stay>>

MergeEdge(r) ==
  /\ At(r, "edge")
  /\ bond' = bond \cup {request[r].val} /\ Write(r, "people")
  /\ UNCHANGED <<node, stay>>

\* Every open stay ends before this one, also one that began later (its end is then
\* before its beginning), and the one that a repeated request is about.
Ended(r) == {IF s.kind = request[r].op /\ s.to = Open THEN [s EXCEPT !.to = request[r].stage - 1] ELSE s : s \in stay}
Leave(r) ==
  /\ At(r, "leave")
  /\ stay' = Ended(r) /\ Write(r, "arrive")
  /\ UNCHANGED <<node, bond>>

(* MERGE leaves the end of an edge that it finds as it is.  Two places that *)
(* begin in one chapter violate a constraint: the request fails, and what   *)
(* was left stays left.                                                     *)
Same(r) == {s \in stay : s.kind = request[r].op /\ s.from = request[r].stage}
Arrive(r) ==
  /\ At(r, "arrive")
  /\ LET found == {s \in Same(r) : s.at = request[r].val}
         clash == request[r].op = "place" /\ Same(r) # {} /\ found = {} IN
     /\ ~clash
     /\ stay' = IF found # {} THEN stay
                ELSE stay \cup {[kind |-> request[r].op, at |-> request[r].val, from |-> request[r].stage, to |-> Open]}
     /\ Write(r, "people")
  /\ UNCHANGED <<node, bond>>

\* Neo4j does not answer, or refuses: a 500; the earlier statements stay, nothing is projected,
\* and extract-settings rolls its rows back.
FailStatement(r) ==
  /\ request[r].pc \in {"profile", "merge", "mergeFriend", "edge", "leave", "arrive"}
  /\ Set(r, NoRequest)
  /\ UNCHANGED <<graph, rows, begun, current, alone, told>>

-----------------------------------------------------------------------------
(* The projection reads in queries of their own ...                         *)
ReadPeople(r) ==
  /\ At(r, "people")
  /\ Set(r, [request[r] EXCEPT !.pc = "types", !.fresh = TRUE,
                               !.names = {<<f, node[f]>> : f \in {g \in Pair : node[g] # "none"}}])
  /\ UNCHANGED <<graph, rows, begun, current, alone, told>>

ReadBonds(r) ==
  /\ At(r, "types")
  /\ Set(r, [request[r] EXCEPT !.pc = "spells", !.types = bond])
  /\ UNCHANGED <<graph, rows, begun, current, alone, told>>

ReadStays(r) ==
  /\ At(r, "spells")
  /\ Set(r, [request[r] EXCEPT !.pc = "select", !.spells = stay])
  /\ UNCHANGED <<graph, rows, begun, current, alone, told>>

(* ... and writes in one transaction.  A figure without a row gets one; a   *)
(* name that another open transaction has inserted has to be waited for,    *)
(* and fails the projection if that one commits.                            *)
Named(r) == {n[1] : n \in request[r].names}
Select(r) ==
  /\ At(r, "select")
  /\ Set(r, [request[r] EXCEPT !.pc = "insert", !.missing = {f \in Named(r) : person[f] = "none"}])
  /\ UNCHANGED <<graph, rows, begun, current, alone, told>>

Uncommitted(q) == request[q].added \cup (IF At(q, "sync") THEN request[q].missing ELSE {})
Free(r, names) == \A q \in Requests : Uncommitted(q) \cap names = {}
Insert(r) ==
  LET taken == {f \in request[r].missing : person[f] # "none"} IN
  /\ At(r, "insert") /\ Free(r, request[r].missing)
  /\ Go(r, IF taken = {} THEN "sync" ELSE "answer")
  /\ UNCHANGED <<graph, rows, begun, current, alone, told>>

(* Names get their profile, unless the node has none.  A relationship gets  *)
(* a row if both figures were read.  Rows of relationships that were not    *)
(* read are deleted, with their history; other rows are only inserted, so   *)
(* their ends are those of the day they were inserted.                      *)
Profiled(r) ==
  [f \in Pair |-> IF \E p \in Profiles \ {"bare"} : <<f, p>> \in request[r].names
                     THEN CHOOSE p \in Profiles : <<f, p>> \in request[r].names
                     ELSE IF f \in request[r].missing THEN "bare" ELSE person[f]]
Anew(r) == [k \in IF Named(r) = Pair THEN request[r].types ELSE {} |-> <<>>]   \* mutant
Related(r) ==
  LET new == IF Named(r) = Pair THEN request[r].types ELSE {}
      keep == IF \A f \in Pair : Profiled(r)[f] # "none" THEN request[r].types ELSE {} IN
  [k \in (DOMAIN relation \cup new) \cap keep |-> IF k \in DOMAIN relation THEN relation[k] ELSE <<>>]
Known(s) == {t \in stayRow : t.kind = s.kind /\ t.at = s.at /\ t.from = s.from}
Sync(r) ==
  /\ At(r, "sync")
  /\ person' = Profiled(r) /\ relation' = Related(r)
  /\ stayRow' = stayRow \cup {s \in request[r].spells : Known(s) = {} /\ Profiled(r)[Hero] # "none"}
  /\ current' = request[r].fresh
  /\ Set(r, [request[r] EXCEPT !.pc = "answer", !.missing = {}])
  /\ UNCHANGED <<graph, begun, alone, told>>

\* An error of Postgres is logged, and the request is answered as if there was none.
FailProjection(r) ==
  /\ request[r].pc \in {"select", "insert", "sync"}
  /\ Set(r, [request[r] EXCEPT !.pc = "answer", !.missing = {}])
  /\ UNCHANGED <<graph, rows, begun, current, alone, told>>

\* The session of the request commits: the figures that extract-settings added.
Answer(r) ==
  /\ At(r, "answer")
  /\ person' = [f \in Pair |-> IF f \in request[r].added THEN "plain" ELSE person[f]]
  /\ Set(r, NoRequest)
  /\ UNCHANGED <<graph, relation, stayRow, begun, current, alone, told>>

-----------------------------------------------------------------------------
(* extract-settings finds both figures and their bond in the outline.  It   *)
(* adds figures to Postgres only; a bond that has a row is left alone.      *)
FindKnown(r) ==
  /\ At(r, "known")
  /\ Set(r, [request[r] EXCEPT !.pc = "flush", !.missing = {f \in Pair : person[f] = "none"}])
  /\ UNCHANGED <<graph, rows, begun, current, alone, told>>

FlushAdded(r) ==
  LET names == request[r].missing IN
  /\ At(r, "flush") /\ Free(r, names)
  /\ IF \E f \in names : person[f] # "none" THEN Set(r, NoRequest)
     ELSE Set(r, [request[r] EXCEPT !.added = names, !.missing = {},
                                    !.pc = IF request[r].val \in DOMAIN relation THEN "people" ELSE "merge"])
  /\ UNCHANGED <<graph, rows, begun, current, alone, told>>

(* The history of a relationship is read, and replaced by a longer list.    *)
(* The row may be gone by then.                                             *)
LoadHistory(r) ==
  /\ At(r, "load")
  /\ IF request[r].val \in DOMAIN relation
     THEN Set(r, [request[r] EXCEPT !.pc = "append", !.list = relation[request[r].val]])
     ELSE Set(r, NoRequest)
  /\ UNCHANGED <<graph, rows, begun, current, alone, told>>

Entry(r) == [volume |-> request[r].stage, by |-> begun]
AppendHistory(r) ==
  LET k == request[r].val  e == Entry(r) IN
  /\ At(r, "append")
  /\ IF k \in DOMAIN relation
     THEN /\ relation' = [relation EXCEPT ![k] = Append(request[r].list, e)]
          /\ told' = told \cup {<<k, e>>}
     ELSE UNCHANGED <<relation, told>>
  /\ Set(r, NoRequest)
  /\ UNCHANGED <<graph, person, stayRow, begun, current, alone>>

\* relationships/as-of: entries of this volume and of earlier ones, in the order of the list.
AsOf(k, volume) ==
  LET heard == SelectSeq(relation[k], LAMBDA e : e.volume <= volume) IN
  IF heard = <<>> THEN {} ELSE {heard[Len(heard)]}

SettingsNext ==
  \E r \in Requests :
    \/ Begin(r) \/ SetProfile(r) \/ MergeHero(r) \/ MergeFriend(r) \/ MergeEdge(r)
    \/ Leave(r) \/ Arrive(r) \/ FailStatement(r)
    \/ ReadPeople(r) \/ ReadBonds(r) \/ ReadStays(r) \/ Select(r) \/ Insert(r) \/ Sync(r)
    \/ FailProjection(r) \/ Answer(r) \/ FindKnown(r) \/ FlushAdded(r) \/ LoadHistory(r) \/ AppendHistory(r)

SettingsSpec == SettingsInit /\ [][SettingsNext]_settingsVars

-----------------------------------------------------------------------------
SettingsTypeOK ==
  /\ node \in [Pair -> Profiles \cup {"none"}] /\ bond \subseteq Bonds
  /\ \A s \in stay \cup stayRow : s.kind \in {"place", "group"} /\ s.at \in Sites /\ s.from \in Stages
  /\ person \in [Pair -> Profiles \cup {"none"}] /\ DOMAIN relation \subseteq Bonds
  /\ begun \in 0 .. MaxRequests

(* Where facts.py:52-75 says the hero is in chapter c.                      *)
Whereabouts(S, c) ==
  LET past == {s \in S : s.kind = "place" /\ s.from <= c} IN
  {s.at : s \in {t \in past : \A u \in past : u.from <= t.from}}

(* After a projection that read all there is, the read model answers as     *)
(* the graph would: no figure is missing, no relationship is missing or     *)
(* left over, and the hero is where the graph has him, although the rows    *)
(* keep ends that are out of date.                                          *)
Mirrored ==
  current => /\ \A f \in Pair : node[f] # "none" => person[f] # "none"
             /\ node[Hero] \in {"plain", "rich"} => person[Hero] = node[Hero]
             /\ DOMAIN relation = bond
             /\ \A c \in Stages : Whereabouts(stayRow, c) = Whereabouts(stay, c)

(* As long as requests come one after the other, no projection and no later *)
(* entry loses an entry of a history that a user was told is stored.        *)
HistoryKept == alone => \A t \in told : t[1] \in DOMAIN relation /\ t[2] \in Range(relation[t[1]])

(* As long as requests come one after the other, the hero is in one place.  *)
OneOpenPlace == alone => Cardinality({s \in stay : s.kind = "place" /\ s.to = Open}) <= 1

(* What a reader of volume v sees of a relationship is not changed by an    *)
(* entry for a later volume.                                                *)
NoSpoiler ==
  \A r \in Requests : At(r, "append") /\ alone =>
    \A k \in DOMAIN relation \cap DOMAIN relation', v \in Stages :
      v < request[r].stage => AsOf(k, v)' = AsOf(k, v)

SettingsSound == Mirrored /\ HistoryKept /\ OneOpenPlace
=============================================================================
