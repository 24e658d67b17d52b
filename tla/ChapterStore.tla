---------------------------- MODULE ChapterStore ----------------------------
(***************************************************************************)
(* The row of one chapter, the tree of its versions                        *)
(* (services/version_control.py) and the requests by which users change    *)
(* either: PUT of the chapter (api/chapters.py) and the version endpoints  *)
(* (api/versions.py).                                                      *)
(*                                                                         *)
(* A request is one transaction at READ COMMITTED.  Its first statement    *)
(* fixes which version rows it deactivates, its changes show when it       *)
(* commits, and get_db commits only after the handler has returned, hence  *)
(* after the handler has sent the message that asks for an entity          *)
(* extraction.  Between the two steps anyone else may commit.              *)
(*                                                                         *)
(* A text is who wrote it, its number among the writer's texts, and        *)
(* whether it ends on a whole sentence (looks_truncated).                  *)
(***************************************************************************)
EXTENDS Naturals, Sequences

CONSTANTS Users,       \* requests of users
          Branches, Main,
          Nobody,      \* the writer of texts older than the behaviour
          BrokerFails, \* may the broker refuse a message
          Casts        \* who may act together

StoreAssumption ==
  Main \in Branches /\ Nobody \notin Users /\ BrokerFails \in BOOLEAN

VARIABLES chapter,     \* the row: content_text and status
          versions,    \* the rows of chapter_versions, oldest first
          edits,       \* the transaction of each user's request
          queued,      \* entities.extract_chapter messages in the broker
          ledger,      \* texts ingested by character_cognition
          cast         \* who acts in this behaviour

store == <<chapter, versions, edits, queued, ledger>>

TextOf(a, k, whole) == [by |-> a, k |-> k, whole |-> whole]
Blank == TextOf(Nobody, 0, TRUE)
Prior == TextOf(Nobody, 1, TRUE)

VersionRow(text, branch, active) ==
  [text |-> text, branch |-> branch, active |-> active]

Active(vs) == {i \in DOMAIN vs : vs[i].active}

Deactivate(vs, S) ==
  [i \in DOMAIN vs |-> [vs[i] EXCEPT !.active = @ /\ i \notin S]]

NoEdit == [pc |-> "idle", op |-> "none", hit |-> {}, after |-> {},
           branch |-> Main, text |-> Blank, target |-> 0, was |-> FALSE]

(* dispatch_entity_extraction: a failure is logged and swallowed.           *)
Dispatch == queued' \in IF BrokerFails THEN {queued, queued + 1} ELSE {queued + 1}

\* A flushed write of the chapter's row holds its lock until the commit.
RowFree(a) == \A u \in Users \ {a} : edits[u].pc # "staged"

-----------------------------------------------------------------------------
StoreInit ==
  /\ \/ chapter = [text |-> Blank, status |-> "draft"] /\ versions = <<>>
     \/ /\ \E s \in {"completed", "needs_review"} : chapter = [text |-> Prior, status |-> s]
        /\ versions = <<VersionRow(Prior, Main, chapter.status = "completed")>>
  /\ edits = [u \in Users |-> NoEdit]
  /\ queued = 0 /\ ledger = {}
  /\ cast \in Casts

(* The statement that selects the rows to deactivate.  It waits for the     *)
(* transactions that hold one of them, and then still does not see a row    *)
(* they have inserted.                                                      *)
Holders(hit) == {q \in Users : edits[q].pc \in {"open", "staged"} /\ edits[q].hit \cap hit # {}}

Begin(u, op, hit, branch, text) ==
  /\ u \in cast /\ edits[u].pc = "idle"
  /\ edits' = [edits EXCEPT ![u] =
       [pc |-> "open", op |-> op, hit |-> hit, after |-> Holders(hit),
        branch |-> branch, text |-> text, target |-> 0, was |-> FALSE]]
  /\ UNCHANGED <<chapter, versions, queued, ledger>>

Granted(u) == \A q \in edits[u].after : edits[q].pc = "done"

(* create_version deactivates the active versions of one branch only.       *)
CreateVersion(u) ==
  \E b \in Branches :
    Begin(u, "create", {i \in Active(versions) : versions[i].branch = b}, b,
          TextOf(u, 1, TRUE))

(* create_branch copies a version to the first of a branch that had none.   *)
CreateBranch(u) ==
  \E i \in DOMAIN versions, b \in Branches \ {versions[j].branch : j \in DOMAIN versions} :
    Begin(u, "create", {}, b, versions[i].text)

(* activate_version and rollback_version both call switch_active, which     *)
(* first loads the version it is to activate.                               *)
LoadVersion(u) ==
  /\ u \in cast /\ edits[u].pc = "idle"
  /\ \E i \in DOMAIN versions, op \in {"activate", "rollback"} :
       edits' = [edits EXCEPT ![u] =
         [pc |-> "loaded", op |-> op, hit |-> {}, after |-> {}, branch |-> versions[i].branch,
          text |-> versions[i].text, target |-> i, was |-> versions[i].active]]
  /\ UNCHANGED <<chapter, versions, queued, ledger>>

\* Its statement deactivates every active version of the chapter.
SwitchActive(u) ==
  /\ edits[u].pc = "loaded"
  /\ edits' = [edits EXCEPT ![u].pc = "open", ![u].hit = Active(versions),
                            ![u].after = Holders(Active(versions))]
  /\ UNCHANGED <<chapter, versions, queued, ledger>>

(* A PUT with content_text; blank text needs force once there is a body.    *)
UpdateChapter(u) ==
  \E t \in {TextOf(u, 1, TRUE), Blank} : Begin(u, "update", {}, Main, t)

\* mutant: the target is activated before the statement
SwitchedFirst(target, hit, was) ==
  Deactivate(IF was THEN versions ELSE [versions EXCEPT ![target].active = TRUE], hit)

(* The statement compares ids with a string and leaves the loaded row as it *)
(* is, so that setting is_active of a row that was loaded as active changes *)
(* nothing and no UPDATE follows: the target stays deactivated.             *)
Switched(target, hit, was) ==
  LET left == Deactivate(versions, hit)
  IN  IF was THEN left ELSE [left EXCEPT ![target].active = TRUE]

(* What get_active_version may return to a rollback: its own target, or a   *)
(* row that others have committed as active after the switch.               *)
ActiveFor(u) ==
  (IF edits[u].was THEN {} ELSE {edits[u].target}) \cup (Active(versions) \ edits[u].hit)

(* The handler flushes the chapter's row and dispatches the extraction.     *)
Stage(u) ==
  /\ edits[u].pc = "open" /\ edits[u].op \in {"rollback", "update"}
  /\ Granted(u) /\ RowFree(u)
  /\ \/ edits[u].op = "update" /\ edits' = [edits EXCEPT ![u].pc = "staged"]
     \/ /\ edits[u].op = "rollback"
        /\ \E i \in ActiveFor(u) :
             edits' = [edits EXCEPT ![u].pc = "staged", ![u].text = versions[i].text]
  /\ Dispatch
  /\ UNCHANGED <<chapter, versions, ledger>>

(* A rollback that finds no active version raises and is rolled back.       *)
Refuse(u) ==
  /\ edits[u].pc = "open" /\ edits[u].op = "rollback" /\ Granted(u) /\ ActiveFor(u) = {}
  /\ edits' = [edits EXCEPT ![u] = [NoEdit EXCEPT !.pc = "done"]]
  /\ UNCHANGED <<chapter, versions, queued, ledger>>

CommitVersion(u) ==
  /\ edits[u].pc = "open" /\ edits[u].op \in {"create", "activate"} /\ Granted(u)
  /\ versions' = IF edits[u].op = "create"
                 THEN Append(Deactivate(versions, edits[u].hit),
                             VersionRow(edits[u].text, edits[u].branch, TRUE))
                 ELSE Switched(edits[u].target, edits[u].hit, edits[u].was)
  /\ edits' = [edits EXCEPT ![u].pc = "done"]
  /\ UNCHANGED <<chapter, queued, ledger>>

(* Neither request looks at the chapter's status.                           *)
CommitChapter(u) ==
  /\ edits[u].pc = "staged"
  /\ chapter' = [chapter EXCEPT !.text = edits[u].text]
  /\ versions' = IF edits[u].op = "rollback" THEN Switched(edits[u].target, edits[u].hit, edits[u].was)
                 ELSE versions
  /\ edits' = [edits EXCEPT ![u].pc = "done"]
  /\ UNCHANGED <<queued, ledger>>

\* The chapter's text is one that a user's rollback has brought back.
RolledBack ==
  \E u \in Users : edits[u].op = "rollback" /\ edits[u].pc = "done" /\ edits[u].text = chapter.text

UserNext ==
  \E u \in Users :
    \/ CreateVersion(u) \/ CreateBranch(u) \/ LoadVersion(u) \/ SwitchActive(u)
    \/ UpdateChapter(u) \/ Stage(u) \/ Refuse(u) \/ CommitVersion(u) \/ CommitChapter(u)

-----------------------------------------------------------------------------
(* The operators by which the generators of the other modules write.        *)

\* One autocommitted statement or short transaction on the chapter's row.
WriteChapter(a, text, status) ==
  /\ RowFree(a)
  /\ chapter' = [text |-> text, status |-> status]

\* The generators deactivate the versions of every branch.
ReplaceActive(text) ==
  versions' = Append(Deactivate(versions, Active(versions)), VersionRow(text, Main, TRUE))

AddActive(text) == versions' = Append(versions, VersionRow(text, Main, TRUE))   \* mutant
AddInactive(text) == versions' = Append(versions, VersionRow(text, Main, FALSE))
=============================================================================
