--------------------------- MODULE ChapterSystem ---------------------------
(***************************************************************************)
(* One chapter and everything that writes it: the requests of users, the   *)
(* streamed generations, the generation tasks, and the workers that bring  *)
(* the knowledge graph up to date.  They meet in the variables of          *)
(* ChapterStore.                                                           *)
(***************************************************************************)
EXTENDS ChapterStream, ChapterTask, EntityExtraction

\* The name on a text tells who wrote it.
ChapterAssumption ==
  /\ StoreAssumption /\ StreamAssumption /\ TaskAssumption /\ ExtractionAssumption
  /\ Users \cap Streams = {} /\ Users \cap Tasks = {} /\ Streams \cap Tasks = {}

chapterVars == <<store, cast, strm, tsk, extr>>

ChapterInit == StoreInit /\ StreamInit /\ TaskInit /\ ExtractionInit

ChapterNext ==
  \/ UserNext       /\ UNCHANGED <<cast, strm, tsk, extr>>
  \/ StreamNext     /\ UNCHANGED <<cast, tsk, extr>>
  \/ TaskNext       /\ UNCHANGED <<cast, strm, extr>>
  \/ ExtractionNext /\ UNCHANGED <<cast, strm, tsk>>

ChapterSpec == ChapterInit /\ [][ChapterNext]_chapterVars

-----------------------------------------------------------------------------
Texts == [by : Users \cup Streams \cup Tasks \cup {Nobody}, k : Nat, whole : BOOLEAN]

ChapterTypeOK ==
  /\ chapter \in [text : Texts, status : {"draft", "needs_review", "completed"}]
  /\ versions \in Seq([text : Texts, branch : Branches, active : BOOLEAN])
  /\ \A u \in Users : edits[u].hit \cup {edits[u].target} \subseteq 0 .. Len(versions)
  /\ queued \in Nat /\ ledger \subseteq Texts /\ rejected \subseteq Texts /\ held \subseteq Texts
  /\ \A s \in Streams : stream[s].pc \in Steps /\ stream[s].text \in Texts
  /\ \A t \in Tasks : task[t].status \in TaskStatus /\ task[t].text \in Texts
  /\ marker \in {"none", "new", "failed", "completed"} /\ graph \in Texts

(* A chapter that has an active version never loses it: every request and   *)
(* every generator that deactivates versions, on whatever rows its          *)
(* statement saw, leaves one active when it commits.  The one exception is  *)
(* a switch to a version that was active when the request loaded it.        *)
NothingToSwitch(u) == edits[u].was /\ edits[u].pc \in {"open", "staged"} /\ edits'[u].pc = "done"
ActiveKept ==
  Active(versions) # {} => Active(versions') # {} \/ \E u \in Users : NothingToSwitch(u)
ActiveSurvives == [][ActiveKept]_versions
=============================================================================
