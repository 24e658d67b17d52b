---------------------------- MODULE OutlineChain ----------------------------
(***************************************************************************)
(* The chain book outline, volume outline, chapter outline, prose: which   *)
(* layers count as ready (services/outline_readiness.py), and how the      *)
(* outline of one chapter is filled by the batches of its volume, by the   *)
(* streamed chapter outline that is merged into it, by the user, and by    *)
(* expand_chapter_outline, which reads, calls the model for minutes with   *)
(* no transaction open, and writes (services/chapter_outline_expander.py). *)
(* Of an outline's fields only those that are filled count.                *)
(***************************************************************************)
EXTENDS Naturals, Sequences

CONSTANTS Expanders, MaxRows, MaxWrites     \* the last two are bounds
ChainAssumption == MaxRows \in Nat /\ MaxWrites \in Nat

VARIABLES books, plans,   \* book and volume outlines as they are ordered: are they usable
          outline,        \* Chapter.outline_json
          expander,       \* the locals of each expansion
          edits,          \* writes so far
          had,            \* history: fields that were filled and that no writer meant to empty
          raced,          \* history: did another writer come in between an expansion's read and write
          drawn           \* history: did the model's number get in
chainVars == <<books, plans, outline, expander, edits, had, raced, drawn>>

(* What an expansion does with a field that its answer lacks: it keeps the  *)
(* texts (the summary, and the eleven of state such as start_state), keeps  *)
(* the key_events unless the answer has a list of them, empties the hook    *)
(* and its like (prev_chapter_threads, the state changes, the foreshadows)  *)
(* and leaves out the ledgers (action_budget, inference_ledger) always.     *)
Kept == {"text"}
Fields == Kept \cup {"events", "hook", "ledger"}
Idle == [pc |-> "idle", stub |-> {}]
NoOutline == [idx |-> 0, body |-> {}]

ChainInit ==
  /\ books = <<>> /\ plans = <<>>
  /\ outline = NoOutline /\ edits = 0
  /\ expander = [e \in Expanders |-> Idle]
  /\ had = {} /\ raced = FALSE /\ drawn = FALSE

(* has_meaningful_outline_content of one row is enough for a layer; a       *)
(* degraded row, or one that failed the consistency gate, has none.         *)
LayerReady(rows) == \E i \in DOMAIN rows : rows[i]
(* Any value will do, the number of the chapter included.                   *)
ChapterReady == outline # NoOutline
MissingLayers == {l \in {"book", "volume", "chapter"} :
  ~(CASE l = "book" -> LayerReady(books) [] l = "volume" -> LayerReady(plans) [] OTHER -> ChapterReady)}

Calling == {e \in Expanders : expander[e].pc = "call"}
(* Another writer than the expansions in by.                                *)
Write(by) == /\ edits < MaxWrites /\ edits' = edits + 1
             /\ raced' = (raced \/ Calling \ by # {})

(* Books are ordered with the oldest first, volume outlines with the newest.*)
SaveBook == /\ Len(books) < MaxRows
            /\ \E usable \in BOOLEAN : books' = Append(books, usable)
            /\ UNCHANGED <<plans, outline, expander, edits, had, raced, drawn>>
SavePlan == /\ Len(plans) < MaxRows
            /\ \E usable \in BOOLEAN : plans' = <<usable>> \o plans
            /\ UNCHANGED <<books, outline, expander, edits, had, raced, drawn>>

(* The chapter's row is made from the summaries of its volume; later they   *)
(* and the user may replace its outline as a whole.                         *)
Replace(body) ==
  /\ Write({})
  /\ outline' = [idx |-> 1, body |-> body] /\ had' = body
  /\ UNCHANGED <<books, plans, expander, drawn>>
Cascade == plans # <<>> /\ Replace({"text"})
UserEdit == outline # NoOutline /\ \E body \in SUBSET Fields : Replace(body)

\* Empty fields of the answer count as well (a defect to look for).
MergedAll(filled) == [outline EXCEPT !.body = filled]

(* merge_chapter_outline_enrichment: what the answer fills replaces what    *)
(* there was; the number stays, an answer without JSON changes nothing.     *)
Merged(filled) == [outline EXCEPT !.body = @ \cup filled]
Enrich ==
  /\ outline # NoOutline /\ Write({})
  /\ \E filled \in SUBSET Fields : outline' = Merged(filled) /\ had' = had \cup filled
  /\ UNCHANGED <<books, plans, expander, drawn>>

-----------------------------------------------------------------------------
Set(e, r) == expander' = [expander EXCEPT ![e] = r]

(* An expansion needs the layers above the chapter.                         *)
Gate(e) ==
  /\ expander[e].pc = "idle" /\ MissingLayers \subseteq {"chapter"}
  /\ Set(e, [Idle EXCEPT !.pc = "gather"])
  /\ UNCHANGED <<books, plans, outline, edits, had, raced, drawn>>

(* The stub is the chapter's outline, or its summary in the newest outline  *)
(* of the volume, usable or not, or what little the row itself knows.       *)
Gather(e) ==
  /\ expander[e].pc = "gather"
  /\ \E known \in SUBSET {"text"} :
       Set(e, [pc |-> "call", stub |-> IF outline # NoOutline THEN outline.body ELSE known])
  /\ UNCHANGED <<books, plans, outline, edits, had, raced, drawn>>

(* An error of the call or an answer that is a list ends it.                *)
ExpandFails(e) ==
  /\ expander[e].pc = "call" /\ Set(e, Idle)
  /\ UNCHANGED <<books, plans, outline, edits, had, raced, drawn>>

Normalized(e, filled, listed) ==
  (filled \ {"ledger"}) \cup (expander[e].stub \cap (IF listed THEN Kept ELSE Kept \cup {"events"}))
(* An answer that is no JSON is an answer without fields, and no list among *)
(* them.  The title is kept; the number is the model's.                     *)
ExpandWrite(e) ==
  /\ expander[e].pc = "call" /\ Write({e})
  /\ \E filled \in SUBSET Fields, listed \in BOOLEAN, n \in {1, 2} :
       /\ outline' = [idx |-> n, body |-> Normalized(e, filled, listed)]
       /\ had' = (had \cap (IF listed THEN Kept ELSE Kept \cup {"events"})) \cup outline'.body
       /\ drawn' = (n # 1)
  /\ Set(e, Idle)
  /\ UNCHANGED <<books, plans>>

ChainNext ==
  \/ SaveBook \/ SavePlan \/ Cascade \/ UserEdit \/ Enrich
  \/ \E e \in Expanders : Gate(e) \/ Gather(e) \/ ExpandFails(e) \/ ExpandWrite(e)
ChainSpec == ChainInit /\ [][ChainNext]_chainVars
-----------------------------------------------------------------------------
ChainTypeOK ==
  /\ books \in Seq(BOOLEAN) /\ plans \in Seq(BOOLEAN)
  /\ outline \in [idx : 0 .. 2, body : SUBSET Fields]
  /\ expander \in [Expanders -> [pc : {"idle", "gather", "call"}, stub : SUBSET Fields]]
  /\ edits \in 0 .. MaxWrites

(* "never regressing a populated field back to empty" is said of the merge  *)
(* and true of it for every field; an expansion whose answer is poor, or no *)
(* JSON at all, keeps that promise for the texts and, without a list in the *)
(* answer, for the key events, unless somebody else wrote while the model   *)
(* was called.  Hooks, threads, foreshadows and ledgers it may empty.  Only *)
(* an expansion lets the model renumber the chapter.                        *)
ChainSound ==
  /\ ~raced => had \subseteq outline.body
  /\ ~drawn /\ outline # NoOutline => outline.idx = 1
=============================================================================
