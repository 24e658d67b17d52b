--------------------------- MODULE ChapterStream ---------------------------
(***************************************************************************)
(* POST /api/generate/chapter (api/generate.py): one streamed generation.  *)
(* The handler remembers the chapter's text, writes a draft, passes it     *)
(* through the quality gate, saves it with a version, judges and revises   *)
(* it at most MaxRounds times, polishes what was accepted, and puts the    *)
(* remembered text back when the revision gave up.  Only what is left at   *)
(* the end goes to the ledger of what the characters know.                 *)
(*                                                                         *)
(* The client may disconnect at any moment: the handler is cancelled where *)
(* it stands, except that a save that has begun runs on by itself.         *)
(***************************************************************************)
EXTENDS ChapterStore

CONSTANTS Streams,
          Options,      \* the sets of options a request may come with
          MaxRounds,    \* req.max_revise_rounds
          MaxTexts      \* bound on the texts one stream writes

StreamAssumption ==
  /\ MaxRounds \in Nat /\ MaxTexts \in Nat /\ Nobody \notin Streams
  /\ Options \subseteq SUBSET {"scene", "polish", "keep"}

VARIABLES stream,      \* the locals of each handler
          rejected     \* history: texts a stream gave up
strm == <<stream, rejected>>

NoText == TextOf(Nobody, 2, FALSE)      \* None

Steps == {"idle", "draft", "gate", "save", "version", "judge", "polish",
          "save2", "version2", "settle", "ingest", "done", "gone"}

NoStream ==
  [pc |-> "idle", live |-> TRUE, opts |-> {}, base |-> Blank, text |-> Blank, k |-> 0,
   round |-> 1, ingest |-> NoText, accepted |-> FALSE, aborted |-> FALSE,
   revised |-> FALSE, restored |-> FALSE]

StreamInit ==
  /\ stream = [s \in Streams |-> NoStream]
  /\ rejected = {}

At(s, step) == stream[s].pc = step /\ stream[s].live

\* The statements of s change its locals to r and, unless stated, nothing else.
Local(s, r) == stream' = [stream EXCEPT ![s] = r]

\* The handler is over; what it restored is kept for the properties.
Ended(s, step) ==
  [NoStream EXCEPT !.pc = step, !.restored = stream[s].restored,
                   !.base = IF stream[s].restored THEN stream[s].base ELSE Blank]

Wants(s, option) == option \in stream[s].opts

Fresh(s) == {TextOf(s, k, whole) : k \in {stream[s].k + 1} \cap (1 .. MaxTexts), whole \in BOOLEAN}

(* The request's options, the prior text, and the outline readiness check.  *)
(* "scene" is use_scene_mode with auto_revise, "polish" the absence of      *)
(* skip_polish, "keep" the environment's QUALITY_GATE_PERSIST_ON_BLOCK.     *)
OpenStream(s) ==
  /\ s \in cast /\ At(s, "idle")
  /\ \/ \E o \in Options :
          Local(s, [stream[s] EXCEPT !.pc = "draft", !.opts = o, !.base = chapter.text])
     \/ Local(s, Ended(s, "done"))
  /\ UNCHANGED <<store, rejected>>

(* Scenes, or one call when they fail; the partial scenes are discarded.    *)
(* An exception ends the stream, and an empty text has nothing to save.     *)
Draft(s) ==
  /\ At(s, "draft")
  /\ \/ \E t \in Fresh(s) :
          Local(s, [stream[s] EXCEPT !.pc = IF Wants(s, "polish") THEN "gate" ELSE "save",
                                     !.text = t, !.k = @ + 1])
     \/ Local(s, Ended(s, "done"))
  /\ UNCHANGED <<store, rejected>>

(* The gate passes the text, perhaps rewritten; or it blocks, which ends    *)
(* the stream unless its best text is to be kept.                           *)
Gate(s) ==
  /\ At(s, "gate")
  /\ \/ \E t \in Fresh(s) \cup {stream[s].text} :
          Local(s, [stream[s] EXCEPT !.pc = "save", !.text = t, !.k = t.k])
     \/ Local(s, Ended(s, "done"))
  /\ UNCHANGED <<store, rejected>>

-----------------------------------------------------------------------------
(* _persist_chapter_now, shielded from the client: the chapter's row, then  *)
(* its version, then the dispatch.  The row may be missing or the commit    *)
(* fail; a version that cannot be written is only logged.                   *)
StatusOf(t) == IF t.whole THEN "completed" ELSE "draft"

AfterSave(s, ingest) ==
  IF ~stream[s].live THEN Ended(s, "gone")
  ELSE IF stream[s].pc \in {"save2", "version2"} THEN [stream[s] EXCEPT !.pc = "settle"]
  ELSE [stream[s] EXCEPT !.pc = IF Wants(s, "scene") THEN "judge" ELSE "ingest", !.ingest = ingest]

SaveChapter(s) ==
  /\ stream[s].pc \in {"save", "save2"}
  /\ \/ /\ WriteChapter(s, stream[s].text, StatusOf(stream[s].text))
        /\ Local(s, [stream[s] EXCEPT !.pc = IF @ = "save" THEN "version" ELSE "version2"])
     \/ Local(s, AfterSave(s, NoText)) /\ UNCHANGED chapter
  /\ UNCHANGED <<versions, edits, queued, ledger, rejected>>

SaveVersion(s) ==
  /\ stream[s].pc \in {"version", "version2"}
  /\ ReplaceActive(stream[s].text) \/ UNCHANGED versions
  /\ Dispatch
  /\ Local(s, AfterSave(s, stream[s].text))
  /\ UNCHANGED <<chapter, edits, ledger, rejected>>

-----------------------------------------------------------------------------
Accept(s) == [stream[s] EXCEPT !.accepted = TRUE, !.pc = "polish"]
Abort(s)  == [stream[s] EXCEPT !.accepted = FALSE, !.aborted = TRUE, !.pc = "settle"]

(* A round that ends the loop: good enough (or not parsed), or an exception.*)
Judge(s) ==
  /\ At(s, "judge") /\ stream[s].round <= MaxRounds
  /\ Local(s, Accept(s)) \/ Local(s, Abort(s))
  /\ UNCHANGED <<store, rejected>>

(* A round that is not good enough: spans or the whole chapter are          *)
(* rewritten and the chapter's row overwritten, without a version.          *)
Revise(s) ==
  /\ At(s, "judge") /\ stream[s].round <= MaxRounds
  /\ \/ \E t \in Fresh(s) :
          /\ WriteChapter(s, t, StatusOf(t))
          /\ Local(s, [stream[s] EXCEPT !.text = t, !.k = @ + 1, !.round = @ + 1, !.revised = TRUE])
     \/ Local(s, Abort(s)) /\ UNCHANGED chapter      \* failed, timed out, empty, not saved
  /\ UNCHANGED <<versions, edits, queued, ledger, rejected>>

(* After the last round.  When the judge itself raises, the text is neither *)
(* accepted nor given up.                                                   *)
JudgeLast(s) ==
  /\ At(s, "judge") /\ stream[s].round > MaxRounds
  /\ \/ Local(s, Accept(s))
     \/ Local(s, Abort(s))
     \/ Local(s, [stream[s] EXCEPT !.pc = "settle"])
  /\ UNCHANGED <<store, rejected>>

(* The gate again, over an accepted revision.  Rewritten prose is saved     *)
(* again; that this save failed is not remembered.                          *)
Polish(s) ==
  /\ At(s, "polish")
  /\ \/ Local(s, [stream[s] EXCEPT !.pc = "settle"])
     \/ /\ stream[s].revised /\ Wants(s, "polish")
        /\ \/ \E t \in Fresh(s) : Local(s, [stream[s] EXCEPT !.pc = "save2", !.text = t, !.k = @ + 1])
           \/ Wants(s, "keep") /\ Local(s, [stream[s] EXCEPT !.pc = "save2"])
           \/ Local(s, Abort(s))
  /\ UNCHANGED <<store, rejected>>

-----------------------------------------------------------------------------
(* What a chapter goes back to: the text before the run, and the draft only *)
(* for a chapter that had none.                                             *)
KeepsDraft(base, text, keep) == IF keep THEN text ELSE base   \* mutant
RollbackText(base, text, keep) ==
  IF base # Blank THEN base ELSE IF keep THEN text ELSE Blank

AnyText(t) == IF t # Blank THEN "completed" ELSE "draft"   \* mutant
RollbackStatus(t) == IF t # Blank /\ t.whole THEN "completed" ELSE "draft"

GivenUp(s) == ~stream[s].accepted /\ stream[s].aborted

\* What goes to the ledger: the final text, if any was saved and it was not given up.
WhateverWasSaved(s) ==   \* mutant
  IF stream[s].ingest # NoText \/ stream[s].revised THEN stream[s].text ELSE NoText
Ingested(s) ==
  IF ~GivenUp(s) /\ (stream[s].ingest # NoText \/ stream[s].revised) THEN stream[s].text ELSE NoText

Settle(s) ==
  /\ At(s, "settle")
  /\ IF GivenUp(s)
     THEN LET back == RollbackText(stream[s].base, stream[s].text, Wants(s, "keep"))
          IN /\ \E ok \in BOOLEAN :
                  /\ IF ok THEN WriteChapter(s, back, RollbackStatus(back)) ELSE UNCHANGED chapter
                  /\ Local(s, [stream[s] EXCEPT !.pc = "ingest", !.ingest = Ingested(s), !.restored = ok])
             /\ rejected' = rejected \cup {stream[s].text}
     ELSE /\ Local(s, [stream[s] EXCEPT !.pc = "ingest", !.ingest = Ingested(s)])
          /\ UNCHANGED <<chapter, rejected>>
  /\ UNCHANGED <<versions, edits, queued, ledger>>

Ingest(s) ==
  /\ At(s, "ingest")
  /\ ledger' \in {ledger, ledger \cup ({stream[s].ingest} \ {NoText})}
  /\ Local(s, Ended(s, "done"))
  /\ UNCHANGED <<chapter, versions, edits, queued, rejected>>

Disconnect(s) ==
  /\ stream[s].live /\ stream[s].pc \notin {"idle", "done", "gone"}
  /\ Local(s, IF stream[s].pc \in {"save", "version", "save2", "version2"}
              THEN [stream[s] EXCEPT !.live = FALSE] ELSE Ended(s, "gone"))
  /\ UNCHANGED <<store, rejected>>

StreamNext ==
  \E s \in Streams :
    \/ OpenStream(s) \/ Draft(s) \/ Gate(s) \/ SaveChapter(s) \/ SaveVersion(s)
    \/ Judge(s) \/ Revise(s) \/ JudgeLast(s) \/ Polish(s) \/ Settle(s)
    \/ Ingest(s) \/ Disconnect(s)

-----------------------------------------------------------------------------
(* A draft that the revision gave up never reaches the cognition ledger:    *)
(* "An aborted/rolled-back draft must never reach the ledger".              *)
RejectedNeverIngested == ledger \cap rejected = {}

(* When a stream has given its revision up and its rollback was written,    *)
(* none of its drafts is the text of a chapter that had one before, unless  *)
(* a user has brought it back from the versions, or another stream that had *)
(* begun on it has rolled back in its turn.                                 *)
GivenUpIsGone ==
  \A s \in Streams :
    stream[s].pc = "done" /\ stream[s].restored /\ stream[s].base # Blank
      => \/ chapter.text.by # s \/ RolledBack
         \/ \E r \in Streams \ {s} : stream[r].restored /\ stream[r].base = chapter.text

(* A text of a stream that stops in the middle of a sentence is never a     *)
(* completed chapter, through the first save, the revisions, the polish and *)
(* the rollback, unless a user has chosen it.                               *)
CompletedIsWhole ==
  chapter.status = "completed" /\ chapter.text.by \in Streams => chapter.text.whole \/ RolledBack
=============================================================================
