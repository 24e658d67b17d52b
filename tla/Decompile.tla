----------------------------- MODULE Decompile -----------------------------
(***************************************************************************)
(* One reference book taken apart: the ingest that cuts its text into      *)
(* slices (services/reference_ingestor.py), the branches that make a style *)
(* and a beat card of each, and the retry waves of Celery                  *)
(* (tasks/__init__.py, api/decompile.py) that come back for missing cards  *)
(* until the book is ready.                                                *)
(*                                                                         *)
(* The ingest keeps one transaction open from its first to its last        *)
(* statement.  In it the old slices are deleted, so others still see them  *)
(* and wait for it when they touch them or the book's row; new slices and  *)
(* all cards are committed one by one through other sessions.              *)
(*                                                                         *)
(* A slice is <<the number of the ingest, its number>>.                    *)
(***************************************************************************)
EXTENDS Naturals, FiniteSets, FiniteSetsExt

CONSTANTS Slices,       \* numbers of the slices of the text
          MaxIngests,   \* bound on the ingests
          Waves,        \* workers that run retry waves
          WaveBatch,    \* DECOMPILE_RETRY_WAVE_BATCH
          Nobody

DecompileAssumption == MaxIngests \in Nat /\ WaveBatch \in Nat \ {0} /\ Nobody \notin Waves

Branch == {"style", "beat"}

VARIABLES status,    \* ReferenceBook.status
          slices,    \* committed rows of reference_book_slices
          cards,     \* committed cards, as <<slice, branch>>
          ingest,    \* the locals of the ingest
          wave,      \* the locals of each wave
          holder,    \* of decompile_retry:lock:<book>
          queue,     \* retry_reference_book_missing_branches messages
          redeliver, \* messages of workers that died, until they become visible
          manual,    \* has the user asked for a retry
          broken     \* history: was an ingest or a wave lost since one last got to work
decompileVars == <<status, slices, cards, ingest, wave, holder, queue, redeliver, manual, broken>>

Missing(S) == {x \in S \X Branch : x \notin cards}

\* _classify over the slices a session sees.
Classify(S) == IF S = {} THEN "error" ELSE IF Missing(S) = {} THEN "ready" ELSE "partial"

\* Cards go with their slices.
CardsKept(S) == cards   \* mutant
CardsOf(S) == {x \in cards : x[1] \in S}

NoIngest == [running |-> FALSE, run |-> ingest.run, old |-> {}, unborn |-> {}, due |-> {}]
NoWave == [pc |-> "idle", locked |-> FALSE, todo |-> {}, status |-> "none"]

DecompileInit ==
  /\ \/ status = "ready" /\ slices = {<<0, n>> : n \in Slices} /\ cards = slices \X Branch
     \/ status = "partial" /\ slices = {<<0, n>> : n \in Slices} /\ cards = slices \X {"beat"}
     \/ status = "pending" /\ slices = {} /\ cards = {}
  /\ ingest = [running |-> FALSE, run |-> 0, old |-> {}, unborn |-> {}, due |-> {}]
  /\ wave = [w \in Waves |-> NoWave]
  /\ holder = Nobody /\ redeliver = 0
  /\ queue = IF status = "partial" THEN 1 ELSE 0
  /\ manual = FALSE /\ broken = FALSE

-----------------------------------------------------------------------------
(* Ingests queue for the book's row, so there is one at a time.             *)
StartIngest ==
  /\ ~ingest.running /\ ingest.run < MaxIngests
  /\ ingest' = [running |-> TRUE, run |-> ingest.run + 1, old |-> slices,
                unborn |-> Slices, due |-> {}]
  /\ UNCHANGED <<status, slices, cards, wave, holder, queue, redeliver, manual, broken>>

\* No chunks: the slices stay.  No slices: they are gone.
EmptyIngest ==
  /\ ~ingest.running /\ ingest.run < MaxIngests
  /\ status' = "error"
  /\ slices' \in {slices, {}} /\ cards' = CardsOf(slices')
  /\ ingest' = [ingest EXCEPT !.run = @ + 1]
  /\ UNCHANGED <<wave, holder, queue, redeliver, manual, broken>>

\* _process_slice of one slice; an exception leaves it out.
PersistSlice ==
  /\ \E n \in ingest.unborn :
       \/ /\ slices' = slices \cup {<<ingest.run, n>>}
          /\ ingest' = [ingest EXCEPT !.unborn = @ \ {n}, !.due = @ \cup ({<<ingest.run, n>>} \X Branch)]
       \/ ingest' = [ingest EXCEPT !.unborn = @ \ {n}] /\ UNCHANGED slices
  /\ UNCHANGED <<status, cards, wave, holder, queue, redeliver, manual, broken>>

\* _style_branch or _beat_branch: a card, or a failure that is swallowed.
IngestBranch ==
  /\ \E x \in ingest.due :
       /\ cards' \in {cards, cards \cup {x}}
       /\ ingest' = [ingest EXCEPT !.due = @ \ {x}]
  /\ UNCHANGED <<status, slices, wave, holder, queue, redeliver, manual, broken>>

(* The first wave is sent after the commit; when the broker refuses it, or  *)
(* the binding of a profile between the two raises, there is none.          *)
CommitIngest ==
  /\ ingest.running /\ ingest.unborn = {} /\ ingest.due = {}
  /\ slices' = slices \ ingest.old
  /\ cards' = CardsOf(slices')
  /\ status' = Classify(slices')
  /\ \/ status' = "partial" /\ queue' = queue + 1 /\ UNCHANGED broken
     \/ status' = "partial" /\ broken' = TRUE /\ UNCHANGED queue
     \/ status' # "partial" /\ UNCHANGED <<queue, broken>>
  /\ ingest' = NoIngest
  /\ UNCHANGED <<wave, holder, redeliver, manual>>

(* The transaction is lost, by a crash or an idle timeout of the server:    *)
(* old and new slices stay, and nobody is told.                             *)
LoseIngest ==
  /\ ingest.running
  /\ ingest' = NoIngest /\ broken' = TRUE
  /\ UNCHANGED <<status, slices, cards, wave, holder, queue, redeliver, manual>>

-----------------------------------------------------------------------------
At(w, step) == wave[w].pc = step
SetWave(w, r) == wave' = [wave EXCEPT ![w] = r]

(* The user's request; the broker's redelivery of a wave that is still at   *)
(* work is a message like this one.                                         *)
RetryMissing ==
  /\ ~manual /\ manual' = TRUE /\ queue' = queue + 1
  /\ UNCHANGED <<status, slices, cards, ingest, wave, holder, redeliver, broken>>

\* A lock whose wave is gone: its worker died, or could not ask Redis to release it.
Orphaned == holder # Nobody /\ ~wave[holder].locked

Begin(w, locked) ==
  SetWave(w, [NoWave EXCEPT !.pc = "start", !.locked = locked]) /\ broken' = FALSE

(* SET NX.  A wave that finds the lock taken is over; one that cannot ask   *)
(* Redis works without it.  A message is sent with a delay of half a minute *)
(* or more, so none arrives in the moment between a wave's last count and   *)
(* the release of its lock, unless the wave waits there for an ingest.      *)
TakeWave(w) ==
  /\ At(w, "idle") /\ queue > 0
  /\ \A v \in Waves : ~At(v, "release") /\ (At(v, "write") => ingest.running)
  /\ queue' = queue - 1
  /\ \/ holder = Nobody /\ holder' = w /\ Begin(w, TRUE)
     \/ UNCHANGED holder /\ Begin(w, FALSE)
     \/ /\ holder # Nobody /\ broken' = (broken \/ Orphaned)
        /\ UNCHANGED <<holder, wave>>
  /\ UNCHANGED <<status, slices, cards, ingest, redeliver, manual>>

\* The first WaveBatch missing cards of either branch.
Snapshot(w) ==
  /\ At(w, "start")
  /\ \E S \in SUBSET Missing(slices) :
       /\ \A b \in Branch :
            Cardinality({x \in S : x[2] = b})
              = Min({WaveBatch, Cardinality({x \in Missing(slices) : x[2] = b})})
       /\ SetWave(w, [wave[w] EXCEPT !.pc = "fill", !.todo = S])
  /\ UNCHANGED <<status, slices, cards, ingest, holder, queue, redeliver, manual, broken>>

(* A branch: it waits for an ingest that is deleting the slice, and takes   *)
(* the integrity error of a slice that is gone for a card that is there.    *)
FillCard(w) ==
  /\ At(w, "fill")
  /\ \E x \in wave[w].todo :
       /\ x[1] \notin ingest.old
       /\ cards' \in {cards, cards \cup ({x} \cap (slices \X Branch))}
       /\ SetWave(w, [wave[w] EXCEPT !.todo = @ \ {x}])
  /\ UNCHANGED <<status, slices, ingest, holder, queue, redeliver, manual, broken>>

\* _refresh_book_status counts in statements of their own and writes at commit.
CountCards(w) ==
  /\ At(w, "fill") /\ wave[w].todo = {}
  /\ SetWave(w, [wave[w] EXCEPT !.pc = "write", !.status = Classify(slices)])
  /\ UNCHANGED <<status, slices, cards, ingest, holder, queue, redeliver, manual, broken>>

WriteStatus(w) ==
  /\ At(w, "write") /\ ~ingest.running
  /\ status' = wave[w].status
  /\ SetWave(w, [wave[w] EXCEPT !.pc = "release"])
  /\ UNCHANGED <<slices, cards, ingest, holder, queue, redeliver, manual, broken>>

(* The lock is released if it is still this wave's and Redis answers.       *)
Unlock(w) == holder' \in IF wave[w].locked /\ holder = w THEN {Nobody, w} ELSE {holder}

(* The next wave is sent whether this one filled anything or not; that the  *)
(* broker refuses it is only logged.                                        *)
NoNextWave(w) == queue   \* mutant
NextWave(w) == IF wave[w].status = "partial" THEN queue + 1 ELSE queue

Release(w) ==
  /\ At(w, "release")
  /\ Unlock(w)
  /\ \/ queue' = NextWave(w) /\ UNCHANGED broken
     \/ wave[w].status = "partial" /\ broken' = TRUE /\ UNCHANGED queue
  /\ SetWave(w, NoWave)
  /\ UNCHANGED <<status, slices, cards, ingest, redeliver, manual>>

\* The database or the vector store raises: no next wave, and no retry of this one.
RaiseWave(w) ==
  /\ wave[w].pc \in {"start", "fill", "write"}
  /\ Unlock(w) /\ SetWave(w, NoWave) /\ broken' = TRUE
  /\ UNCHANGED <<status, slices, cards, ingest, queue, redeliver, manual>>

(* The worker dies, perhaps with the lock.  Its message comes back after    *)
(* the visibility timeout.                                                  *)
CrashWave(w) ==
  /\ wave[w].pc # "idle"
  /\ SetWave(w, NoWave) /\ redeliver' = redeliver + 1
  /\ UNCHANGED <<status, slices, cards, ingest, holder, queue, manual, broken>>

Redeliver ==
  /\ redeliver > 0 /\ redeliver' = redeliver - 1 /\ queue' = queue + 1
  /\ UNCHANGED <<status, slices, cards, ingest, wave, holder, manual, broken>>

\* The lock's TTL outlives every message on its way, but not every wave.
LockExpires ==
  /\ holder # Nobody /\ (Orphaned => redeliver = 0 /\ queue = 0)
  /\ holder' = Nobody
  /\ UNCHANGED <<status, slices, cards, ingest, wave, queue, redeliver, manual, broken>>

DecompileNext ==
  \/ StartIngest \/ EmptyIngest \/ PersistSlice \/ IngestBranch \/ CommitIngest \/ LoseIngest
  \/ RetryMissing \/ Redeliver \/ LockExpires
  \/ \E w \in Waves :
       \/ TakeWave(w) \/ Snapshot(w) \/ FillCard(w) \/ CountCards(w) \/ WriteStatus(w)
       \/ Release(w) \/ RaiseWave(w) \/ CrashWave(w)

-----------------------------------------------------------------------------
DecompileTypeOK ==
  /\ status \in {"pending", "ready", "partial", "error"}
  /\ slices \subseteq (0 .. MaxIngests) \X Slices
  /\ cards \subseteq slices \X Branch
  /\ queue \in Nat /\ redeliver \in Nat /\ holder \in Waves \cup {Nobody}

\* A wave that will send the next one, unless it counts no card missing.
Looks(w) ==
  \/ wave[w].pc \in {"start", "fill"}
  \/ wave[w].pc \in {"write", "release"} /\ wave[w].status = "partial"

(* "the missing-card backfill must keep probing until the book reaches      *)
(* ready" (tasks/__init__.py).  While a card is missing, something that     *)
(* will look for it is under way, whatever waves were dropped at the lock   *)
(* or worked without it, died or were delivered twice, and whatever status  *)
(* a wave wrote over an ingest's.  Only these end it, until a wave gets to  *)
(* work again: an ingest that does not commit, a wave that raises, a send   *)
(* that is refused, and a message that comes to the lock of a wave that is  *)
(* gone.                                                                    *)
BackfillAlive ==
  \/ broken \/ Missing(slices) = {}
  \/ ingest.running \/ queue > 0 \/ redeliver > 0
  \/ \E w \in Waves : Looks(w)
=============================================================================
