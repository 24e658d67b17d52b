------------------------------ MODULE Outlines ------------------------------
(***************************************************************************)
(* The outlines of a project with one planned volume, and the rows that    *)
(* are made from them: the book outline, the outlines of the volume, the   *)
(* Volume row and its Chapter rows.  They are written by streams           *)
(* (api/generate.py), tasks (tasks/generation_tasks.py), the regeneration  *)
(* of a volume (api/volumes.py) and the user (api/outlines.py and the      *)
(* POSTs of volumes and chapters).  Only the book outline has a unique     *)
(* index.  The user gives no row another number.                           *)
(***************************************************************************)
EXTENDS Naturals, FiniteSets

CONSTANTS Writers,    \* streams, tasks and requests
          Indices,    \* chapter numbers in an outline of the volume
          MaxOps,     \* bound on the operations
          MaxPosts,   \* bound on the rows that the user adds himself
          Nobody

OutlinesAssumption == {MaxOps, MaxPosts} \subseteq Nat /\ Nobody \notin Writers

VARIABLES book,      \* book outlines: their number and whether the user confirmed them
          locker,    \* the task whose new book outline is not committed
          outlines,  \* volume outlines: their number and whether their parent is the book
          volumes,   \* Volume rows of the planned number
          chapters,  \* Chapter rows
          job,       \* the locals of each writer
          ops,       \* operations started, which number the rows they make
          posted,    \* history: operations by which the user added a row himself
          apart,     \* history: has each operation run alone
          undone,    \* history: was a regeneration cut off after it had saved
          made       \* history: is there a book outline that nobody deleted
outlinesVars ==
  <<book, locker, outlines, volumes, chapters, job, ops, posted, apart, undone, made>>

(* Nothing keeps an answer from giving a number again; how often does not   *)
(* matter, and is at most twice here.                                       *)
Copies == {1, 2}
NoVolume == [by |-> 0, copy |-> 1]
Idle == [pc |-> "idle", op |-> 0, vol |-> NoVolume, fresh |-> FALSE, dead |-> {}, gone |-> {},
         idx |-> 0, parent |-> 0, lost |-> FALSE]

OutlinesInit ==
  /\ book = {} /\ locker = Nobody /\ outlines = {} /\ volumes = {} /\ chapters = {}
  /\ job = [w \in Writers |-> Idle]
  /\ ops = 0 /\ posted = {} /\ apart = TRUE /\ undone = FALSE /\ made = FALSE

At(w, step) == job[w].pc = step
Set(w, r) == job' = [job EXCEPT ![w] = r]
Go(w, step) == Set(w, [job[w] EXCEPT !.pc = step])

Start(w, r) ==
  /\ At(w, "idle") /\ ops < MaxOps /\ ops' = ops + 1
  /\ Set(w, IF r.pc = "idle" THEN Idle ELSE [r EXCEPT !.op = ops + 1])
  /\ apart' = (apart /\ \A v \in Writers : At(v, "idle"))

\* Volume outlines lose a parent that is deleted.
Orphaned == {[o EXCEPT !.child = FALSE] : o \in outlines}
Row(v, i, n, op) == [vol |-> v, idx |-> i, copy |-> n, by |-> op, full |-> FALSE]
Rows(w, v, twice) ==
  {Row(v, i, 1, job[w].op) : i \in Indices} \cup {Row(v, i, 2, job[w].op) : i \in twice}

-----------------------------------------------------------------------------
(* The book outline.  The task deletes what there is and inserts its own in *)
(* one transaction, and plans the volumes that it does not see, each as     *)
(* often as the plan names it.  A second task waits for it, does not see    *)
(* the row it committed, and fails on it.                                   *)
BookTask(w) ==
  /\ Start(w, [Idle EXCEPT !.pc = IF locker = Nobody THEN "book" ELSE "wait",
                           !.fresh = volumes = {}])
  /\ locker' = IF locker = Nobody THEN w ELSE locker
  /\ UNCHANGED <<book, outlines, volumes, chapters, posted, undone, made>>

CommitBook(w) ==
  /\ At(w, "book")
  /\ book' = {[id |-> job[w].op, confirmed |-> FALSE]} /\ made' = TRUE
  /\ outlines' = Orphaned
  /\ \E n \in Copies :
       volumes' = IF job[w].fresh THEN volumes \cup {[by |-> job[w].op, copy |-> i] : i \in 1 .. n}
                  ELSE volumes
  /\ job' = [v \in Writers |-> IF v = w THEN Idle
                               ELSE IF At(v, "wait") THEN [job[v] EXCEPT !.lost = TRUE] ELSE job[v]]
  /\ locker' = Nobody
  /\ UNCHANGED <<chapters, ops, posted, apart, undone>>

AbortBook(w) ==
  /\ At(w, "book")
  /\ locker' = Nobody /\ Set(w, Idle)
  /\ UNCHANGED <<book, outlines, volumes, chapters, ops, posted, apart, undone, made>>

WaitBook(w) ==
  /\ At(w, "wait") /\ locker = Nobody
  /\ IF job[w].lost THEN Set(w, Idle) /\ UNCHANGED locker
     ELSE locker' = w /\ Set(w, [job[w] EXCEPT !.pc = "book", !.fresh = volumes = {}])
  /\ UNCHANGED <<book, outlines, volumes, chapters, ops, posted, apart, undone, made>>

\* The stream inserts; the index refuses a second book outline.
BookStream(w) ==
  /\ locker = Nobody
  /\ Start(w, Idle)
  /\ book' = IF book = {} THEN {[id |-> ops + 1, confirmed |-> FALSE]} ELSE book
  /\ made' = TRUE
  /\ UNCHANGED <<locker, outlines, volumes, chapters, posted, undone>>

Confirm ==
  /\ \E b \in book : ~b.confirmed
  /\ locker = Nobody
  /\ book' = {[b EXCEPT !.confirmed = TRUE] : b \in book}
  /\ UNCHANGED <<locker, outlines, volumes, chapters, job, ops, posted, apart, undone, made>>

DeleteBook ==
  /\ book # {} /\ locker = Nobody
  /\ book' = {} /\ outlines' = Orphaned /\ made' = FALSE
  /\ UNCHANGED <<locker, volumes, chapters, job, ops, posted, apart, undone>>

-----------------------------------------------------------------------------
(* A streamed volume outline.  It is committed first; then the Volume row   *)
(* is looked up or added, and chapters are added if it has none.  Any error *)
(* on the way, such as two Volume rows, is swallowed.                       *)
VolumeStream(w) ==
  /\ book # {}
  /\ Start(w, [Idle EXCEPT !.pc = "find"])
  /\ \E child \in BOOLEAN : outlines' = outlines \cup {[id |-> ops + 1, child |-> child]}
  /\ UNCHANGED <<book, locker, volumes, chapters, posted, undone, made>>

FindVolume(w) ==
  /\ At(w, "find")
  /\ IF Cardinality(volumes) > 1 THEN Set(w, Idle)
     ELSE Set(w, [job[w] EXCEPT !.pc = "count", !.fresh = volumes = {},
                                !.vol = IF volumes = {} THEN [by |-> job[w].op, copy |-> 1]
                                         ELSE CHOOSE v \in volumes : TRUE])
  /\ UNCHANGED <<book, locker, outlines, volumes, chapters, ops, posted, apart, undone, made>>

CountNothing(w) ==   \* mutant
  /\ At(w, "count")
  /\ Go(w, "rows")
  /\ UNCHANGED <<book, locker, outlines, volumes, chapters, ops, posted, apart, undone, made>>
CountChapters(w) ==
  /\ At(w, "count")
  /\ IF \E c \in chapters : c.vol = job[w].vol THEN Set(w, Idle) ELSE Go(w, "rows")
  /\ UNCHANGED <<book, locker, outlines, volumes, chapters, ops, posted, apart, undone, made>>

CommitRows(w) ==
  /\ At(w, "rows")
  /\ IF job[w].fresh \/ job[w].vol \in volumes
     THEN /\ volumes' = volumes \cup {job[w].vol}
          /\ \E twice \in SUBSET Indices : chapters' = chapters \cup Rows(w, job[w].vol, twice)
     ELSE UNCHANGED <<volumes, chapters>>
  /\ Set(w, Idle)
  /\ UNCHANGED <<book, locker, outlines, ops, posted, apart, undone, made>>

-----------------------------------------------------------------------------
(* POST /volumes/{id}/regenerate deletes the chapters and the outlines of   *)
(* the confirmed book in the request's session, which commits when FastAPI  *)
(* closes it: before or after the stream, by its version.  The stream saves *)
(* in a session of its own.                                                 *)
Doomed == UNION {job[w].dead : w \in Writers}
Regenerate(w) ==
  /\ \E v \in volumes, b \in book :
       LET dead == {c \in chapters : c.vol = v} IN
       /\ b.confirmed /\ dead \cap Doomed = {}
       /\ Start(w, [Idle EXCEPT !.pc = "stream", !.vol = v, !.parent = b.id, !.dead = dead,
                                !.gone = {o \in outlines : o.child}])
  /\ UNCHANGED <<book, locker, outlines, volumes, chapters, posted, undone, made>>

CommitDeletes(w) ==
  /\ job[w].pc \in {"stream", "saved", "failed"} /\ ~job[w].fresh
  /\ chapters' = chapters \ job[w].dead
  /\ outlines' = {o \in outlines : \A g \in job[w].gone : g.id # o.id}
  /\ Set(w, [job[w] EXCEPT !.dead = {}, !.fresh = TRUE])
  /\ UNCHANGED <<book, locker, volumes, ops, posted, apart, undone, made>>

\* The parent, the volume or the model may be gone: the stream ends with an error.
FailStream(w) ==
  /\ At(w, "stream")
  /\ Go(w, "failed")
  /\ UNCHANGED <<book, locker, outlines, volumes, chapters, ops, posted, apart, undone, made>>

\* An answer that is no JSON is saved as an outline without chapters.
SaveRegenerated(w) ==
  /\ At(w, "stream") /\ job[w].vol \in volumes /\ \E b \in book : b.id = job[w].parent
  /\ outlines' = outlines \cup {[id |-> job[w].op, child |-> TRUE]}
  /\ \E rows \in {{}} \cup {Rows(w, job[w].vol, twice) : twice \in SUBSET Indices} :
       chapters' = chapters \cup rows
  /\ Go(w, "saved")
  /\ UNCHANGED <<book, locker, volumes, ops, posted, apart, undone, made>>

EndRegenerate(w) ==
  /\ job[w].pc \in {"saved", "failed"} /\ job[w].fresh
  /\ Set(w, Idle)
  /\ UNCHANGED <<book, locker, outlines, volumes, chapters, ops, posted, apart, undone, made>>

\* The client is gone, and what was not committed is rolled back.
CutOff(w) ==
  /\ job[w].pc \in {"stream", "saved"} /\ ~job[w].fresh
  /\ undone' = (undone \/ At(w, "saved"))
  /\ Set(w, Idle)
  /\ UNCHANGED <<book, locker, outlines, volumes, chapters, ops, posted, apart, made>>

-----------------------------------------------------------------------------
(* A chapter outline is merged into the chapter's row; two rows of one      *)
(* number, or none, are an error that is swallowed.                         *)
ChapterStream(w) ==
  /\ book # {} /\ outlines # {}
  /\ \E i \in Indices : Start(w, [Idle EXCEPT !.pc = "chapter", !.idx = i])
  /\ UNCHANGED <<book, locker, outlines, volumes, chapters, posted, undone, made>>

Enrich(w) ==
  LET hit == {c \in chapters : c.vol \in volumes /\ c.idx = job[w].idx} IN
  /\ At(w, "chapter") /\ hit \cap Doomed = {}
  /\ chapters' = IF Cardinality(volumes) = 1 /\ Cardinality(hit) = 1
                 THEN (chapters \ hit) \cup {[c EXCEPT !.full = TRUE] : c \in hit} ELSE chapters
  /\ Set(w, Idle)
  /\ UNCHANGED <<book, locker, outlines, volumes, ops, posted, apart, undone, made>>

(* An edited volume outline is copied over the outlines of its chapters,    *)
(* of one row of each number, also over what was generated for them since.  *)
EditVolume ==
  /\ outlines # {} /\ Cardinality(volumes) = 1 /\ Doomed = {}
  /\ \E hit \in SUBSET {c \in chapters : c.full} :
       /\ hit # {} /\ \A c, d \in hit : c.idx = d.idx => c = d
       /\ chapters' = (chapters \ hit) \cup {[c EXCEPT !.full = FALSE] : c \in hit}
  /\ UNCHANGED <<book, locker, outlines, volumes, job, ops, posted, apart, undone, made>>

\* A POST, or the start of an arc, asks for no row that has the number.
CreateVolume(w) ==
  /\ Cardinality(posted) < MaxPosts /\ Start(w, Idle)
  /\ volumes' = volumes \cup {[by |-> ops + 1, copy |-> 1]} /\ posted' = posted \cup {ops + 1}
  /\ UNCHANGED <<book, locker, outlines, chapters, undone, made>>

CreateChapter(w) ==
  /\ Cardinality(posted) < MaxPosts /\ Start(w, Idle)
  /\ \E v \in volumes, i \in Indices : chapters' = chapters \cup {Row(v, i, 1, ops + 1)}
  /\ posted' = posted \cup {ops + 1}
  /\ UNCHANGED <<book, locker, outlines, volumes, undone, made>>

DeleteVolume(w) ==
  /\ Doomed = {} /\ Start(w, Idle)
  /\ \E v \in volumes : volumes' = volumes \ {v} /\ chapters' = {c \in chapters : c.vol # v}
  /\ UNCHANGED <<book, locker, outlines, posted, undone, made>>

OutlinesNext ==
  \/ \E w \in Writers :
       \/ BookTask(w) \/ CommitBook(w) \/ AbortBook(w) \/ WaitBook(w) \/ BookStream(w)
       \/ VolumeStream(w) \/ FindVolume(w) \/ CountChapters(w) \/ CommitRows(w)
       \/ Regenerate(w) \/ CommitDeletes(w) \/ FailStream(w) \/ SaveRegenerated(w)
       \/ EndRegenerate(w) \/ CutOff(w)
       \/ ChapterStream(w) \/ Enrich(w)
       \/ CreateVolume(w) \/ CreateChapter(w) \/ DeleteVolume(w)
  \/ Confirm \/ DeleteBook \/ EditVolume

-----------------------------------------------------------------------------
OutlinesTypeOK ==
  /\ book \subseteq [id : 1 .. MaxOps, confirmed : BOOLEAN]
  /\ outlines \subseteq [id : 1 .. MaxOps, child : BOOLEAN]
  /\ volumes \subseteq [by : 1 .. MaxOps, copy : Copies] /\ posted \subseteq 1 .. MaxOps
  /\ chapters \subseteq [vol : volumes, idx : Indices, copy : Copies, by : 1 .. MaxOps, full : BOOLEAN]
  /\ locker \in Writers \cup {Nobody}

(* "every project has 0 or 1 row with level='book'" (alembic a1001500), and *)
(* one that is there is replaced, never lost, whatever saves compete.       *)
BookKept == Cardinality(book) <= 1 /\ (made => book # {})

(* "avoid duplicates", "Skip idx that already exists (idempotent on retry)": *)
(* there is no constraint on volumes and chapters.  Two rows of one number  *)
(* are from one answer that repeats it, or the user added the later one     *)
(* himself, as long as operations do not overlap and no regeneration was    *)
(* cut off after it had saved.                                              *)
NoTwins ==
  apart /\ ~undone /\ (\A w \in Writers : At(w, "idle")) =>
    /\ \A v, w \in volumes : v.by < w.by => w.by \in posted
    /\ \A c, d \in chapters :
         c.vol = d.vol /\ c.idx = d.idx /\ c.by < d.by => d.by \in posted

OutlineSound == BookKept /\ NoTwins
=============================================================================
