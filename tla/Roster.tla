------------------------------- MODULE Roster -------------------------------
(***************************************************************************)
(* The book-wide statistics that follow each finished chapter: the task    *)
(* style.recompute_stats reads every chapter, upserts one roster row for   *)
(* every name of every chapter and then the row of style statistics, in    *)
(* one transaction (tasks/style_tasks.py, services/character_roster.py).   *)
(* Two tasks may lock the roster's rows in opposite orders.                *)
(***************************************************************************)
EXTENDS Naturals, FiniteSets, FiniteSetsExt

CONSTANTS Names,        \* entity names
          Last,         \* the chapters are 1 .. Last
          Statisticians,    \* Celery workers
          Retries,      \* max_retries
          MaxFinished   \* bound on how often a text or the names change

RosterAssumption == {Last, Retries, MaxFinished} \subseteq Nat /\ Last > 0

VARIABLES text,       \* the names in each chapter; none while it is not written
          known,      \* the names of characters, places and organisations that have a row
          roster,     \* the rows of character_appearances
          stats,      \* what the row of style_stats was computed from
          lock,       \* which task has locked a row of the roster, until its commit
          inbox,      \* how many messages are on their k-th retry
          statistician,
          finished,   \* history: changes of texts and names so far
          settled,    \* history: appearances that were there, of a known name, when the last
                      \* chapter was finished, and have been since
          touched,    \* history: has a text or a name changed since then
          commits,    \* history: recomputations that committed
          missing,    \* history: a message was not sent, or its retries ran out
          overlapped  \* history: two recomputations ran at once
rosterVars == <<text, known, roster, stats, lock, inbox, statistician, finished, settled, touched,
                commits, missing, overlapped>>

Chapters == 1 .. Last
Unwritten == [c \in Chapters |-> {}]
Absent == [first |-> 0, last |-> 0, count |-> 0]
Resting == [pc |-> "idle", try |-> 0, read |-> Unwritten, at |-> 1, todo |-> {}, own |-> <<>>]

RosterInit ==
  /\ text = Unwritten /\ known \in SUBSET Names
  /\ roster = [n \in Names |-> Absent] /\ stats = Unwritten
  /\ lock = [n \in Names |-> "free"]
  /\ inbox = [k \in 0 .. Retries |-> 0]
  /\ statistician = [w \in Statisticians |-> Resting]
  /\ finished = 0 /\ settled = {} /\ touched = FALSE /\ commits = 0 /\ missing = FALSE /\ overlapped = FALSE

At(w, step) == statistician[w].pc = step
Set(w, r) == statistician' = [statistician EXCEPT ![w] = r]
Release(w) == lock' = [n \in Names |-> IF lock[n] = w THEN "free" ELSE lock[n]]
Send(k) == inbox' = [inbox EXCEPT ![k] = @ + 1]

Appearances(t, names) == {a \in Chapters \X Names : a[2] \in t[a[1]] \cap names}

(* A chapter is finished, and the statistics are to follow; a broker that   *)
(* is down costs no more than a warning.                                    *)
FinishChapter ==
  /\ finished < MaxFinished /\ finished' = finished + 1
  /\ \E c \in Chapters, names \in SUBSET Names \ {{}} : text' = [text EXCEPT ![c] = names]
  /\ settled' = Appearances(text', known) /\ touched' = FALSE
  /\ \/ Send(0) /\ UNCHANGED missing
     \/ missing' = TRUE /\ UNCHANGED inbox
  /\ UNCHANGED <<known, roster, stats, lock, statistician, commits, overlapped>>

(* A PUT of a chapter's text asks for no recomputation; nor does whatever   *)
(* adds or deletes a name, the extraction that follows a chapter included.  *)
Touch ==
  /\ settled' = settled \cap Appearances(text', known') /\ touched' = TRUE
  /\ UNCHANGED <<roster, stats, lock, inbox, statistician, commits, missing, overlapped>>
EditChapter ==
  /\ finished < MaxFinished /\ finished' = finished + 1
  /\ \E c \in Chapters, names \in SUBSET Names : text' = [text EXCEPT ![c] = names]
  /\ UNCHANGED known /\ Touch
ChangeNames ==
  /\ finished < MaxFinished /\ finished' = finished + 1
  /\ known' \in SUBSET Names \ {known} /\ UNCHANGED text /\ Touch

Receive(w) ==
  /\ At(w, "idle")
  /\ \E k \in 0 .. Retries :
       /\ inbox[k] > 0 /\ inbox' = [inbox EXCEPT ![k] = @ - 1]
       /\ Set(w, [Resting EXCEPT !.pc = "read", !.try = k])
  /\ overlapped' = (overlapped \/ \E v \in Statisticians : ~At(v, "idle"))
  /\ UNCHANGED <<text, known, roster, stats, lock, finished, settled, touched, commits, missing>>

(* The chapters are read volume by volume, and then the names, each query   *)
(* on what is committed.  A book without text is left alone.                *)
Read(w) ==
  LET r == statistician[w]
      read == [r EXCEPT !.read[r.at] = text[r.at], !.at = @ + 1]
      counted == [c \in Chapters |-> read.read[c] \cap known] IN
  /\ At(w, "read")
  /\ Set(w, IF r.at < Last THEN read
            ELSE IF read.read = Unwritten THEN Resting
            ELSE [read EXCEPT !.pc = "upsert", !.at = 1, !.read = counted, !.todo = counted[1],
                              !.own = roster])
  /\ UNCHANGED <<text, known, roster, stats, lock, inbox, finished, settled, touched, commits, missing,
                 overlapped>>

\* The last chapter that was read wins (a defect to look for).
SeenInOrder(row, c) ==
  [first |-> IF row.count = 0 THEN c ELSE row.first, last |-> c, count |-> row.count + 1]

(* The upsert of one appearance: LEAST, GREATEST and a sum.                 *)
Seen(row, c) ==
  [first |-> IF row.count = 0 THEN c ELSE Min({row.first, c}), last |-> Max({row.last, c}),
   count |-> row.count + 1]

(* The next name of a chapter, in the order of a Python set among names of  *)
(* one length.  The row is locked, and its committed values are taken up,   *)
(* when its last writer is done.                                            *)
Upsert(w, n) ==
  LET r == statistician[w]
      row == IF lock[n] = w THEN r.own[n] ELSE roster[n] IN
  /\ At(w, "upsert") /\ n \in r.todo /\ lock[n] \in {"free", w}
  /\ lock' = [lock EXCEPT ![n] = w]
  /\ Set(w, [r EXCEPT !.own[n] = Seen(row, r.at), !.todo = @ \ {n}])
  /\ UNCHANGED <<text, known, roster, stats, inbox, finished, settled, touched, commits, missing, overlapped>>

NextChapter(w) ==
  LET r == statistician[w] IN
  /\ At(w, "upsert") /\ r.todo = {}
  /\ Set(w, IF r.at < Last THEN [r EXCEPT !.at = @ + 1, !.todo = r.read[r.at + 1]]
            ELSE [r EXCEPT !.pc = "stats"])
  /\ UNCHANGED <<text, known, roster, stats, lock, inbox, finished, settled, touched, commits, missing, overlapped>>

(* The row of statistics and the commit.                                    *)
Store(w) ==
  LET r == statistician[w] IN
  /\ At(w, "stats")
  /\ roster' = [n \in Names |-> IF lock[n] = w THEN r.own[n] ELSE roster[n]]
  /\ stats' = r.read /\ commits' = commits + 1
  /\ Release(w) /\ Set(w, Resting)
  /\ UNCHANGED <<text, known, inbox, finished, settled, touched, missing, overlapped>>

(* An exception of the task: rollback, and a retry while there is one left. *)
Abort(w) ==
  LET k == statistician[w].try IN
  /\ Release(w) /\ Set(w, Resting)
  /\ IF k < Retries THEN Send(k + 1) /\ UNCHANGED missing
     ELSE missing' = TRUE /\ UNCHANGED inbox

(* PostgreSQL ends one of two transactions that wait for each other.  The   *)
(* roster's error is caught, but its transaction is dead: the statistics    *)
(* fail with it, and so does the task.                                      *)
Waits(w, v) == At(w, "upsert") /\ \E n \in statistician[w].todo : lock[n] = v
Deadlocked(w) ==
  /\ \E v \in Statisticians \ {w} : Waits(w, v) /\ Waits(v, w) /\ Abort(w)
  /\ UNCHANGED <<text, known, roster, stats, finished, settled, touched, commits, overlapped>>

\* A query fails.
Fails(w) ==
  /\ ~At(w, "idle") /\ Abort(w)
  /\ UNCHANGED <<text, known, roster, stats, finished, settled, touched, commits, overlapped>>

(* The worker dies; its transaction ends and its message is given back.     *)
Dies(w) ==
  /\ ~At(w, "idle") /\ Release(w) /\ Set(w, Resting) /\ Send(statistician[w].try)
  /\ UNCHANGED <<text, known, roster, stats, finished, settled, touched, commits, missing, overlapped>>

RosterNext ==
  \/ FinishChapter \/ EditChapter \/ ChangeNames
  \/ \E w \in Statisticians :
       \/ Receive(w) \/ Read(w) \/ NextChapter(w) \/ Store(w)
       \/ \E n \in Names : Upsert(w, n)
       \/ Deadlocked(w) \/ Fails(w) \/ Dies(w)

RosterSpec == RosterInit /\ [][RosterNext]_rosterVars
-----------------------------------------------------------------------------
RosterTypeOK ==
  /\ text \in [Chapters -> SUBSET Names] /\ stats \in [Chapters -> SUBSET Names]
  /\ \A n \in Names : roster[n] # Absent => roster[n].first \in 1 .. roster[n].last /\ roster[n].last <= Last
  /\ \A n \in Names : lock[n] \in Statisticians => ~At(lock[n], "idle")

Quiet == (\A k \in 0 .. Retries : inbox[k] = 0) /\ \A w \in Statisticians : At(w, "idle")
Where(n) == {a[1] : a \in {b \in settled : b[2] = n}}
(* When every recomputation has come to its end and none was given up, the  *)
(* roster knows from where to where each name of the book appears, as far   *)
(* as name and text were there when the last chapter was finished (what     *)
(* came later waits for the next), however the tasks overlapped, deadlocked *)
(* and were repeated; the statistics are those of the text and the names    *)
(* unless two tasks overlapped, since an older reading may be stored last;  *)
(* and the count of a name is that of its appearances after the first       *)
(* recomputation (every later one adds the whole book again).               *)
RosterSound ==
  /\ Quiet /\ ~missing =>
       /\ \A n \in Names : Where(n) # {} =>
            /\ roster[n].first <= Min(Where(n)) /\ roster[n].last >= Max(Where(n))
            /\ roster[n].count >= Cardinality(Where(n))
       /\ ~overlapped /\ ~touched /\ finished > 0 => stats = [c \in Chapters |-> text[c] \cap known]
  /\ commits = 1 => \A n \in Names : roster[n].count = Cardinality({c \in Chapters : n \in stats[c]})
=============================================================================
