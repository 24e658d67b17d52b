------------------------------- MODULE Batch -------------------------------
(***************************************************************************)
(* POST /generate/batch (api/rewrite.py): chapters written one after the   *)
(* other by a background task (services/batch_generator.py) with hooks     *)
(* around each (services/hook_manager.py), and the events its client reads.*)
(* The task writes through the session of the event stream and its hooks   *)
(* through one of their own.  Hooks find a chapter by its index, which two *)
(* volumes may share.  The foreshadow hooks are in Foreshadow.  A job can  *)
(* be paused only by whoever knows its id, and nobody is told.             *)
(***************************************************************************)
EXTENDS Naturals, Sequences, FiniteSets, SequencesExt

CONSTANTS Batches,      \* requests
          Plans,        \* sequences of chapters <<volume, index>> that are asked for
          MaxSaves      \* bound on the saves of users

Written == UNION {ToSet(p) : p \in Plans}       \* the chapters of the model
BatchAssumption == MaxSaves \in Nat /\ \A p \in Plans : Len(p) > 0 /\ IsInjective(p)

VARIABLES row,          \* the committed rows: text, summary and whether the row exists
          batch,        \* each request
          saves,        \* history: texts of users so far
          kept,         \* history: every text that a commit has put in a row
          removed       \* history: a chapter was deleted
batchVars == <<row, batch, saves, kept, removed>>

\* A text: of which chapter, by whom, and a number.
Nothing == [of |-> <<>>, by |-> "nobody", k |-> 0]
TextOf(c, w, n) == [of |-> c, by |-> w, k |-> n]
NoBatch == [pc |-> "idle", plan |-> <<>>, i |-> 1, text |-> Nothing, results |-> <<>>, lost |-> {},
            dead |-> FALSE, hooksDead |-> FALSE, client |-> TRUE, seen |-> {}, heard |-> <<>>]

BatchInit ==
  /\ row = [c \in Written |-> [exists |-> TRUE, text |-> Nothing, summary |-> Nothing, status |-> "draft"]]
  /\ batch = [b \in Batches |-> NoBatch]
  /\ saves = 0 /\ kept = {} /\ removed = FALSE

In(b, step) == batch[b].pc = step
Set(b, r) == batch' = [batch EXCEPT ![b] = r]
Current(b) == batch[b].plan[batch[b].i]
Alone == UNCHANGED <<row, saves, kept, removed>>

(* batch_generate answers with a stream and starts the task.                *)
Start(b) ==
  /\ In(b, "idle")
  /\ \E p \in Plans :
       Set(b, [NoBatch EXCEPT !.pc = "pre", !.plan = p, !.results = [i \in DOMAIN p |-> "pending"]])
  /\ Alone

(* on_progress tells the client of every result that is new to it, by the   *)
(* index of its chapter; then the next chapter begins.                      *)
News(r) == SelectSeq([i \in DOMAIN r.plan |-> <<r.plan[i][2], r.results[i]>>],
                     LAMBDA e : e[2] # "pending" /\ e[1] \notin r.seen)
Informed(r) ==
  LET fresh == News(r)
      \* of two results with one index only the first is told
      once == SelectSeq([i \in DOMAIN fresh |-> <<i, fresh[i]>>],
                        LAMBDA e : \A j \in 1..(e[1] - 1) : fresh[j][1] # e[2][1])
  IN [r EXCEPT !.heard = IF r.client THEN @ \o [i \in DOMAIN once |-> once[i][2]] ELSE @,
               !.seen = @ \cup {fresh[i][1] : i \in DOMAIN fresh}]
Proceed(r) == [Informed(r) EXCEPT !.text = Nothing, !.i = @ + 1,
                            !.pc = IF r.i < Len(r.plan) THEN "pre" ELSE "close"]
Result(r, s) == [r EXCEPT !.results[r.i] = s]

\* A query of the hooks that fails is logged and leaves their session in a
\* transaction nothing rolls back.
Queried(b) == {batch[b].hooksDead, TRUE}
(* The pre-hooks look for dead figures and an empty outline and only warn:  *)
(* nothing they find blocks.                                                *)
PreHooks(b) ==
  /\ In(b, "pre")
  /\ \E d \in Queried(b) : Set(b, [batch[b] EXCEPT !.pc = "write", !.hooksDead = d])
  /\ Alone
(* The generator gives a text, or one below 200 characters, or raises.      *)
Write(b) ==
  LET r == batch[b] IN
  /\ In(b, "write") /\ ~r.dead
  /\ Set(b, [r EXCEPT !.pc = "persist", !.text = TextOf(Current(b), b, r.i)])
  /\ Alone
(* A statement that fails aborts the transaction of the session as well:    *)
(* every later chapter raises.                                              *)
Fails(b) ==
  LET r == batch[b] IN
  /\ r.pc \in {"write", "persist"}
  /\ \E d \in {r.dead, TRUE} : Set(b, Proceed([Result(r, "error") EXCEPT !.dead = d]))
  /\ Alone

(* The row, if it is there, and a commit of its own for every chapter.  A   *)
(* commit that fails is rolled back and logged; the result is completed.    *)
Persist(b) ==
  LET r == batch[b]  c == Current(b)  done == [Result(r, "completed") EXCEPT !.pc = "hooks"] IN
  /\ In(b, "persist") /\ ~r.dead
  /\ \/ /\ row[c].exists
        /\ row' = [row EXCEPT ![c].text = r.text, ![c].status = "completed"]
        /\ kept' = kept \cup {r.text} /\ Set(b, done)
     \/ /\ Set(b, [done EXCEPT !.lost = @ \cup {r.i}])
        /\ UNCHANGED <<row, kept>>
  /\ UNCHANGED <<saves, removed>>

-----------------------------------------------------------------------------
(* _generate_summary: the chapter with this index in whatever volume, when  *)
(* there is exactly one.                                                    *)
Namesakes(c) == {d \in Written : row[d].exists /\ d[2] = c[2]}
\* Any of them (a defect to look for).
AnyOf(c) == Namesakes(c)
TheOne(c) == IF Cardinality(Namesakes(c)) = 1 THEN Namesakes(c) ELSE {}
Summarise(b) ==
  LET r == batch[b]  found == TheOne(Current(b)) IN
  /\ In(b, "hooks") /\ ~r.hooksDead /\ found # {}
  /\ \E d \in found : row' = [row EXCEPT ![d].summary = r.text]
  /\ Set(b, Proceed(r))
  /\ UNCHANGED <<saves, kept, removed>>
(* The hook fails, finds two, or is out of time; each is logged.            *)
HookFails(b) ==
  LET r == batch[b] IN
  /\ In(b, "hooks")
  /\ \E d \in Queried(b) : Set(b, Proceed([r EXCEPT !.hooksDead = d]))
  /\ Alone

(* The last commit has nothing left to do; the client is told "completed"   *)
(* whatever the results are.                                                *)
Close(b) ==
  /\ In(b, "close")
  /\ Set(b, [batch[b] EXCEPT !.pc = "done"])
  /\ Alone

(* The client leaves: the stream closes its session under the task, which   *)
(* goes on; what was flushed and not committed is gone.                     *)
Leave(b) ==
  LET r == batch[b] IN
  /\ r.pc \in {"pre", "write", "persist", "hooks"} /\ r.client
  /\ Set(b, [r EXCEPT !.client = FALSE, !.dead = FALSE])
  /\ Alone
(* The process ends.                                                        *)
Die(b) ==
  /\ batch[b].pc \in {"pre", "write", "persist", "hooks", "close"}
  /\ Set(b, [batch[b] EXCEPT !.pc = "gone"])
  /\ Alone

(* Meanwhile users save and delete chapters.                                *)
Save(c) ==
  /\ row[c].exists /\ saves < MaxSaves /\ saves' = saves + 1
  /\ row' = [row EXCEPT ![c].text = TextOf(c, "user", saves + 1)]
  /\ kept' = kept \cup {TextOf(c, "user", saves + 1)}
  /\ UNCHANGED <<batch, removed>>
Delete(c) ==
  /\ row[c].exists /\ removed' = TRUE
  /\ row' = [row EXCEPT ![c].exists = FALSE]
  /\ UNCHANGED <<batch, saves, kept>>

BatchNext ==
  \/ \E b \in Batches : \/ Start(b) \/ PreHooks(b) \/ Write(b) \/ Fails(b) \/ Persist(b) \/ Summarise(b)
                        \/ HookFails(b) \/ Close(b) \/ Leave(b) \/ Die(b)
  \/ \E c \in Written : Save(c) \/ Delete(c)

BatchSpec == BatchInit /\ [][BatchNext]_batchVars
-----------------------------------------------------------------------------
BatchTypeOK ==
  /\ \A c \in Written : row[c].text.k \in Nat /\ row[c].exists \in BOOLEAN
  /\ \A b \in Batches : batch[b].i \in 1..(Len(batch[b].plan) + 1) /\ batch[b].lost \subseteq DOMAIN batch[b].plan

(* A chapter that a batch counts as completed was put in its row by a       *)
(* commit of its own, whatever became of the batch, its client or its later *)
(* chapters afterwards; except where that commit failed or the row was gone.*)
CompletedIsKept ==
  \A b \in Batches : \A i \in DOMAIN batch[b].results :
    batch[b].results[i] = "completed" /\ i \notin batch[b].lost
      => TextOf(batch[b].plan[i], b, i) \in kept
(* A summary tells of its own chapter, as long as no chapter is deleted:    *)
(* then the index may be that of another volume's chapter only.             *)
SummaryOfItsOwn == ~removed => \A c \in Written : row[c].summary.of \in {<<>>, c}
(* A client that stays hears of every result once and in order, if no two   *)
(* chapters of its plan share an index.                                     *)
HeardInOrder ==
  \A b \in Batches : LET r == batch[b] IN
    In(b, "done") /\ r.client /\ IsInjective([i \in DOMAIN r.plan |-> r.plan[i][2]])
      => r.heard = [i \in DOMAIN r.plan |-> <<r.plan[i][2], r.results[i]>>]
BatchSound == CompletedIsKept /\ SummaryOfItsOwn /\ HeardInOrder
=============================================================================
