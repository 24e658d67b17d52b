---------------------------- MODULE GenerationRun ----------------------------
(***************************************************************************)
(* One run of the chapter state machine of                                 *)
(* src/backend/app/services/generation_runner.py: planning, drafting, then *)
(* critic and rewrite in turn, finalize.                                   *)
(*                                                                         *)
(* The run executes inside HTTP requests: /start creates the row and       *)
(* executes it, /resume executes it again, and nothing keeps two requests  *)
(* from executing it at once or a request from dying between two commits.  *)
(* A request loads the row once and works on that copy.  Every phase ends  *)
(* with a commit that writes the columns the request has changed.          *)
(*                                                                         *)
(* A text is a number, fresh for each draft and rewrite (an empty answer   *)
(* of the model is replaced by the printed form of the result object, so   *)
(* it is a text too); 0 is the empty text, which a request goes on with    *)
(* when it finds no draft.  The extra drafts of BVSR, which is off by      *)
(* default, are left out.                                                  *)
(***************************************************************************)
EXTENDS Naturals

CONSTANTS Request,       \* HTTP requests that execute the run
          Nothing,       \* an absent checkpoint
          MaxRewrites    \* max_rewrite_count of the run

\* What the critic said of a text in which round.
Review == [round : Nat, text : Nat, hard : BOOLEAN]

ASSUME ConstantsAssumption ==
  /\ MaxRewrites \in Nat
  /\ Nothing \notin Nat \cup Review

VARIABLES row,       \* the row of generation_runs
          reports,   \* rows of critic_reports
          texts,     \* how many texts have been generated
          at,        \* the phase each request is executing
          copy,      \* each request's copy of the row
          output,    \* what the critic told a request that has reported it
          overlap    \* history: two requests have executed the run at once

vars == <<row, reports, texts, at, copy, output, overlap>>

Phase  == {"absent", "planning", "drafting", "critic", "rewrite", "finalize",
           "done", "failed"}
Steps  == {"waiting", "planning", "drafting", "critic", "reported", "rewrite",
           "finalize", "over", "dead"}

\* The row.  planned, draft, verdict and final are entries of checkpoint_data.
Row == [phase    : Phase,
        status   : {"running", "done", "failed"},
        rewrites : Nat,
        planned  : BOOLEAN,
        draft    : Nat \cup {Nothing},
        verdict  : Review \cup {Nothing},
        final    : Nat \cup {Nothing}]

NoRow == [phase |-> "absent", status |-> "running", rewrites |-> 0,
          planned |-> FALSE, draft |-> Nothing, verdict |-> Nothing,
          final |-> Nothing]

Init ==
  /\ row = NoRow
  /\ reports = {}
  /\ texts = 0
  /\ at = [q \in Request |-> "waiting"]
  /\ copy = [q \in Request |-> NoRow]
  /\ output = [q \in Request |-> Nothing]
  /\ overlap = FALSE

-----------------------------------------------------------------------------
Executing(q) == at[q] \notin {"waiting", "over", "dead"}
Goto(q, s)   == at' = [at EXCEPT ![q] = s]

\* Where execute_run enters on the row it has loaded.
FromScratch(r) == "planning"
Entry(r) ==
  CASE r.phase = "planning" \/ ~r.planned -> "planning"
    [] r.planned /\ r.phase \in {"done", "failed"} -> "over"
    [] OTHER -> r.phase

Execute(q, r) ==
  /\ at[q] = "waiting"
  /\ copy' = [copy EXCEPT ![q] = r]
  /\ Goto(q, Entry(r))
  /\ overlap' = (overlap \/ \E p \in Request : Executing(p))

\* POST /start.
Start(q) ==
  /\ row.phase = "absent"
  /\ row' = [row EXCEPT !.phase = "planning"]
  /\ Execute(q, row')
  /\ UNCHANGED <<reports, texts, output>>

\* POST /resume.
Resume(q) ==
  /\ row.phase # "absent"
  /\ Execute(q, row)
  /\ UNCHANGED <<row, reports, texts, output>>

\* A commit of the request's changed copy.  A column the request has not
\* changed keeps what the table says; checkpoint_data is one column.
Checkpoint(r) == <<r.planned, r.draft, r.verdict, r.final>>
Merge(old, new) ==
  LET cp == IF Checkpoint(new) # Checkpoint(old) THEN new ELSE row
  IN  [phase    |-> IF new.phase # old.phase THEN new.phase ELSE row.phase,
       status   |-> IF new.status # old.status THEN new.status ELSE row.status,
       rewrites |-> IF new.rewrites # old.rewrites THEN new.rewrites ELSE row.rewrites,
       planned  |-> cp.planned, draft |-> cp.draft,
       verdict  |-> cp.verdict, final |-> cp.final]

Commit(q, new) ==
  /\ copy' = [copy EXCEPT ![q] = new]
  /\ row' = Merge(copy[q], new)

\* draft_text.
DraftText(r) == IF r.draft = Nothing THEN 0 ELSE r.draft

\* The end of a request: its session and what it held are gone.
Leave(q, s) ==
  /\ Goto(q, s)
  /\ copy' = [copy EXCEPT ![q] = NoRow]
  /\ output' = [output EXCEPT ![q] = Nothing]

Plan(q) ==
  /\ at[q] = "planning"
  /\ Commit(q, [copy[q] EXCEPT !.planned = TRUE, !.phase = "drafting"])
  /\ Goto(q, "drafting")
  /\ UNCHANGED <<reports, texts, output, overlap>>

Draft(q) ==
  /\ at[q] = "drafting"
  /\ texts' = texts + 1
  /\ Commit(q, [copy[q] EXCEPT !.draft = texts', !.phase = "critic"])
  /\ Goto(q, "critic")
  /\ UNCHANGED <<reports, output, overlap>>

\* _phase_critic commits a report of its own, before the phase is checkpointed.
Unreported(r) == reports
Reported(r)   == reports \cup {r}

Critic(q) ==
  /\ at[q] = "critic"
  /\ \E hard \in BOOLEAN :
       output' = [output EXCEPT ![q] = [round |-> copy[q].rewrites + 1,
                                        text |-> DraftText(copy[q]), hard |-> hard]]
  /\ reports' = Reported(output'[q])
  /\ Goto(q, "reported")
  /\ UNCHANGED <<row, texts, copy, overlap>>

OneRewriteTooFew(r, c)  == r.hard /\ c.rewrites + 1 < MaxRewrites
NeedsRewrite(r, c)     == r.hard /\ c.rewrites < MaxRewrites

CriticCheckpoint(q) ==
  LET next == IF NeedsRewrite(output[q], copy[q]) THEN "rewrite" ELSE "finalize"
  IN  /\ at[q] = "reported"
      /\ Commit(q, [copy[q] EXCEPT !.verdict = output[q], !.phase = next])
      /\ Goto(q, next)
      /\ output' = [output EXCEPT ![q] = Nothing]
      /\ UNCHANGED <<reports, texts, overlap>>

NotReviewedAgain == "finalize"
AfterRewrite     == "critic"

Rewrite(q) ==
  /\ at[q] = "rewrite"
  /\ texts' = texts + 1
  /\ Commit(q, [copy[q] EXCEPT !.draft = texts', !.rewrites = @ + 1,
                               !.phase = AfterRewrite])
  /\ Goto(q, AfterRewrite)
  /\ UNCHANGED <<reports, output, overlap>>

Finalize(q) ==
  /\ at[q] = "finalize"
  /\ row' = Merge(copy[q], [copy[q] EXCEPT !.final = DraftText(copy[q]),
                                           !.phase = "done", !.status = "done"])
  /\ Leave(q, "over")
  /\ UNCHANGED <<reports, texts, overlap>>

FailsUnmarked(q) ==
  /\ at[q] \in {"planning", "drafting", "critic", "rewrite"}
  /\ Leave(q, "over")
  /\ UNCHANGED <<row, reports, texts, overlap>>

\* The phase raises: execute_run marks the run failed and returns.
PhaseFails(q) ==
  /\ at[q] \in {"planning", "drafting", "critic", "rewrite"}
  /\ row' = Merge(copy[q], [copy[q] EXCEPT !.phase = "failed", !.status = "failed"])
  /\ Leave(q, "over")
  /\ UNCHANGED <<reports, texts, overlap>>

\* The API process dies, or the commit itself fails.
Dies(q) ==
  /\ Executing(q)
  /\ Leave(q, "dead")
  /\ UNCHANGED <<row, reports, texts, overlap>>

-----------------------------------------------------------------------------
RequestStep(q) ==
  \/ Plan(q)    \/ Draft(q)    \/ Critic(q)  \/ CriticCheckpoint(q)
  \/ Rewrite(q) \/ Finalize(q) \/ PhaseFails(q)

Next == \E q \in Request : Start(q) \/ Resume(q) \/ RequestStep(q) \/ Dies(q)

Spec == Init /\ [][Next]_vars

\* A request that does not die keeps executing.  Nobody has to resume.
FairSpec == Spec /\ \A q \in Request : WF_vars(RequestStep(q))

-----------------------------------------------------------------------------
TypeOK ==
  /\ row \in Row
  /\ reports \subseteq Review
  /\ texts \in Nat
  /\ at \in [Request -> Steps]
  /\ copy \in [Request -> Row]
  /\ output \in [Request -> Review \cup {Nothing}]
  /\ overlap \in BOOLEAN

\* With one request at a time, wherever one died and the next one resumed, a
\* run that is done ends on the draft the critic saw last, and a run about to
\* be rewritten is rewritten for what the critic said of that very draft.
FinalWasReviewed ==
  LET v == row.verdict IN
  ~overlap =>
    /\ row.phase \in {"rewrite", "finalize", "done"} =>
         v # Nothing /\ v.text = row.draft
    /\ row.phase = "rewrite" => v.hard
    /\ row.phase = "done" => row.final = row.draft

\* With one request at a time, resumed or not, the run keeps to its rewrites,
\* and hard issues are accepted only when they are used up.
RewriteBudget ==
  ~overlap =>
    /\ row.rewrites <= MaxRewrites
    /\ row.phase \in {"finalize", "done"} /\ row.verdict.hard =>
         row.rewrites = MaxRewrites

\* A checkpoint never holds a verdict whose report is not stored: a crash
\* between the two commits repeats a report and loses none.
VerdictHasReport == row.verdict # Nothing => row.verdict \in reports

\* With one request at a time, a draft that has been checkpointed is replaced
\* by its rewrite only: no resume generates the chapter afresh.
ResumeKeepsWork ==
  [][row.draft # Nothing /\ row'.draft # row.draft /\ ~overlap' =>
       row.phase = "rewrite" /\ row'.rewrites = row.rewrites + 1]_vars

\* Unless a request dies, the rewriting comes to an end, however many
\* requests execute the run at once.
RunEnds ==
  row.phase # "absent" ~>
    row.phase \in {"done", "failed"} \/ \E q \in Request : at[q] = "dead"

-----------------------------------------------------------------------------
(* What the source says and the code does not do.                          *)

\* "running - actively processing the current phase"
\* (models/generation_run.py:50): a run in an active phase says so.
ActiveSaysRunning ==
  row.phase \notin {"done", "failed"} => row.status = "running"
=============================================================================
