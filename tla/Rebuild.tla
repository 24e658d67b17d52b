------------------------------ MODULE Rebuild ------------------------------
(***************************************************************************)
(* The script that rebuilds the outlines of one book                       *)
(* (scripts/regenerate_shenyi_outlines.py).  It can be stopped and run     *)
(* again: what a run has finished stays in a checkpoint file, whereas its  *)
(* circuit breaker and its mark for local text are forgotten.  A text is   *)
(* told by what its gates see: "tagged" holds a volume plan of its own,    *)
(* "flawed" a placeholder, "drift" a banned term, "local" was made by the  *)
(* script when the model did not answer.                                   *)
(***************************************************************************)
EXTENDS Naturals, Sequences

CONSTANTS Books,        \* sequences of sections, each told by the way it is written
          Batches,      \* batches of the sections that are written in batches
          Threshold,    \* BOOK_LLM_FAILURE_THRESHOLD
          Volumes       \* n_volumes

RebuildAssumption ==
  /\ Books \subseteq Seq({"plain", "cast", "split", "plan"})
  /\ Batches \in Nat \ {0} /\ Threshold \in Nat \ {0} /\ Volumes \in Nat \ {0}

VARIABLES sections,  \* BOOK_SECTION_TITLES; bound: books of a few sections
          saved,     \* the checkpoint file
          run,       \* the process: its flags, its globals and where it is
          stored     \* the rows of the project
rebuildVars == <<sections, saved, run, stored>>

Number == DOMAIN sections
NoneSaved == [skeleton |-> "none", sections |-> [s \in Number |-> "none"],
              batches |-> [s \in Number |-> [b \in 1 .. Batches |-> "none"]]]
HasLocal(f) ==
  \E s \in Number : f.sections[s] = "local" \/ \E b \in 1 .. Batches : f.batches[s][b] = "local"

NotRunning == [at |-> "stopped", allow |-> FALSE, use |-> FALSE, fails |-> 0, local |-> FALSE,
               inherited |-> FALSE, s |-> 0, b |-> 0, tries |-> 0, best |-> "none", parts |-> {}, text |-> {},
               own |-> FALSE]

RebuildInit ==
  /\ sections \in Books /\ saved = NoneSaved /\ run = NotRunning
  /\ stored = [book |-> "old", volumes |-> "old", marked |-> FALSE, inherited |-> FALSE]

Continue(r) == run' = r
Stop == run' = NotRunning                         \* RuntimeError: "生成停止"
Quiet == UNCHANGED <<saved, stored>>

Degraded(r) == r.fails >= Threshold
Failed(r) == [r EXCEPT !.fails = IF @ < Threshold THEN @ + 1 ELSE @]
(* stop_if_degraded                                                         *)
MustStop(r) == ~r.allow /\ (Degraded(r) \/ r.local)

(* main: the flags are chosen, and perhaps the checkpoint is cleared.       *)
Start ==
  /\ run.at = "stopped" /\ stored.book = "old"    \* bound: until a book is stored
  /\ \E allow, use, reset \in BOOLEAN :
       /\ saved' = IF reset THEN NoneSaved ELSE saved
       /\ Continue([NotRunning EXCEPT !.at = "skeleton", !.allow = allow, !.use = use,
                                      !.inherited = use /\ ~reset /\ HasLocal(saved)])
  /\ UNCHANGED stored

(* The process dies; the file is replaced in one piece, and a transaction   *)
(* that was open is gone.                                                   *)
Crash == run.at # "stopped" /\ Stop /\ Quiet

-----------------------------------------------------------------------------
(* Stage A.  The plan of volumes that is put into a skeleton without one is *)
(* only for the prompts.                                                    *)
SkeletonReady(r, text) ==
  IF MustStop(r) THEN Stop /\ Quiet
  ELSE /\ Continue([r EXCEPT !.at = "section", !.s = 1, !.tries = 0])
       /\ saved' = IF r.use THEN [saved EXCEPT !.skeleton = text] ELSE saved
       /\ UNCHANGED stored

SkeletonKept ==
  /\ run.at = "skeleton" /\ run.use /\ saved.skeleton # "none"
  /\ SkeletonReady(run, saved.skeleton)

SkeletonOver(r) == r.tries = 2 \/ Degraded(r)
SkeletonCall ==
  LET r == [run EXCEPT !.tries = @ + 1] IN
  /\ run.at = "skeleton" /\ ~(run.use /\ saved.skeleton # "none") /\ ~SkeletonOver(run)
  /\ \/ SkeletonReady(r, "good")
     \/ Stop /\ Quiet                             \* the text drifts
     \/ Continue(Failed(r)) /\ Quiet              \* an error or nothing
     \/ Continue(r) /\ Quiet                      \* too short
SkeletonLocal ==
  /\ run.at = "skeleton" /\ ~(run.use /\ saved.skeleton # "none") /\ SkeletonOver(run)
  /\ SkeletonReady([run EXCEPT !.local = TRUE], "local")

-----------------------------------------------------------------------------
(* The sections, one after the other.                                       *)
Kind == sections[run.s]
Writing == run.at = "section" /\ run.s \in Number
NextSection(r, text) ==
  [r EXCEPT !.at = "section", !.s = @ + 1, !.b = 0, !.tries = 0, !.best = "none", !.parts = {},
            !.text = @ \cup {text}, !.own = FALSE]

SectionKept ==
  /\ Writing /\ run.use /\ saved.sections[run.s] # "none"
  /\ Continue(NextSection(run, saved.sections[run.s])) /\ Quiet

\* A section is saved whatever its gate says (a defect to look for).
Unchecked(text) == TRUE
(* section_validation_errors of a whole section                             *)
Valid(text) == text \in {"good", "local", "own"}
SectionDone(r, text) ==
  IF ~Valid(text) \/ MustStop(r) THEN Stop /\ Quiet
  ELSE /\ Continue(NextSection(r, text))
       /\ saved' = IF r.use THEN [saved EXCEPT !.sections[r.s] = text] ELSE saved
       /\ UNCHANGED stored

SectionBegin ==
  /\ Writing /\ ~(run.use /\ saved.sections[run.s] # "none")
  /\ IF Kind = "cast" /\ Degraded(run)
     THEN SectionDone([run EXCEPT !.local = TRUE], "local")
     ELSE /\ Continue([run EXCEPT !.at = CASE Kind = "plain" -> "ask" [] Kind = "plan" -> "plan" [] OTHER -> "batch",
                                  !.b = IF Kind = "plain" THEN 0 ELSE 1])
          /\ Quiet

(* generate_volume_plan_json is asked for in every run.  A plan whose       *)
(* titles are not the canonical ones has labels of its own, which are not   *)
(* looked up here.                                                          *)
PlanCall ==
  LET r == [run EXCEPT !.tries = @ + 1]
      Planned(q, own) == Continue([q EXCEPT !.at = "batch", !.tries = 0, !.own = own])
  IN
  /\ run.at = "plan" /\ Quiet
  /\ \/ Degraded(run) /\ Planned(run, FALSE)
     \/ /\ ~Degraded(run) /\ run.tries < 3
        /\ \/ \E own \in BOOLEAN : Planned(r, own)
           \/ IF Degraded(Failed(r)) THEN Planned(Failed(r), FALSE) ELSE Continue(Failed(r))
           \/ Continue(Failed(r))                 \* empty, and no JSON
           \/ Continue(r)                         \* no list, its length, placeholders
     \/ ~Degraded(run) /\ run.tries = 3 /\ Stop

Labelled(r) == r.use /\ ~(r.own /\ r.b > 1)       \* the first batch of a plan is its overview
Cached == Labelled(run) /\ saved.batches[run.s][run.b] # "none"
NextBatch(r, text) ==
  [r EXCEPT !.at = IF r.b = Batches THEN "assemble" ELSE "batch", !.b = @ + 1, !.tries = 0, !.best = "none",
            !.parts = @ \cup {text}]

BatchKept ==
  /\ run.at = "batch" /\ Cached
  /\ Continue(NextBatch(run, saved.batches[run.s][run.b])) /\ Quiet
BatchBegin ==
  /\ run.at = "batch" /\ ~Cached
  /\ Continue([run EXCEPT !.at = "ask"]) /\ Quiet

(* save_book_batch_checkpoint: only what drifts is refused, and only when   *)
(* there is a checkpoint.                                                   *)
SaveBatch(r, text) ==
  IF text = "drift" /\ r.use THEN Stop /\ Quiet
  ELSE /\ Continue(NextBatch(r, IF text = "drift" THEN "flawed" ELSE text))
       /\ saved' = IF Labelled(r) THEN [saved EXCEPT !.batches[r.s][r.b] = text] ELSE saved
       /\ UNCHANGED stored

(* What becomes of the text of expand_book_section.                         *)
Short(text) == text \in {"none", "short", "near"}
Received(r, text) ==
  IF r.b = 0 THEN SectionDone(r, text)
  ELSE IF Kind = "cast" /\ text = "none"
  THEN LET q == [r EXCEPT !.local = TRUE] IN
       IF MustStop(q) THEN Stop /\ Quiet ELSE SaveBatch(q, "local")
  ELSE IF Short(text) THEN Stop /\ Quiet
  ELSE SaveBatch(r, text)

(* expand_book_section: with the circuit open a local text is made, which   *)
(* without its title may be too short; that of a plan's overview is.        *)
AskNobody ==
  /\ run.at = "ask" /\ Degraded(run) /\ run.tries = 0
  /\ LET r == [run EXCEPT !.local = TRUE] IN
     \/ ~(Kind = "plan" /\ run.b = 1) /\ Received(r, "local")
     \/ run.b > 0 /\ Stop /\ Quiet

Clean(text) == text = IF Kind = "plan" THEN "tagged" ELSE "good"
Texts == {"short", "near", "flawed", "drift", "good"} \cup IF Kind = "plan" THEN {"tagged"} ELSE {}
AfterCall(r) ==
  IF r.tries = 2 \/ Degraded(r) THEN [r EXCEPT !.at = "asked"] ELSE r
Ask ==
  LET r == [run EXCEPT !.tries = @ + 1] IN
  /\ run.at = "ask" /\ ~(Degraded(run) /\ run.tries = 0)
  /\ \/ Continue(AfterCall(Failed(r))) /\ Quiet   \* an error or nothing
     \/ \E text \in Texts :
          IF Clean(text) THEN Received(r, text)
          ELSE /\ \E best \in {text, IF run.best = "none" THEN text ELSE run.best} :      \* by length and errors
                    Continue(AfterCall([r EXCEPT !.best = best]))
               /\ Quiet

(* The best answer, extended by one more call when it is almost long        *)
(* enough and that makes it clean.                                          *)
Extended(text) ==
  CASE text = "near" -> IF Kind = "plan" THEN "tagged" ELSE "good"
    [] text = "good" -> "tagged"
    [] OTHER -> text
Asked ==
  /\ run.at = "asked"
  /\ \E text \in {run.best, Extended(run.best)} : Received(run, text)

(* One volume plan must be in the last section but two, and it may be too   *)
(* short as a whole.                                                        *)
Assemble ==
  /\ run.at = "assemble"
  /\ \/ SectionDone(run, CASE run.parts \cap {"flawed", "tagged"} # {} -> "flawed"
                           [] "local" \in run.parts -> "local"
                           [] OTHER -> IF run.own THEN "own" ELSE "good")
     \/ Kind = "plan" /\ Stop /\ Quiet

-----------------------------------------------------------------------------
(* _quality_status = "degraded_structural_draft"                            *)
Noted(r) == Degraded(r) \/ r.local

(* The gates of the whole book: names, anchors, length, canonical titles.   *)
(* With --book-only it is all there is to be stored.                        *)
Book ==
  /\ run.at = "section" /\ run.s \notin Number
  /\ \/ Stop
     \/ /\ "own" \notin run.text /\ ~(Noted(run) /\ ~run.allow)
        /\ \E next \in {"persist", "volumes"} : Continue([run EXCEPT !.at = next, !.b = 1])
  /\ Quiet

(* generate_volumes does not count failures, and an exception ends it.      *)
VolumeDone(r) ==
  [r EXCEPT !.at = IF r.b >= Volumes THEN "persist" ELSE "volumes", !.b = @ + 1, !.tries = 0]
Volume ==
  /\ run.at = "volumes"
  /\ \/ Degraded(run) /\ Continue(VolumeDone([run EXCEPT !.local = TRUE]))
     \/ ~Degraded(run) /\ run.tries < 2 /\ (Continue(VolumeDone(run)) \/ Continue([run EXCEPT !.tries = @ + 1]))
     \/ ~Degraded(run) /\ Stop
  /\ Quiet

(* persist, persist_book_only: the old rows are deleted and the new ones    *)
(* written in one transaction, which may fail.                              *)
Persist ==
  /\ run.at = "persist"
  /\ \/ stored' = [book |-> IF "local" \in run.text THEN "local" ELSE "good",
                   volumes |-> IF run.b = 1 THEN stored.volumes ELSE "new",
                   marked |-> Noted(run), inherited |-> run.inherited]
     \/ UNCHANGED stored
  /\ Stop /\ UNCHANGED saved

RebuildNext ==
  /\ UNCHANGED sections
  /\ \/ Start \/ Crash
     \/ SkeletonKept \/ SkeletonCall \/ SkeletonLocal
     \/ SectionKept \/ SectionBegin \/ PlanCall \/ BatchKept \/ BatchBegin \/ AskNobody \/ Ask \/ Asked \/ Assemble
     \/ Book \/ Volume \/ Persist

RebuildSpec == RebuildInit /\ [][RebuildNext]_rebuildVars
-----------------------------------------------------------------------------
RebuildTypeOK ==
  /\ sections \in Books /\ saved.skeleton \in {"none", "good", "local"}
  /\ run.at \in {"stopped", "skeleton", "section", "plan", "batch", "ask", "asked", "assemble", "volumes", "persist"}
  /\ run.fails \in 0 .. Threshold /\ run.tries \in 0 .. 3 /\ run.parts \subseteq {"good", "tagged", "flawed", "local"}
  /\ stored.book \in {"old", "good", "local"} /\ stored.volumes \in {"old", "new"}

(* "so that a structural draft is not taken for an outline of quality":     *)
(* whatever fails and however often the script is run, a stored book that   *)
(* holds local text says so, unless a checkpoint brought that text from an  *)
(* earlier run; and only sections that pass their gate are in a checkpoint, *)
(* with no drift in any batch.                                              *)
RebuildSound ==
  /\ stored.book = "local" => stored.marked \/ stored.inherited
  /\ \A s \in Number :
       /\ saved.sections[s] \in {"none", "good", "local", "own"}
       /\ \A b \in 1 .. Batches : saved.batches[s][b] # "drift"
=============================================================================
