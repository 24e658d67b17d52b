---------------------------- MODULE MCProduction ----------------------------
(***************************************************************************)
(* What produces chapters and judges them, model-checked as one sum: a     *)
(* behaviour is one of a generation run of a chapter, of the pipeline of   *)
(* many, or of an asynchronous evaluation.  They share no rows and no      *)
(* messages, so no interleaving of them is lost.                           *)
(* Requests and workers are told apart: symmetry is not sound for          *)
(* liveness.                                                               *)
(* Pipeline and Evaluation are taken with their theorems, which            *)
(* ProductionProofs carries over to the sum.                               *)
(***************************************************************************)
EXTENDS GenerationRun

CONSTANTS Chapter, Worker, NoSnapshot, MaxReviewRounds, MaxStarts, MaxDisturbances,
          None, MaxRetries, MaxEdits, MaxFaults

VARIABLES focus,
  state, round, cs, text, snapshot, queue, req, pc, view, todo, starts, acts, faults, bothWork,
  restored,
  judged, verdict, prose, blank, toSend, letters, judge, tries, known, read, harm, repeated, lost,
  spent
pipelineVars == <<state, round, cs, text, snapshot, queue, req, pc, view, todo, starts, acts,
                  faults, bothWork, restored>>
evaluationVars == <<judged, verdict, prose, blank, toSend, letters, judge, tries, known, read, harm,
                    repeated, lost, spent>>
productionVars == <<focus, vars, pipelineVars, evaluationVars>>

P == INSTANCE PipelineProofs WITH overlap <- bothWork
E == INSTANCE EvaluationProofs WITH
       status <- judged, result <- verdict, text <- prose, empty <- blank, queue <- letters,
       pc <- judge, seen <- read, faults <- harm

ASSUME ProductionAssumption == P!PipelineAssumption /\ E!EvaluationAssumption

ProductionInit ==
  focus \in {"generation_run", "pipeline", "evaluation"} /\ Init /\ P!Init /\ E!Init

OfRun(A) == focus = "generation_run" /\ A /\ UNCHANGED <<focus, pipelineVars, evaluationVars>>
OfPipeline(A) == focus = "pipeline" /\ A /\ UNCHANGED <<focus, vars, evaluationVars>>
OfEvaluation(A) == focus = "evaluation" /\ A /\ UNCHANGED <<focus, vars, pipelineVars>>

ProductionNext ==
  \/ focus = "generation_run" /\ UNCHANGED <<focus, pipelineVars, evaluationVars>> /\ Next
  \/ focus = "pipeline" /\ UNCHANGED <<focus, vars, evaluationVars>> /\ P!Next
  \/ focus = "evaluation" /\ UNCHANGED <<focus, vars, pipelineVars>> /\ E!Next

(* The fairness of each: FairSpec of each module.                           *)
ProductionSpec ==
  /\ ProductionInit /\ [][ProductionNext]_productionVars
  /\ \A q \in Request : WF_productionVars(OfRun(RequestStep(q)))
  /\ WF_productionVars(OfPipeline(P!ApiStep))
  /\ \A w \in Worker : WF_productionVars(OfPipeline(P!WorkerStep(w)))
  /\ WF_productionVars(OfEvaluation(E!Dispatch))
  /\ \A w \in Worker : WF_productionVars(OfEvaluation(E!WorkerStep(w)))
-----------------------------------------------------------------------------
\* A polished pipeline has every chapter and its text (Pipeline).
PolishedIsWhole == P!PolishedIsWhole
\* A pipeline fails only after all its review rounds (Pipeline).
FailedAfterAllRounds == P!FailedAfterAllRounds
\* No completed chapter is generated again (Pipeline).
NoRegeneration == P!NoRegeneration
\* A pipeline that is left alone ends its first pass (Pipeline).
FirstPassEnds == P!FirstPassEnds
\* An evaluation fails only after all its tries (Evaluation).
FailedAfterAllTries == E!FailedAfterAllTries
\* A completed evaluation stays as it is (Evaluation).
CompletedIsFinal == E!CompletedIsFinal
\* Every evaluation comes to rest (Evaluation).
ComesToRest == E!ComesToRest
=============================================================================
