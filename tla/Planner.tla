------------------------------ MODULE Planner ------------------------------
(***************************************************************************)
(* services/cascade_planner.py: the targets upstream of a chapter that the *)
(* issues of an evaluation ask to regenerate.  The issues are taken one by *)
(* one; after each, what plan_cascade would return if it were the last is  *)
(* there to see.                                                           *)
(***************************************************************************)
EXTENDS Integers, FiniteSets, FiniteSetsExt, Functions

CONSTANTS Figures,      \* characters a project may have
          MaxIssues,    \* bound on the issues of an evaluation
          Critical      \* CRITICAL_ISSUE_COUNT

PlannerAssumption == IsFiniteSet(Figures) /\ MaxIssues \in Nat /\ Critical \in Nat \ {0}

(* dim: "plot" for plot_coherence and foreshadow_handling, "figure" for     *)
(* character_consistency.  contract: _detect_contract_violation finds one   *)
(* of CONTRACT_OUTLINE_VIOLATIONS.  names: the characters whose names the   *)
(* description contains.                                                    *)
Issues == [dim : {"plot", "figure", "other"}, contract : BOOLEAN, names : SUBSET Figures]

Targets == {<<"chapter">>, <<"outline">>} \cup {<<"character", k>> : k \in Figures}

VARIABLES outline,     \* has the project an outline
          figures,     \* the characters of the project
          found,       \* the issues so far: how many of each
          bucket       \* issues collected for each target
plannerVars == <<outline, figures, found, bucket>>

PlannerInit ==
  /\ outline \in BOOLEAN /\ figures \in SUBSET Figures
  /\ found = [i \in Issues |-> 0]
  /\ bucket = [t \in Targets |-> 0]

InScope(i) == i.dim # "other" \/ i.contract

(* One entry of the loop's body, as a bag: a contract violation of the plot *)
(* goes to the chapter, and to the outline or, without one, to the chapter  *)
(* again; one of a character goes no further than the chapter.              *)
NamedOnly(i) == i.names \cap figures   \* mutant
Matched(i) == LET m == i.names \cap figures IN IF m = {} THEN figures ELSE m
Adds(i, t) ==
  (IF i.contract /\ t = <<"chapter">> THEN 1 ELSE 0)
  + (IF i.dim = "plot" /\ t = (IF outline THEN <<"outline">> ELSE <<"chapter">>) THEN 1 ELSE 0)
  + (IF i.dim = "figure" /\ ~i.contract /\ \E k \in Matched(i) : t = <<"character", k>> THEN 1 ELSE 0)

AddIssue ==
  /\ SumFunction(found) < MaxIssues
  /\ \E i \in Issues :
       /\ found' = [found EXCEPT ![i] = @ + 1]
       /\ bucket' = IF InScope(i) THEN [t \in Targets |-> bucket[t] + Adds(i, t)] ELSE bucket
  /\ UNCHANGED <<outline, figures>>

PlannerNext == AddIssue

Candidates == {t \in Targets : bucket[t] > 0}
Severity(t) == IF bucket[t] >= Critical THEN "critical" ELSE "high"

-----------------------------------------------------------------------------
PlannerTypeOK == bucket \in [Targets -> Nat] /\ found \in [Issues -> Nat]

Count(P(_)) == SumFunctionOnSet(found, {i \in Issues : P(i)})

(* "better over-cover than miss": what an evaluation found reaches a target *)
(* that can carry it.  A broken contract always reaches the chapter, the    *)
(* plot always something, a named character its own row; and with an        *)
(* outline no target is critical before that many issues were about it.     *)
PlanSound ==
  LET Found(P(_)) == Count(P) > 0 IN
  /\ Found(LAMBDA i : i.contract) => <<"chapter">> \in Candidates
  /\ Found(LAMBDA i : i.dim = "plot") => Candidates \cap {<<"chapter">>, <<"outline">>} # {}
  /\ \A k \in figures :
       Found(LAMBDA i : i.dim = "figure" /\ ~i.contract /\ (k \in i.names \/ i.names \cap figures = {}))
         <=> <<"character", k>> \in Candidates
  /\ outline => \A t \in Candidates :
       Severity(t) = "critical" =>
         Count(LAMBDA i : CASE t = <<"chapter">> -> i.contract
                            [] t = <<"outline">> -> i.dim = "plot"
                            [] OTHER -> i.dim = "figure" /\ ~i.contract) >= Critical
=============================================================================
