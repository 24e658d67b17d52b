----------------------------- MODULE MCCascade -----------------------------
(* An instance of Cascade for TLC: two rows of one project, which an         *)
(* evaluation plans together or one alone, and which revise one outline.    *)
EXTENDS Cascade, TLC

CONSTANTS r1, r2, t1, p1

MCProjectOf == [r \in Row |-> p1]
MCTargetOf  == [r \in Row |-> t1]
MCOwnerOf   == [t \in Target |-> p1]
MCPlans     == {{r1}, {r1, r2}}
=============================================================================
