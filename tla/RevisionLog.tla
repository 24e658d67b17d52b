---------------------------- MODULE RevisionLog ----------------------------
(***************************************************************************)
(* What the cascade queue promises, without messages, workers or locks: a  *)
(* log of revisions on each target, to which a task appends its revision   *)
(* atomically and at most once, and reports of success that are only made  *)
(* for a revision the log holds.  Of a target a user has saved over or     *)
(* deleted nothing more is promised.                                       *)
(***************************************************************************)
EXTENDS Naturals

CONSTANTS Row, Target, TargetOf

VARIABLES log,       \* log[t][r]: revisions of row r in target t
          touched,   \* targets changed from outside
          reported   \* rows that report success

vars == <<log, touched, reported>>

Init ==
  /\ log      = [t \in Target |-> [r \in Row |-> 0]]
  /\ touched  = [t \in Target |-> "untouched"]
  /\ reported = {}

Append(r) ==
  /\ touched[TargetOf[r]] = "untouched"
  /\ log[TargetOf[r]][r] = 0
  /\ log' = [log EXCEPT ![TargetOf[r]][r] = 1]
  /\ UNCHANGED <<touched, reported>>

Report(r) ==
  /\ log[TargetOf[r]][r] = 1 \/ touched[TargetOf[r]] # "untouched"
  /\ reported' = reported \cup {r}
  /\ UNCHANGED <<log, touched>>

\* The row is deleted, or written again by a second delivery.
Withdraw(r) ==
  /\ reported' = reported \ {r}
  /\ UNCHANGED <<log, touched>>

\* From the first change from outside on, t's log can become anything.
Interfere(t) ==
  /\ touched'[t] # "untouched"
  /\ touched' = [touched EXCEPT ![t] = touched'[t]]
  /\ log' = [log EXCEPT ![t] = log'[t]]
  /\ UNCHANGED reported

Next ==
  \/ \E r \in Row : Append(r) \/ Report(r) \/ Withdraw(r)
  \/ \E t \in Target : Interfere(t)

Spec == Init /\ [][Next]_vars
=============================================================================
