------------------------------- MODULE Usage -------------------------------
(***************************************************************************)
(* The month's usage row of a user (services/usage_service.py) and the     *)
(* transactions that create and write it: a model call that logs itself    *)
(* and counts its tokens (services/llm_call_logger.py), the quota gate     *)
(* (middlewares/quota.py) and the administrator (api/admin_usage.py).      *)
(* Each has a session of its own under READ COMMITTED.  Tokens are read,   *)
(* added to in memory and written back as a value; only the columns that   *)
(* were assigned are written.  A call counts as one token.                 *)
(***************************************************************************)
EXTENDS Naturals, FiniteSets

CONSTANTS Calls,       \* sessions of model calls
          Gates,       \* sessions of requests at the quota gate
          Admins,      \* sessions of the administrator
          Quotas,      \* values an administrator sets
          Default,     \* USAGE_DEFAULT_QUOTA_CENTS
          MaxCalls,    \* bound on the calls of a session
          NoSession

UsageAssumption == Default \in Nat /\ Quotas \subseteq Nat /\ MaxCalls \in Nat
                            /\ NoSession \notin Calls \cup Gates \cup Admins

Sessions == Calls \cup Gates \cup Admins

VARIABLES month,     \* the committed row
          logs,      \* committed rows of llm_call_logs, as the sessions that wrote them
          tx,        \* the transaction of each session
          inserter,  \* the session whose insert of the row is not committed
          locker,    \* the session that holds the lock of the row
          done,      \* history: committed calls
          alone,     \* history: those among them that met no other call
          asked      \* history: the quota last committed by an administrator
usageVars == <<month, logs, tx, inserter, locker, done, alone, asked>>

NoRow == [there |-> FALSE, tokens |-> 0, quota |-> 0]
NewRow == [there |-> TRUE, tokens |-> 0, quota |-> Default]
Idle == [pc |-> "idle", row |-> NoRow, log |-> FALSE, met |-> FALSE, quota |-> Default]

UsageInit ==
  /\ month = NoRow /\ logs = 0
  /\ tx = [s \in Sessions |-> Idle]
  /\ inserter = NoSession /\ locker = NoSession
  /\ done = 0 /\ alone = 0 /\ asked = Default

Doing(s, step) == tx[s].pc = step
Step(s, r) == tx' = [tx EXCEPT ![s] = r]
Busy(s) == {c \in Calls \ {s} : ~Doing(c, "idle")}

(* The log row is flushed, then get_or_create_month selects the row.        *)
ReadMonth(s) ==
  /\ Doing(s, "idle") /\ (s \in Calls => done < MaxCalls)
  /\ \E q \in IF s \in Admins THEN Quotas ELSE {Default} :
       tx' = [c \in Sessions |->
                IF c = s THEN [pc |-> IF month.there THEN "write" ELSE "create", row |-> month,
                               log |-> s \in Calls, met |-> s \in Calls /\ Busy(s) # {}, quota |-> q]
                ELSE IF s \in Calls /\ c \in Busy(s) THEN [tx[c] EXCEPT !.met = TRUE] ELSE tx[c]]
  /\ UNCHANGED <<month, logs, inserter, locker, done, alone, asked>>

(* The insert waits for another session's insert of the same month.         *)
CreateMonth(s) ==
  /\ Doing(s, "create") /\ inserter = NoSession /\ ~month.there
  /\ inserter' = s
  /\ Step(s, [tx[s] EXCEPT !.pc = "write", !.row = NewRow])
  /\ UNCHANGED <<month, logs, locker, done, alone, asked>>

(* Once that is committed the insert fails.  The rollback takes what the    *)
(* session had flushed before, the log row of the call, and the row is      *)
(* selected again.                                                          *)
LoseRace(s) ==
  /\ Doing(s, "create") /\ month.there
  /\ Step(s, [tx[s] EXCEPT !.pc = "write", !.row = month, !.log = FALSE])
  /\ UNCHANGED <<month, logs, inserter, locker, done, alone, asked>>

(* The assigned values are flushed; the gate assigns none.                  *)
WriteMonth(s) ==
  /\ Doing(s, "write")
  /\ locker = NoSession \/ s \in Gates
  /\ locker' = IF s \in Gates THEN locker ELSE s
  /\ Step(s, [tx[s] EXCEPT !.pc = "commit"])
  /\ UNCHANGED <<month, logs, inserter, done, alone, asked>>

Free(s) ==
  /\ inserter' = IF inserter = s THEN NoSession ELSE inserter
  /\ locker' = IF locker = s THEN NoSession ELSE locker

\* The row as the session's assignments leave it.
WholeRow(s) ==   \* mutant
  [tx[s].row EXCEPT !.tokens = IF s \in Calls THEN @ + 1 ELSE @,
                    !.quota = IF s \in Admins THEN tx[s].quota ELSE @]
Written(s) ==
  [(IF inserter = s THEN tx[s].row ELSE month)
     EXCEPT !.tokens = IF s \in Calls THEN tx[s].row.tokens + 1 ELSE @,
            !.quota = IF s \in Admins THEN tx[s].quota ELSE @]

CommitUsage(s) ==
  /\ Doing(s, "commit")
  /\ month' = Written(s)
  /\ logs' = IF tx[s].log THEN logs + 1 ELSE logs
  /\ done' = IF s \in Calls THEN done + 1 ELSE done
  /\ alone' = IF s \in Calls /\ ~tx[s].met THEN alone + 1 ELSE alone
  /\ asked' = IF s \in Admins THEN tx[s].quota ELSE asked
  /\ Free(s) /\ Step(s, Idle)

(* The connection or the request is lost; a call's caller never hears of it.*)
LoseUsage(s) ==
  /\ ~Doing(s, "idle")
  /\ Free(s) /\ Step(s, Idle)
  /\ UNCHANGED <<month, logs, done, alone, asked>>

UsageNext ==
  \E s \in Sessions :
    \/ ReadMonth(s) \/ CreateMonth(s) \/ LoseRace(s) \/ WriteMonth(s) \/ CommitUsage(s)
    \/ LoseUsage(s)

UsageSpec == UsageInit /\ [][UsageNext]_usageVars

-----------------------------------------------------------------------------
UsageTypeOK ==
  /\ month \in [there : BOOLEAN, tokens : Nat, quota : Nat]
  /\ logs \in Nat /\ inserter \in Sessions \cup {NoSession} /\ locker \in Sessions \cup {NoSession}
  /\ \A s \in Sessions : tx[s].pc \in {"idle", "create", "write", "commit"}

(* Calls that overlap overwrite each other's tokens, so the row may count   *)
(* too few; but it never counts a call that was not made, never forgets one *)
(* that met no other, and no call ever undoes the quota that an             *)
(* administrator set while it was running.                                  *)
UsageSound ==
  /\ alone <= month.tokens /\ month.tokens <= done
  /\ month.there => month.quota = asked
=============================================================================
