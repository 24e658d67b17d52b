------------------------------ MODULE Sources ------------------------------
(***************************************************************************)
(* The health of the book sources: rows imported from files, tried one by  *)
(* one (api/knowledge.py) or in the background (tasks/book_tasks.py),      *)
(* turned off after failures and deleted.  Requests and tasks load a row,  *)
(* wait for a web site, and write the columns they changed.                *)
(***************************************************************************)
EXTENDS Integers, Sequences, FiniteSets

CONSTANTS Rows,          \* identifiers of rows
          Urls,          \* addresses of sources
          Clients,       \* API requests
          Testers,       \* background tests
          Chunk,         \* sources tried between two commits of a background test
          OffLimit,      \* failures in a row that turn a source off (5)
          MuteLimit,     \* failures in a row for batch-disable-failed (3)
          Qualities,     \* qualities that reports give, in tenths
          MaxVisits      \* bound on the requests and background tests
SourcesAssumption == {Chunk, OffLimit, MuteLimit} \subseteq Nat \ {0} /\ MaxVisits \in Nat
                     /\ Qualities \subseteq 0..100 /\ Clients \cap Testers = {}

VARIABLES source,        \* each row, NoSource or Gone
          visit,         \* what each request or task holds
          visits,        \* history: visits begun
          tried,         \* history: what was written of a row's tries
          crossed,       \* history: rows two visits wrote at once
          condemned,     \* history: rows a report turned off
          doubled,       \* history: two imports met
          regret         \* history: a working source was swept although its sweeper saw it as it was
sourcesVars == <<source, visit, visits, tried, crossed, condemned, doubled, regret>>

NoSource == [url |-> "none"]
Gone == [url |-> "gone"]         \* an identifier is not used again
Columns == {"url", "on", "ok", "tested", "good", "bad", "streak", "avg", "score"}
Fresh(u) == [url |-> u, on |-> TRUE, ok |-> FALSE, tested |-> FALSE, good |-> 0, bad |-> 0,
             streak |-> 0, avg |-> 0, score |-> 50]
NoVisit == [pc |-> "idle", act |-> "none", held |-> <<>>, new |-> {}, late |-> {}]
Untried == [good |-> 0, bad |-> 0, streak |-> 0]

There == {r \in Rows : source[r] \notin {NoSource, Gone}}

SourcesInit ==
  /\ source = [r \in Rows |-> NoSource] /\ visit = [c \in Clients \cup Testers |-> NoVisit]
  /\ tried = [r \in Rows |-> Untried] /\ crossed = {} /\ condemned = {}
  /\ visits = 0 /\ doubled = FALSE /\ regret = FALSE

-----------------------------------------------------------------------------
(* What a try makes of a row.  A stored zero counts as no value (`or 5.0`): *)
(* a source that has sunk to 0 falls back to 40, not to 0.                  *)
Or(x, default) == IF x = 0 THEN default ELSE x
Least(x, y) == IF x < y THEN x ELSE y
Most(x, y) == IF x < y THEN y ELSE x
Counted(s, ok) ==
  [s EXCEPT !.ok = ok, !.tested = TRUE, !.good = @ + (IF ok THEN 1 ELSE 0),
            !.bad = @ + (IF ok THEN 0 ELSE 1), !.streak = IF ok THEN 0 ELSE @ + 1]
Scored(s) == [s EXCEPT !.score = Most(0, Least(100,
                Or((60 * s.good) \div (s.good + s.bad) + (4 * Or(s.avg, 50)) \div 10, 50)))]
Reported(s, ok, quality) ==
  LET n == Counted(s, ok) IN
  Scored(IF ok THEN [n EXCEPT !.avg = (s.avg * s.good + quality) \div n.good]
         ELSE [n EXCEPT !.on = s.on /\ n.streak < OffLimit])
Reached(s, points) ==
  [Counted(s, points > 0) EXCEPT !.score = Most(0, Least(100, Or(s.score, 50) + points))]
Points == {3, -5, -10}      \* reachable, an answer of 5xx, no answer

\* A flush writes the columns whose value has changed since they were loaded.
Written(r, old, new) == [c \in Columns |-> IF new[c] # old[c] THEN new[c] ELSE source[r][c]]
\* The other visits that hold a row of S hold an old copy from now on.
Outdated(c, S, v) == [d \in DOMAIN visit |-> IF d = c THEN v
                        ELSE [visit[d] EXCEPT !.late = @ \cup (S \cap DOMAIN visit[d].held)]]
Learnt(r, ok) == [good |-> tried[r].good + (IF ok THEN 1 ELSE 0), bad |-> tried[r].bad + (IF ok THEN 0 ELSE 1),
                  streak |-> IF ok THEN 0 ELSE tried[r].streak + 1]

Begins(c) == visit[c].pc = "idle" /\ visits < MaxVisits /\ visits' = visits + 1

-----------------------------------------------------------------------------
(* Imports: an address with a row is skipped; one with two raises.          *)
ImportReads(c) ==
  /\ Begins(c)
  /\ \E u \in Urls :
       LET same == {r \in There : source[r].url = u} IN
       /\ same = {}
       /\ visit' = [visit EXCEPT ![c] = [NoVisit EXCEPT !.pc = "hold", !.act = "import", !.new = {u}]]
       /\ doubled' = (doubled \/ \E d \in Clients : visit[d].act = "import" /\ visit[d].new = {u})
  /\ UNCHANGED <<source, tried, crossed, condemned, regret>>
ImportCommits(c) ==
  /\ visit[c].act = "import"
  /\ \E r \in Rows, u \in visit[c].new : source[r] = NoSource /\ source' = [source EXCEPT ![r] = Fresh(u)]
  /\ visit' = [visit EXCEPT ![c] = NoVisit] /\ UNCHANGED <<visits, tried, crossed, condemned, doubled, regret>>

-----------------------------------------------------------------------------
(* The other requests load one row, or the rows that fulfil a condition.    *)
Selected(act) ==
  CASE act \in {"report", "test", "toggle", "delete"} -> {{r} : r \in There}
    [] act = "mute"  -> {{r \in There : source[r].on /\ source[r].streak >= MuteLimit}}
    [] act = "sweep" -> {{r \in There : source[r].tested /\ ~source[r].ok}}
Acts == {"report", "test", "toggle", "delete", "mute", "sweep"}
Hold(c) ==
  /\ Begins(c)
  /\ \E act \in Acts : \E S \in Selected(act) \ {{}} :
       visit' = [visit EXCEPT ![c] = [NoVisit EXCEPT !.pc = "hold", !.act = act, !.held = [r \in S |-> source[r]]]]
  /\ UNCHANGED <<source, tried, crossed, condemned, doubled, regret>>

Holds(c, acts) == visit[c].pc = "hold" /\ visit[c].act \in acts
Held(c) == DOMAIN visit[c].held
\* An update of a row that is gone fails with the whole transaction.
Lost(c) ==
  /\ Holds(c, Acts \ {"delete", "sweep"}) /\ ~(Held(c) \subseteq There)
  /\ visit' = [visit EXCEPT ![c] = NoVisit]
  /\ UNCHANGED <<source, visits, tried, crossed, condemned, doubled, regret>>

Report(c) ==
  /\ Holds(c, {"report"}) /\ Held(c) \subseteq There
  /\ \E r \in Held(c), ok \in BOOLEAN : \E quality \in IF ok THEN Qualities ELSE {0} :
       LET old == visit[c].held[r]  new == Reported(old, ok, quality) IN
       /\ source' = [source EXCEPT ![r] = Written(r, old, new)]
       /\ tried' = [tried EXCEPT ![r] = Learnt(r, ok)]
       /\ condemned' = IF ~ok /\ new.streak >= OffLimit THEN condemned \cup {r} ELSE condemned
  /\ visit' = Outdated(c, Held(c), NoVisit) /\ crossed' = crossed \cup visit[c].late
  /\ UNCHANGED <<visits, doubled, regret>>
\* A test by a user only notes its outcome.
Test(c) ==
  /\ Holds(c, {"test"}) /\ Held(c) \subseteq There
  /\ \E r \in Held(c), ok \in BOOLEAN :
       source' = [source EXCEPT ![r] = Written(r, visit[c].held[r], [visit[c].held[r] EXCEPT !.ok = ok, !.tested = TRUE])]
  /\ visit' = Outdated(c, Held(c), NoVisit) /\ UNCHANGED <<visits, tried, crossed, condemned, doubled, regret>>
\* toggle, and batch-disable-failed, which only turns off.
Toggle(c) ==
  /\ Holds(c, {"toggle", "mute"}) /\ Held(c) \subseteq There
  /\ source' = [r \in Rows |-> IF r \in Held(c)
                  THEN Written(r, visit[c].held[r], [visit[c].held[r] EXCEPT !.on = ~@]) ELSE source[r]]
  /\ condemned' = {r \in condemned : ~source'[r].on}
  /\ visit' = Outdated(c, Held(c), NoVisit) /\ UNCHANGED <<visits, tried, crossed, doubled, regret>>
\* delete, batch-delete and delete-all-failed: a row that is gone is passed over.
Delete(c) ==
  /\ Holds(c, {"delete", "sweep"})
  /\ source' = [r \in Rows |-> IF r \in Held(c) THEN Gone ELSE source[r]]
  /\ tried' = [r \in Rows |-> IF r \in Held(c) THEN Untried ELSE tried[r]]
  /\ crossed' = crossed \ Held(c) /\ condemned' = condemned \ Held(c)
  /\ regret' = (regret \/ (visit[c].act = "sweep" /\ \E r \in (Held(c) \cap There) \ visit[c].late : source[r].ok))
  /\ visit' = Outdated(c, Held(c), NoVisit) /\ UNCHANGED <<visits, doubled>>

-----------------------------------------------------------------------------
(* A background test loads all its sources at once, tries Chunk of them at  *)
(* a time and commits; one that is gone fails the task.                     *)
Start(t) ==
  /\ Begins(t) /\ There # {}
  /\ \E S \in {{r \in There : source[r].on}} \cup (SUBSET There \ {{}}) :
       visit' = [visit EXCEPT ![t] = [NoVisit EXCEPT !.pc = "hold", !.act = "tests", !.held = [r \in S |-> source[r]]]]
  /\ UNCHANGED <<source, tried, crossed, condemned, doubled, regret>>
TestChunk(t) ==
  /\ Holds(t, {"tests"}) /\ Held(t) # {}
  /\ \E S \in SUBSET Held(t) :
       /\ Cardinality(S) = Least(Chunk, Cardinality(Held(t)))
       /\ IF S \subseteq There THEN
            /\ \E points \in [S -> Points] :
                 /\ source' = [r \in Rows |-> IF r \in S
                       THEN Written(r, visit[t].held[r], Reached(visit[t].held[r], points[r])) ELSE source[r]]
                 /\ tried' = [r \in Rows |-> IF r \in S THEN Learnt(r, points[r] > 0) ELSE tried[r]]
            /\ crossed' = crossed \cup (visit[t].late \cap S)
            /\ visit' = Outdated(t, S, [visit[t] EXCEPT !.held = [r \in Held(t) \ S |-> @[r]]])
          ELSE visit' = [visit EXCEPT ![t] = NoVisit] /\ UNCHANGED <<source, tried, crossed>>
  /\ UNCHANGED <<visits, condemned, doubled, regret>>
Finish(t) ==
  /\ Holds(t, {"tests"}) /\ Held(t) = {} /\ visit' = [visit EXCEPT ![t] = NoVisit]
  /\ UNCHANGED <<source, visits, tried, crossed, condemned, doubled, regret>>

SourcesNext ==
  \/ \E c \in Clients : ImportReads(c) \/ ImportCommits(c) \/ Hold(c) \/ Lost(c) \/ Report(c) \/ Test(c)
                        \/ Toggle(c) \/ Delete(c)
  \/ \E t \in Testers : Start(t) \/ TestChunk(t) \/ Finish(t)
SourcesSpec == SourcesInit /\ [][SourcesNext]_sourcesVars
-----------------------------------------------------------------------------
SourcesTypeOK ==
  /\ \A r \in There : /\ DOMAIN source[r] = Columns /\ source[r].url \in Urls
                      /\ source[r].score \in 0..100 /\ source[r].avg \in 0..100
  /\ \A c \in DOMAIN visit : visit[c].late \subseteq Rows /\ Held(c) \subseteq Rows

(* A source has one row, unless two imports of its address met.             *)
UrlsOnce == ~doubled => \A r, s \in There : source[r].url = source[s].url => r = s
(* The counts of a row, and its failures in a row, are those of what was    *)
(* written of it by reports and background tests together, unless one of    *)
(* them loaded the row before another wrote it.                             *)
CountsTrue ==
  \A r \in There \ crossed : [good |-> source[r].good, bad |-> source[r].bad, streak |-> source[r].streak] = tried[r]
(* A source that reports have turned off stays off until it is turned on,   *)
(* whatever background tests and disabling do to it meanwhile.              *)
CondemnedIsOff == \A r \in (There \cap condemned) \ crossed : ~source[r].on
(* A source that never worked ranks no higher than one never tried; this    *)
(* holds even where counts were lost.                                       *)
UnprovenRanksLow == \A r \in There : source[r].good = 0 => source[r].score <= 50
(* delete-all-failed deletes no source that works, if it saw it as it is.   *)
NoRegret == ~regret
SourcesSound == UrlsOnce /\ CountsTrue /\ CondemnedIsOff /\ UnprovenRanksLow /\ NoRegret
=============================================================================
