------------------------------ MODULE Compass ------------------------------
(***************************************************************************)
(* The narrative compass of a book (services/compass_service.py and        *)
(* api/compass.py): one row with the ending, the open threads and a range  *)
(* of chapters.  A refresh derives the range from the target and stores it *)
(* before the model is asked; a new volume lets the model move the range   *)
(* within limits; the author puts what he likes.  Every save writes the    *)
(* whole row from a copy loaded earlier.                                   *)
(***************************************************************************)
EXTENDS Integers

CONSTANTS Navigators,   \* requests at work on the compass
          Sizes,        \* n_chapters of compute_scale, for targets the author may set
          Hints,        \* numbers of chapters the model or the author may name
          Lines,        \* threads
          MaxSteers     \* bound on the requests

CompassAssumption == Sizes \subseteq Nat \ {0} /\ Hints \subseteq Nat \ {0} /\ MaxSteers \in Nat

VARIABLES aim,          \* n_chapters of the project's target, 0 without one
          compass,      \* the row of narrative_compass
          navigator,    \* each request with its copy
          steers,       \* history: requests so far
          derivedFrom,  \* history: the aim of the last refresh that saved a range, 0 if none
          put,          \* history: has the author put a range
          crossed       \* history: two requests overlapped
compassVars == <<aim, compass, navigator, steers, derivedFrom, put, crossed>>

NoScale == [lo |-> 0, hi |-> 0, derived |-> 0]
NoRow == [row |-> FALSE, threads |-> {}, scale |-> NoScale]
Adrift == [pc |-> "idle", copy |-> NoRow]

CompassInit ==
  /\ aim \in Sizes \cup {0} /\ compass = NoRow
  /\ navigator = [w \in Navigators |-> Adrift]
  /\ steers = 0 /\ derivedFrom = 0 /\ put = FALSE /\ crossed = FALSE

At(w, step) == navigator[w].pc = step
Set(w, step, copy) == navigator' = [navigator EXCEPT ![w] = [pc |-> step, copy |-> copy]]
Save(copy) == compass' = [copy EXCEPT !.row = TRUE]

-----------------------------------------------------------------------------
(* The range of a target is 15 % to either side, the limits of the model    *)
(* are 30 % of the derived number.                                          *)
AtLeast(a, b) == IF a < b THEN b ELSE a
AtMost(a, b) == IF a > b THEN b ELSE a
(* round: of two neighbours that are as near, the even one.                 *)
Rounded(a, b) ==
  LET q == a \div b  r == 2 * (a % b)
  IN IF r < b \/ (r = b /\ q % 2 = 0) THEN q ELSE q + 1
Derived(n) ==
  LET lo == AtLeast((n * 85) \div 100, 1)
  IN [lo |-> lo, hi |-> AtLeast(Rounded(n * 115, 100), lo + 1), derived |-> n]

Floor(n) == AtLeast((n * 7) \div 10, 1)
Ceil(n) == Rounded(n * 13, 10)
Anchor(s) == IF s.derived # 0 THEN s.derived ELSE s.hi
\* The envelope moves with the range (a defect to look for).
Adrifting(lo, hi, s) ==
  LET n == s.hi
  IN [lo |-> AtLeast(Floor(n), AtMost(lo, Ceil(n))), hi |-> AtLeast(Floor(n), AtMost(hi, Ceil(n))),
      derived |-> s.derived]
(* clamp_scale.  A range that is empty or upside down gets a width of 5 %,  *)
(* as far as the limit allows.                                              *)
Clamped(lo, hi, s) ==
  LET n == Anchor(s)
      a == AtLeast(Floor(n), AtMost(lo, Ceil(n)))
      b == AtLeast(Floor(n), AtMost(hi, Ceil(n)))
  IN IF s = NoScale THEN [lo |-> lo, hi |-> hi, derived |-> 0]
     ELSE [lo |-> a, hi |-> IF b <= a THEN AtMost(a + AtLeast((n * 5) \div 100, 1), Ceil(n)) ELSE b,
           derived |-> s.derived]

-----------------------------------------------------------------------------
Begin(w, step) ==
  /\ At(w, "idle") /\ steers < MaxSteers /\ steers' = steers + 1
  /\ Set(w, step, compass)
  /\ crossed' = (crossed \/ \E v \in Navigators : ~At(v, "idle"))
  /\ UNCHANGED <<aim, compass, derivedFrom, put>>

(* refresh_compass: the range is saved, if there is a target.               *)
Refresh(w) == Begin(w, "derive")
SaveScale(w) ==
  /\ At(w, "derive")
  /\ LET copy == [navigator[w].copy EXCEPT !.scale = Derived(aim)] IN
     IF aim = 0 THEN Set(w, "ask", navigator[w].copy) /\ UNCHANGED <<compass, derivedFrom, put>>
     ELSE Save(copy) /\ Set(w, "ask", copy) /\ derivedFrom' = aim /\ put' = FALSE
  /\ UNCHANGED <<aim, steers, crossed>>
(* The model's threads replace the old ones, all of them open.              *)
Enrich(w) ==
  /\ At(w, "ask")
  /\ \E new \in SUBSET Lines :
       Save([navigator[w].copy EXCEPT !.threads = {[line |-> l, status |-> "active"] : l \in new}])
  /\ Set(w, "idle", NoRow)
  /\ UNCHANGED <<aim, steers, derivedFrom, put, crossed>>

(* update_on_new_volume: without a row there is nothing to update.  The     *)
(* model may close threads, drop them, name any status, and give a range.   *)
NewVolume(w) == Begin(w, "volume")
Update(w) ==
  LET copy == navigator[w].copy IN
  /\ At(w, "volume")
  /\ IF ~copy.row THEN UNCHANGED compass
     ELSE \E threads \in SUBSET [line : Lines, status : {"active", "closed"}],
             scale \in {copy.scale} \cup {Clamped(lo, hi, copy.scale) : lo \in Hints \cup {copy.scale.lo}, hi \in Hints \cup {copy.scale.hi}} :
            Save([copy EXCEPT !.threads = IF threads = {} THEN @ ELSE threads, !.scale = scale])
  /\ Set(w, "idle", NoRow)
  /\ UNCHANGED <<aim, steers, derivedFrom, put, crossed>>

(* put_compass: the fields of the request over the row just loaded.         *)
Put(w) == Begin(w, "put")
SavePut(w) ==
  LET copy == navigator[w].copy IN
  /\ At(w, "put")
  /\ \/ \E new \in SUBSET Lines :
          Save([copy EXCEPT !.threads = {[line |-> l, status |-> "active"] : l \in new}]) /\ UNCHANGED put
     \/ \E lo \in Hints, hi \in Hints :
          Save([copy EXCEPT !.scale = [lo |-> lo, hi |-> hi, derived |-> 0]]) /\ put' = TRUE
  /\ Set(w, "idle", NoRow)
  /\ UNCHANGED <<aim, steers, derivedFrom, crossed>>

(* The model, its JSON or the database fails, or the request ends.          *)
GivesUp(w) ==
  /\ ~At(w, "idle") /\ Set(w, "idle", NoRow)
  /\ UNCHANGED <<aim, compass, steers, derivedFrom, put, crossed>>

SetTarget ==
  /\ aim' \in (Sizes \cup {0}) \ {aim}
  /\ UNCHANGED <<compass, navigator, steers, derivedFrom, put, crossed>>

CompassNext ==
  \/ SetTarget
  \/ \E w \in Navigators :
       \/ Refresh(w) \/ SaveScale(w) \/ Enrich(w) \/ NewVolume(w) \/ Update(w)
       \/ Put(w) \/ SavePut(w) \/ GivesUp(w)

CompassSpec == CompassInit /\ [][CompassNext]_compassVars
-----------------------------------------------------------------------------
CompassTypeOK ==
  /\ compass.threads \subseteq [line : Lines, status : {"active", "closed"}]
  /\ {compass.scale.lo, compass.scale.hi, compass.scale.derived} \subseteq Nat
  /\ ~compass.row => compass = NoRow

(* A range derived by a refresh is not lost, keeps the number it was        *)
(* derived from, and however often the model moves it it stays within 30 %  *)
(* of that number and is not upside down, until the author puts his own and *)
(* as long as requests do not overlap.  A range that was never put is never *)
(* upside down, with overlaps too; it may be a single number at the upper   *)
(* limit.                                                                   *)
CompassSound ==
  /\ ~crossed /\ ~put /\ derivedFrom # 0 =>
       LET s == compass.scale IN
       /\ s.derived = derivedFrom
       /\ Floor(s.derived) <= s.lo /\ s.hi <= AtLeast(Ceil(s.derived), 2)
       /\ s.lo < s.hi \/ s.lo = Ceil(s.derived)
  /\ compass.scale.derived # 0 => compass.scale.lo <= compass.scale.hi
=============================================================================
