---------------------------- MODULE ContextPack ----------------------------
(***************************************************************************)
(* What the model is told before it writes a chapter: ContextPackBuilder   *)
(* loads one block after another in the caller's session, each with an     *)
(* except and none with a rollback, while other tasks commit               *)
(* (services/context_pack.py, services/context_layers).  The blocks are    *)
(* then rendered and each layer is cut to its budget.  An index has one    *)
(* row in a volume here; what a second one does shows as a failure.        *)
(***************************************************************************)
EXTENDS Naturals, Sequences, FiniteSets, FiniteSetsExt, SequencesExt

CONSTANTS Volumes,      \* the volumes are 1 .. Volumes
          Planned,      \* chapter rows of a volume
          Told,         \* how many chapters of a volume have a summary at first
          Terse,        \* the chapters with a summary of ten characters at most, at first
          Targets,      \* the chapters of a volume that may be asked for
          Ages,         \* the chapters, of the whole book, that planted foreshadows
          MaxPacks,     \* bound on the packs built
          MaxFaults,    \* bound on the failures of a pack, those that follow from one aside
          MaxChanges    \* bound on what others commit meanwhile

PackAssumption ==
  /\ {Volumes, Planned, MaxPacks, MaxFaults, MaxChanges} \subseteq Nat
  /\ Told \subseteq 0 .. Planned /\ Targets \subseteq 1 .. Planned /\ Ages \subseteq Nat

VARIABLES told,         \* the summary of each chapter of a volume: 0 for none, 1 for a terse one
          versions,     \* the version of each volume's outline; 0 without one
          rules,        \* grows with every change of the settings
          flag,         \* the Redis flag ctxpack:invalid
          target,       \* the chapter to write: its volume and its index there
          step,         \* the next block to load; 0 when no pack is being built
          dead,         \* the transaction of the session has failed
          pack,
          changes,      \* history: what others committed so far
          packs,        \* history: packs begun so far
          faults,       \* history: failures of this pack
          before        \* history: rules when the pack was begun, and the summaries that have
                        \* been there since
packVars == <<told, versions, rules, flag, target, step, dead, pack, changes, packs, faults, before>>
book == <<told, versions, rules>>

Vols == 1 .. Volumes
Chapters == 1 .. Planned
Blocks == <<"global", "recent", "content", "future", "book", "volume", "volumes", "rules", "cards",
            "graph", "foreshadows", "anchors", "cognition", "mirror", "recall", "compass", "strands",
            "contract", "snippets", "dialogue", "style">>
\* A failure in one of these ends their layer: what comes next are the rules.
Core == {"recent", "content", "future"}
AfterLayer == CHOOSE i \in DOMAIN Blocks : Blocks[i] = "rules"
(* The graph and the vectors are other services; a failure there costs no   *)
(* more than their block.                                                   *)
Elsewhere == {"graph", "snippets"}

NoPack == [held |-> {}, recent |-> <<>>, volume |-> 0, global |-> 0, rules |-> 0, alarm |-> FALSE,
           due |-> FALSE, anchors |-> <<>>, flagged |-> FALSE, whole |-> {}]

First(n) == [i \in Chapters |-> IF i > n THEN 0 ELSE IF i \in Terse THEN 1 ELSE 2]
PackInit ==
  /\ told \in [Vols -> {First(n) : n \in Told}] /\ versions = [v \in Vols |-> 1]
  /\ rules = 0 /\ flag = FALSE /\ target = [v |-> 1, c |-> 1] /\ step = 0 /\ dead = FALSE
  /\ pack = NoPack /\ changes = 0 /\ packs = 0 /\ faults = 0
  /\ before = [told |-> told, rules |-> 0]

-----------------------------------------------------------------------------
(* chapter_global_idx: the chapters of the earlier volumes come first.      *)
Global(t) == (t.v - 1) * Planned + t.c

LastOf(s, n) == IF Len(s) > n THEN SubSeq(s, Len(s) - n + 1, Len(s)) ELSE s
Upto(c) == [i \in 1 .. c |-> i]

\* The limit is put on the chapters in their order (a defect to look for).
FirstFive(v, c) ==
  LET s == SelectSeq(Upto(c - 1), LAMBDA i : told[v][i] > 0) IN SubSeq(s, 1, Min({5, Len(s)}))
(* The last five chapters of the volume with a summary.                     *)
Recent(v, c) == LastOf(SelectSeq(Upto(c - 1), LAMBDA i : told[v][i] > 0), 5)

(* The first outline of a volume, the most often edited first: the filter   *)
(* on volume_id lets every row pass, since stored outlines have none.       *)
OutlineOf(u) == versions[u] > 0 /\ \A w \in Vols : versions[w] <= versions[u]

(* The chapters of all volumes by their index in the volume, up to the      *)
(* target's, whose summary has more than ten characters; of many the first  *)
(* three, seven of the middle and the last five.                            *)
InVolumes(i, order) == [k \in Vols |-> <<order[k], i>>]
Anchored(c, order) ==
  SelectSeq(FlattenSeq([i \in 1 .. c |-> InVolumes(i, order)]), LAMBDA a : told[a[1]][a[2]] > 1)
Sampled(s) ==
  LET n == Len(s)  stride == Max({1, (n - 8) \div 7})
  IN IF n <= 15 THEN s
     ELSE SubSeq(s, 1, 3) \o [k \in 1 .. 7 |-> s[4 + (k - 1) * stride]] \o LastOf(s, 5)

(* compute_debt_score of foreshadows of one age and status.                 *)
Score(h, now) ==
  LET stalled == IF h.planted > now THEN 0
                 ELSE IF h.status = "planted" THEN IF now - h.planted >= 5 THEN 15 ELSE 0
                 ELSE IF now - h.planted >= 10 THEN 5 ELSE 0
  IN Max({0, 100 - h.many * stalled - 2 * Max({0, h.many - 5})})
Hooks == [planted : Ages, status : {"planted", "ripening"}, many : {1, 3, 7}]
Indebted(h, now) == Score(h, now) < 60

-----------------------------------------------------------------------------
(* Others commit meanwhile: a summary of a written or planned chapter (none *)
(* when its text is emptied), the edit of an outline, a setting with its    *)
(* flag (unless Redis is away).                                             *)
Summarized(v, i, n) ==
  /\ n # told[v][i] /\ told' = [told EXCEPT ![v][i] = n]
  /\ before' = [before EXCEPT !.told[v][i] = Min({@, n})]
Others ==
  /\ step # 0 /\ changes < MaxChanges /\ changes' = changes + 1
  /\ \/ /\ \E v \in Vols, t \in Targets, n \in 0 .. 2 :
             \E i \in {t, t - 1} \cap Chapters : Summarized(v, i, n)
        /\ UNCHANGED <<versions, rules, flag>>
     \/ /\ \E v \in Vols : versions' = [versions EXCEPT ![v] = @ + 1]
        /\ UNCHANGED <<told, rules, flag, before>>
     \/ rules' = rules + 1 /\ flag' \in {flag, TRUE} /\ UNCHANGED <<told, versions, before>>
  /\ UNCHANGED <<target, step, dead, pack, packs, faults>>

Build(v, c) ==
  /\ step = 0 /\ packs < MaxPacks /\ packs' = packs + 1
  /\ target' = [v |-> v, c |-> c] /\ step' = 1 /\ dead' = FALSE /\ faults' = 0
  /\ pack' = [NoPack EXCEPT !.flagged = flag]
  /\ before' = [told |-> told, rules |-> rules]
  /\ UNCHANGED <<book, flag, changes>>

Turn == step \in 1 .. Len(Blocks)
Now == Blocks[step]
(* A block that is not asked for: the volumes' summaries but at a volume's  *)
(* begin, the graph without cards, the vectors without an outline.          *)
Skipped ==
  \/ Now = "volumes" /\ target.c > 3
  \/ Now = "graph" /\ "cards" \notin pack.held
  \/ Now = "snippets" /\ "content" \notin pack.held
Advance(n) == step' = n /\ UNCHANGED <<book, flag, target, changes, packs, before>>

(* What a block may read; chapters of one index come in any order of their  *)
(* volumes, and the debt may fail when the foreshadows do not.              *)
Filled(p, b) ==
  CASE b = "global" -> {[p EXCEPT !.global = Global(target)]}
    [] b = "recent" -> {[p EXCEPT !.recent = Recent(target.v, target.c)]}
    [] b = "volume" -> {[p EXCEPT !.volume = u] : u \in {w \in Vols : OutlineOf(w)}}
    [] b = "rules" -> {[p EXCEPT !.rules = rules]}
    [] b = "foreshadows" ->
         {p} \cup {[p EXCEPT !.alarm = Indebted(h, p.global), !.due = Indebted(h, Global(target))] :
                     h \in Hooks}
    [] b = "anchors" ->
         {[p EXCEPT !.anchors = Sampled(Anchored(target.c, order))] :
            order \in {Upto(Volumes), Reverse(Upto(Volumes))}}
    [] OTHER -> {p}

Load ==
  /\ Turn /\ ~Skipped /\ (dead => Now \in Elsewhere)
  /\ pack' \in {[p EXCEPT !.held = @ \cup {Now}] : p \in Filled(pack, Now)}
  /\ Advance(step + 1) /\ UNCHANGED <<dead, faults>>

(* A block that is not asked for, and one after the transaction has failed. *)
(* The index in the volume stands for the one in the book.                  *)
Without == pack' = IF Now = "global" THEN [pack EXCEPT !.global = target.c] ELSE pack
Missed == Without /\ Advance(IF Now \in Core THEN AfterLayer ELSE step + 1)
Pass ==
  /\ Turn /\ Skipped /\ Without /\ Advance(step + 1)
  /\ UNCHANGED <<dead, faults>>
Denied ==
  /\ Turn /\ ~Skipped /\ dead /\ Now \notin Elsewhere /\ Missed
  /\ UNCHANGED <<dead, faults>>

(* A block fails: its service; its query, and the transaction with it; or   *)
(* what is made of the answer, as with a second row of the chapter, and the *)
(* blocks to come can still be loaded.                                      *)
Miss ==
  /\ Turn /\ ~Skipped /\ (dead => Now \in Elsewhere)
  /\ faults < MaxFaults /\ faults' = faults + 1
  /\ dead' \in (IF Now \in Elsewhere THEN {dead} ELSE BOOLEAN)
  /\ Missed

-----------------------------------------------------------------------------
(* to_system_prompt.  The parts of the first two layers, which are joined   *)
(* by blank lines; each layer keeps its end.  The compass, the recall with  *)
(* the roster and the mirror are packed to a bound of their own.            *)
Layer1 == <<"book", "volume", "recent", "content", "outline", "future", "recall", "compass">>
Layer2 == <<"contract", "rules", "cards", "cognition", "foreshadows", "anchors", "strands", "mirror">>
Limit1 == 5700
Limit2 == 4702
Shown(p) ==
  p.held \cup {"rules"} \cup (IF "content" \in p.held THEN {"outline"} ELSE {})
Length(b, long) ==
  CASE b = "compass" -> 400 [] b = "recall" -> 1202 [] b = "mirror" -> 800
    [] OTHER -> IF b = long THEN 6000 ELSE 300

Kept(parts, limit, long) ==
  {parts[i] : i \in {j \in DOMAIN parts :
     FoldSet(LAMBDA k, sum : sum + Length(parts[k], long) + 2, 0, j .. Len(parts)) - 2 <= limit}}

(* A flag that was seen at the start is cleared, whatever came since.       *)
Render(long) ==
  LET In(layer) == SelectSeq(layer, LAMBDA b : b \in Shown(pack)) IN
  /\ step = Len(Blocks) + 1 /\ step' = 0
  /\ pack' = [pack EXCEPT !.whole = Kept(In(Layer1), Limit1, long) \cup Kept(In(Layer2), Limit2, long)]
  /\ flag' \in (IF pack.flagged THEN {flag, FALSE} ELSE {flag})
  /\ UNCHANGED <<book, target, dead, changes, packs, faults, before>>

PackNext ==
  \/ Others
  \/ \E v \in Vols, c \in Targets : Build(v, c)
  \/ Load \/ Pass \/ Denied \/ Miss
  \/ \E long \in {"outline", "contract", "nothing"} : Render(long)

PackSpec == PackInit /\ [][PackNext]_packVars
-----------------------------------------------------------------------------
Names == ToSet(Blocks)
PackTypeOK ==
  /\ told \in [Vols -> [Chapters -> 0 .. 2]] /\ versions \in [Vols -> Nat]
  /\ step \in 0 .. Len(Blocks) + 1 /\ pack.held \subseteq Names
  /\ pack.volume \in 0 .. Volumes /\ Len(pack.recent) <= 5 /\ Len(pack.anchors) <= 15

Ready == packs > 0 /\ step = 0
Printed == LastOf(pack.anchors, 10)
(* However blocks fail, with the transaction or without, and others commit  *)
(* while a pack is built: a chapter is told what the one before it was,     *)
(* when that has had a summary since the request, among the recent chapters *)
(* and, if the summary is of more than ten characters and the book of two   *)
(* volumes with one row for an index, among the anchors that are printed;   *)
(* the rules are as new as the request; the debt of the foreshadows is      *)
(* never exaggerated, also when the index in the volume had to do (it "may  *)
(* under-report", context_pack.py:688-689); and what layer 1 and 2 hold     *)
(* last survives any cut.                                                   *)
Predecessor == IF target.c > 1 THEN before.told[target.v][target.c - 1] ELSE 0
PackSound ==
  /\ Predecessor > 0 /\ "recent" \in pack.held => Last(pack.recent) = target.c - 1
  /\ Predecessor > 1 /\ "anchors" \in pack.held /\ Volumes <= 2 =>
       <<target.v, target.c - 1>> \in ToSet(Printed)
  /\ "rules" \in pack.held => pack.rules >= before.rules
  /\ pack.alarm => pack.due
  /\ Ready => {"compass", "recall", "mirror"} \cap pack.held \subseteq pack.whole

(* The outline printed as that of "this volume" (context_pack.py:455) is    *)
(* the outline of the chapter's volume.                                     *)
OutlineOfVolume == Ready /\ "volume" \in pack.held => pack.volume = target.v
=============================================================================
