------------------------------ MODULE Revision ------------------------------
(***************************************************************************)
(* How a chapter's text is improved before it is saved: the logic-critic   *)
(* rounds (services/chapter_pipeline.py), the rewrite rounds of the        *)
(* quality gate (services/chapter_quality_gate.py), and the revision of    *)
(* the spans that an evaluation quotes (services/auto_revise.py).          *)
(*                                                                         *)
(* To the two gates a text is its length, its penalty and whether the      *)
(* prose checker passes it.  To the span revision it is the sequence of    *)
(* its characters, an original one being its position and a rewritten one  *)
(* being 0.                                                                *)
(***************************************************************************)
EXTENDS Naturals, Sequences, FiniteSets, SequencesExt, FiniteSetsExt

CONSTANTS Lengths, Penalties,        \* of the texts the model may return
          MinTarget,                 \* _min_target_word_count
          MaxHigh,                   \* bound on the critic's serious issues
          MaxLogicRounds, MaxRewriteRounds,
          Paragraphs,                \* number of paragraphs of one character
          SpanCap,                   \* SPAN_REWRITE_MAX_CHARS
          SpanLengths                \* of the rewrites of a span; 0 is a refused one

RevisionAssumption ==
  /\ Lengths \subseteq Nat /\ Penalties \subseteq Nat /\ SpanLengths \subseteq Nat
  /\ {MinTarget, MaxHigh, MaxLogicRounds, MaxRewriteRounds, Paragraphs, SpanCap} \subseteq Nat

VARIABLES phase,       \* "logic", "gate", "passed", "blocked", "skipped" or "spans"
          given,       \* the text the quality gate was given
          best,        \* the best text so far
          round, high, \* the round, and the critic's issues of the last round
          hits,        \* the paragraphs of the issues' quotes
          spans,       \* the merged spans still to rewrite, in order
          out          \* the text with the rewrites so far
gateVars == <<phase, given, best, round, high>>
spanVars == <<hits, spans, out>>
revisionVars == <<gateVars, spanVars>>

Draft == [len : Lengths, penalty : Penalties, ok : BOOLEAN]

\* int(n * 0.70), at least one character.
Floor70(n) == IF (n * 7) \div 10 < 1 THEN 1 ELSE (n * 7) \div 10

-----------------------------------------------------------------------------
(* A round of the critic: unavailable, clean, or no better than before ends *)
(* the loop; so does a rewrite that failed or lost too much of the text.    *)
LogicRound ==
  /\ phase = "logic" /\ round < MaxLogicRounds
  /\ \E n \in 1 .. MaxHigh, x \in Draft :
       /\ n < high /\ x.len >= Floor70(best.len)
       /\ high' = n /\ best' = x /\ round' = round + 1
  /\ UNCHANGED <<phase, given, spanVars>>

EnterGate ==
  /\ phase = "logic"
  /\ given' = best /\ round' = 0
  /\ \/ phase' = "skipped"               \* skip_polish
     \/ phase' = IF ~best.ok THEN "gate" ELSE IF best.len < MinTarget THEN "blocked" ELSE "passed"
  /\ UNCHANGED <<best, high, spanVars>>

(* Lengths are held against the text the gate was given, penalties against  *)
(* the best so far.                                                         *)
Acceptable(x) ==
  /\ x.len >= Floor70(given.len) /\ x.len >= MinTarget
  /\ \/ x.ok
     \/ x.penalty < best.penalty
     \/ x.penalty = best.penalty /\ x.len >= best.len

RewriteRound ==
  /\ phase = "gate" /\ round < MaxRewriteRounds
  /\ \E x \in Draft :
       /\ best' = IF Acceptable(x) THEN x ELSE best
       /\ phase' = IF Acceptable(x) /\ x.ok THEN "passed" ELSE "gate"
  /\ round' = round + 1
  /\ UNCHANGED <<given, high, spanVars>>

GiveUp ==
  /\ phase = "gate" /\ round = MaxRewriteRounds
  /\ phase' = "blocked"
  /\ UNCHANGED <<given, best, round, high, spanVars>>

-----------------------------------------------------------------------------
(* Paragraphs are separated by two characters; paragraph p is at 3p - 2.    *)
Text == [i \in 1 .. (3 * Paragraphs - 2) |-> i]

(* The characters of the paragraph of a quote and of its neighbours, as the *)
(* half-open interval <<from, to>> of offsets (locate_revision_span).       *)
SpanAt(p) ==
  <<3 * Max({1, p - 1}) - 3, 3 * Min({Paragraphs, p + 1}) - 2>>

(* merge_spans over the spans in ascending order.                           *)
Unmerged(merged, span) == Append(merged, span)   \* mutant
MergeInto(merged, span) ==
  IF merged # <<>> /\ span[1] <= Last(merged)[2]
  THEN [merged EXCEPT ![Len(merged)][2] = Max({@, span[2]})]
  ELSE Append(merged, span)

MergeSpans(found) ==
  LET upTo[p \in 0 .. Paragraphs] ==
        IF p = 0 THEN <<>> ELSE IF p \in found THEN MergeInto(upTo[p - 1], SpanAt(p)) ELSE upTo[p - 1]
  IN upTo[Paragraphs]

(* revise_spans rewrites the merged spans from the last to the first; one   *)
(* that is too long, or whose rewrite is degenerate, stays as it is.        *)
Splice(s, span, n) ==
  SubSeq(s, 1, span[1]) \o [i \in 1 .. n |-> 0] \o SubSeq(s, span[2] + 1, Len(s))

Eligible(span) == span[2] - span[1] <= SpanCap

RewriteSpan ==
  /\ phase = "spans" /\ spans # <<>>
  /\ spans' = Front(spans)
  /\ \E n \in SpanLengths :
       out' = IF Eligible(Last(spans)) /\ n > 0 THEN Splice(out, Last(spans), n) ELSE out
  /\ UNCHANGED <<hits, gateVars>>

-----------------------------------------------------------------------------
RevisionInit ==
  /\ best \in Draft /\ given = best
  /\ round = 0 /\ high = MaxHigh + 1
  /\ \/ phase = "logic" /\ hits = {}
     \/ /\ phase = "spans" /\ best = CHOOSE x \in Draft : TRUE
        /\ hits \in SUBSET (1 .. Paragraphs)
  /\ spans = MergeSpans(hits) /\ out = Text

RevisionNext == LogicRound \/ EnterGate \/ RewriteRound \/ GiveUp \/ RewriteSpan

-----------------------------------------------------------------------------
RevisionTypeOK ==
  /\ phase \in {"logic", "gate", "passed", "blocked", "skipped", "spans"}
  /\ given \in [len : Nat, penalty : Nat, ok : BOOLEAN]
  /\ best \in [len : Nat, penalty : Nat, ok : BOOLEAN]
  /\ round \in Nat /\ high \in Nat
  /\ spans \in Seq(Nat \X Nat) /\ out \in Seq(0 .. Len(Text))

(* What the gate hands on, round after round: it has passed only a text     *)
(* that the checker passes and that is long enough, and whatever it kept    *)
(* lost at most the tolerated share of the text it was given (not of the    *)
(* last rewrite) and is no worse than that unless it passes.                *)
GateSound ==
  /\ phase = "passed" => best.ok /\ best.len >= MinTarget
  /\ phase \in {"gate", "passed", "blocked", "skipped"} =>
       /\ best = given \/ best.len >= Floor70(given.len)
       /\ best.ok \/ best.penalty <= given.penalty

(* However the spans of the quotes overlap, are merged, skipped, refused or *)
(* rewritten to another length: every character that is more than one       *)
(* paragraph away from every quote survives, in order, and the text up to   *)
(* the end of the next span to rewrite is still where it was found.         *)
RestSurvives ==
  /\ \A i \in DOMAIN Text :
       (\A p \in hits : i \notin (SpanAt(p)[1] + 1) .. SpanAt(p)[2])
         => \E j \in DOMAIN out : out[j] = i
  /\ \A i, j \in DOMAIN out : i < j /\ out[i] # 0 /\ out[j] # 0 => out[i] < out[j]
  /\ spans # <<>> => SubSeq(out, 1, Last(spans)[2]) = SubSeq(Text, 1, Last(spans)[2])
=============================================================================
