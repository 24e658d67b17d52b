------------------------------- MODULE Scenes -------------------------------
(***************************************************************************)
(* How a chapter is planned and written scene by scene                     *)
(* (services/scene_orchestrator.py).  An item of the planner's answer is   *)
(* the words it wants, 0 when it is no object, with whether the fields of  *)
(* the continuity contract are there.  Words are counted in hundreds.      *)
(***************************************************************************)
EXTENDS Naturals, Sequences, SequencesExt

CONSTANTS Targets,               \* target_words
          MinWords, MaxWords,    \* MIN_SCENE_WORDS, MAX_SCENE_WORDS
          PerScene, MaxScenes,   \* one scene per thousand words, MAX_SCENE_COUNT
          Wishes,                \* the words a planner may ask for
          MaxItems               \* bound on its answers

ScenesAssumption ==
  /\ Targets \subseteq Nat \ {0} /\ Wishes \subseteq Nat \ {0} /\ MaxItems \in Nat
  /\ {MinWords, MaxWords, PerScene, MaxScenes} \subseteq Nat \ {0}
  /\ MinWords <= MaxWords /\ 3 <= MaxScenes

VARIABLES target, strict,    \* target_words; ALLOW_SCENE_PLANNER_FALLBACK=0
          at,                \* where orchestrate_chapter_stream is
          tries,             \* planner calls so far
          answer,            \* what was parsed
          briefs,            \* the scenes to write
          local,             \* are they _fallback_scene_briefs
          scene,             \* the scene in hand
          prior,             \* the scenes whose summaries it is given
          prose              \* what was yielded
scenesVars == <<target, strict, at, tries, answer, briefs, local, scene, prior, prose>>

Larger(a, b) == IF a > b THEN a ELSE b
Smaller(a, b) == IF a < b THEN a ELSE b
Clamp(n) == Larger(MinWords, Smaller(MaxWords, n))
RoundDiv(a, b) ==
  LET q == a \div b  r == 2 * (a % b) IN IF r < b THEN q ELSE IF r > b THEN q + 1 ELSE q + (q % 2)
SumOf(s) == FoldSeq(LAMBDA b, n : b.words + n, 0, s)

ScenesInit ==
  /\ target \in Targets /\ strict \in BOOLEAN
  /\ at = "gate" /\ tries = 0 /\ answer = <<>> /\ briefs = <<>> /\ local = FALSE
  /\ scene = 0 /\ prior = <<>> /\ prose = <<>>

Stay == UNCHANGED <<target, strict>>
Go(step) == at' = step /\ Stay

(* A chapter whose outline chain is not ready is refused; the context pack  *)
(* may fail to be built.                                                    *)
ReadinessGate ==
  /\ at = "gate" /\ (Go("plan") \/ Go("refused"))
  /\ UNCHANGED <<tries, answer, briefs, local, scene, prior, prose>>

Items == [words : Wishes, whole : {TRUE}] \cup {[words |-> w, whole |-> FALSE] : w \in {0, MaxWords}}
(* At most two calls; an answer without a list, an empty list, a timeout    *)
(* and an error all count as none.                                          *)
Call ==
  /\ at = "plan" /\ tries < 2 /\ tries' = tries + 1
  /\ \/ Go("plan") /\ UNCHANGED answer
     \/ \E s \in SeqOf(Items, MaxItems) : s # <<>> /\ answer' = s /\ Go("check")
  /\ UNCHANGED <<briefs, local, scene, prior, prose>>

(* _cap_parsed_scenes keeps the last scene, which ends the chapter.         *)
Capped(s) == IF Len(s) <= MaxScenes THEN s ELSE SubSeq(s, 1, MaxScenes - 1) \o <<s[Len(s)]>>
(* SceneBrief.from_dict; what is no object is left out, its number is not   *)
(* given to another.                                                        *)
Parsed ==
  LET s == Capped(answer) IN
  SelectSeq([i \in DOMAIN s |-> [idx |-> i, words |-> IF s[i].words = 0 THEN 0 ELSE Clamp(s[i].words), whole |-> s[i].whole]],
            LAMBDA b : b.words > 0)

ReachesTarget(s) == 100 * SumOf(s) >= 85 * target
HasContract(s) == \A i \in DOMAIN s : s[i].whole
Usable(s) == Len(s) >= 3 /\ ReachesTarget(s) /\ HasContract(s)

Count == Larger(3, Smaller(MaxScenes, RoundDiv(Larger(target, MinWords), PerScene)))
FallbackBriefs == [i \in 1 .. Count |-> [idx |-> i, words |-> Clamp(target \div Count), whole |-> TRUE]]

(* Of the answer only its end is remembered.                                *)
Write(s, fallback) ==
  /\ Go("write") /\ briefs' = s /\ local' = fallback /\ scene' = 1
  /\ answer' = (IF answer = <<>> THEN <<>> ELSE <<answer[Len(answer)]>>) /\ tries' = 0
  /\ UNCHANGED <<prior, prose>>

Accept == at = "check" /\ Usable(Parsed) /\ Write(Parsed, FALSE)
NoPlan == (at = "plan" /\ tries = 2) \/ (at = "check" /\ ~Usable(Parsed))
Fallback == NoPlan /\ ~strict /\ Write(FallbackBriefs, TRUE)
Refuse == /\ NoPlan /\ strict /\ Go("refused")
          /\ UNCHANGED <<tries, answer, briefs, local, scene, prior, prose>>

-----------------------------------------------------------------------------
(* The scenes are streamed one after the other, with a separator between    *)
(* them; the summary of what is written goes to the scenes that follow.  A  *)
(* stream that breaks ends the chapter where it is.                         *)
Separator == IF scene > 1 THEN <<0>> ELSE <<>>
WriteScene ==
  /\ at = "write"
  /\ \E chunks \in {<<>>, <<briefs[scene].idx>>} : prose' = prose \o Separator \o chunks
  /\ prior' = Append(prior, briefs[scene].idx)
  /\ scene' = scene + 1
  /\ Go(IF scene = Len(briefs) THEN "done" ELSE "write")
  /\ UNCHANGED <<tries, answer, briefs, local>>
SceneBreaks ==
  /\ at = "write" /\ Go("broken")
  /\ \E chunks \in {<<>>, <<briefs[scene].idx>>} : prose' = prose \o Separator \o chunks
  /\ UNCHANGED <<tries, answer, briefs, local, scene, prior>>

ScenesNext == ReadinessGate \/ Call \/ Accept \/ Fallback \/ Refuse \/ WriteScene \/ SceneBreaks
ScenesSpec == ScenesInit /\ [][ScenesNext]_scenesVars
-----------------------------------------------------------------------------
ScenesTypeOK ==
  /\ at \in {"gate", "plan", "check", "write", "done", "refused", "broken"} /\ tries \in 0 .. 2
  /\ briefs \in Seq([idx : 1 .. MaxScenes, words : MinWords .. MaxWords, whole : BOOLEAN])
  /\ scene \in Nat /\ prior \in Seq(1 .. MaxScenes) /\ prose \in Seq(0 .. MaxScenes)

Written == SelectSeq(prose, LAMBDA c : c # 0)

(* What is written has three scenes or more, each with its contract, in the *)
(* order of the plan and no scene twice; it ends with the scene that ends   *)
(* the planner's chapter; the words planned reach the target, unless it is  *)
(* beyond what the scenes may hold; each scene is told of all before it.    *)
ScenesSound ==
  /\ at \in {"write", "done", "broken"} =>
       /\ Len(briefs) \in 3 .. MaxScenes /\ HasContract(briefs)
       /\ 85 * target <= 100 * MaxScenes * MaxWords => ReachesTarget(briefs)
       /\ ~local /\ answer[Len(answer)].words > 0 =>
            briefs[Len(briefs)].words = Clamp(answer[Len(answer)].words)
  /\ \A i, j \in DOMAIN Written : i < j => Written[i] < Written[j]
  /\ prior = [i \in DOMAIN prior |-> briefs[i].idx] /\ (at = "write" => Len(prior) = scene - 1)
=============================================================================
