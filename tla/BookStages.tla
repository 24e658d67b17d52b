---------------------------- MODULE BookStages ----------------------------
(***************************************************************************)
(* How a book outline is written in stages (services/outline_generator.py):*)
(* A, the skeleton; then B, the characters, and C, the world.  As a stream *)
(* B and C are two tasks that put their events into one queue, from which  *)
(* the generator hands them to the client; as a call the parts are asked   *)
(* for one after the other: BookSpec.  A text is the sequence of its       *)
(* sections.  How many chapters a book and its volumes get (compute_scale  *)
(* and the local skeleton), and how a volume outline is written in batches *)
(* of chapter summaries, shares no state with it: VolumeSpec.              *)
(***************************************************************************)
EXTENDS Integers, Sequences, SequencesExt

CONSTANTS Drawn,        \* the sections a model may write, 1 to 9
          MinLen,       \* BOOK_STAGE_MIN_CHARS, in sections
          MaxDeltas     \* bound on what a stream yields per stage

BookAssumption == Drawn \subseteq 1 .. 9 /\ MinLen \in Nat /\ MaxDeltas \in Nat

VARIABLES step,      \* where the generator is
          text,      \* skeleton_text and the buffers
          worker,    \* what the task of B and that of C do
          events,    \* the queue between them and the generator
          marks,     \* remaining
          heard,     \* history: what the client was told of a stage
          attempt    \* of the call in hand
bookVars == <<step, text, worker, events, marks, heard, attempt>>

Parts == {"A", "B", "C"}
Coded == {"B", "C"}
(* The small stages of a call, what follows each, the part it belongs to,   *)
(* and what the local scaffold for it writes.                               *)
After == [SK |-> "B2", B2 |-> "B4", B4 |-> "B5", B5 |-> "WD", WD |-> "done"]
PartOf(s) == CASE s = "SK" -> "A" [] s = "WD" -> "C" [] OTHER -> "B"
Scaffold == [SK |-> <<1, 3, 7, 8, 9>>, B2 |-> <<2>>, B4 |-> <<4>>, B5 |-> <<5>>, WD |-> <<6>>]

Silent == [start |-> FALSE, chunks |-> <<>>, end |-> "none", full |-> <<>>]

BookInit ==
  /\ step \in {"A", "SK"}
  /\ text = [p \in Parts |-> <<>>] /\ worker = [p \in Coded |-> "none"]
  /\ events = <<>> /\ marks = 0 /\ attempt = 1
  /\ heard = [p \in Parts |-> [Silent EXCEPT !.start = (p = "A")]]

Hear(h, e) ==
  CASE e.event = "start" -> [h EXCEPT !.start = TRUE]
    [] e.event = "chunk" -> [h EXCEPT !.chunks = @ \o e.text]
    [] e.event = "end" -> [h EXCEPT !.end = IF @ = "none" THEN "end" ELSE "twice", !.full = e.text]
    [] e.event = "error" -> [h EXCEPT !.end = IF @ = "none" THEN "error" ELSE "twice"]
Event(kind, p, t) == [event |-> kind, stage |-> p, text |-> t]
Done(p) == Event("DONE_MARK", p, <<>>)
-----------------------------------------------------------------------------
(* Stage A is streamed before the others begin.                             *)
ChunkA ==
  /\ step = "A" /\ Len(text["A"]) < MaxDeltas
  /\ \E n \in Drawn :
       /\ text' = [text EXCEPT !["A"] = Append(@, n)]
       /\ heard' = [heard EXCEPT !["A"] = Hear(@, Event("chunk", "A", <<n>>))]
  /\ UNCHANGED <<step, worker, events, marks, attempt>>

EndA(told, skeleton) ==
  /\ text' = [text EXCEPT !["A"] = skeleton]
  /\ heard' = [heard EXCEPT !["A"] = [told EXCEPT !.end = "end", !.full = skeleton]]
  /\ step' = "stages" /\ worker' = [p \in Coded |-> "new"] /\ marks' = 2
  /\ UNCHANGED <<events, attempt>>

StreamedA ==
  /\ step = "A"
  /\ IF text["A"] # <<>> THEN EndA(heard["A"], text["A"])
     ELSE EndA(Hear(heard["A"], Event("chunk", "A", Scaffold.SK)), Scaffold.SK)
(* A stream that breaks off is replaced: the client has seen other chunks.  *)
BrokenA == step = "A" /\ EndA(heard["A"], Scaffold.SK)

Put(p, new, es) ==
  /\ worker' = [worker EXCEPT ![p] = new]
  /\ events' = events \o es
  /\ UNCHANGED <<step, marks, heard, attempt>>

StageStart(p) == worker[p] = "new" /\ Put(p, "stream", <<Event("start", p, <<>>)>>) /\ UNCHANGED text
StageChunk(p) ==
  /\ worker[p] = "stream" /\ Len(text[p]) < MaxDeltas
  /\ \E n \in Drawn :
       /\ text' = [text EXCEPT ![p] = Append(@, n)]
       /\ Put(p, "stream", <<Event("chunk", p, <<n>>)>>)
StageEnd(p) ==
  /\ worker[p] = "stream" /\ Len(text[p]) >= MinLen
  /\ Put(p, "done", <<Event("end", p, text[p]), Done(p)>>) /\ UNCHANGED text
StageShort(p) ==
  /\ worker[p] = "stream" /\ Len(text[p]) < MinLen
  /\ Put(p, "retry", <<>>) /\ UNCHANGED text

\* The first answer is announced, the second is kept (a defect to look for).
RetoldLate(p, t) ==
  /\ text' = [text EXCEPT ![p] = t]
  /\ Put(p, "done", <<Event("chunk", p, t), Event("end", p, text[p]), Done(p)>>)

(* A second answer takes the place of the first when it is longer.          *)
Retold(p, t) ==
  /\ text' = [text EXCEPT ![p] = t]
  /\ Put(p, "done", <<Event("chunk", p, t), Event("end", p, t), Done(p)>>)
StageRetry(p) ==
  /\ worker[p] = "retry"
  /\ \/ \E n \in Drawn : LET t == [i \in 1 .. Len(text[p]) + 1 |-> n] IN Retold(p, t)
     \/ Put(p, "done", <<Event("end", p, text[p]), Done(p)>>) /\ UNCHANGED text

(* What a failed stage has written so far stays in its buffer.              *)
StageFail(p) ==
  /\ worker[p] \in {"stream", "retry"}
  /\ Put(p, "done", <<Event("error", p, <<>>), Done(p)>>) /\ UNCHANGED text

(* The generator's loop over the queue.                                     *)
Forward ==
  /\ step = "stages" /\ marks > 0 /\ events # <<>> /\ events' = Tail(events)
  /\ LET e == Head(events) IN
       IF e.event = "DONE_MARK" THEN marks' = marks - 1 /\ UNCHANGED heard
       ELSE heard' = [heard EXCEPT ![e.stage] = Hear(@, e)] /\ UNCHANGED marks
  /\ UNCHANGED <<step, text, worker, attempt>>
Complete ==
  /\ step = "stages" /\ marks = 0
  /\ step' = "done" /\ UNCHANGED <<text, worker, events, marks, heard, attempt>>

(* A client that goes away closes the generator: its finally clause cancels *)
(* the tasks and waits for them, whose own finally puts their mark.         *)
CloseStream ==
  /\ step \in {"A", "stages"}
  /\ step' = IF step = "A" THEN "closed" ELSE "closing"
  /\ worker' = [p \in Coded |-> IF worker[p] \in {"none", "done"} THEN worker[p] ELSE "cancelled"]
  /\ UNCHANGED <<text, events, marks, heard, attempt>>
Cancelled(p) == worker[p] = "cancelled" /\ Put(p, "done", <<Done(p)>>) /\ UNCHANGED text
Gathered == \A p \in Coded : worker[p] = "done"
Closed ==
  /\ step = "closing" /\ Gathered
  /\ step' = "closed" /\ UNCHANGED <<text, worker, events, marks, heard, attempt>>

-----------------------------------------------------------------------------
(* _generate_book_outline_staged: at most two attempts for each small       *)
(* stage, then the scaffold.  An answer is taken when it is long enough,    *)
(* for the skeleton when there is one.                                      *)
Taken(s, t) ==
  /\ text' = [text EXCEPT ![PartOf(s)] = @ \o t]
  /\ step' = After[s] /\ attempt' = 1
  /\ UNCHANGED <<worker, events, marks, heard>>
Asking == step \in DOMAIN After
Answered ==
  /\ Asking
  /\ \E n \in Drawn, long \in 1 .. MinLen :
       /\ step # "SK" => long = MinLen
       /\ Taken(step, [i \in 1 .. long |-> n])
AskAgain ==
  /\ Asking /\ attempt = 1 /\ attempt' = 2
  /\ UNCHANGED <<step, text, worker, events, marks, heard>>
GiveUp == Asking /\ attempt = 2 /\ Taken(step, Scaffold[step])

BookNext ==
  \/ ChunkA \/ StreamedA \/ BrokenA
  \/ \E p \in Coded : StageStart(p) \/ StageChunk(p) \/ StageEnd(p) \/ StageShort(p) \/ StageRetry(p)
                      \/ StageFail(p) \/ Cancelled(p)
  \/ Forward \/ Complete \/ CloseStream \/ Closed
  \/ Answered \/ AskAgain \/ GiveUp

BookSpec == BookInit /\ [][BookNext]_bookVars
-----------------------------------------------------------------------------
(* _reassemble_sections: a section comes from the first stage that has it.  *)
Whole == text["A"] \o text["B"] \o text["C"]
Bucket(n) == CHOOSE p \in Parts : /\ n \in Range(text[p])
                                  /\ \A q \in Parts : n \in Range(text[q]) => (p = "A" \/ q # "A") /\ (p # "C" \/ q = "C")
Outline == [n \in Range(Whole) |-> Bucket(n)]

BookTypeOK ==
  /\ step \in {"A", "stages", "done", "closing", "closed"} \cup DOMAIN After
  /\ \A p \in Parts : text[p] \in Seq(1 .. 9)
  /\ worker \in [Coded -> {"none", "new", "stream", "retry", "cancelled", "done"}]
  /\ marks \in 0 .. 2 /\ attempt \in 1 .. 2

Streamed == worker # [p \in Coded |-> "none"]

(* The outline that a finished stream saves is the one its client was told: *)
(* every stage was started and then ended or failed, once; what ended is    *)
(* used as it was announced, what failed as far as its chunks had come, and *)
(* a stage that did not fail and is reported short was asked for twice.     *)
(* Only a skeleton that broke off differs from its chunks.                  *)
(* After the client has left no task is writing, and a call leaves no part  *)
(* of the outline empty.                                                    *)
BookSound ==
  /\ step = "done" /\ Streamed => \A p \in Parts :
       /\ heard[p].start /\ heard[p].end \in {"end", "error"}
       /\ heard[p].end = "end" => heard[p].full = text[p]
       /\ heard[p].end = "error" => heard[p].chunks = text[p]
       /\ text["A"] # <<>>
  /\ \A p \in Coded : heard[p].start => heard["A"].end = "end"
  /\ step = "closed" /\ Streamed => Gathered
  /\ step = "done" /\ ~Streamed => \A p \in Parts : text[p] # <<>>
  /\ step = "done" => \A n \in DOMAIN Outline :
       \A p \in Parts : n \in Range(text[p]) => Outline[n] \in (CASE p = "A" -> {"A"} [] p = "B" -> {"A", "B"} [] OTHER -> Parts)

-----------------------------------------------------------------------------
(* Volumes.                                                                 *)
CONSTANTS Targets,             \* how many chapters the wished-for words make
          CMin, CMax, CTarget, \* chapters per volume: 100, 200, 150
          PerBatch,            \* BATCH
          Counts,              \* the chapter counts a model may answer
          Tries                \* attempts for a batch

VolumeAssumption ==
  /\ Targets \subseteq Nat \ {0} /\ Counts \subseteq Int
  /\ {CMin, CMax, CTarget, PerBatch, Tries} \subseteq Nat \ {0} /\ CMin <= CTarget /\ CTarget <= CMax

VARIABLES target, volume,   \* the book's chapters, and the volume in hand
          stage,            \* where _generate_volume_outline_staged is
          count,            \* chapter_count
          nth,          \* of the batch in hand
          batch,            \* batches done
          summaries,        \* all_summaries: their chapter_idx
          failed            \* _parse_error
volumeVars == <<target, volume, stage, count, nth, batch, summaries, failed>>

Larger(a, b) == IF a > b THEN a ELSE b
Smaller(a, b) == IF a < b THEN a ELSE b
CeilDiv(a, b) == (a + b - 1) \div b
(* round(): halves go to the even neighbour.                                *)
RoundDiv(a, b) ==
  LET q == a \div b  r == 2 * (a % b) IN
  IF r < b THEN q ELSE IF r > b THEN q + 1 ELSE q + (q % 2)

Volumes(n) ==
  LET lo == CeilDiv(n, CMax)  hi == Larger(1, n \div CMin)  wish == Larger(1, RoundDiv(n, CTarget)) IN
  IF hi < lo THEN wish ELSE Larger(lo, Smaller(hi, wish))
PerVolume(n) == Larger(1, RoundDiv(n, Volumes(n)))

(* est_chapters of the volumes in the local skeleton: the last one takes    *)
(* what remains.                                                            *)
Planned(n) ==
  LET nv == Volumes(n)
      taken[i \in 0 .. nv] == IF i = 0 THEN 0
        ELSE taken[i - 1] + (IF i = nv THEN n - taken[i - 1] ELSE Smaller(PerVolume(n), n - taken[i - 1] - (nv - i)))
  IN [i \in 1 .. nv |-> taken[i] - taken[i - 1]]

VolumeInit ==
  /\ target \in Targets /\ volume \in 1 .. Volumes(target)
  /\ stage = "meta" /\ count = 0 /\ nth = 1 /\ batch = 0 /\ summaries = <<>> /\ failed = FALSE

(* A call that raises or times out is not tried again; an answer without    *)
(* JSON is replaced by what the book's plan says.                           *)
MetaFails ==
  /\ stage = "meta" /\ stage' = "done" /\ failed' = TRUE
  /\ UNCHANGED <<target, volume, count, nth, batch, summaries>>
Meta(n) ==
  /\ stage = "meta" /\ count' = n
  /\ stage' = IF n > 0 THEN "batch" ELSE "done"
  /\ UNCHANGED <<target, volume, nth, batch, summaries, failed>>
MetaAnswers == \E n \in Counts : Meta(n)
FallbackMeta == Meta(Planned(target)[volume])
(* A count that is no number leaves the outline with the chapters that the  *)
(* answer itself came with, numbered as the model pleased, or with none.    *)
NoCount ==
  /\ stage = "meta" /\ stage' = "done"
  /\ summaries' \in SeqOf(1 .. 2, 2)
  /\ UNCHANGED <<target, volume, count, nth, batch, failed>>

FirstOf == batch * PerBatch + 1
LastOf == Smaller((batch + 1) * PerBatch, count)
Expected == LastOf - FirstOf + 1

(* The items of an accepted answer that are objects are numbered anew.      *)
Numbered(objects) == [i \in 1 .. objects |-> FirstOf + i - 1]

Batch ==
  /\ stage = "batch"
  /\ \E objects \in 0 .. Expected : summaries' = summaries \o Numbered(objects)
  /\ batch' = batch + 1 /\ nth' = 1
  /\ stage' = IF LastOf = count THEN "title" ELSE "batch"
  /\ UNCHANGED <<target, volume, count, failed>>

(* Raised, timed out, no list, or a list that is too short.                 *)
BatchFails ==
  /\ stage = "batch"
  /\ \/ nth < Tries /\ nth' = nth + 1 /\ UNCHANGED <<stage, failed>>
     \/ nth = Tries /\ stage' = "done" /\ failed' = TRUE /\ UNCHANGED nth
  /\ UNCHANGED <<target, volume, count, batch, summaries>>

(* Items that were no objects are missed here.  The check of the titles     *)
(* rewrites some of them and never fails the outline.                       *)
Merge ==
  /\ stage = "title" /\ stage' = "done"
  /\ failed' = (Len(summaries) # count)
  /\ UNCHANGED <<target, volume, count, nth, batch, summaries>>

VolumeNext == MetaFails \/ MetaAnswers \/ FallbackMeta \/ NoCount \/ Batch \/ BatchFails \/ Merge
VolumeSpec == VolumeInit /\ [][VolumeNext]_volumeVars
-----------------------------------------------------------------------------
(* extract_chapter_breakdown: the last summary of a number is its chapter's.*)
Breakdown == [c \in Range(summaries) |-> CHOOSE i \in DOMAIN summaries :
                summaries[i] = c /\ \A j \in DOMAIN summaries : summaries[j] = c => j <= i]

VolumeTypeOK ==
  /\ target \in Targets /\ volume \in 1 .. Volumes(target) /\ count \in Int
  /\ stage \in {"meta", "batch", "title", "done"} /\ nth \in 1 .. Tries /\ batch \in Nat
  /\ summaries \in Seq(Nat) /\ failed \in BOOLEAN

(* The local plan gives every chapter of the book to one volume, no volume  *)
(* is empty, and a book of some size has the volumes compute_scale promises *)
(* ("in [ceil(N/200), floor(N/100)]").  A volume outline that is accepted   *)
(* has each of its chapters once and in order; one that is given up keeps   *)
(* summaries that are never numbered twice, so that none of them hides      *)
(* another from the chapter outlines.  None of this holds of an outline     *)
(* whose answer gave no number of chapters: its count stays 0.              *)
VolumeSound ==
  /\ FoldSeq(LAMBDA c, n : c + n, 0, Planned(target)) = target
  /\ \A i \in DOMAIN Planned(target) : Planned(target)[i] >= 1
  /\ target >= CMin /\ CeilDiv(target, CMax) <= target \div CMin
       => Volumes(target) \in CeilDiv(target, CMax) .. target \div CMin
  /\ stage = "done" /\ ~failed /\ count > 0 => summaries = [i \in 1 .. count |-> i]
  /\ count # 0 => /\ \A i, j \in DOMAIN summaries : i < j => summaries[i] < summaries[j]
                  /\ DOMAIN Breakdown \subseteq 1 .. Larger(count, 0)
=============================================================================
