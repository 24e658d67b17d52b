------------------------------- MODULE Crawl -------------------------------
(***************************************************************************)
(* A reference book and the Celery task that fills it (tasks/book_tasks.py *)
(* and api/knowledge.py): an upload is parsed from a temporary file, a     *)
(* crawl fetches chapter after chapter.  The message is sent before the    *)
(* request commits, is given back when its worker dies, and is delivered a *)
(* second time when the task outlives the visibility timeout: CrawlSpec.   *)
(* How a text is cut into the blocks that are stored and embedded          *)
(* (services/text_pipeline.py) shares no state with it: SlicingSpec.       *)
(***************************************************************************)
EXTENDS Naturals, FiniteSets, Sequences, SequencesExt

CONSTANTS Crawlers,     \* worker processes
          CommitEvery,  \* progress is committed with every so many chapters
          MaxToc, MaxDeliveries, MaxRequests      \* bounds

CrawlAssumption == CommitEvery \in Nat \ {0} /\ {MaxToc, MaxDeliveries, MaxRequests} \subseteq Nat

VARIABLES kind,       \* "upload" or "crawl"
          refBook,    \* the row of reference_books, and how many times its chunks are stored
          crawlTask,  \* the row of crawl_tasks; by: who wrote its status last
          file,       \* is the uploaded file still there
          mail,       \* messages in the queue
          deliveries, \* history: deliveries so far
          crawler,    \* the task of each worker, with its copies of the rows
          requests,   \* history: requests of users so far
          mishaps     \* history: "overtaken" a delivery preceded the commit, "empty" a crawl found
                      \* no source or no chapters, "bare" a task found no text at all, "broken" a
                      \* commit of a worker failed
crawlVars == <<kind, refBook, crawlTask, file, mail, deliveries, crawler, requests, mishaps>>

Idle == [pc |-> "idle", status |-> "none", book |-> "none", total |-> 0, next |-> 0, done |-> 0,
         seen |-> 0, got |-> 0]

(* upload_file, or create_crawl_task: the message is out, the transaction   *)
(* is not committed.                                                        *)
CrawlInit ==
  /\ kind \in {"upload", "crawl"}
  /\ refBook = [row |-> "open", status |-> IF kind = "upload" THEN "pending" ELSE "crawling", stored |-> 0]
  /\ crawlTask = [status |-> "pending", done |-> 0, total |-> 0, by |-> "user"]
  /\ file = (kind = "upload") /\ mail = 1 /\ deliveries = 0 /\ requests = 0
  /\ crawler = [w \in Crawlers |-> Idle] /\ mishaps = {}

Live == refBook.row = "there"
SetCrawler(w, r) == crawler' = [crawler EXCEPT ![w] = r]
In(w, step) == crawler[w].pc = step
Ack(w) == SetCrawler(w, Idle)
(* A flush writes a column that differs from what the session has loaded.   *)
Flush(loaded, new, stored) == IF new # loaded THEN new ELSE stored
(* A commit of a worker.  It fails when a row cannot be written, and always *)
(* once the book is gone, CrawlTask and chunks with it (ON DELETE CASCADE). *)
(* The error path then commits in the same session, which raises, so that   *)
(* nothing more is written until the task ends.                             *)
Commit(w, r, writes, noted) ==
  \/ Live /\ writes /\ SetCrawler(w, r) /\ mishaps' = mishaps \cup noted
  \/ /\ SetCrawler(w, [Idle EXCEPT !.pc = "unlink"]) /\ UNCHANGED <<refBook, crawlTask>>
     /\ mishaps' = mishaps \cup {"broken"}

CommitRequest ==
  /\ refBook.row = "open"
  /\ refBook' = [refBook EXCEPT !.row = "there"]
  /\ UNCHANGED <<kind, crawlTask, file, mail, deliveries, crawler, requests, mishaps>>

(* The task finds no row and returns, or it marks what it has found.        *)
Receive(w) ==
  /\ In(w, "idle") /\ mail > 0 /\ mail' = mail - 1 /\ deliveries' = deliveries + 1
  /\ IF ~Live
     THEN /\ mishaps' = mishaps \cup (IF refBook.row = "open" THEN {"overtaken"} ELSE {})
          /\ UNCHANGED <<refBook, crawlTask, crawler>>
     ELSE IF kind = "upload"
     THEN Commit(w, [Idle EXCEPT !.pc = "parse", !.book = "cleaning"],
                 refBook' = [refBook EXCEPT !.status = "cleaning"] /\ UNCHANGED crawlTask, {})
     ELSE Commit(w, [Idle EXCEPT !.pc = "toc", !.status = "running", !.book = refBook.status,
                                 !.total = crawlTask.total,
                                 !.done = crawlTask.done, !.seen = crawlTask.done],
                 /\ crawlTask' = [crawlTask EXCEPT !.status = "running", !.by = "worker"]
                 /\ UNCHANGED refBook, {})
  /\ UNCHANGED <<kind, file, requests>>

-----------------------------------------------------------------------------
(* An upload: the blocks, of which there may be none, are committed, then   *)
(* the status moves on.                                                     *)
Parse(w) ==
  /\ In(w, "parse") /\ file
  /\ \E n \in {0, 1} :
       Commit(w, [crawler[w] EXCEPT !.pc = "extract"],
              refBook' = [refBook EXCEPT !.stored = @ + n] /\ UNCHANGED crawlTask,
              IF n = 0 THEN {"bare"} ELSE {})
  /\ UNCHANGED <<kind, file, mail, deliveries, requests>>

Extract(w) ==
  /\ In(w, "extract")
  /\ Commit(w, [crawler[w] EXCEPT !.pc = "score", !.book = "extracting"],
            refBook' = [refBook EXCEPT !.status = "extracting"] /\ UNCHANGED crawlTask, {})
  /\ UNCHANGED <<kind, file, mail, deliveries, requests>>

(* Vectors and score are optional; the scorer may find the text unsuitable. *)
Score(w) ==
  /\ In(w, "score")
  /\ \E s \in {"ready", "low_quality"} :
       Commit(w, [crawler[w] EXCEPT !.pc = "unlink"],
              refBook' = [refBook EXCEPT !.status = s] /\ UNCHANGED crawlTask, {})
  /\ UNCHANGED <<kind, file, mail, deliveries, requests>>

(* The file cannot be read, or not be parsed.                               *)
ParseFails(w) ==
  /\ In(w, "parse")
  /\ Commit(w, [crawler[w] EXCEPT !.pc = "unlink"],
            refBook' = [refBook EXCEPT !.status = "error"] /\ UNCHANGED crawlTask, {})
  /\ UNCHANGED <<kind, file, mail, deliveries, requests>>

(* The task ends, and the file of an upload goes.                           *)
Unlink(w) ==
  /\ In(w, "unlink") /\ file' = FALSE /\ Ack(w)
  /\ UNCHANGED <<kind, refBook, crawlTask, mail, deliveries, requests, mishaps>>

-----------------------------------------------------------------------------
(* A crawl: the table of contents, which may have changed, may be empty,    *)
(* and may be out of reach.                                                 *)
Toc(w) ==
  LET r == crawler[w] IN
  /\ In(w, "toc")
  /\ \E n \in 0 .. MaxToc :
       Commit(w, [r EXCEPT !.pc = IF n = 0 THEN "empty" ELSE "fetch", !.total = n],
              crawlTask' = [crawlTask EXCEPT !.total = Flush(r.total, n, @)] /\ UNCHANGED refBook, {})
  /\ UNCHANGED <<kind, file, mail, deliveries, requests>>

TaskFails == crawlTask' = [crawlTask EXCEPT !.status = "error", !.by = "worker"]

(* The source of the crawl has been deleted, or it lists no chapters: the   *)
(* task ends, the book stays.                                               *)
NoSource(w) ==
  /\ In(w, "toc") /\ Commit(w, Idle, TaskFails /\ UNCHANGED refBook, {"empty"})
  /\ UNCHANGED <<kind, file, mail, deliveries, requests>>

TocEmpty(w) ==
  /\ In(w, "empty") /\ Commit(w, Idle, TaskFails /\ UNCHANGED refBook, {"empty"})
  /\ UNCHANGED <<kind, file, mail, deliveries, requests>>

CrawlFails(w) ==
  /\ In(w, "toc")
  /\ Commit(w, Idle, TaskFails /\ refBook' = [refBook EXCEPT !.status = Flush(crawler[w].book, "error", @)], {})
  /\ UNCHANGED <<kind, file, mail, deliveries, requests>>

(* One chapter: an exception leaves it uncounted and progress uncommitted,  *)
(* an empty text is counted like any other.                                 *)
Fetch(w) ==
  LET r == crawler[w] IN
  /\ In(w, "fetch") /\ r.next < r.total
  /\ \/ SetCrawler(w, [r EXCEPT !.next = @ + 1]) /\ UNCHANGED <<refBook, crawlTask, mishaps>>
     \/ \E n \in {r.got, 1} :
          LET read == [r EXCEPT !.next = @ + 1, !.done = r.next + 1, !.got = n] IN
          IF r.next % CommitEvery = 0
          THEN Commit(w, [read EXCEPT !.seen = read.done],
                      crawlTask' = [crawlTask EXCEPT !.done = Flush(r.seen, read.done, @)] /\ UNCHANGED refBook, {})
          ELSE SetCrawler(w, read) /\ UNCHANGED <<refBook, crawlTask, mishaps>>
  /\ UNCHANGED <<kind, file, mail, deliveries, requests>>

(* The blocks, the book and the task are written in one commit, whatever    *)
(* was fetched and whatever the status of the row has become.               *)
Store(w) ==
  LET r == crawler[w] IN
  /\ In(w, "fetch") /\ r.next = r.total
  /\ Commit(w, Idle,
       /\ refBook' = [refBook EXCEPT !.stored = @ + r.got, !.status = Flush(r.book, "ready", @)]
       /\ crawlTask' = [crawlTask EXCEPT !.status = "completed", !.by = "worker",
                                       !.done = Flush(r.seen, r.done, @)],
       IF r.got = 0 THEN {"bare"} ELSE {})
  /\ UNCHANGED <<kind, file, mail, deliveries, requests>>

-----------------------------------------------------------------------------
\* Messages are acknowledged when they arrive (a defect to look for).
AckedEarly == 0

(* The worker dies; acks_late gives its message back.                       *)
Returned == 1
Dies(w) ==
  /\ ~In(w, "idle") /\ deliveries < MaxDeliveries
  /\ mail' = mail + Returned /\ Ack(w)
  /\ UNCHANGED <<kind, refBook, crawlTask, file, deliveries, requests, mishaps>>
(* The task outlives the visibility timeout and is delivered again.         *)
Redeliver(w) ==
  /\ ~In(w, "idle") /\ mail = 0 /\ deliveries < MaxDeliveries
  /\ mail' = 1
  /\ UNCHANGED <<kind, refBook, crawlTask, file, deliveries, crawler, requests, mishaps>>

(* pause_crawl_task and resume_crawl_task write the status, and no more.    *)
PauseOrResume ==
  /\ kind = "crawl" /\ Live /\ requests < MaxRequests /\ requests' = requests + 1
  /\ \E s \in {"paused", "running"} : crawlTask' = [crawlTask EXCEPT !.status = s, !.by = "user"]
  /\ UNCHANGED <<kind, refBook, file, mail, deliveries, crawler, mishaps>>

(* score_book, of a book that has chunks.                                   *)
ScoreBook ==
  /\ Live /\ refBook.stored > 0 /\ requests < MaxRequests /\ requests' = requests + 1
  /\ refBook' = [refBook EXCEPT !.status = "low_quality"]
  /\ UNCHANGED <<kind, crawlTask, file, mail, deliveries, crawler, mishaps>>

DeleteBook ==
  /\ Live /\ requests < MaxRequests /\ requests' = requests + 1
  /\ refBook' = [refBook EXCEPT !.row = "gone", !.stored = 0]
  /\ UNCHANGED <<kind, crawlTask, file, mail, deliveries, crawler, mishaps>>

CrawlNext ==
  \/ CommitRequest \/ PauseOrResume \/ ScoreBook \/ DeleteBook
  \/ \E w \in Crawlers :
       \/ Receive(w) \/ Parse(w) \/ ParseFails(w) \/ Extract(w) \/ Score(w) \/ Unlink(w)
       \/ Toc(w) \/ NoSource(w) \/ TocEmpty(w) \/ CrawlFails(w) \/ Fetch(w) \/ Store(w)
       \/ Dies(w) \/ Redeliver(w)

CrawlSpec == CrawlInit /\ [][CrawlNext]_crawlVars
-----------------------------------------------------------------------------
CrawlTypeOK ==
  /\ refBook.status \in {"pending", "crawling", "cleaning", "extracting", "ready", "low_quality", "error"}
  /\ crawlTask.status \in {"pending", "running", "paused", "completed", "error"}
  /\ \A w \in Crawlers : crawler[w].next \in 0 .. crawler[w].total \/ crawler[w].pc = "toc"
  /\ mail \in Nat /\ refBook.stored \in 0 .. deliveries

Resting == mail = 0 /\ \A w \in Crawlers : In(w, "idle")
(* With workers that die, messages that come twice and users that pause,    *)
(* score and delete: a book that reads ready, and a task that reads         *)
(* completed, have text unless a task has found none at all, stored once    *)
(* for each delivery at most; and when all is quiet, no book is left half   *)
(* done, but for one whose message overtook its commit, a crawl that found  *)
(* no source or no chapters, and a task one of whose commits failed.        *)
CrawlSound ==
  Live =>
    /\ refBook.status = "ready" \/ crawlTask.status = "completed"
         => refBook.stored > 0 \/ "bare" \in mishaps
    /\ deliveries <= 1 => refBook.stored <= 1 /\ crawlTask.done <= crawlTask.total
    /\ Resting /\ {"overtaken", "broken"} \cap mishaps = {} =>
         /\ refBook.status \in {"ready", "low_quality", "error"} \/ "empty" \in mishaps
         /\ kind = "crawl" /\ crawlTask.by = "worker" => crawlTask.status \in {"completed", "error"}

-----------------------------------------------------------------------------
(* How a text is cut.  Lines are headings (0) or paragraphs, of which only  *)
(* the length counts.  A step is one round of the loop.                     *)
CONSTANTS MaxChars,     \* MAX_BLOCK_CHARS
          LineLengths, MaxLines     \* bounds on the texts

SlicingAssumption == MaxChars \in Nat \ {0} /\ LineLengths \subseteq Nat /\ MaxLines \in Nat

VARIABLES lines, at,    \* the text, and how many of its lines were read
          current,      \* the paragraphs of the block being filled
          blocks,       \* the blocks so far
          block         \* the number of the next block in its chapter
slicingVars == <<lines, at, current, blocks, block>>

SlicingInit ==
  /\ lines \in SeqOf(LineLengths \cup {0}, MaxLines)
  /\ at = 0 /\ current = <<>> /\ blocks = <<>> /\ block = 0

SumOf(s) == FoldSeq(LAMBDA x, n : x + n, 0, s)
Headings(n) == Len(SelectSeq(SubSeq(lines, 1, n), LAMBDA x : x = 0))
(* _detect_chapters: chapters are numbered by their headings; what comes    *)
(* before the first is dropped, and a text without any is one chapter.      *)
ChapterAt(n) == IF Headings(Len(lines)) = 0 THEN 1 ELSE Headings(n)

(* A block is its paragraphs, joined by a newline.                          *)
TextBlock(parts, idx) == [chapter |-> ChapterAt(at), block |-> idx, parts |-> parts,
                          chars |-> SumOf(parts) + Len(parts) - 1]
Flushed == IF current = <<>> THEN <<>> ELSE <<TextBlock(current, block)>>

(* The newlines are not counted.                                            *)
Fits(p) == SumOf(current) + p <= MaxChars

Pieces(p) == [i \in 1 .. (p + MaxChars - 1) \div MaxChars |->
                IF i * MaxChars <= p THEN MaxChars ELSE p % MaxChars]

AddParagraph(p) ==
  \/ /\ p > MaxChars
     /\ LET cut == [i \in DOMAIN Pieces(p) |->
                      TextBlock(<<Pieces(p)[i]>>, block + Len(Flushed) + i - 1)] IN
        /\ blocks' = blocks \o Flushed \o cut
        /\ block' = block + Len(Flushed) + Len(cut)
     /\ current' = <<>>
  \/ /\ p <= MaxChars /\ ~Fits(p) /\ current # <<>>
     /\ blocks' = blocks \o Flushed /\ block' = block + 1
     /\ current' = <<p>>
  \/ /\ p <= MaxChars /\ (Fits(p) \/ current = <<>>)
     /\ current' = Append(current, p)
     /\ UNCHANGED <<blocks, block>>

(* A new chapter begins with a block of its own.                            *)
EndChapter == blocks' = blocks \o Flushed /\ current' = <<>> /\ block' = 0

Slice ==
  /\ at < Len(lines) /\ at' = at + 1 /\ UNCHANGED lines
  /\ \/ lines[at + 1] = 0 /\ EndChapter
     \/ lines[at + 1] > 0 /\ ChapterAt(at) > 0 /\ AddParagraph(lines[at + 1])
     \/ lines[at + 1] > 0 /\ ChapterAt(at) = 0 /\ UNCHANGED <<current, blocks, block>>

SliceRest ==
  /\ at = Len(lines) /\ current # <<>>
  /\ EndChapter /\ UNCHANGED <<lines, at>>

SlicingNext == Slice \/ SliceRest
SlicingSpec == SlicingInit /\ [][SlicingNext]_slicingVars
-----------------------------------------------------------------------------
SlicingTypeOK == at \in 0 .. Len(lines) /\ block \in Nat /\ Len(blocks) \in Nat

Kept == {n \in 1 .. at : lines[n] > 0 /\ ChapterAt(n) > 0}
CharsRead(c) == SumOf([n \in 1 .. at |-> IF n \in Kept /\ ChapterAt(n) = c THEN lines[n] ELSE 0])
CharsIn(c) == SumOf([i \in DOMAIN blocks |-> IF blocks[i].chapter = c THEN SumOf(blocks[i].parts) ELSE 0])

(* No character after the first heading is lost or moved to another         *)
(* chapter, the blocks of a chapter are numbered without gaps, and a block  *)
(* is longer than its maximum by no more than its newlines, which happens.  *)
SlicingSound ==
  /\ \A c \in 0 .. Headings(Len(lines)) + 1 :
       CharsIn(c) + (IF c = ChapterAt(at) THEN SumOf(current) ELSE 0) = CharsRead(c)
  /\ \A i \in DOMAIN blocks :
       /\ blocks[i].chars <= MaxChars + Len(blocks[i].parts) - 1
       /\ blocks[i].block = IF i > 1 /\ blocks[i - 1].chapter = blocks[i].chapter
                            THEN blocks[i - 1].block + 1 ELSE 0
=============================================================================
