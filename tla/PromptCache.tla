---------------------------- MODULE PromptCache ----------------------------
(***************************************************************************)
(* The rows of prompt_assets, the requests that edit them (api/prompts.py),*)
(* and what a process keeps of them in memory, in three parts that share   *)
(* no state but the rows.  The snapshots of active prompts                 *)
(* (services/prompt_cache.py) are read by every call of a prompt           *)
(* (services/prompt_registry.py) while requests edit the rows, in this     *)
(* process or in another: CacheSpec.  The model router                     *)
(* (services/model_router.py) is made and loaded from the database by the  *)
(* first coroutine that needs it, under a lock, and forgotten with its     *)
(* locks by a request that edits prompts or endpoints: RouterCacheSpec.    *)
(* The counts of calls are buffered, and a background task writes them     *)
(* with a session of its own every half minute and once more at shutdown:  *)
(* CountersSpec.                                                           *)
(***************************************************************************)
EXTENDS Naturals, Sequences, FiniteSets

-----------------------------------------------------------------------------
(* The rows.  A request flushes its writes, tells the caches of its process,*)
(* and returns; get_db commits after that.  An edit of an endpoint          *)
(* (api/model_config.py) is an update of the row that names it.             *)
CONSTANTS Types,        \* task types
          FallbackOf,   \* _TASK_TYPE_FALLBACK; a type without one is its own
          Builtins,     \* types of BUILTIN_PROMPTS
          Editors,      \* requests of the administrator
          MaxRows, MaxEdits     \* bounds

RowsAssumption ==
  /\ FallbackOf \in [Types -> Types] /\ Builtins \subseteq Types
  /\ MaxRows \in Nat \ {0} /\ MaxEdits \in Nat

VARIABLES rows,       \* prompt_assets, committed
          edit,       \* the transaction of each editor
          edits       \* how many have begun
promptRows == <<rows, edit, edits>>

Row(ty, ver) == [type |-> ty, ver |-> ver, on |-> TRUE, body |-> 0, live |-> TRUE]
Of(ty) == {i \in DOMAIN rows : rows[i].live /\ rows[i].type = ty}
On(ty) == {i \in Of(ty) : rows[i].on}
(* ORDER BY version DESC LIMIT 1: any of the highest; 0 is no row.          *)
Highest(S) == {i \in S : \A j \in S : rows[j].ver <= rows[i].ver}
Found(ty) == IF On(ty) = {} THEN {0} ELSE Highest(On(ty))

NoEdit == [pc |-> "idle", op |-> "none", type |-> "none", hit |-> {}, ver |-> 0]

RowsInit ==
  /\ rows \in {<<Row(ty, 1)>> : ty \in {u \in Types : FallbackOf[u] = u}}
  /\ edit = [e \in Editors |-> NoEdit] /\ edits = 0

SetEdit(e, r) == edit' = [edit EXCEPT ![e] = r]

(* What the first statements of the handler see: create_prompt will         *)
(* deactivate the rows of its type, update_prompt and delete_prompt have    *)
(* one, list_prompts looks for types that have none at all.                 *)
BeginRows(e) ==
  /\ edit[e].pc = "idle" /\ edits < MaxEdits /\ edits' = edits + 1
  /\ \E ty \in Types :
       \/ \E v \in {rows[i].ver + 1 : i \in Of(ty)} \cup (IF Of(ty) = {} THEN {1} ELSE {}) :
            /\ \A i \in Of(ty) : rows[i].ver < v
            /\ SetEdit(e, [pc |-> "begun", op |-> "create", type |-> ty, hit |-> Of(ty), ver |-> v])
       \/ \E op \in {"update", "switch", "delete"}, i \in Of(ty) :
            SetEdit(e, [pc |-> "begun", op |-> op, type |-> ty, hit |-> {i}, ver |-> 0])
       \/ /\ ty \in Builtins /\ Of(ty) = {}
          /\ SetEdit(e, [pc |-> "begun", op |-> "seed", type |-> ty, hit |-> {}, ver |-> 1])
  /\ UNCHANGED rows

(* The writes are flushed, and wait for the locks of other requests.        *)
StageRows(e) ==
  /\ edit[e].pc = "begun"
  /\ \A f \in Editors \ {e} : edit[f].pc = "staged" => edit[f].hit \cap edit[e].hit = {}
  /\ SetEdit(e, [edit[e] EXCEPT !.pc = "staged"])
  /\ UNCHANGED <<rows, edits>>

Rewritten(x) ==
  [i \in DOMAIN rows |->
     IF i \notin x.hit THEN rows[i]
     ELSE CASE x.op = "create" -> [rows[i] EXCEPT !.on = FALSE]
            [] x.op = "update" -> [rows[i] EXCEPT !.body = @ + 1]
            [] x.op = "switch" -> [rows[i] EXCEPT !.on = ~@]
            [] x.op = "delete" -> [rows[i] EXCEPT !.live = FALSE]]
Inserted(x) == IF x.op \in {"create", "seed"} THEN <<Row(x.type, x.ver)>> ELSE <<>>

(* An update whose row is gone matches nothing and is rolled back.          *)
Stale(x) == x.op \in {"update", "switch"} /\ \E i \in x.hit : ~rows[i].live
CommitRows(e) ==
  LET x == edit[e] IN
  /\ x.pc = "staged" /\ Len(rows \o Inserted(x)) <= MaxRows
  /\ rows' = IF Stale(x) THEN rows ELSE Rewritten(x) \o Inserted(x)
  /\ SetEdit(e, NoEdit)
  /\ UNCHANGED edits

-----------------------------------------------------------------------------
(* The snapshots.                                                           *)
CONSTANTS Askers,       \* coroutines that run a prompt
          Ttl, NegTtl,  \* TTL_SECONDS, NEG_TTL_SECONDS
          Remote,       \* editors served by another process
          MaxTicks      \* bound on the calls that are counted

CacheAssumption ==
  /\ RowsAssumption /\ Remote \subseteq Editors
  /\ {Ttl, NegTtl, MaxTicks} \subseteq Nat /\ NegTtl <= Ttl

VARIABLES snaps,      \* _snap_cache: the row of each type, how long it will be kept, and its age
          asker       \* the locals of each asker
cacheVars == <<promptRows, snaps, asker>>

Old == Ttl + 1        \* ages beyond are not told apart
NoSnap == [row |-> 0, left |-> 0, age |-> 0]
NoCall == [pc |-> "idle", type |-> "none", row |-> 0, since |-> 0, age |-> 0, again |-> FALSE]

CacheInit ==
  /\ RowsInit
  /\ snaps = [ty \in Types |-> NoSnap]
  /\ asker = [a \in Askers |-> NoCall]

(* A unit of time.  An entry that has expired is as good as none.           *)
Aged(n) == IF n < Old THEN n + 1 ELSE n
PassTime ==
  /\ snaps' = [ty \in Types |->
       IF snaps[ty].left <= 1 THEN NoSnap
       ELSE [snaps[ty] EXCEPT !.left = @ - 1, !.age = Aged(@)]]
  /\ asker' = [a \in Askers |->
       CASE asker[a].pc = "select" -> [asker[a] EXCEPT !.since = Aged(@)]
         [] asker[a].pc = "selected" -> [asker[a] EXCEPT !.since = Aged(@), !.age = Aged(@)]
         [] OTHER -> asker[a]]
  /\ UNCHANGED promptRows

BeginEdit(e) == BeginRows(e) /\ UNCHANGED <<snaps, asker>>

(* The handler drops the snapshot of its type, after seeding all of them.   *)
StageEdit(e) ==
  /\ StageRows(e)
  /\ snaps' = [ty \in Types |-> IF e \notin Remote /\ (edit[e].op = "seed" \/ ty = edit[e].type)
                                THEN NoSnap ELSE snaps[ty]]
  /\ UNCHANGED asker

CommitEdit(e) == CommitRows(e) /\ UNCHANGED <<snaps, asker>>

SetAsker(a, r) == asker' = [asker EXCEPT ![a] = r]
At(a, step) == asker[a].pc = step

(* _resolve_route_and_tier_cached, given the row of a type: without one the *)
(* type it falls back to is resolved, and without that the call fails.      *)
Resolved(r, i) ==
  LET next == [NoCall EXCEPT !.type = r.type, !.again = r.again] IN
  IF i # 0 THEN [next EXCEPT !.pc = "call"]
  ELSE IF FallbackOf[r.type] # r.type THEN [next EXCEPT !.pc = "resolve", !.type = FallbackOf[r.type]]
  ELSE NoCall

(* get_snapshot: an entry that has not expired answers; otherwise the time  *)
(* is noted and the row is selected.                                        *)
Resolve(a) ==
  /\ At(a, "idle") \/ At(a, "resolve")
  /\ \E ty \in IF At(a, "idle") THEN Types ELSE {asker[a].type} :
       LET r == [asker[a] EXCEPT !.type = ty] IN
       SetAsker(a, IF snaps[ty].left > 0 THEN Resolved(r, snaps[ty].row) ELSE [r EXCEPT !.pc = "select"])
  /\ UNCHANGED <<promptRows, snaps>>

Select(a) ==
  /\ At(a, "select")
  /\ \E i \in Found(asker[a].type) : SetAsker(a, [asker[a] EXCEPT !.pc = "selected", !.row = i])
  /\ UNCHANGED <<promptRows, snaps>>

(* The entry expires a time to live after the moment noted: when the answer *)
(* took longer than that, it is stored expired.                             *)
Life(r) == IF r.row = 0 THEN NegTtl ELSE Ttl

\* The entry lives from the moment it is stored (a defect to look for).
WholeLife(r) == Life(r)

Remaining(r) == IF r.since < Life(r) THEN Life(r) - r.since ELSE 0
StoreSnap(a) ==
  LET r == asker[a] IN
  /\ At(a, "selected")
  /\ snaps' = [snaps EXCEPT ![r.type] =
       IF Remaining(r) = 0 THEN NoSnap ELSE [row |-> r.row, left |-> Remaining(r), age |-> r.age]]
  /\ SetAsker(a, Resolved(r, r.row))
  /\ UNCHANGED promptRows

(* The database cannot be read: nothing is cached, and there is no prompt.  *)
SelectFails(a) ==
  /\ At(a, "select")
  /\ SetAsker(a, Resolved(asker[a], 0))
  /\ UNCHANGED <<promptRows, snaps>>

(* A structured prompt whose answer cannot be parsed is run once more.      *)
Answer(a) ==
  /\ At(a, "call")
  /\ \/ SetAsker(a, NoCall)
     \/ /\ ~asker[a].again
        /\ SetAsker(a, [NoCall EXCEPT !.pc = "resolve", !.type = asker[a].type, !.again = TRUE])
  /\ UNCHANGED <<promptRows, snaps>>

CacheNext ==
  \/ PassTime
  \/ \E e \in Editors : BeginEdit(e) \/ StageEdit(e) \/ CommitEdit(e)
  \/ \E a \in Askers : Resolve(a) \/ Select(a) \/ StoreSnap(a) \/ SelectFails(a) \/ Answer(a)

CacheSpec == CacheInit /\ [][CacheNext]_cacheVars
-----------------------------------------------------------------------------
CacheTypeOK ==
  /\ Len(rows) <= MaxRows /\ \A i \in DOMAIN rows : rows[i].type \in Types
  /\ \A ty \in Types : snaps[ty] \in [row : 0 .. Len(rows), left : 0 .. Ttl, age : 0 .. Old]
  /\ \A a \in Askers : asker[a].row \in 0 .. Len(rows)

(* "the TTL bounds staleness": however edits, drops, slow reads and their   *)
(* late stores interleave, an entry will have been dropped when its answer  *)
(* is one time to live old, a negative one its own, shorter time.           *)
SnapshotsFresh ==
  \A ty \in Types : snaps[ty].left > 0 => snaps[ty].age + snaps[ty].left <= Life(snaps[ty])

-----------------------------------------------------------------------------
(* The router.                                                              *)
VARIABLES router,     \* _router: each reset begins an era, with an object and a lock of its own
          turn,       \* the holder of the lock of each era, if any
          caller,      \* the locals of each caller
          overtaken   \* history: was something committed after the router's routes were read
routerCacheVars == <<promptRows, router, turn, caller, overtaken>>

Routes == {[row |-> i, body |-> rows[i].body] : i \in UNION {On(ty) : ty \in Types}}
NoLoad == [pc |-> "idle", lock |-> 0, era |-> 0, routes |-> {}]
NoRouter(era) == [era |-> era, made |-> FALSE, loaded |-> FALSE, routes |-> {}]

RouterCacheInit ==
  /\ RowsInit
  /\ router = NoRouter(0) /\ turn = [n \in 0 .. MaxEdits |-> {}] /\ overtaken = FALSE
  /\ caller = [a \in Askers |-> NoLoad]

BeginEditing(e) == BeginRows(e) /\ UNCHANGED <<router, turn, caller, overtaken>>

(* The handler resets the router, except that deleting and seeding keep it. *)
Resets(op) == op \in {"create", "update", "switch"}
StageEditing(e) ==
  /\ StageRows(e)
  /\ router' = IF Resets(edit[e].op) THEN NoRouter(router.era + 1) ELSE router
  /\ overtaken' = (overtaken /\ ~Resets(edit[e].op))
  /\ UNCHANGED <<turn, caller>>

CommitEditing(e) ==
  /\ CommitRows(e)
  /\ overtaken' = (overtaken \/ router.loaded
                   \/ \E a \in Askers : caller[a].pc = "loaded" /\ caller[a].era = router.era)
  /\ UNCHANGED <<router, turn, caller>>

SetCaller(a, r) == caller' = [caller EXCEPT ![a] = r]
CallerAt(a, step) == caller[a].pc = step
Called(r) == [NoLoad EXCEPT !.pc = "call"]

(* get_model_router_async: a loaded router is taken, or the lock is asked   *)
(* for, that of the era in which it was looked up.                          *)
GetRouter(a) ==
  /\ CallerAt(a, "idle")
  /\ SetCaller(a, IF router.loaded THEN Called(caller[a])
                 ELSE [caller[a] EXCEPT !.pc = "wait", !.lock = router.era])
  /\ UNCHANGED <<promptRows, router, turn, overtaken>>

EnterLock(a) ==
  /\ CallerAt(a, "wait") /\ turn[caller[a].lock] = {}
  /\ IF router.loaded
     THEN SetCaller(a, [caller[a] EXCEPT !.pc = "call"]) /\ UNCHANGED <<router, turn>>
     ELSE /\ router' = [router EXCEPT !.made = TRUE]
          /\ turn' = [turn EXCEPT ![caller[a].lock] = {a}]
          /\ SetCaller(a, [caller[a] EXCEPT !.pc = "load", !.era = router.era])
  /\ UNCHANGED <<promptRows, overtaken>>

LoadRoutes(a) ==
  /\ CallerAt(a, "load")
  /\ SetCaller(a, [caller[a] EXCEPT !.pc = "loaded", !.routes = Routes])
  /\ UNCHANGED <<promptRows, router, turn, overtaken>>

\* The routes go to whatever router there is by then (a defect to look for).
LoadedAnyway(r) == [router EXCEPT !.loaded = router.made, !.routes = r.routes]

(* The routes go into the object whose load was begun.  The caller is given *)
(* the global router: when that was reset meanwhile, it is another one,     *)
(* where perhaps only the environment's endpoints answer, or None, and the  *)
(* call fails.                                                              *)
Loaded(r) == IF r.era = router.era THEN [router EXCEPT !.loaded = TRUE, !.routes = r.routes] ELSE router
FinishLoad(a) ==
  LET r == caller[a] IN
  /\ CallerAt(a, "loaded")
  /\ router' = Loaded(r)
  /\ turn' = [turn EXCEPT ![r.lock] = {}]
  /\ SetCaller(a, IF router.made THEN Called(r) ELSE NoLoad)
  /\ UNCHANGED <<promptRows, overtaken>>

(* A load that raises is logged; the environment's endpoints answer.        *)
LoadFails(a) ==
  /\ CallerAt(a, "load")
  /\ turn' = [turn EXCEPT ![caller[a].lock] = {}]
  /\ SetCaller(a, IF router.made THEN Called(caller[a]) ELSE NoLoad)
  /\ UNCHANGED <<promptRows, router, overtaken>>

(* The call is over, and with it what the caller knew.                       *)
EndCall(a) ==
  /\ CallerAt(a, "call") /\ SetCaller(a, NoLoad)
  /\ UNCHANGED <<promptRows, router, turn, overtaken>>

RouterCacheNext ==
  \/ \E e \in Editors : BeginEditing(e) \/ StageEditing(e) \/ CommitEditing(e)
  \/ \E a \in Askers : GetRouter(a) \/ EnterLock(a) \/ LoadRoutes(a) \/ FinishLoad(a) \/ LoadFails(a) \/ EndCall(a)

RouterCacheSpec == RouterCacheInit /\ [][RouterCacheNext]_routerCacheVars
-----------------------------------------------------------------------------
RouterCacheTypeOK ==
  /\ Len(rows) <= MaxRows /\ router.era \in 0 .. MaxEdits
  /\ \A n \in 0 .. MaxEdits : turn[n] \subseteq Askers
  /\ \A a \in Askers : caller[a].lock \in 0 .. MaxEdits

(* What was read before a reset never gets into the router after it, though *)
(* loads go on across resets and under locks that were forgotten: a loaded  *)
(* router differs from the rows only when a commit came after its reading.  *)
RouterFollows == router.loaded /\ ~overtaken => router.routes = Routes

-----------------------------------------------------------------------------
(* The counts.                                                              *)
VARIABLES buffer,     \* _pending_success and _pending_fail
          flight,     \* what a flush has taken out of them
          flusher,    \* where the background task is, with the shutdown that stops it
          stored,     \* success_count and fail_count
          ticks,      \* history: calls that were counted
          lost, twice \* history: was a flush cut off or its row deleted; a commit reported as failed
countersVars == <<buffer, flight, flusher, stored, ticks, lost, twice>>

CountersInit ==
  /\ buffer = 0 /\ flight = 0 /\ flusher = "none" /\ stored = 0 /\ ticks = 0
  /\ lost = FALSE /\ twice = FALSE

(* buffer_track_result starts the flusher when there is none.  An answer    *)
(* counts as a success or, when it is empty, as a failure; a call that      *)
(* raises is not counted.                                                   *)
BufferTick ==
  /\ ticks < MaxTicks /\ flusher # "closed"
  /\ ticks' = ticks + 1 /\ buffer' = buffer + 1
  /\ flusher' = IF flusher = "none" THEN "sleep" ELSE flusher
  /\ UNCHANGED <<flight, stored, lost, twice>>

(* flush_pending_counts empties the buffers under their lock.               *)
TakeTicks ==
  /\ flusher \in {"sleep", "stopped"} /\ buffer > 0
  /\ flight' = buffer /\ buffer' = 0
  /\ flusher' = IF flusher = "sleep" THEN "flush" ELSE "drain"
  /\ UNCHANGED <<stored, ticks, lost, twice>>

AfterFlush == IF flusher = "flush" THEN "sleep" ELSE "closed"
Flushing == flusher \in {"flush", "drain"}

(* One transaction adds what was taken to rows that may be deleted by now.  *)
FlushTicks ==
  /\ Flushing
  /\ \E n \in 0 .. flight :
       /\ stored' = stored + n
       /\ lost' = (lost \/ n < flight)
  /\ flight' = 0 /\ flusher' = AfterFlush
  /\ UNCHANGED <<buffer, ticks, twice>>

\* The snapshot replaces what was buffered meanwhile (a defect to look for).
Replaced == flight

(* An exception puts everything back, also when the commit had got through. *)
Rebuffered == buffer + flight
FlushFails ==
  /\ Flushing
  /\ buffer' = Rebuffered /\ flight' = 0 /\ flusher' = AfterFlush
  /\ \/ UNCHANGED <<stored, twice>>
     \/ /\ ~twice                                 \* bound: once
        /\ stored' = stored + flight /\ twice' = TRUE
  /\ UNCHANGED <<ticks, lost>>

(* stop_flusher waits five seconds for a flush and then cancels it: no      *)
(* except clause runs.  So does the end of a Celery task's event loop, from *)
(* which the next task goes on with the buffer.                             *)
StopFlusher ==
  /\ flusher \in {"sleep", "flush"}
  /\ flusher' \in {"stopped", "none"}
  /\ flight' = 0 /\ lost' = (lost \/ flight > 0)
  /\ UNCHANGED <<buffer, stored, ticks, twice>>

NothingLeft ==
  /\ flusher = "stopped" /\ buffer = 0
  /\ flusher' = "closed"
  /\ UNCHANGED <<buffer, flight, stored, ticks, lost, twice>>

CountersNext == BufferTick \/ TakeTicks \/ FlushTicks \/ FlushFails \/ StopFlusher \/ NothingLeft

CountersSpec == CountersInit /\ [][CountersNext]_countersVars
-----------------------------------------------------------------------------
CountersTypeOK ==
  /\ {buffer, flight, stored, ticks} \subseteq Nat
  /\ flusher \in {"none", "sleep", "flush", "stopped", "drain", "closed"}

(* "restore the buffers so we don't lose ticks": every call is counted, and *)
(* counted once, whatever is buffered during a flush, unless a flush was    *)
(* cut off, a row was deleted, or a commit that got through was reported as *)
(* failed.                                                                  *)
TicksKept ==
  LET counted == buffer + flight + stored IN
  (~lost => counted >= ticks) /\ (~twice => counted <= ticks)
=============================================================================
