---------------------------- MODULE ModelRouter ----------------------------
(***************************************************************************)
(* Calls of language models (services/model_router.py,                     *)
(* services/llm_retry.py).  A call walks a list of endpoints, the routed   *)
(* one first, then tier by tier; a transient error is retried at the same  *)
(* endpoint; a stream moves on only while nothing of it has been handed    *)
(* out.  Requests to an OpenAI-compatible endpoint take turns: a FIFO lock *)
(* per endpoint, and a time before which the next request may not start.   *)
(* The caller may be cancelled at any moment.                              *)
(*                                                                         *)
(* Endpoints with the same base URL and model share one lock; here every   *)
(* endpoint has its own.  Requests for embeddings have their own provider, *)
(* which takes its API keys in turn and waits for nobody; its endpoint is  *)
(* never asked for chat.  A router without such a provider is left out.    *)
(***************************************************************************)
EXTENDS Naturals, Sequences, FiniteSets, SequencesExt, FiniteSetsExt

CONSTANTS Endpoints,
          Registry,      \* the endpoints with a tier, in the order they were loaded
          Tier,          \* their tiers
          Providers,     \* the endpoints chat can be asked of
          OpenAI,        \* those asked through call_with_retry
          Throttled,     \* those of them with a base URL
          None,
          Keys,          \* number of API keys for embeddings
          Callers,
          Attempts,      \* of call_with_retry
          MinInterval, Cooldown,
          MaxTime        \* bound on the clock

RouterAssumption ==
  /\ Registry \in Seq(Endpoints) /\ Providers \subseteq Endpoints
  /\ Throttled \subseteq OpenAI /\ OpenAI \subseteq Providers /\ None \notin Endpoints
  /\ {Attempts, MinInterval, Cooldown, MaxTime} \subseteq Nat /\ Keys \in Nat \ {0}

VARIABLES call,     \* the locals of each caller
          lock,     \* _OPENAI_COMPAT_RATE_LOCKS: the holder and who waits for it
          nextAt,   \* _OPENAI_COMPAT_NEXT_AT
          last,     \* history: when the last request started
          cooled,   \* history: until when the last cooldown lasts
          keyIdx,   \* the next key, of NvidiaEmbeddingProvider
          now
routerVars == <<call, lock, nextAt, last, cooled, keyIdx, now>>

DefaultChain == <<"flagship", "standard", "small">>
CheapChain == <<"small", "distill", "standard", "flagship">>      \* of the foreshadows

OfTier(t) == {e \in Providers : Tier[e] = t}
Chat == {e \in Providers : Tier[e] # "embedding"}

\* One pass over what is loaded: attempts of S that are not yet in the list.
Pass(attempts, S) ==
  LET upTo[i \in 0 .. Len(Registry)] ==
        IF i = 0 THEN attempts
        ELSE IF Registry[i] \in S \ ToSet(upTo[i - 1]) THEN Append(upTo[i - 1], Registry[i]) ELSE upTo[i - 1]
  IN upTo[Len(Registry)]

(* _build_tier_attempts: a pass for every tier of the chain and a last one  *)
(* for the rest.  A prompt's tier is only passed together with a route, and *)
(* then it is not looked at.                                                *)
Routed(route) == IF route \in Providers THEN <<route>> ELSE <<>>
BuildTierAttempts(route, chain) ==
  LET upTo[k \in 0 .. Len(chain)] ==
        IF k = 0 THEN Routed(route) ELSE Pass(upTo[k - 1], OfTier(chain[k]))
  IN Pass(upTo[Len(chain)], Chat)

\* The endpoint a task type is routed to, or the first that is there for chat.
GetRoute(route) ==
  IF route \in Providers THEN <<route>>
  ELSE LET chat == Pass(<<>>, Chat) IN IF chat = <<>> THEN <<>> ELSE <<Head(chat)>>

(* walks: the call goes on to other endpoints; keys: what an embedding was   *)
(* asked with; met: another embedding took a key since it began.            *)
NoCall == [pc |-> "idle", stream |-> FALSE, walks |-> FALSE, left |-> <<>>, failed |-> {}, try |-> 1,
           wake |-> 0, from |-> {}, keys |-> {}, met |-> FALSE, outcome |-> "none"]

RouterInit ==
  /\ call = [c \in Callers |-> NoCall]
  /\ lock = [e \in Throttled |-> <<>>]
  /\ nextAt = [e \in Throttled |-> 0]
  /\ last = [e \in Throttled |-> 0] /\ cooled = [e \in Throttled |-> 0]
  /\ keyIdx = 0
  /\ now = MinInterval             \* so that 0 is long ago

Is(c, step) == call[c].pc = step
Ep(c) == Head(call[c].left)
SetCall(c, r) == call' = [call EXCEPT ![c] = r]
Over(c, outcome) == [call[c] EXCEPT !.pc = "done", !.outcome = outcome]

Start(c, stream, walks, left) ==
  /\ Is(c, "idle")
  /\ SetCall(c, [NoCall EXCEPT !.stream = stream, !.walks = walks, !.left = left,
                    !.pc = IF left = <<>> THEN "done" ELSE "turn",
                    !.outcome = IF left = <<>> THEN "error" ELSE "none"])
  /\ UNCHANGED <<lock, nextAt, last, cooled, keyIdx, now>>

\* A prompt of the registry has a route, whose endpoint may not be there.
RunTextPrompt(c) ==
  \E route \in Endpoints \cup {None} : Start(c, FALSE, TRUE, BuildTierAttempts(route, DefaultChain))
StreamTextPrompt(c) ==
  \E route \in Endpoints \cup {None} : Start(c, TRUE, TRUE, BuildTierAttempts(route, DefaultChain))

\* Evaluators, checkers and hooks name no route.
AskTiers(c) ==
  \E chain \in {DefaultChain, CheapChain} : Start(c, FALSE, TRUE, BuildTierAttempts(None, chain))

\* Outlines and rewrites ask one endpoint.
Generate(c) ==
  \E stream \in BOOLEAN, route \in Endpoints \cup {None} : Start(c, stream, FALSE, GetRoute(route))

(* The next attempt, at the same endpoint or at the next one.               *)
AskTurn(c) ==
  /\ Is(c, "turn") /\ Ep(c) \in Throttled
  /\ lock' = [lock EXCEPT ![Ep(c)] = Append(@, c)]
  /\ SetCall(c, [call[c] EXCEPT !.pc = "queued"])
  /\ UNCHANGED <<nextAt, last, cooled, keyIdx, now>>

\* Anthropic's endpoints and those without a base URL are asked at once.
AskAtOnce(c) ==
  /\ Is(c, "turn") /\ Ep(c) \notin Throttled
  /\ SetCall(c, [call[c] EXCEPT !.pc = "calling"])
  /\ UNCHANGED <<lock, nextAt, last, cooled, keyIdx, now>>

Unlocked(c) == TRUE   \* mutant
Holds(c) == Head(lock[Ep(c)]) = c

\* The holder reads the time it has to wait for, and sleeps with the lock.
TakeTurn(c) ==
  /\ Is(c, "queued") /\ Holds(c)
  /\ SetCall(c, [call[c] EXCEPT !.pc = "asleep", !.wake = nextAt[Ep(c)]])
  /\ UNCHANGED <<lock, nextAt, last, cooled, keyIdx, now>>

StartRequest(c) ==
  /\ Is(c, "asleep") /\ now >= call[c].wake
  /\ nextAt' = [nextAt EXCEPT ![Ep(c)] = now + MinInterval]
  /\ last' = [last EXCEPT ![Ep(c)] = now]
  /\ lock' = [lock EXCEPT ![Ep(c)] = RemoveFirst(@, c)]
  /\ SetCall(c, [call[c] EXCEPT !.pc = "calling"])
  /\ UNCHANGED <<cooled, keyIdx, now>>

-----------------------------------------------------------------------------
(* The answers of a provider.                                               *)
NextAttempt(c) ==
  IF ~call[c].walks \/ Len(call[c].left) = 1
  THEN [Over(c, "error") EXCEPT !.failed = @ \cup {Ep(c)}]
  ELSE [call[c] EXCEPT !.pc = "turn", !.failed = @ \cup {Ep(c)}, !.left = Tail(@), !.try = 1]

Chunk(c) ==
  /\ Is(c, "calling") /\ call[c].stream
  /\ SetCall(c, [call[c] EXCEPT !.from = @ \cup {Ep(c)}])
  /\ UNCHANGED <<lock, nextAt, last, cooled, keyIdx, now>>

\* An answer without content is an answer.
Answer(c) ==
  /\ Is(c, "calling")
  /\ \/ ~call[c].stream /\ SetCall(c, [Over(c, "text") EXCEPT !.from = {Ep(c)}])
     \/ call[c].from # {} /\ SetCall(c, Over(c, "text"))
     \/ /\ call[c].from = {}
        /\ SetCall(c, IF Ep(c) \in Throttled THEN [call[c] EXCEPT !.pc = "cool"] ELSE Over(c, "empty"))
  /\ UNCHANGED <<lock, nextAt, last, cooled, keyIdx, now>>

\* _cooldown_openai_compat_empty queues for the lock like a request.
AskCooldown(c) ==
  /\ Is(c, "cool")
  /\ lock' = [lock EXCEPT ![Ep(c)] = Append(@, c)]
  /\ SetCall(c, [call[c] EXCEPT !.pc = "cooling"])
  /\ UNCHANGED <<nextAt, last, cooled, keyIdx, now>>

Cool(c) ==
  /\ Is(c, "cooling") /\ Holds(c)
  /\ nextAt' = [nextAt EXCEPT ![Ep(c)] = Max({@, now + Cooldown})]
  /\ cooled' = [cooled EXCEPT ![Ep(c)] = now + Cooldown]
  /\ lock' = [lock EXCEPT ![Ep(c)] = Tail(@)]
  /\ SetCall(c, Over(c, "empty"))
  /\ UNCHANGED <<last, keyIdx, now>>

(* Only requests that are not streamed are retried, and what an attempt had *)
(* received is dropped.                                                     *)
TransientError(c) ==
  /\ Is(c, "calling") /\ ~call[c].stream /\ Ep(c) \in OpenAI
  /\ call[c].try < Attempts
  /\ SetCall(c, [call[c] EXCEPT !.pc = "turn", !.try = @ + 1])
  /\ UNCHANGED <<lock, nextAt, last, cooled, keyIdx, now>>

ErrorIn(c) ==
  /\ Is(c, "calling")
  /\ SetCall(c, IF call[c].from # {} THEN Over(c, "broken") ELSE NextAttempt(c))
  /\ UNCHANGED <<lock, nextAt, last, cooled, keyIdx, now>>

-----------------------------------------------------------------------------
(* An embedding.  Each attempt takes the next key; all its attempts are at  *)
(* the one endpoint.                                                        *)
Embed(c) ==
  /\ Is(c, "idle")
  /\ SetCall(c, [NoCall EXCEPT !.pc = "key"])
  /\ UNCHANGED <<lock, nextAt, last, cooled, keyIdx, now>>

NextKey(c) ==
  /\ Is(c, "key")
  /\ call' = [d \in Callers |->
       IF d = c THEN [call[c] EXCEPT !.pc = "embedding", !.keys = @ \cup {keyIdx}]
       ELSE IF call[d].pc \in {"key", "embedding"} THEN [call[d] EXCEPT !.met = TRUE] ELSE call[d]]
  /\ keyIdx' = (keyIdx + 1) % Keys
  /\ UNCHANGED <<lock, nextAt, last, cooled, now>>

Embedded(c) ==
  /\ Is(c, "embedding")
  /\ \/ SetCall(c, Over(c, "vector"))
     \/ call[c].try < Attempts /\ SetCall(c, [call[c] EXCEPT !.pc = "key", !.try = @ + 1])
     \/ SetCall(c, Over(c, "error"))        \* an error that is not transient, or the last
  /\ UNCHANGED <<lock, nextAt, last, cooled, keyIdx, now>>

-----------------------------------------------------------------------------
Cancel(c) ==
  /\ call[c].pc \notin {"idle", "done"}
  /\ lock' = [e \in Throttled |-> RemoveFirst(lock[e], c)]
  /\ SetCall(c, Over(c, "cancelled"))
  /\ UNCHANGED <<nextAt, last, cooled, keyIdx, now>>

Tick ==
  /\ now < MaxTime /\ now' = now + 1
  /\ UNCHANGED <<call, lock, nextAt, last, cooled, keyIdx>>

RouterNext ==
  \/ Tick
  \/ \E c \in Callers :
       \/ RunTextPrompt(c) \/ StreamTextPrompt(c) \/ AskTiers(c) \/ Generate(c)
       \/ Embed(c) \/ NextKey(c) \/ Embedded(c)
       \/ AskTurn(c) \/ AskAtOnce(c) \/ TakeTurn(c) \/ StartRequest(c) \/ Chunk(c) \/ Answer(c)
       \/ AskCooldown(c) \/ Cool(c) \/ TransientError(c) \/ ErrorIn(c) \/ Cancel(c)

-----------------------------------------------------------------------------
RouterTypeOK ==
  /\ \A c \in Callers : ToSet(call[c].left) \cup call[c].failed \cup call[c].from \subseteq Providers
  /\ \A e \in Throttled : ToSet(lock[e]) \subseteq Callers /\ nextAt[e] \in Nat

(* However the callers queue, sleep, are cancelled and cool down: two       *)
(* requests to one endpoint start at least MinInterval apart, and none      *)
(* starts before the cooldown that was last recorded is over.               *)
SpacedTurn ==
  \A e \in Throttled : last'[e] # last[e] => now >= last[e] + MinInterval /\ now >= cooled[e]

(* What a consumer was handed comes from one endpoint, the one asked last;  *)
(* and a call that reports failure has failed at every endpoint that could  *)
(* have served it, at each exactly once.                                    *)
FallbackSound ==
  \A c \in Callers :
    /\ call[c].from # {} => call[c].from = {Ep(c)}
    /\ call[c].outcome = "error" /\ call[c].walks =>
         {e \in ToSet(Registry) \cap Providers : Tier[e] # "embedding"} \subseteq call[c].failed
    /\ call[c].left # <<>> /\ call[c].outcome # "error" => ToSet(call[c].left) \cap call[c].failed = {}

(* "if key A is rate-limited, the next attempt round-robins to B": an        *)
(* embedding that met no other has had as many keys as attempts, or all.    *)
KeysRotate ==
  \A c \in Callers : ~call[c].met /\ call[c].pc = "embedding" =>
    Cardinality(call[c].keys) = Min({call[c].try, Keys})
=============================================================================
