------------------------------- MODULE LLMCalls -------------------------------
(***************************************************************************)
(* A call of the language model (engine/llm.py): the attempts of           *)
(* chat_json, of the structured modes and their fallback, of the stream,   *)
(* the wall clock deadline, what is recorded of each call, and the content *)
(* cache (cache.py) the cached stages put before it.                       *)
(*                                                                         *)
(* An answer of the provider is one of the classes the client tells apart. *)
(***************************************************************************)
EXTENDS Naturals, Sequences, SequencesExt, Folds

CONSTANTS
  Stages,        \* bound: the calls, each with its own client
  KeyOf(_),      \* stage -> its cache key (tenant, model, prompt version, content)
  Methods,       \* bound: the methods a stage may call
  MaxRetries,    \* max_retries of the client
  MaxTokens, TokenCap, \* first output budget and its cap
  Uncached

Valid     == {"good"}
Objects   == {"good", "badSchema"}                 \* content parses as a JSON object
CutOff    == {"emptyLength", "cutLength"}          \* finish_reason = length
Empties   == {"empty", "emptyLength"}              \* content without "{"
Unparsed  == Empties \union {"cutLength", "garbled"}
HttpFails == {"http400", "httpOther"}
Replies   == Objects \union Unparsed \union HttpFails \union {"lost", "deadline"}
Modes     == {"chat_json", "provider", "json_mode", "stream"}

ASSUME LLMAssumption ==
  /\ MaxRetries \in Nat /\ MaxTokens \in Nat \ {0} /\ TokenCap \in Nat /\ MaxTokens <= TokenCap
  /\ Methods \subseteq Modes

VARIABLES
  cached,   \* cache key -> the stage whose answer it holds, or Uncached
  setup,    \* stage -> its method, whether transport errors are retried, whether it has a deadline
  frames,   \* stage -> the methods it is in, the innermost last
  step,     \* stage -> start, calling, putting, done
  outcome,  \* stage -> none, ok, or the code of its failure
  client,   \* stage -> whether its HTTP client is open
  posts,    \* stage -> requests sent, and those sent on a closed client
  observed  \* stage -> the records of _observe_llm_call

llmVars == <<cached, setup, frames, step, outcome, client, posts, observed>>

LLMInit ==
  /\ cached = [k \in {KeyOf(s) : s \in Stages} |-> Uncached]
  /\ setup \in [Stages -> [entry : Methods, short : BOOLEAN, timed : BOOLEAN]]
  /\ frames = [s \in Stages |-> <<>>] /\ step = [s \in Stages |-> "start"]
  /\ outcome = [s \in Stages |-> "none"] /\ client = [s \in Stages |-> "open"]
  /\ posts = [s \in Stages |-> [sent |-> 0, closed |-> 0]]
  /\ observed = [s \in Stages |-> <<>>]

Frame(mode) == [mode |-> mode, attempt |-> 0, budget |-> MaxTokens]
Top(s)      == Last(frames[s])
LastTry(s)  == Top(s).attempt = MaxRetries

(***************************************************************************)
(* The cached stages: diagnose_resume, profile_jd, analyze_gaps, ...       *)
(***************************************************************************)
Hit(s) == cached[KeyOf(s)] # Uncached

CacheGet(s) ==
  /\ step[s] = "start"
  /\ IF Hit(s)
       THEN /\ step' = [step EXCEPT ![s] = "done"] /\ outcome' = [outcome EXCEPT ![s] = "ok"]
            /\ UNCHANGED frames
       ELSE /\ step' = [step EXCEPT ![s] = "calling"] /\ UNCHANGED outcome
            /\ frames' = [frames EXCEPT ![s] = <<Frame(setup[s].entry)>>]
  /\ UNCHANGED <<cached, setup, client, posts, observed>>

CachePut(s) ==
  /\ step[s] = "putting"
  /\ cached' = [cached EXCEPT ![KeyOf(s)] = s]
  /\ step' = [step EXCEPT ![s] = "done"]
  /\ UNCHANGED <<setup, frames, outcome, client, posts, observed>>

\* The entry's time is over: it is not served, and pruned sooner or later.
CacheExpire(k) ==
  /\ cached[k] # Uncached
  /\ cached' = [cached EXCEPT ![k] = Uncached]
  /\ UNCHANGED <<setup, frames, step, outcome, client, posts, observed>>

(***************************************************************************)
(* What becomes of a call after an answer.                                 *)
(***************************************************************************)
\* Mutant: what an outer method did before its fallback is not recorded.
RecordsOfTheLast(s, status) == <<[attempts |-> Top(s).attempt + 1, status |-> status]>>

\* Every method of the stack that makes requests records its own attempts, the failing and
\* the outer ones as failed.
Records(s, status) ==
  LET inward == Reverse(frames[s])
  IN  [k \in DOMAIN inward |->
        [attempts |-> inward[k].attempt + 1, status |-> IF k = 1 THEN status ELSE "failed"]]

_observe_llm_call(s, status) == observed' = [observed EXCEPT ![s] = @ \o Records(s, status)]

Succeed(s) ==
  /\ _observe_llm_call(s, "ok")
  /\ frames' = [frames EXCEPT ![s] = <<>>]
  /\ outcome' = [outcome EXCEPT ![s] = "ok"]
  /\ step' = [step EXCEPT ![s] = "putting"]

Fail(s, code) ==
  /\ _observe_llm_call(s, "failed")
  /\ frames' = [frames EXCEPT ![s] = <<>>]
  /\ outcome' = [outcome EXCEPT ![s] = code]
  /\ step' = [step EXCEPT ![s] = "done"]

Doubled(f) == [f EXCEPT !.budget = IF 2 * @ < TokenCap THEN 2 * @ ELSE TokenCap]

\* One more attempt of the same method.
Again(s, f) ==
  /\ frames' = [frames EXCEPT ![s][Len(frames[s])] = [f EXCEPT !.attempt = @ + 1]]
  /\ UNCHANGED <<step, outcome, observed>>

\* The provider's schema mode gives way to JSON mode, with the first budget and all attempts.
FallBack(s) ==
  /\ frames' = [frames EXCEPT ![s] = Append(@, Frame("json_mode"))]
  /\ UNCHANGED <<step, outcome, observed>>

ParseCode(reply) == IF reply \in Empties THEN "empty" ELSE "parse"

\* Mutant: a deadline is retried like a lost connection.
RetriesAllTransport(s, reply) == setup[s].short /\ ~LastTry(s)

\* Transport errors are retried for short roles, an exceeded deadline never.
RetriesTransport(s, reply) == setup[s].short /\ ~LastTry(s) /\ reply # "deadline"

Transport(s, reply) ==
  IF RetriesTransport(s, reply) THEN Again(s, Top(s)) ELSE Fail(s, "timeout")

OnHttp(s, reply) ==
  IF LastTry(s) THEN \E code \in {"quota", "auth", "rate_limit", "http"} : Fail(s, code) ELSE Again(s, Top(s))

(***************************************************************************)
(* The methods.                                                            *)
(***************************************************************************)
\* Without a schema: only an answer without an object is retried with a larger budget.
chat_json(s, reply) ==
  CASE reply \in Objects -> Succeed(s)
    [] reply \in Unparsed /\ LastTry(s) -> Fail(s, ParseCode(reply))
    [] reply \in Unparsed /\ ~LastTry(s) -> Again(s, IF reply = "emptyLength" THEN Doubled(Top(s)) ELSE Top(s))
    [] reply \in HttpFails -> OnHttp(s, reply)
    [] OTHER -> Transport(s, reply)

_chat_structured_provider(s, reply) ==
  CASE reply \in Valid -> Succeed(s)
    [] reply = "http400" \/ (LastTry(s) /\ reply \in Unparsed \union {"badSchema"}) -> FallBack(s)
    [] reply \in Unparsed \union {"badSchema"} /\ ~LastTry(s) ->
         Again(s, IF reply \in CutOff THEN Doubled(Top(s)) ELSE Top(s))
    [] reply = "httpOther" -> OnHttp(s, reply)
    [] OTHER -> Transport(s, reply)

_chat_structured_json_mode(s, reply) ==
  CASE reply \in Valid -> Succeed(s)
    [] reply \in Unparsed \union {"badSchema"} /\ LastTry(s) ->
         Fail(s, IF reply = "badSchema" THEN "schema" ELSE ParseCode(reply))
    [] reply \in Unparsed \union {"badSchema"} /\ ~LastTry(s) ->
         Again(s, IF reply \in CutOff THEN Doubled(Top(s)) ELSE Top(s))
    [] reply \in HttpFails -> OnHttp(s, reply)
    [] OTHER -> Transport(s, reply)

\* One attempt; a stall or a broken connection is an error of its own.
stream_chat_json(s, reply) ==
  CASE reply \in Objects -> Succeed(s)
    [] reply \in Unparsed -> Fail(s, ParseCode(reply))
    [] OTHER -> Fail(s, "stream")

\* One request and its answer; an exceeded deadline closes the client.  The stream has none.
Post(s, reply) ==
  /\ step[s] = "calling"
  /\ reply = "deadline" => setup[s].timed /\ Top(s).mode # "stream"
  /\ posts' = [posts EXCEPT ![s].sent = @ + 1, ![s].closed = IF client[s] = "open" THEN @ ELSE @ + 1]
  /\ client' = [client EXCEPT ![s] = IF reply = "deadline" THEN "closed" ELSE @]
  /\ CASE Top(s).mode = "chat_json" -> chat_json(s, reply)
       [] Top(s).mode = "provider"  -> _chat_structured_provider(s, reply)
       [] Top(s).mode = "json_mode" -> _chat_structured_json_mode(s, reply)
       [] OTHER                     -> stream_chat_json(s, reply)
  /\ UNCHANGED <<cached, setup>>

LLMNext ==
  \/ \E s \in Stages : CacheGet(s) \/ CachePut(s) \/ \E reply \in Replies : Post(s, reply)
  \/ \E k \in DOMAIN cached : CacheExpire(k)

LLMSpec == LLMInit /\ [][LLMNext]_llmVars

(***************************************************************************)
(* Properties.                                                             *)
(***************************************************************************)
\* Budgets stay under the cap, attempts under the retries, a call makes at most two rounds
\* of attempts, and the frames are those of one method and its fallback.
LLMTypeOK ==
  /\ \A k \in DOMAIN cached : cached[k] = Uncached \/ KeyOf(cached[k]) = k
  /\ \A s \in Stages :
       /\ Len(frames[s]) <= 2 /\ (step[s] = "calling") = (frames[s] # <<>>)
       /\ \A k \in DOMAIN frames[s] : frames[s][k].attempt <= MaxRetries /\ frames[s][k].budget <= TokenCap
       /\ posts[s].sent <= 2 * (MaxRetries + 1)

\* No request is sent through a client whose deadline closed it: the call is over then.
DeadlineEndsTheCall == \A s \in Stages : posts[s].closed = 0

\* What is recorded of a call that is over adds up to the requests it sent, fallbacks
\* included, and it has one successful record exactly when the call succeeded.
CallsAreAccounted ==
  \A s \in Stages : frames[s] = <<>> =>
    /\ posts[s].sent = FoldLeft(LAMBDA n, r : n + r.attempts, 0, observed[s])
    /\ posts[s].sent > 0 =>
         (outcome[s] = "ok")
           = (Cardinality({k \in DOMAIN observed[s] : observed[s][k].status = "ok"}) = 1)
===============================================================================
