------------------------------- MODULE Gateway -----------------------------
(***************************************************************************)
(* The model gateway (crates/model-gateway/src/gateway.rs): ordered        *)
(* fallback over providers, retries, a circuit breaker per provider, a     *)
(* global and a per-model concurrency limit, the response cache and the    *)
(* budget, all shared by concurrent callers.                               *)
(*                                                                         *)
(* A caller's steps are cut where the code awaits or takes another lock:   *)
(* the breaker's failure count is an atomic beside the mutex of opened_at, *)
(* and the cache is a concurrent map beside the mutex of its eviction      *)
(* order.  Providers are external: each call succeeds, or fails with an    *)
(* error that is or is not retryable.  Time is a counter; backing off is   *)
(* any delay before the next permit.  Of the running totals only the cost  *)
(* steers anything and is kept.  No request here sets stop sequences.      *)
(***************************************************************************)
EXTENDS Integers, Sequences, FiniteSets, Functions

CONSTANTS
    Callers,
    Asks,               \* [caller -> its requests]: kind, model, prompt, options, bypass
    Providers,          \* sequence of names, in fallback order
    Supports,           \* [provider -> set of models], ModelProvider::supports_model
    Cost,               \* [model -> Nat], what one response of the model costs
    NoLimit,            \* model_limits has no entry for the model
    ModelLimit,         \* [model -> limit], and_model_limit
    max_concurrent, cache_enabled, cache_capacity, max_attempts,
    circuit_failure_threshold, circuit_reset, budget,
    MaxCalls, MaxNow    \* bounds: calls made, clock ticks

Requests == UNION {Asks[c] : c \in Callers}
Models == DOMAIN Cost
Names == Range(Providers)
Never == -1

ASSUME GatewayAssumption ==
    /\ DOMAIN Supports = Names /\ ModelLimit = [m \in Models |-> ModelLimit[m]]
    /\ IsFiniteSet(Callers) /\ Callers # {}
    /\ \A r \in Requests : r.model \in Models /\ r.kind \in {"complete", "stream", "health"}
    /\ \E m \in Models : \A k \in Models : Cost[k] <= Cost[m]
    /\ \A m \in Models : Cost[m] \in Nat /\ (ModelLimit[m] = NoLimit \/ ModelLimit[m] \in Nat \ {0})
    /\ {max_concurrent, max_attempts, circuit_failure_threshold, circuit_reset,
        cache_capacity, budget, MaxCalls, MaxNow} \subseteq Nat \ {0}
    /\ cache_enabled \in BOOLEAN

VARIABLES
    now,        \* Instant::now()
    breaker,    \* [provider -> consecutive_failures, opened_at]
    permits,    \* free permits of the global semaphore
    lanes,      \* [model -> free permits of its semaphore], model_permits
    cache,      \* cache key -> response
    order,      \* cache_order
    cost,       \* Usage::cost_usd
    calls,      \* [caller -> its call]
    made,       \* calls made so far
    pressed     \* [provider -> attempts begun since its breaker opened]

shared == <<breaker, cache, order, cost, permits, lanes>>
vars == <<now, breaker, permits, lanes, cache, order, cost, calls, made, pressed>>

(* A new breaker and the state of one caller.  NoRequest and NoResponse    *)
(* are what an idle caller holds.                                          *)
Breaker == [failures |-> 0, opened_at |-> Never]
NoRequest == "none"
NoResponse == "none"
Idle == [pc |-> "idle", req |-> NoRequest, at |-> 0, attempt |-> 0,
         retryable |-> FALSE, response |-> NoResponse]

\* CompletionRequest::cache_key: what changes the answer, without the bypass
\* flag, the idempotency key and the attribution.
cache_key(r) == <<r.model, r.prompt, r.options>>

\* The providers a request goes through: those serving its model for a
\* completion, every one for a stream or a health report, which look at the
\* breaker first.
candidates == [r \in Requests |->
    IF r.kind = "complete" THEN SelectSeq(Providers, LAMBDA p : r.model \in Supports[p])
                           ELSE Providers]

Provider(c) == candidates[calls[c].req][calls[c].at]

Init ==
    /\ now = 0 /\ made = 0
    /\ breaker = [p \in Names |-> Breaker]
    /\ permits = max_concurrent
    /\ lanes = ModelLimit
    /\ cache = [k \in {} |-> NoResponse] /\ order = <<>>
    /\ cost = 0
    /\ calls = [c \in Callers |-> Idle]
    /\ pressed = [p \in Names |-> 0]

Goto(c, pc) == calls' = [calls EXCEPT ![c].pc = pc]
Finish(c) == calls' = [calls EXCEPT ![c] = Idle]

-----------------------------------------------------------------------------
(* Starting a call.  A completion looks in the cache, then at the budget,  *)
(* then for providers.                                                     *)

\* The answer of a cache hit, marked as cached.
Hit(c, r) ==
    calls' = [calls EXCEPT ![c] =
        [Idle EXCEPT !.pc = "hit", !.req = r, !.response = cache[cache_key(r)]]]

Cached(r) == cache_enabled /\ ~r.bypass /\ cache_key(r) \in DOMAIN cache

OverBudgetReported == FALSE
OverBudget == cost >= budget

complete(c, r) ==
    /\ r.kind = "complete"
    /\ IF Cached(r) THEN Hit(c, r)
       ELSE calls' = IF OverBudget \/ candidates[r] = <<>> THEN calls
                     ELSE [calls EXCEPT ![c] =
                              [Idle EXCEPT !.pc = "route", !.req = r, !.at = 1]]
    /\ UNCHANGED <<shared, pressed>>

\* Gateway::stream and Gateway::health walk the providers from the first.
walk(c, r) ==
    /\ r.kind \in {"stream", "health"}
    /\ calls' = [calls EXCEPT ![c] = [Idle EXCEPT !.pc = "route", !.req = r, !.at = 1]]
    /\ UNCHANGED <<shared, pressed>>

Begin(c) ==
    /\ calls[c].pc = "idle" /\ made < MaxCalls
    /\ made' = made + 1
    /\ \E r \in Asks[c] : complete(c, r) \/ walk(c, r)
    /\ UNCHANGED now

-----------------------------------------------------------------------------
(* The circuit breaker and the choice of a provider.                       *)

\* Opened less than circuit_reset ago.
IsOpen(p) == breaker[p].opened_at # Never /\ now - breaker[p].opened_at < circuit_reset

CircuitMayProbe(p, open) ==
    /\ open = FALSE
    /\ breaker' = IF breaker[p].opened_at # Never /\ ~IsOpen(p)
                    THEN [breaker EXCEPT ![p] = Breaker] ELSE breaker
    /\ pressed' = IF breaker'[p] # breaker[p] THEN [pressed EXCEPT ![p] = 0] ELSE pressed

\* circuit_is_open under the breaker's lock: a breaker whose reset time has
\* passed is closed and its count forgotten, whoever asks.
circuit_is_open(p, open) ==
    /\ open = IsOpen(p)
    /\ breaker' = IF breaker[p].opened_at # Never /\ ~open
                    THEN [breaker EXCEPT ![p] = Breaker] ELSE breaker
    /\ pressed' = IF breaker'[p] # breaker[p] THEN [pressed EXCEPT ![p] = 0] ELSE pressed

\* On to the next provider; the call returns when there is none.
NextProvider(c) ==
    LET x == calls[c] IN
    calls' = [calls EXCEPT ![c] =
        IF x.at < Len(candidates[x.req])
          THEN [x EXCEPT !.pc = "route", !.at = @ + 1, !.attempt = 0, !.retryable = FALSE]
          ELSE Idle]

Route(c) ==
    LET r == calls[c].req  p == Provider(c) IN
    /\ calls[c].pc = "route"
    /\ \E open \in BOOLEAN :
          /\ circuit_is_open(p, open)
          /\ CASE r.kind = "health" \/ open \/ r.model \notin Supports[p] -> NextProvider(c)
               [] r.kind = "stream" -> Goto(c, "opening")
               [] OTHER -> calls' = [calls EXCEPT ![c].pc = "permit", ![c].attempt = 1]
    /\ UNCHANGED <<now, made, cache, order, cost, permits, lanes>>

-----------------------------------------------------------------------------
(* One attempt: the global permit, then the model's, then the provider.    *)

Limited(c) == ModelLimit[calls[c].req.model] # NoLimit

\* The request is sent; the provider may have an open breaker,
\* because retries do not look at it again.
Send(c) ==
    LET p == Provider(c) IN
    /\ pressed' = IF IsOpen(p) THEN [pressed EXCEPT ![p] = @ + 1] ELSE pressed
    /\ Goto(c, "calling")

AcquireGlobal(c) ==
    /\ calls[c].pc = "permit" /\ permits > 0
    /\ permits' = permits - 1
    /\ IF Limited(c) THEN Goto(c, "lane") /\ UNCHANGED pressed ELSE Send(c)
    /\ UNCHANGED <<now, made, breaker, cache, order, cost, lanes>>

AcquireAnyLane(c) ==
    /\ calls[c].pc = "lane"
    /\ lanes' = lanes
    /\ Send(c)
    /\ UNCHANGED <<now, made, breaker, cache, order, cost, permits>>

AcquireModel(c) ==
    LET m == calls[c].req.model IN
    /\ calls[c].pc = "lane" /\ lanes[m] > 0
    /\ lanes' = [lanes EXCEPT ![m] = @ - 1]
    /\ Send(c)
    /\ UNCHANGED <<now, made, breaker, cache, order, cost, permits>>

\* Both permits are dropped when call_once returns, however it returns.
ReleaseGlobalOnly(c) == permits' = permits + 1 /\ lanes' = lanes
Release(c) ==
    /\ permits' = permits + 1
    /\ lanes' = IF Limited(c) THEN [lanes EXCEPT ![calls[c].req.model] = @ + 1] ELSE lanes

Answer(c) ==
    /\ calls[c].pc = "calling"
    /\ Release(c)
    /\ calls' = [calls EXCEPT ![c].pc = "answered",
          ![c].response = [provider |-> Provider(c), asked |-> calls[c].req]]
    /\ UNCHANGED <<now, made, breaker, cache, order, cost, pressed>>

Fail(c) ==
    /\ calls[c].pc = "calling"
    /\ Release(c)
    /\ \E retryable \in BOOLEAN :
          calls' = [calls EXCEPT ![c].pc = "failed", ![c].retryable = retryable]
    /\ UNCHANGED <<now, made, breaker, cache, order, cost, pressed>>

StreamOpens(c) ==
    /\ calls[c].pc = "opening"
    /\ Finish(c)
    /\ UNCHANGED <<now, made, shared, pressed>>

StreamFails(c) ==
    /\ calls[c].pc = "opening"
    /\ Goto(c, "failed")
    /\ UNCHANGED <<now, made, shared, pressed>>

-----------------------------------------------------------------------------
(* record_failure: the atomic count first, then, past the threshold, the   *)
(* lock of opened_at.                                                      *)

\* call_with_retries after a failed attempt; a stream tries each provider
\* once.
Onward(c) ==
    IF calls[c].retryable /\ calls[c].attempt < max_attempts
      THEN calls' = [calls EXCEPT ![c].pc = "permit", ![c].attempt = @ + 1,
                                  ![c].retryable = FALSE]
      ELSE NextProvider(c)

CountFailure(c) ==
    LET p == Provider(c) IN
    /\ calls[c].pc = "failed"
    /\ breaker' = [breaker EXCEPT ![p].failures = @ + 1]
    /\ IF breaker'[p].failures >= circuit_failure_threshold
         THEN Goto(c, "trip") ELSE Onward(c)
    /\ UNCHANGED <<now, made, cache, order, cost, permits, lanes, pressed>>

Trip(c) ==
    LET p == Provider(c) IN
    /\ calls[c].pc = "trip"
    /\ breaker' = IF breaker[p].opened_at = Never
                    THEN [breaker EXCEPT ![p].opened_at = now] ELSE breaker
    /\ Onward(c)
    /\ UNCHANGED <<now, made, cache, order, cost, permits, lanes, pressed>>

-----------------------------------------------------------------------------
(* record_success: the atomic count, the breaker's lock and the totals,    *)
(* the cache, and its order with the eviction.                             *)

ClearFailures(c) ==
    /\ calls[c].pc = "answered"
    /\ breaker' = [breaker EXCEPT ![Provider(c)].failures = 0]
    /\ Goto(c, "closing")
    /\ UNCHANGED <<now, made, cache, order, cost, permits, lanes, pressed>>

Close(c) ==
    LET p == Provider(c) IN
    /\ calls[c].pc = "closing"
    /\ breaker' = [breaker EXCEPT ![p].opened_at = Never]
    /\ pressed' = [pressed EXCEPT ![p] = 0]
    /\ cost' = cost + Cost[calls[c].req.model]
    /\ IF cache_enabled THEN Goto(c, "insert") ELSE Finish(c)
    /\ UNCHANGED <<now, made, cache, order, permits, lanes>>

Insert(c) ==
    LET key == cache_key(calls[c].req) IN
    /\ calls[c].pc = "insert"
    /\ cache' = [k \in DOMAIN cache \cup {key} |->
                    IF k = key THEN calls[c].response ELSE cache[k]]
    /\ calls' = [calls EXCEPT ![c].pc = "order", ![c].response = NoResponse]
    /\ UNCHANGED <<now, made, breaker, order, cost, permits, lanes, pressed>>

\* The order never holds more than the capacity between two pushes, so the
\* loop removes at most one key.
Push(c) ==
    LET pushed == Append(order, cache_key(calls[c].req))
        oldest == pushed[1] IN
    /\ calls[c].pc = "order"
    /\ IF Len(pushed) > cache_capacity
         THEN /\ order' = Tail(pushed)
              /\ cache' = [k \in DOMAIN cache \ {oldest} |-> cache[k]]
         ELSE order' = pushed /\ UNCHANGED cache
    /\ Finish(c)
    /\ UNCHANGED <<now, made, breaker, cost, permits, lanes, pressed>>

\* The caller takes the cached answer.
Return(c) ==
    /\ calls[c].pc = "hit"
    /\ Finish(c)
    /\ UNCHANGED <<now, made, shared, pressed>>

Step(c) ==
    \/ Route(c) \/ AcquireGlobal(c) \/ AcquireModel(c) \/ Answer(c) \/ Fail(c)
    \/ StreamOpens(c) \/ StreamFails(c) \/ CountFailure(c) \/ Trip(c)
    \/ ClearFailures(c) \/ Close(c) \/ Insert(c) \/ Push(c) \/ Return(c)

\* Time matters only while a breaker is open.
Tick ==
    /\ now < MaxNow /\ \E p \in Names : breaker[p].opened_at # Never
    /\ now' = now + 1
    /\ UNCHANGED <<shared, calls, made, pressed>>

Next == Tick \/ \E c \in Callers : Begin(c) \/ Step(c)

Spec == Init /\ [][Next]_vars

\* Every caller's task is polled, every provider answers or fails.
FairSpec == Spec /\ \A c \in Callers : WF_vars(Step(c))

-----------------------------------------------------------------------------
(* Properties.                                                             *)

Holding(pcs) == {c \in Callers : calls[c].pc \in pcs}

\* Every variable stays in its type.
TypeOK ==
    /\ now \in 0..MaxNow /\ made \in 0..MaxCalls
    /\ permits \in 0..max_concurrent
    /\ \A p \in Names : /\ breaker[p].failures \in Nat
                        /\ breaker[p].opened_at \in {Never} \cup 0..now
                        /\ pressed[p] \in Nat
    /\ \A m \in Models : ModelLimit[m] # NoLimit => lanes[m] \in Nat
    /\ Len(order) <= cache_capacity
    /\ \A c \in Callers : calls[c].pc # "idle" => calls[c].req \in Requests

\* Calls in flight: at most max_concurrent callers are at a provider or hold
\* the global permit while they wait for their model's, and at most the
\* model's limit are at a provider for one model (call_once).
LimitsHeld ==
    /\ permits = max_concurrent - Cardinality(Holding({"lane", "calling"}))
    /\ \A m \in Models : ModelLimit[m] # NoLimit =>
          Cardinality({c \in Holding({"calling"}) : calls[c].req.model = m}) <= ModelLimit[m]

\* The cache is bounded although the order may hold a key twice: a cached
\* key is in the order, or its caller is about to put it there
\* (record_success).
CacheBounded ==
    DOMAIN cache \subseteq
        Range(order) \cup {cache_key(calls[c].req) : c \in Holding({"order"})}

\* A cache hit answers the question that was asked: the response was given,
\* to this model, prompt and options, by a provider that serves the model,
\* and a caller that bypasses the cache is never served from it.
HitsAreHonest ==
    \A c \in Holding({"hit"}) :
        LET r == calls[c].req  asked == calls[c].response.asked IN
        /\ ~r.bypass
        /\ r.model = asked.model /\ r.prompt = asked.prompt /\ r.options = asked.options
        /\ r.model \in Supports[calls[c].response.provider]

\* The budget is read before a call and the cost is added after it, so the
\* spend passes the budget, but by no more than the calls that had read it:
\* one response of every caller, of the dearest model (complete,
\* record_success).
OverspendBounded ==
    \E m \in Models : cost < budget + Cardinality(Callers) * Cost[m]

\* A provider whose breaker is open is left alone: what still reaches it
\* are the attempts of the calls that were inside call_with_retries when it
\* opened, at most max_attempts for each caller and one less for the one
\* that opened it.
OpenBreakerShields ==
    \A p \in Names : pressed[p] < Cardinality(Callers) * max_attempts

\* Every call returns: no permit is lost or waited for in a circle, and
\* fallback and retries end (complete, stream, health).
CallsReturn ==
    \A c \in Callers : calls[c].pc # "idle" ~> calls[c].pc = "idle"
=============================================================================
