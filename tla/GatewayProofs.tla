--------------------------- MODULE GatewayProofs ---------------------------
(***************************************************************************)
(* For every set of callers, requests, providers and limits: the           *)
(* concurrency limits hold, the overspend is bounded, an open breaker      *)
(* shields its provider but for the retries under way, the cache is        *)
(* bounded by its order, and a hit answers what was asked.                 *)
(***************************************************************************)
EXTENDS Gateway, FiniteSetTheorems, TLAPS

Labels == {"idle", "hit", "route", "opening", "permit", "lane", "calling", "answered",
           "failed", "trip", "closing", "insert", "order"}

CacheKeys == {cache_key(r) : r \in Requests}

\* A response some provider gave to a completion it serves.
Given(a) ==
    /\ a.asked \in Requests /\ a.asked.kind = "complete"
    /\ a.asked.model \in Supports[a.provider]

\* A completion at attempt k of the n-th provider, which serves its model.
Attempting(r, n, k) ==
    /\ r.kind = "complete" /\ k \in 1..max_attempts
    /\ r.model \in Supports[candidates[r][n]]
Served(x) == Attempting(x.req, x.at, x.attempt)

\* What a caller's state promises at each label.
CallOK(x) ==
    /\ x \in [pc : Labels, req : Requests \cup {NoRequest}, at : Nat, attempt : Nat,
              retryable : BOOLEAN, response : {x.response}]
    /\ x.pc # "idle" => x.req \in Requests
    /\ x.pc \in {"permit", "lane", "calling"} \/ x.retryable => Served(x)
    /\ x.pc \in {"answered", "closing", "insert"} => Given(x.response) /\ x.response.asked = x.req
    /\ x.pc = "opening" => x.req.kind # "complete"
    /\ x.pc = "hit" => /\ ~x.req.bypass /\ Given(x.response)
                       /\ cache_key(x.response.asked) = cache_key(x.req)

Shapes ==
    /\ now \in 0..MaxNow /\ made \in 0..MaxCalls
    /\ breaker \in [Names -> [failures : Nat, opened_at : {Never} \cup 0..now]]
    /\ pressed \in [Names -> Nat]
    /\ order \in Seq(CacheKeys) /\ Len(order) <= cache_capacity
    /\ calls = [c \in Callers |-> calls[c]]
    /\ \A c \in Callers : CallOK(calls[c])

\* What is cached under a key was asked under that key.
CacheHonest ==
    \A k \in DOMAIN cache : Given(cache[k]) /\ cache_key(cache[k].asked) = k

InLane(m) == {c \in Holding({"calling"}) : calls[c].req.model = m}

\* Permits are held, never lost: those free and those held add up.
PermitsAddUp ==
    /\ IsFiniteSet(Holding({"lane", "calling"}))
    /\ permits \in Nat
    /\ permits = max_concurrent - Cardinality(Holding({"lane", "calling"}))
    /\ lanes = [m \in Models |-> lanes[m]]
    /\ \A m \in Models : ModelLimit[m] # NoLimit =>
          /\ IsFiniteSet(InLane(m))
          /\ lanes[m] \in Nat
          /\ lanes[m] = ModelLimit[m] - Cardinality(InLane(m))

\* A completion that has passed the budget check and is not paid for yet.
Unpaid(x) ==
    /\ x.pc \in {"route", "permit", "lane", "calling", "answered", "failed", "trip", "closing"}
    /\ x.req.kind = "complete"
Owing == {c \in Callers : Unpaid(calls[c])}

\* Each caller's allowance above the budget is spent at most once: those who
\* have a call to pay for have theirs still.
BudgetCovers ==
    /\ cost \in Nat
    /\ \A m \in Models : (\A k \in Models : Cost[k] <= Cost[m]) =>
          cost < budget + (Cardinality(Callers) - Cardinality(Owing)) * Cost[m]

\* The attempts a call may still begin at provider p.
MayBegin(x, p, k) ==
    /\ \/ x.pc \in {"permit", "lane"} /\ k >= x.attempt
       \/ x.pc = "calling" /\ k > x.attempt
       \/ x.pc \in {"failed", "trip"} /\ x.retryable /\ k > x.attempt
    /\ candidates[x.req][x.at] = p
Slots == Callers \X (1..max_attempts)
Coming(p) == {s \in Slots : MayBegin(calls[s[1]], p, s[2])}

\* While a breaker is open nobody starts over at its provider: attempts
\* begun and attempts that may still begin are fewer than the slots.
PressBounded ==
    \A p \in Names :
        /\ breaker[p].opened_at = Never => pressed[p] = 0
        /\ breaker[p].opened_at # Never =>
              pressed[p] + Cardinality(Coming(p)) < Cardinality(Callers) * max_attempts

GatewayInv == Shapes /\ CacheHonest /\ CacheBounded /\ PermitsAddUp /\ BudgetCovers /\ PressBounded

-----------------------------------------------------------------------------
(* The states of a caller.                                                 *)

\* The bounds the proofs compute with.
LEMMA Bounds ==
  max_attempts \in Nat \ {0} /\ MaxNow \in Nat \ {0} /\ MaxCalls \in Nat \ {0}
  BY GatewayAssumption, Zenon

CallRecord(a) ==
    [pc : Labels, req : Requests \cup {NoRequest}, at : Nat, attempt : Nat,
     retryable : BOOLEAN, response : {a}]

\* The fields of a call.
LEMMA CallFields ==
  ASSUME NEW x, CallOK(x), NEW a, a = x.response
  PROVE  x \in CallRecord(a) /\ (x.pc # "idle" => x.req \in Requests)
  BY DEF CallOK, CallRecord

Call(l, r, n, k, b, a) ==
    [pc |-> l, req |-> r, at |-> n, attempt |-> k, retryable |-> b, response |-> a]

Earned(l, r, n, k, b, a) ==
    /\ l \in Labels \ {"idle"} /\ r \in Requests /\ n \in Nat /\ k \in Nat /\ b \in BOOLEAN
    /\ l \in {"permit", "lane", "calling"} \/ b => Attempting(r, n, k)
    /\ l = "opening" => r.kind # "complete"
    /\ l \in {"answered", "closing", "insert"} => Given(a) /\ a.asked = r
    /\ l = "hit" => ~r.bypass /\ Given(a) /\ cache_key(a.asked) = cache_key(r)

\* A call whose fields keep the promises of its label.
LEMMA CallForm ==
  ASSUME NEW l, NEW r, NEW n, NEW k, NEW b, NEW a, Earned(l, r, n, k, b, a),
         NEW y, y = Call(l, r, n, k, b, a)
  PROVE  CallOK(y) /\ y.pc = l /\ y.req = r /\ y.at = n /\ y.attempt = k /\ y.retryable = b
<1>1. /\ y.pc = l /\ y.req = r /\ y.at = n /\ y.attempt = k /\ y.retryable = b /\ y.response = a
      /\ y \in [pc : Labels, req : Requests \cup {NoRequest}, at : Nat, attempt : Nat,
                retryable : BOOLEAN, response : {a}]
  BY DEF Call, Earned
<1> QED
  BY <1>1, Zenon DEF CallOK, Served, Earned

LEMMA IdleOK == CallOK(Idle) /\ Idle.pc = "idle"
  BY DEF CallOK, Idle, Labels

\* On to the next provider, or back to the caller.
LEMMA Onwards ==
  ASSUME NEW x, CallOK(x), x.pc # "idle", NEW y,
         y = IF x.at < Len(candidates[x.req])
             THEN [x EXCEPT !.pc = "route", !.at = @ + 1, !.attempt = 0, !.retryable = FALSE]
             ELSE Idle
  PROVE  CallOK(y) /\ y.pc \in {"route", "idle"} /\ (y.pc = "route" => y.req = x.req)
<1>1. CASE y = Idle
  BY <1>1, IdleOK
<1>2. CASE y = [x EXCEPT !.pc = "route", !.at = @ + 1, !.attempt = 0, !.retryable = FALSE]
  <2>1. PICK a : a = x.response
    OBVIOUS
  <2>2. x \in CallRecord(a) /\ x.req \in Requests
    BY <2>1, CallFields
  <2>3. PICK b \in BOOLEAN : b = FALSE
    BY Zenon
  <2>4. y = Call("route", x.req, x.at + 1, 0, b, a)
    BY <1>2, <2>2, <2>3, Zenon DEF CallRecord, Call
  <2>5. Earned("route", x.req, x.at + 1, 0, b, a)
    BY <2>2, <2>3 DEF CallRecord, Labels, Earned
  <2> QED
    BY <2>4, <2>5, CallForm
<1> QED
  BY <1>1, <1>2, Zenon

\* The same request at the same attempt of the same provider.
SameTry(y, x) == y.req = x.req /\ y.at = x.at /\ y.attempt = x.attempt
Keeps(y, x) == SameTry(y, x) /\ y.retryable = x.retryable

\* What a step does to the caller that takes it.
Becomes(c, y) == calls' = [calls EXCEPT ![c] = y] /\ CallOK(y)

\* A step that only moves the label.
LEMMA GotoMoves ==
  ASSUME Shapes, NEW c \in Callers, calls[c].pc # "idle", NEW l \in Labels \ {"idle", "hit"},
         l \in {"permit", "lane", "calling"} => Served(calls[c]),
         l \in {"answered", "closing", "insert"} =>
             calls[c].pc \in {"answered", "closing", "insert"},
         l = "opening" => calls[c].req.kind # "complete",
         Goto(c, l)
  PROVE  \E y : Becomes(c, y) /\ y.pc = l /\ Keeps(y, calls[c])
<1>1. PICK x, a : x = calls[c] /\ a = x.response
  OBVIOUS
<1>2. CallOK(x)
  BY <1>1 DEF Shapes
<1>3. x \in CallRecord(a) /\ x.req \in Requests
  BY <1>1, <1>2, CallFields, Zenon
<1>4. PICK y : y = [x EXCEPT !.pc = l]
  BY Zenon
<1>5. y = Call(l, x.req, x.at, x.attempt, x.retryable, a)
  BY <1>3, <1>4, Zenon DEF CallRecord, Call
<1>6. Earned(l, x.req, x.at, x.attempt, x.retryable, a)
  BY <1>1, <1>2, <1>3, Zenon DEF CallRecord, Earned, CallOK, Served
<1>7. CallOK(y) /\ y.pc = l /\ Keeps(y, x)
  BY <1>5, <1>6, CallForm DEF Keeps, SameTry
<1>8. calls' = [calls EXCEPT ![c] = y]
  BY <1>1, <1>4, Zenon DEF Goto, Shapes
<1> QED
  BY <1>1, <1>7, <1>8, Zenon DEF Becomes

LEMMA FinishMoves ==
  ASSUME Shapes, NEW c \in Callers, Finish(c)
  PROVE  \E y : Becomes(c, y) /\ y.pc = "idle"
  BY IdleOK, Zenon DEF Finish, Becomes

LEMMA NextProviderMoves ==
  ASSUME Shapes, NEW c \in Callers, calls[c].pc # "idle", NextProvider(c)
  PROVE  \E y : /\ Becomes(c, y) /\ y.pc \in {"route", "idle"}
                /\ y.pc = "route" => y.req = calls[c].req
<1>1. PICK y : y = IF calls[c].at < Len(candidates[calls[c].req])
                   THEN [calls[c] EXCEPT !.pc = "route", !.at = @ + 1, !.attempt = 0,
                                         !.retryable = FALSE]
                   ELSE Idle
  OBVIOUS
<1>2. CallOK(y) /\ y.pc \in {"route", "idle"} /\ (y.pc = "route" => y.req = calls[c].req)
  <2>1. CallOK(calls[c])
    BY DEF Shapes
  <2> QED
    BY <1>1, <2>1, Onwards, Zenon
<1>3. calls' = [calls EXCEPT ![c] = y]
  BY <1>1 DEF NextProvider
<1> QED
  BY <1>2, <1>3, Zenon DEF Becomes

\* The next attempt at the same provider.
Retries(y, x) == x.retryable /\ y.at = x.at /\ y.attempt = x.attempt + 1

\* call_with_retries after a failed attempt.
LEMMA OnwardMoves ==
  ASSUME Shapes, NEW c \in Callers, calls[c].pc # "idle", Onward(c)
  PROVE  \E y : /\ Becomes(c, y) /\ y.pc \in {"permit", "route", "idle"}
                /\ y.pc # "idle" => y.req = calls[c].req
                /\ y.pc = "permit" => Retries(y, calls[c])
<1>1. CASE NextProvider(c)
  BY <1>1, NextProviderMoves, Zenon
<1>2. CASE /\ calls[c].retryable /\ calls[c].attempt < max_attempts
           /\ calls' = [calls EXCEPT ![c].pc = "permit", ![c].attempt = @ + 1,
                                     ![c].retryable = FALSE]
  <2>1. PICK x, a : x = calls[c] /\ a = x.response
    OBVIOUS
  <2>2. CallOK(x)
    BY <2>1 DEF Shapes
  <2>3. x \in CallRecord(a) /\ x.req \in Requests
    BY <2>1, <2>2, CallFields
  <2>4. PICK b \in BOOLEAN : b = FALSE
    BY Zenon
  <2>5. PICK y : y = [x EXCEPT !.pc = "permit", !.attempt = @ + 1, !.retryable = b]
    OBVIOUS
  <2>6. y = Call("permit", x.req, x.at, x.attempt + 1, b, a)
    BY <2>3, <2>5, Zenon DEF CallRecord, Call
  <2>7. Served(x)
    BY <1>2, <2>1, <2>2, Zenon DEF CallOK
  <2>11. Attempting(x.req, x.at, x.attempt + 1)
    BY <1>2, <2>1, <2>7, Bounds DEF Served, Attempting
  <2>8. Earned("permit", x.req, x.at, x.attempt + 1, b, a)
    BY <2>3, <2>4, <2>11 DEF CallRecord, Earned, Labels
  <2>9. CallOK(y) /\ y.pc = "permit" /\ y.req = x.req /\ Retries(y, x)
    BY <1>2, <2>1, <2>6, <2>8, CallForm DEF Retries
  <2>10. calls' = [calls EXCEPT ![c] = y]
    BY <1>2, <2>1, <2>4, <2>5, Zenon DEF Shapes
  <2> QED
    BY <2>1, <2>9, <2>10, Zenon DEF Becomes
<1> QED
  BY <1>1, <1>2, Zenon DEF Onward

\* A call that begins: a hit, the first provider, or an error at once.
LEMMA BeginMoves ==
  ASSUME Shapes, CacheHonest, NEW c \in Callers, Begin(c)
  PROVE  \E y : /\ Becomes(c, y) /\ y.pc \in {"idle", "hit", "route"}
                /\ y.pc = "route" /\ y.req.kind = "complete" => ~OverBudget
<1>1. PICK r \in Asks[c] : complete(c, r) \/ walk(c, r)
  BY DEF Begin
<1>2. r \in Requests
  BY <1>1 DEF Requests
<1>3. calls[c].pc = "idle" /\ CallOK(calls[c])
  BY DEF Begin, Shapes
<1>4. PICK b \in BOOLEAN : b = FALSE
  BY Zenon
<1>8. PICK i, n : i = Idle /\ n = NoResponse
  OBVIOUS
<1>9. i \in CallRecord(n) /\ i.at = 0 /\ i.attempt = 0 /\ i.response = n
  BY <1>8, IdleOK, CallFields, Zenon DEF Idle
<1>10. i.retryable = b
  BY <1>4, <1>8, Zenon DEF Idle
<1>5. CASE Cached(r) /\ Hit(c, r)
  <2>1. PICK a : a = cache[cache_key(r)]
    OBVIOUS
  <2>2. Given(a) /\ cache_key(a.asked) = cache_key(r) /\ ~r.bypass
    BY <1>5, <2>1 DEF Cached, CacheHonest
  <2>3. PICK y : y = [i EXCEPT !.pc = "hit", !.req = r, !.response = a]
    OBVIOUS
  <2>4. y = Call("hit", r, i.at, i.attempt, i.retryable, a)
    BY <1>9, <2>3, Zenon DEF Call, CallRecord
  <2>5. Earned("hit", r, i.at, i.attempt, i.retryable, a)
    BY <1>2, <1>4, <1>9, <1>10, <2>2, Zenon DEF Earned, Labels, CallRecord
  <2>6. CallOK(y) /\ y.pc = "hit"
    BY <2>4, <2>5, CallForm
  <2>7. calls' = [calls EXCEPT ![c] = y]
    BY <1>5, <1>8, <2>1, <2>3 DEF Hit
  <2> QED
    BY <2>6, <2>7, Zenon DEF Becomes
<1>6. CASE /\ calls' = [calls EXCEPT ![c] = [Idle EXCEPT !.pc = "route", !.req = r, !.at = 1]]
           /\ r.kind = "complete" => ~OverBudget
  <2>1. PICK y : y = [i EXCEPT !.pc = "route", !.req = r, !.at = 1]
    OBVIOUS
  <2>2. y = Call("route", r, 1, i.attempt, i.retryable, n)
    BY <1>9, <2>1, Zenon DEF Call, CallRecord
  <2>3. Earned("route", r, 1, i.attempt, i.retryable, n)
    BY <1>2, <1>4, <1>9, <1>10 DEF Earned, Labels, CallRecord
  <2>4. CallOK(y) /\ y.pc = "route" /\ y.req = r
    BY <2>2, <2>3, CallForm
  <2>5. calls' = [calls EXCEPT ![c] = y]
    BY <1>6, <1>8, <2>1
  <2> QED
    BY <1>6, <2>4, <2>5, Zenon DEF Becomes
<1>7. CASE calls' = calls
  <2>1. calls' = [calls EXCEPT ![c] = calls[c]]
    BY <1>7 DEF Shapes
  <2> QED
    BY <1>3, <2>1, Zenon DEF Becomes
<1> QED
  BY <1>1, <1>5, <1>6, <1>7, Zenon DEF complete, walk

\* The choice of a provider.
LEMMA RouteMoves ==
  ASSUME Shapes, NEW c \in Callers, Route(c)
  PROVE  \E y : /\ Becomes(c, y) /\ y.pc \in {"route", "idle", "opening", "permit"}
                /\ y.pc # "idle" => y.req = calls[c].req
                /\ y.pc = "permit" => y.at = calls[c].at /\ ~IsOpen(Provider(c))
<1>1. calls[c].pc = "route" /\ CallOK(calls[c])
  BY Zenon DEF Route, Shapes
<1>2. CASE NextProvider(c)
  BY <1>1, <1>2, NextProviderMoves, Zenon
<1>3. CASE Goto(c, "opening") /\ calls[c].req.kind = "stream"
  <2>1. "opening" \in Labels \ {"idle", "hit"}
    BY DEF Labels
  <2> QED
    BY <1>1, <1>3, <2>1, GotoMoves DEF Keeps, SameTry
<1>4. CASE /\ calls[c].req.model \in Supports[Provider(c)] /\ ~IsOpen(Provider(c))
           /\ calls[c].req.kind \notin {"stream", "health"}
           /\ calls' = [calls EXCEPT ![c].pc = "permit", ![c].attempt = 1]
  <2>1. PICK x, a : x = calls[c] /\ a = x.response
    OBVIOUS
  <2>2. x \in CallRecord(a) /\ x.req \in Requests
    BY <1>1, <2>1, CallFields
  <2>3. PICK y : y = [x EXCEPT !.pc = "permit", !.attempt = 1]
    OBVIOUS
  <2>4. y = Call("permit", x.req, x.at, 1, x.retryable, a)
    BY <2>2, <2>3, Zenon DEF CallRecord, Call
  <2>8. Attempting(x.req, x.at, 1)
    <3>1. 1 \in 1..max_attempts
      BY Bounds
    <3>2. x.req.kind = "complete"
      BY <1>4, <2>1, <2>2, GatewayAssumption, Zenon
    <3> QED
      BY <1>4, <2>1, <3>1, <3>2, Zenon DEF Attempting, Provider
  <2>5. Earned("permit", x.req, x.at, 1, x.retryable, a)
    BY <2>2, <2>8 DEF CallRecord, Earned, Labels
  <2>6. CallOK(y) /\ y.pc = "permit" /\ y.req = x.req /\ y.at = x.at
    BY <2>4, <2>5, CallForm
  <2>7. calls' = [calls EXCEPT ![c] = y]
    BY <1>4, <2>1, <2>3, Zenon DEF Shapes
  <2> QED
    BY <1>4, <2>1, <2>6, <2>7, Zenon DEF Becomes
<1>5. PICK open \in BOOLEAN :
         /\ open = IsOpen(Provider(c))
         /\ CASE calls[c].req.kind = "health" \/ open \/ calls[c].req.model \notin Supports[Provider(c)]
                   -> NextProvider(c)
              [] calls[c].req.kind = "stream" -> Goto(c, "opening")
              [] OTHER -> calls' = [calls EXCEPT ![c].pc = "permit", ![c].attempt = 1]
  BY Zenon DEF Route, circuit_is_open
<1>6. \/ NextProvider(c)
      \/ Goto(c, "opening") /\ calls[c].req.kind = "stream"
      \/ /\ calls[c].req.model \in Supports[Provider(c)] /\ ~IsOpen(Provider(c))
         /\ calls[c].req.kind \notin {"stream", "health"}
         /\ calls' = [calls EXCEPT ![c].pc = "permit", ![c].attempt = 1]
  BY <1>5, Zenon
<1> QED
  BY <1>2, <1>3, <1>4, <1>6, Zenon

\* The provider answers, or fails.
LEMMA ReturnMoves ==
  ASSUME Shapes, NEW c \in Callers, Answer(c) \/ Fail(c)
  PROVE  \E y : Becomes(c, y) /\ y.pc \in {"answered", "failed"} /\ SameTry(y, calls[c])
<1>1. PICK x, a : x = calls[c] /\ a = x.response
  OBVIOUS
<1>2. CallOK(x) /\ x.pc = "calling"
  BY <1>1, Zenon DEF Answer, Fail, Shapes
<1>3. x \in CallRecord(a) /\ x.req \in Requests
  BY <1>1, <1>2, CallFields
<1>4. Attempting(x.req, x.at, x.attempt) /\ x.req.kind = "complete"
      /\ x.req.model \in Supports[candidates[x.req][x.at]]
  BY <1>2, Zenon DEF CallOK, Served, Attempting
<1>5. CASE Answer(c)
  <2>1. PICK g : g = [provider |-> candidates[x.req][x.at], asked |-> x.req]
    BY Zenon
  <2>2. Given(g) /\ g.asked = x.req
    BY <1>3, <1>4, <2>1, Zenon DEF Given
  <2>3. PICK y : y = [x EXCEPT !.pc = "answered", !.response = g]
    OBVIOUS
  <2>4. y = Call("answered", x.req, x.at, x.attempt, x.retryable, g)
    BY <1>3, <2>3, Zenon DEF CallRecord, Call
  <2>5. Earned("answered", x.req, x.at, x.attempt, x.retryable, g)
    BY <1>3, <1>4, <2>2, Zenon DEF CallRecord, Earned, Labels
  <2>6. CallOK(y) /\ y.pc = "answered" /\ SameTry(y, x)
    BY <2>4, <2>5, CallForm DEF SameTry
  <2>7. calls' = [calls EXCEPT ![c] = y]
    BY <1>1, <1>5, <2>1, <2>3, Zenon DEF Answer, Provider, Shapes
  <2> QED
    BY <1>1, <2>6, <2>7, Zenon DEF Becomes
<1>6. CASE Fail(c)
  <2>1. PICK b \in BOOLEAN : calls' = [calls EXCEPT ![c].pc = "failed", ![c].retryable = b]
    BY <1>6, Zenon DEF Fail
  <2>2. PICK y : y = [x EXCEPT !.pc = "failed", !.retryable = b]
    OBVIOUS
  <2>3. y = Call("failed", x.req, x.at, x.attempt, b, a)
    BY <1>3, <2>2, Zenon DEF CallRecord, Call
  <2>4. Earned("failed", x.req, x.at, x.attempt, b, a)
    BY <1>3, <1>4, Zenon DEF CallRecord, Earned, Labels
  <2>5. CallOK(y) /\ y.pc = "failed" /\ SameTry(y, x)
    BY <2>3, <2>4, CallForm DEF SameTry
  <2>6. calls' = [calls EXCEPT ![c] = y]
    BY <1>1, <2>1, <2>2, Zenon DEF Shapes
  <2> QED
    BY <1>1, <2>5, <2>6, Zenon DEF Becomes
<1> QED
  BY <1>5, <1>6

\* The answer is handed to the cache.
LEMMA InsertMoves ==
  ASSUME Shapes, NEW c \in Callers, Insert(c)
  PROVE  \E y : Becomes(c, y) /\ y.pc = "order" /\ y.req = calls[c].req
<1>1. PICK x, a : x = calls[c] /\ a = x.response
  OBVIOUS
<1>2. CallOK(x) /\ x.pc = "insert"
  BY <1>1, Zenon DEF Insert, Shapes
<1>3. x \in CallRecord(a) /\ x.req \in Requests
  BY <1>1, <1>2, CallFields
<1>4. PICK n : n = NoResponse
  OBVIOUS
<1>5. PICK y : y = [x EXCEPT !.pc = "order", !.response = n]
  OBVIOUS
<1>6. y = Call("order", x.req, x.at, x.attempt, x.retryable, n)
  BY <1>3, <1>5, Zenon DEF CallRecord, Call
<1>7. Earned("order", x.req, x.at, x.attempt, x.retryable, n)
  BY <1>2, <1>3, Zenon DEF CallRecord, Earned, Labels, CallOK, Served
<1>8. CallOK(y) /\ y.pc = "order" /\ y.req = x.req
  BY <1>6, <1>7, CallForm
<1>9. calls' = [calls EXCEPT ![c] = y]
  BY <1>1, <1>4, <1>5, Zenon DEF Insert, Shapes
<1> QED
  BY <1>1, <1>8, <1>9, Zenon DEF Becomes

-----------------------------------------------------------------------------
(* Shapes and the cache.                                                   *)

\* The callers other than the one that steps stay as they are.
LEMMA OthersKeep ==
  ASSUME Shapes, NEW c \in Callers, NEW y, Becomes(c, y)
  PROVE  /\ calls' = [d \in Callers |-> calls'[d]]
         /\ calls'[c] = y
         /\ \A d \in Callers : d # c => calls'[d] = calls[d]
         /\ \A d \in Callers : CallOK(calls'[d])
<1>1. calls = [d \in Callers |-> calls[d]] /\ \A d \in Callers : CallOK(calls[d])
  BY DEF Shapes
<1>2. calls' = [calls EXCEPT ![c] = y] /\ CallOK(y)
  BY DEF Becomes
<1> HIDE DEF CallOK
<1> QED
  BY <1>1, <1>2

\* A caller that begins leaves all that is shared alone.
LEMMA BeginKeeps ==
  ASSUME NEW c, Begin(c)
  PROVE  UNCHANGED <<breaker, cache, order, cost, permits, lanes, pressed>>
<1>1. PICK r : complete(c, r) \/ walk(c, r)
  BY DEF Begin
<1> QED
  BY <1>1 DEF complete, walk, shared

\* A caller that takes a permit.
LEMMA AcquireMoves ==
  ASSUME Shapes, NEW c \in Callers, AcquireGlobal(c) \/ AcquireModel(c)
  PROVE  \E y : /\ Becomes(c, y) /\ Keeps(y, calls[c])
                /\ y.pc = IF AcquireGlobal(c) /\ Limited(c) THEN "lane" ELSE "calling"
<1>1. calls[c].pc \in {"permit", "lane"} /\ CallOK(calls[c])
  BY Zenon DEF AcquireGlobal, AcquireModel, Shapes
<1>2. Served(calls[c])
  BY <1>1, Zenon DEF CallOK
<1>3. ASSUME NEW l \in {"lane", "calling"}, Goto(c, l)
      PROVE  \E y : Becomes(c, y) /\ y.pc = l /\ Keeps(y, calls[c])
  <2>1. l \in Labels \ {"idle", "hit"}
    BY DEF Labels
  <2> QED
    BY <1>1, <1>2, <1>3, <2>1, GotoMoves, Zenon
<1>4. CASE AcquireGlobal(c) /\ Limited(c)
  <2>1. Goto(c, "lane")
    BY <1>4 DEF AcquireGlobal
  <2> QED
    BY <1>3, <1>4, <2>1
<1>5. CASE ~(AcquireGlobal(c) /\ Limited(c))
  <2>1. Goto(c, "calling")
    BY <1>5, Zenon DEF AcquireGlobal, AcquireModel, Send
  <2> QED
    BY <1>3, <1>5, <2>1
<1> QED
  BY <1>4, <1>5

\* The labels of a caller that holds a permit.
Inside == {"lane", "calling"}

\* Every other step but the provider's answer is one of a caller that holds
\* no permit and takes none.
LEMMA QuietMoves ==
  ASSUME Shapes, CacheHonest, NEW c \in Callers, Begin(c) \/ Step(c),
         ~AcquireGlobal(c), ~AcquireModel(c), ~Answer(c), ~Fail(c)
  PROVE  /\ permits' = permits /\ lanes' = lanes /\ calls[c].pc \notin Inside
         /\ \E y : Becomes(c, y) /\ y.pc \notin Inside
<1> DEFINE Moves == \E y : Becomes(c, y) /\ y.pc \notin Inside
           Quiet == permits' = permits /\ lanes' = lanes /\ calls[c].pc \notin Inside
<1>1. ASSUME calls[c].pc # "idle", Onward(c)
      PROVE  Moves
  BY <1>1, OnwardMoves, Zenon DEF Inside
<1>2. ASSUME NEW l \in {"failed", "trip"}, calls[c].pc # "idle", Goto(c, l)
      PROVE  Moves
  <2>1. l \in Labels \ {"idle", "hit"}
    BY DEF Labels
  <2> QED
    BY <1>2, <2>1, GotoMoves, Zenon DEF Inside
<1>3. ASSUME NEW l \in {"closing", "insert"}, calls[c].pc \in {"answered", "closing"}, Goto(c, l)
      PROVE  Moves
  <2>1. l \in Labels \ {"idle", "hit"}
    BY DEF Labels
  <2> QED
    BY <1>3, <2>1, GotoMoves DEF Inside
<1>4. ASSUME Finish(c)
      PROVE  Moves
  BY <1>4, FinishMoves DEF Inside
<1> HIDE DEF Moves
<1>5. CASE Begin(c)
  <2>1. Moves
    BY <1>5, BeginMoves DEF Moves, Inside
  <2>2. Quiet
    BY <1>5, BeginKeeps, Zenon DEF Begin, Inside
  <2> QED
    BY <2>1, <2>2 DEF Moves
<1>6. CASE Route(c)
  <2>1. Moves
    BY <1>6, RouteMoves, Zenon DEF Moves, Inside
  <2>2. Quiet
    BY <1>6, Zenon DEF Route, Inside
  <2> QED
    BY <2>1, <2>2 DEF Moves
<1>7. CASE Insert(c)
  <2>1. Moves
    BY <1>7, InsertMoves DEF Moves, Inside
  <2>2. Quiet
    BY <1>7, Zenon DEF Insert, Inside
  <2> QED
    BY <2>1, <2>2 DEF Moves
<1>8. CASE StreamOpens(c) \/ Push(c) \/ Return(c)
  <2>1. Moves
    BY <1>4, <1>8, Zenon DEF StreamOpens, Push, Return
  <2>2. Quiet
    BY <1>8, Zenon DEF StreamOpens, Push, Return, shared, Inside
  <2> QED
    BY <2>1, <2>2 DEF Moves
<1>9. CASE StreamFails(c)
  <2>1. Moves
    BY <1>2, <1>9 DEF StreamFails
  <2>2. Quiet
    BY <1>9 DEF StreamFails, shared, Inside
  <2> QED
    BY <2>1, <2>2 DEF Moves
<1>10. CASE CountFailure(c) \/ Trip(c)
  <2>1. Moves
    BY <1>1, <1>2, <1>10, Zenon DEF CountFailure, Trip
  <2>2. Quiet
    BY <1>10, Zenon DEF CountFailure, Trip, Inside
  <2> QED
    BY <2>1, <2>2 DEF Moves
<1>11. CASE ClearFailures(c) \/ Close(c)
  <2>1. Moves
    BY <1>3, <1>4, <1>11, Zenon DEF ClearFailures, Close
  <2>2. Quiet
    BY <1>11, Zenon DEF ClearFailures, Close, Inside
  <2> QED
    BY <2>1, <2>2 DEF Moves
<1> QED
  BY <1>5, <1>6, <1>7, <1>8, <1>9, <1>10, <1>11, Zenon DEF Step

\* Every step of a caller.
LEMMA StepMoves ==
  ASSUME Shapes, CacheHonest, NEW c \in Callers, Begin(c) \/ Step(c)
  PROVE  \E y : Becomes(c, y)
  BY AcquireMoves, ReturnMoves, QuietMoves, Zenon

\* The clock and the count of calls under a step of a caller.
LEMMA ClockStep ==
  ASSUME now \in 0..MaxNow, made \in 0..MaxCalls, MaxCalls \in Nat, NEW c \in Callers,
         Begin(c) \/ Step(c)
  PROVE  now' = now /\ made' \in 0..MaxCalls
<1>1. CASE Begin(c)
  BY <1>1 DEF Begin
<1>2. CASE Route(c) \/ AcquireGlobal(c) \/ AcquireModel(c)
  BY <1>2, Zenon DEF Route, AcquireGlobal, AcquireModel
<1>3. CASE Answer(c) \/ Fail(c) \/ StreamOpens(c) \/ StreamFails(c) \/ Return(c)
  BY <1>3, Zenon DEF Answer, Fail, StreamOpens, StreamFails, Return
<1>4. CASE CountFailure(c) \/ Trip(c) \/ ClearFailures(c)
  BY <1>4, Zenon DEF CountFailure, Trip, ClearFailures
<1>5. CASE Close(c) \/ Insert(c) \/ Push(c)
  BY <1>5, Zenon DEF Close, Insert, Push
<1> QED
  BY <1>1, <1>2, <1>3, <1>4, <1>5, Zenon DEF Step

\* A function stays in its type when a value is replaced.
LEMMA Updated ==
  ASSUME NEW N, NEW S, NEW f \in [N -> S], NEW p, NEW v, p \in N => v \in S
  PROVE  [f EXCEPT ![p] = v] \in [N -> S]
<1>1. PICK g : g = [f EXCEPT ![p] = v]
  BY Zenon
<1>2. \A x \in N : g[x] \in S
  <2> TAKE x \in N
  <2>1. CASE x = p
    BY <1>1, <2>1
  <2>2. CASE x # p
    BY <1>1, <2>2
  <2> QED
    BY <2>1, <2>2
<1>3. g = [x \in N |-> g[x]]
  BY <1>1, Zenon
<1>4. [x \in N |-> g[x]] \in [N -> S]
  BY <1>2
<1> QED
  BY <1>1, <1>3, <1>4, Zenon

\* The breakers, their counts and the clock under a step of a caller.
LEMMA BreakerStep ==
  ASSUME Shapes, NEW c \in Callers, Begin(c) \/ Step(c)
  PROVE  /\ now' \in 0..MaxNow /\ made' \in 0..MaxCalls
         /\ breaker' \in [Names -> [failures : Nat, opened_at : {Never} \cup 0..now']]
         /\ pressed' \in [Names -> Nat]
<1> DEFINE States == [failures : Nat, opened_at : {Never} \cup 0..now]
<1>0. /\ now \in 0..MaxNow /\ made \in 0..MaxCalls /\ MaxCalls \in Nat /\ MaxNow \in Nat
      /\ breaker \in [Names -> States]
      /\ pressed \in [Names -> Nat]
  BY GatewayAssumption, Zenon DEF Shapes
<1>1. now' = now /\ made' \in 0..MaxCalls
  BY <1>0, ClockStep
<1>2. PICK p : p = Provider(c)
  OBVIOUS
<1>3. ASSUME NEW v, p \in Names => v \in States, breaker' = [breaker EXCEPT ![p] = v]
      PROVE  breaker' \in [Names -> States]
  <2> HIDE DEF States
  <2> QED
    BY <1>0, <1>3, Updated
<1>4. ASSUME NEW n \in Nat, pressed' = [pressed EXCEPT ![p] = n]
      PROVE  pressed' \in [Names -> Nat]
  BY <1>0, <1>4, Updated
<1>5. breaker' \in [Names -> States] /\ pressed' \in [Names -> Nat]
  <2>1. CASE UNCHANGED <<breaker, pressed>>
    BY <1>0, <2>1
  <2>2. CASE Begin(c)
    BY <2>1, <2>2, BeginKeeps
  <2>3. CASE Route(c)
    <3>1. PICK open \in BOOLEAN : circuit_is_open(p, open)
      BY <1>2, <2>3, Zenon DEF Route
    <3>2. Breaker \in States
      BY DEF Breaker
    <3>3. breaker' \in [Names -> States]
      <4> HIDE DEF States
      <4> QED
        BY <1>0, <3>1, <3>2, Updated, Zenon DEF circuit_is_open
    <3>4. pressed' = pressed \/ pressed' = [pressed EXCEPT ![p] = 0]
      BY <3>1 DEF circuit_is_open
    <3>5. pressed' \in [Names -> Nat]
      BY <1>0, <1>4, <3>4
    <3> QED
      BY <3>3, <3>5
  <2>4. CASE AcquireGlobal(c) \/ AcquireModel(c)
    <3>1. pressed' \in [Names -> Nat] /\ breaker' = breaker
      BY <1>0, <2>4 DEF AcquireGlobal, AcquireModel, Send
    <3> QED
      BY <1>0, <3>1
  <2>5. CASE CountFailure(c) \/ ClearFailures(c)
    <3>1. pressed' = pressed
      BY <2>5, Zenon DEF CountFailure, ClearFailures
    <3>2. PICK n \in {0, breaker[p].failures + 1} :
             breaker' = [breaker EXCEPT ![p] = [breaker[p] EXCEPT !.failures = n]]
      BY <1>2, <2>5, Zenon DEF CountFailure, ClearFailures
    <3>3. p \in Names => [breaker[p] EXCEPT !.failures = n] \in States
      BY <1>0, <3>2
    <3> QED
      BY <1>0, <1>3, <3>1, <3>2, <3>3, Zenon
  <2>6. CASE Trip(c)
    <3>1. /\ pressed' = pressed
          /\ \/ breaker' = breaker
             \/ breaker' = [breaker EXCEPT ![p] = [breaker[p] EXCEPT !.opened_at = now]]
      BY <1>2, <2>6, Zenon DEF Trip
    <3>2. p \in Names => [breaker[p] EXCEPT !.opened_at = now] \in States
      BY <1>0
    <3> QED
      BY <1>0, <1>3, <3>1, <3>2, Zenon
  <2>7. CASE Close(c)
    <3>1. /\ pressed' = [pressed EXCEPT ![p] = 0]
          /\ breaker' = [breaker EXCEPT ![p] = [breaker[p] EXCEPT !.opened_at = Never]]
      BY <1>2, <2>7, Zenon DEF Close
    <3>2. p \in Names => [breaker[p] EXCEPT !.opened_at = Never] \in States
      BY <1>0
    <3> QED
      BY <1>3, <1>4, <3>1, <3>2, Zenon
  <2>8. CASE Answer(c) \/ Fail(c) \/ StreamOpens(c) \/ StreamFails(c) \/ Return(c)
    BY <2>1, <2>8, Zenon DEF Answer, Fail, StreamOpens, StreamFails, Return, shared
  <2>9. CASE Insert(c) \/ Push(c)
    BY <2>1, <2>9, Zenon DEF Insert, Push
  <2> QED
    BY <2>2, <2>3, <2>4, <2>5, <2>6, <2>7, <2>8, <2>9, Zenon DEF Step
<1> QED
  BY <1>0, <1>1, <1>5

\* The eviction order under a step of a caller.
LEMMA OrderStep ==
  ASSUME Shapes, NEW c \in Callers, Begin(c) \/ Step(c)
  PROVE  order' \in Seq(CacheKeys) /\ Len(order') <= cache_capacity
<1>1. order \in Seq(CacheKeys) /\ Len(order) <= cache_capacity /\ cache_capacity \in Nat
  BY GatewayAssumption, Zenon DEF Shapes
<1>2. CASE Push(c)
  <2>1. PICK k, q : k = cache_key(calls[c].req) /\ q = Append(order, k)
    BY Zenon
  <2>2. k \in CacheKeys
    BY <1>2, <2>1, Zenon DEF Push, Shapes, CallOK, CacheKeys
  <2>3. order' = IF Len(q) > cache_capacity THEN Tail(q) ELSE q
    BY <1>2, <2>1, Zenon DEF Push
  <2>4. q \in Seq(CacheKeys) /\ Len(q) = Len(order) + 1 /\ q # <<>>
    BY <1>1, <2>1, <2>2
  <2> QED
    BY <1>1, <2>3, <2>4
<1>3. CASE order' = order
  BY <1>1, <1>3
<1>4. CASE Begin(c)
  BY <1>3, <1>4, BeginKeeps
<1>5. CASE Route(c) \/ AcquireGlobal(c) \/ AcquireModel(c)
  BY <1>3, <1>5, Zenon DEF Route, AcquireGlobal, AcquireModel
<1>6. CASE Answer(c) \/ Fail(c) \/ StreamOpens(c) \/ StreamFails(c) \/ Return(c)
  BY <1>3, <1>6, Zenon DEF Answer, Fail, StreamOpens, StreamFails, Return, shared
<1>7. CASE CountFailure(c) \/ Trip(c) \/ ClearFailures(c) \/ Close(c) \/ Insert(c)
  BY <1>3, <1>7, Zenon DEF CountFailure, Trip, ClearFailures, Close, Insert
<1> QED
  BY <1>2, <1>4, <1>5, <1>6, <1>7, Zenon DEF Step

LEMMA ShapesStep ==
  ASSUME Shapes, CacheHonest, NEW c \in Callers, Begin(c) \/ Step(c)
  PROVE  Shapes'
<1>1. PICK y : Becomes(c, y)
  BY StepMoves
<1>2. calls' = [d \in Callers |-> calls'[d]] /\ \A d \in Callers : CallOK(calls'[d])
  BY <1>1, OthersKeep
<1> QED
  BY <1>2, BreakerStep, OrderStep, Zenon DEF Shapes
\* Only an insertion and a push touch the cache or its order.
LEMMA CacheQuiet ==
  ASSUME NEW c \in Callers, Begin(c) \/ Step(c), ~Insert(c), ~Push(c)
  PROVE  cache' = cache /\ order' = order /\ calls[c].pc # "order"
<1>1. CASE Begin(c)
  <2>1. calls[c].pc = "idle"
    BY <1>1 DEF Begin
  <2> QED
    BY <1>1, <2>1, BeginKeeps
<1>2. CASE Route(c) \/ AcquireGlobal(c) \/ AcquireModel(c)
  BY <1>2, Zenon DEF Route, AcquireGlobal, AcquireModel
<1>3. CASE Answer(c) \/ Fail(c) \/ StreamOpens(c) \/ StreamFails(c) \/ Return(c)
  BY <1>3, Zenon DEF Answer, Fail, StreamOpens, StreamFails, Return, shared
<1>4. CASE CountFailure(c) \/ Trip(c) \/ ClearFailures(c) \/ Close(c)
  BY <1>4, Zenon DEF CountFailure, Trip, ClearFailures, Close
<1> QED
  BY <1>1, <1>2, <1>3, <1>4, Zenon DEF Step

\* A cached answer was asked under its key, whichever caller put it there.
LEMMA HonestStep ==
  ASSUME Shapes, CacheHonest, NEW c \in Callers, Begin(c) \/ Step(c)
  PROVE  CacheHonest'
<1>1. CASE Insert(c)
  <2>1. PICK key, a : key = cache_key(calls[c].req) /\ a = calls[c].response
    OBVIOUS
  <2>2. Given(a) /\ cache_key(a.asked) = key
    BY <1>1, <2>1, Zenon DEF Insert, Shapes, CallOK
  <2>3. cache' = [k \in DOMAIN cache \cup {key} |-> IF k = key THEN a ELSE cache[k]]
    BY <1>1, <2>1, Zenon DEF Insert
  <2> QED
    BY <2>2, <2>3, Zenon DEF CacheHonest, Given, cache_key
<1>2. CASE Push(c)
  <2>1. DOMAIN cache' \subseteq DOMAIN cache /\ \A k \in DOMAIN cache' : cache'[k] = cache[k]
    BY <1>2, Zenon DEF Push
  <2> QED
    BY <2>1, Zenon DEF CacheHonest, Given, cache_key
<1>3. CASE cache' = cache
  BY <1>3, Zenon DEF CacheHonest, Given, cache_key
<1> QED
  BY <1>1, <1>2, <1>3, CacheQuiet

\* CacheBounded, key by key.
LEMMA BoundedForm ==
  CacheBounded <=> \A k \in DOMAIN cache :
      k \in Range(order) \/ \E d \in Callers : calls[d].pc = "order" /\ k = cache_key(calls[d].req)
  BY DEF CacheBounded, Holding

LEMMA BoundedStep ==
  ASSUME Shapes, CacheHonest, CacheBounded, NEW c \in Callers, Begin(c) \/ Step(c)
  PROVE  CacheBounded'
<1> DEFINE Pending(k, d) == calls[d].pc = "order" /\ k = cache_key(calls[d].req)
<1>1. \A k \in DOMAIN cache : k \in Range(order) \/ \E d \in Callers : Pending(k, d)
  BY BoundedForm
<1>2. SUFFICES ASSUME NEW k \in DOMAIN cache'
               PROVE  k \in Range(order') \/ \E d \in Callers : Pending(k, d)'
  BY <1>2, Zenon DEF CacheBounded, Holding
<1>3. PICK y : Becomes(c, y)
  BY StepMoves
<1>4. \A d \in Callers : d # c => calls'[d] = calls[d]
  BY <1>3, OthersKeep
<1>5. CASE Insert(c)
  <2>1. PICK z : Becomes(c, z) /\ z.pc = "order" /\ z.req = calls[c].req
    BY <1>5, InsertMoves
  <2>2. calls'[c] = z
    BY <2>1, OthersKeep
  <2>3. k = cache_key(calls[c].req) => Pending(k, c)'
    BY <2>1, <2>2, Zenon DEF cache_key
  <2>4. k = cache_key(calls[c].req) \/ k \in DOMAIN cache
    BY <1>5, Zenon DEF Insert
  <2>5. order' = order /\ calls[c].pc # "order"
    BY <1>5, Zenon DEF Insert
  <2> QED
    BY <1>1, <1>4, <2>3, <2>4, <2>5 DEF cache_key
<1>6. CASE Push(c)
  <2>1. PICK key, q : key = cache_key(calls[c].req) /\ q = Append(order, key)
    BY Zenon
  <2>2. key \in CacheKeys /\ order \in Seq(CacheKeys)
    BY <1>6, <2>1, Zenon DEF Push, Shapes, CallOK, CacheKeys
  <2>3. q \in Seq(CacheKeys) /\ q # <<>> /\ key \in Range(q) /\ Range(order) \subseteq Range(q)
    BY <2>1, <2>2 DEF Range
  <2>4. k \in DOMAIN cache
    BY <1>6, Zenon DEF Push
  <2>5. k \in Range(q) \/ \E d \in Callers : d # c /\ Pending(k, d)
    BY <1>1, <2>1, <2>3, <2>4, Zenon
  <2>6. CASE \E d \in Callers : d # c /\ Pending(k, d)
    BY <1>4, <2>6, Zenon DEF cache_key
  <2>7. CASE order' = q /\ k \in Range(q)
    BY <2>7
  <2>8. CASE order' = Tail(q) /\ k # q[1] /\ k \in Range(q)
    <3>1. PICK i \in 1..Len(q) : k = q[i]
      BY <2>3, <2>8 DEF Range
    <3>2. i - 1 \in 1..Len(Tail(q)) /\ Tail(q)[i - 1] = k
      BY <2>3, <2>8, <3>1
    <3>3. k \in Range(order')
      <4>1. PICK rest : rest = Tail(q)
        BY Zenon
      <4>2. rest \in Seq(CacheKeys)
        BY <2>3, <4>1
      <4>3. i - 1 \in DOMAIN rest /\ rest[i - 1] = k
        BY <3>2, <4>1, <4>2
      <4> QED
        BY <2>8, <4>1, <4>3, Zenon DEF Range
    <3> QED
      BY <3>3
  <2>9. (order' = q) \/ (order' = Tail(q) /\ k # q[1])
    BY <1>6, <2>1, Zenon DEF Push
  <2> QED
    BY <2>5, <2>6, <2>7, <2>8, <2>9, Zenon
<1>7. CASE cache' = cache /\ order' = order /\ calls[c].pc # "order"
  BY <1>1, <1>4, <1>7 DEF cache_key
<1> QED
  BY <1>5, <1>6, <1>7, CacheQuiet, Zenon
-----------------------------------------------------------------------------
(* The permits.                                                            *)

\* The callers that hold a permit after one of them moved.
LEMMA HoldersMove ==
  ASSUME NEW c \in Callers, NEW y, calls'[c] = y,
         \A d \in Callers : d # c => calls'[d] = calls[d]
  PROVE  /\ Holding(Inside)' = IF y.pc \in Inside THEN Holding(Inside) \cup {c}
                                                 ELSE Holding(Inside) \ {c}
         /\ \A m : InLane(m)' = IF y.pc = "calling" /\ y.req.model = m
                                  THEN InLane(m) \cup {c} ELSE InLane(m) \ {c}
  BY DEF Holding, Inside, InLane

\* One more and one less of a finite set.
LEMMA OneMore ==
  ASSUME NEW S, IsFiniteSet(S), NEW x, x \notin S
  PROVE  IsFiniteSet(S \cup {x}) /\ Cardinality(S \cup {x}) = Cardinality(S) + 1
  BY FS_AddElement

LEMMA OneLess ==
  ASSUME NEW S, IsFiniteSet(S), NEW x \in S
  PROVE  IsFiniteSet(S \ {x}) /\ Cardinality(S \ {x}) = Cardinality(S) - 1
  BY FS_RemoveElement

\* What PermitsAddUp says of one model.
LaneAddsUp(m) ==
    ModelLimit[m] # NoLimit =>
        /\ IsFiniteSet(InLane(m)) /\ lanes[m] \in Nat
        /\ lanes[m] = ModelLimit[m] - Cardinality(InLane(m))

LEMMA PermitsStep ==
  ASSUME Shapes, CacheHonest, PermitsAddUp, NEW c \in Callers, Begin(c) \/ Step(c)
  PROVE  PermitsAddUp'
<1>1. /\ IsFiniteSet(Holding(Inside)) /\ permits \in Nat /\ max_concurrent \in Nat
      /\ permits = max_concurrent - Cardinality(Holding(Inside))
      /\ Cardinality(Holding(Inside)) \in Nat
      /\ lanes = [m \in Models |-> lanes[m]]
  <2>1. IsFiniteSet(Holding(Inside))
    BY DEF PermitsAddUp, Inside
  <2>2. Cardinality(Holding(Inside)) \in Nat
    BY <2>1, FS_CardinalityType
  <2> QED
    BY <2>1, <2>2, GatewayAssumption, Zenon DEF PermitsAddUp, Inside
<1>2. \A m \in Models : LaneAddsUp(m) /\ (ModelLimit[m] # NoLimit => ModelLimit[m] \in Nat)
  BY GatewayAssumption, Zenon DEF PermitsAddUp, LaneAddsUp
<1>3. ASSUME NEW m \in Models, ModelLimit[m] # NoLimit
      PROVE  /\ IsFiniteSet(InLane(m)) /\ lanes[m] \in Nat /\ Cardinality(InLane(m)) \in Nat
             /\ lanes[m] = ModelLimit[m] - Cardinality(InLane(m)) /\ ModelLimit[m] \in Nat
  BY <1>2, <1>3, FS_CardinalityType, Zenon DEF LaneAddsUp
<1>4. ASSUME NEW m \in Models, lanes'[m] = lanes[m], InLane(m)' = InLane(m)
      PROVE  LaneAddsUp(m)'
  BY <1>2, <1>4, Zenon DEF LaneAddsUp
<1>5. SUFFICES /\ IsFiniteSet(Holding(Inside)') /\ permits' \in Nat
               /\ permits' = max_concurrent - Cardinality(Holding(Inside)')
               /\ lanes' = [m \in Models |-> lanes'[m]]
               /\ \A m \in Models : LaneAddsUp(m)'
  BY Zenon DEF PermitsAddUp, LaneAddsUp, Inside
<1>6. CASE AcquireGlobal(c)
  <2>1. PICK y : /\ Becomes(c, y) /\ y.req = calls[c].req
                 /\ y.pc = IF Limited(c) THEN "lane" ELSE "calling"
    BY <1>6, AcquireMoves DEF Keeps, SameTry
  <2>2. calls'[c] = y /\ \A d \in Callers : d # c => calls'[d] = calls[d]
    BY <2>1, OthersKeep
  <2>3. c \notin Holding(Inside) /\ Holding(Inside)' = Holding(Inside) \cup {c}
    BY <1>6, <2>1, <2>2, HoldersMove, Zenon DEF Holding, Inside, AcquireGlobal
  <2>4. permits > 0 /\ permits' = permits - 1 /\ lanes' = lanes
    BY <1>6 DEF AcquireGlobal
  <2>5. ASSUME NEW m \in Models PROVE LaneAddsUp(m)'
    <3>1. c \notin InLane(m)
      BY <1>6, Zenon DEF InLane, Holding, AcquireGlobal
    <3>2. CASE ModelLimit[m] = NoLimit
      BY <3>2 DEF LaneAddsUp
    <3>3. CASE ModelLimit[m] # NoLimit
      <4>1. ~(y.pc = "calling" /\ y.req.model = m)
        BY <2>1, <3>3, Zenon DEF Limited
      <4>2. InLane(m)' = InLane(m) \ {c}
        BY <2>2, <4>1, HoldersMove
      <4> QED
        BY <1>4, <2>4, <3>1, <4>2
    <3> QED
      BY <3>2, <3>3
  <2> QED
    BY <1>1, <2>3, <2>4, <2>5, OneMore
<1>7. CASE AcquireModel(c)
  <2>1. calls[c].pc = "lane" /\ ~AcquireGlobal(c)
    BY <1>7, Zenon DEF AcquireModel, AcquireGlobal
  <2>2. PICK y : Becomes(c, y) /\ y.req = calls[c].req /\ y.pc = "calling"
    BY <1>7, <2>1, AcquireMoves, Zenon DEF Keeps, SameTry
  <2>3. calls'[c] = y /\ \A d \in Callers : d # c => calls'[d] = calls[d]
    BY <2>2, OthersKeep
  <2>4. Holding(Inside)' = Holding(Inside)
    BY <2>1, <2>2, <2>3, HoldersMove DEF Holding, Inside
  <2>5. PICK n : n = calls[c].req.model
    OBVIOUS
  <2>6. permits' = permits /\ lanes[n] > 0 /\ lanes' = [lanes EXCEPT ![n] = lanes[n] - 1]
    BY <1>7, <2>5, Zenon DEF AcquireModel
  <2>7. lanes' = [m \in Models |-> lanes'[m]]
    BY <1>1, <2>6, Zenon
  <2>8. ASSUME NEW m \in Models PROVE LaneAddsUp(m)'
    <3>1. c \notin InLane(m)
      BY <2>1 DEF InLane, Holding
    <3>2. CASE m # n
      <4>1. InLane(m)' = InLane(m)
        BY <2>2, <2>3, <2>5, <3>1, <3>2, HoldersMove
      <4>2. lanes'[m] = lanes[m]
        BY <1>1, <2>6, <3>2
      <4> QED
        BY <1>4, <4>1, <4>2
    <3>3. CASE m = n /\ ModelLimit[m] # NoLimit
      <4>1. InLane(m)' = InLane(m) \cup {c}
        BY <2>2, <2>3, <2>5, <3>3, HoldersMove
      <4>2. lanes'[m] = lanes[m] - 1 /\ lanes[m] > 0
        BY <1>1, <2>6, <3>3
      <4>3. IsFiniteSet(InLane(m)') /\ Cardinality(InLane(m)') = Cardinality(InLane(m)) + 1
        BY <1>3, <3>1, <3>3, <4>1, OneMore
      <4> QED
        BY <1>3, <3>3, <4>2, <4>3 DEF LaneAddsUp
    <3> QED
      BY <3>2, <3>3, Zenon DEF LaneAddsUp
  <2> QED
    BY <1>1, <2>4, <2>6, <2>7, <2>8, Zenon
<1>8. CASE Answer(c) \/ Fail(c)
  <2>1. calls[c].pc = "calling" /\ Release(c)
    BY <1>8, Zenon DEF Answer, Fail
  <2>2. PICK y : Becomes(c, y) /\ y.pc \in {"answered", "failed"}
    BY <1>8, ReturnMoves
  <2>3. calls'[c] = y /\ \A d \in Callers : d # c => calls'[d] = calls[d]
    BY <2>2, OthersKeep
  <2>4. c \in Holding(Inside) /\ Holding(Inside)' = Holding(Inside) \ {c}
    BY <2>1, <2>2, <2>3, HoldersMove, Zenon DEF Holding, Inside
  <2>5. PICK n : n = calls[c].req.model
    OBVIOUS
  <2>6. /\ permits' = permits + 1
        /\ lanes' = IF ModelLimit[n] # NoLimit THEN [lanes EXCEPT ![n] = lanes[n] + 1] ELSE lanes
    BY <2>1, <2>5, Zenon DEF Release, Limited
  <2>7. lanes' = [m \in Models |-> lanes'[m]]
    BY <1>1, <2>6, Zenon
  <2>8. ASSUME NEW m \in Models PROVE LaneAddsUp(m)'
    <3>1. InLane(m)' = InLane(m) \ {c}
      BY <2>2, <2>3, HoldersMove, Zenon
    <3>2. CASE m # n
      <4>1. c \notin InLane(m)
        BY <2>5, <3>2 DEF InLane
      <4>2. lanes'[m] = lanes[m]
        BY <1>1, <2>6, <3>2
      <4> QED
        BY <1>4, <3>1, <4>1, <4>2
    <3>3. CASE m = n /\ ModelLimit[m] # NoLimit
      <4>1. c \in InLane(m)
        BY <2>1, <2>5, <3>3, Zenon DEF InLane, Holding
      <4>2. lanes'[m] = lanes[m] + 1
        BY <1>1, <2>6, <3>3
      <4>3. IsFiniteSet(InLane(m)') /\ Cardinality(InLane(m)') = Cardinality(InLane(m)) - 1
        BY <1>3, <3>1, <3>3, <4>1, OneLess
      <4> QED
        BY <1>3, <3>3, <4>2, <4>3 DEF LaneAddsUp
    <3> QED
      BY <3>2, <3>3, Zenon DEF LaneAddsUp
  <2> QED
    BY <1>1, <2>4, <2>6, <2>7, <2>8, OneLess
<1>9. CASE ~AcquireGlobal(c) /\ ~AcquireModel(c) /\ ~Answer(c) /\ ~Fail(c)
  <2>1. permits' = permits /\ lanes' = lanes /\ calls[c].pc \notin Inside
    BY <1>9, QuietMoves
  <2>2. PICK y : Becomes(c, y) /\ y.pc \notin Inside
    BY <1>9, QuietMoves
  <2>3. calls'[c] = y /\ \A d \in Callers : d # c => calls'[d] = calls[d]
    BY <2>2, OthersKeep
  <2>4. Holding(Inside)' = Holding(Inside)
    BY <2>1, <2>2, <2>3, HoldersMove, Zenon DEF Holding
  <2>5. ASSUME NEW m \in Models PROVE LaneAddsUp(m)'
    <3>1. c \notin InLane(m) /\ y.pc # "calling"
      BY <2>1, <2>2 DEF InLane, Holding, Inside
    <3>2. InLane(m)' = InLane(m) \ {c}
      BY <2>3, <3>1, HoldersMove, Zenon
    <3> QED
      BY <1>4, <2>1, <3>1, <3>2
  <2> QED
    BY <1>1, <2>1, <2>4, <2>5
<1> QED
  BY <1>6, <1>7, <1>8, <1>9, Zenon
-----------------------------------------------------------------------------
(* The budget.                                                             *)

\* A step of a caller pays for its call, or leaves the spend alone; then, if
\* it leaves the caller with a call to pay for, the caller had one before or
\* has just found the budget open.
Pays(c, y) ==
    \/ cost' = cost /\ (Unpaid(y) => Unpaid(calls[c]) \/ ~OverBudget)
    \/ /\ cost' = cost + Cost[calls[c].req.model] /\ calls[c].req.model \in Models
       /\ Unpaid(calls[c]) /\ ~Unpaid(y)

LEMMA PayStep ==
  ASSUME Shapes, CacheHonest, NEW c \in Callers, Begin(c) \/ Step(c)
  PROVE  \E y : Becomes(c, y) /\ Pays(c, y)
<1>0. CallOK(calls[c])
  BY DEF Shapes
<1>1. ASSUME calls[c].pc \in {"failed", "trip"}, cost' = cost, Onward(c)
      PROVE  \E y : Becomes(c, y) /\ Pays(c, y)
  BY <1>1, OnwardMoves, Zenon DEF Pays, Unpaid
<1>2. ASSUME NEW l \in {"failed", "trip", "closing", "insert"}, calls[c].pc # "idle", Goto(c, l),
             l \in {"closing", "insert"} => calls[c].pc \in {"answered", "closing"}
      PROVE  \E y : Becomes(c, y) /\ y.pc = l /\ y.req = calls[c].req
  <2>1. l \in Labels \ {"idle", "hit"}
    BY DEF Labels
  <2> QED
    BY <1>2, <2>1, GotoMoves DEF Keeps, SameTry
<1>3. CASE Begin(c)
  BY <1>3, BeginMoves, BeginKeeps, Zenon DEF Pays, Unpaid
<1>4. CASE Route(c)
  <2>1. cost' = cost /\ calls[c].pc = "route"
    BY <1>4, Zenon DEF Route
  <2> QED
    BY <1>4, <2>1, RouteMoves, Zenon DEF Pays, Unpaid
<1>5. CASE AcquireGlobal(c) \/ AcquireModel(c)
  <2>1. cost' = cost /\ calls[c].pc \in {"permit", "lane"}
    BY <1>5, Zenon DEF AcquireGlobal, AcquireModel
  <2> QED
    BY <1>5, <2>1, AcquireMoves, Zenon DEF Pays, Unpaid, Keeps, SameTry
<1>6. CASE Answer(c) \/ Fail(c)
  <2>1. cost' = cost /\ calls[c].pc = "calling"
    BY <1>6, Zenon DEF Answer, Fail
  <2> QED
    BY <1>6, <2>1, ReturnMoves, Zenon DEF Pays, Unpaid, SameTry
<1>7. CASE StreamOpens(c) \/ Push(c) \/ Return(c)
  <2>1. cost' = cost /\ Finish(c)
    BY <1>7, Zenon DEF StreamOpens, Push, Return, shared
  <2> QED
    BY <2>1, FinishMoves, Zenon DEF Pays, Unpaid
<1>8. CASE StreamFails(c)
  <2>1. cost' = cost /\ calls[c].pc = "opening" /\ Goto(c, "failed")
    BY <1>8 DEF StreamFails, shared
  <2>2. calls[c].req.kind # "complete"
    BY <1>0, <2>1, Zenon DEF CallOK
  <2> QED
    BY <1>2, <2>1, <2>2, Zenon DEF Pays, Unpaid
<1>9. CASE CountFailure(c)
  <2>1. cost' = cost /\ calls[c].pc = "failed" /\ (Goto(c, "trip") \/ Onward(c))
    BY <1>9 DEF CountFailure
  <2>2. CASE Goto(c, "trip")
    BY <1>2, <2>1, <2>2, Zenon DEF Pays, Unpaid
  <2> QED
    BY <1>1, <2>1, <2>2, Zenon
<1>10. CASE Trip(c)
  <2>1. cost' = cost /\ calls[c].pc = "trip" /\ Onward(c)
    BY <1>10 DEF Trip
  <2> QED
    BY <1>1, <2>1, Zenon
<1>11. CASE ClearFailures(c)
  <2>1. cost' = cost /\ calls[c].pc = "answered" /\ Goto(c, "closing")
    BY <1>11 DEF ClearFailures
  <2> QED
    BY <1>2, <2>1, Zenon DEF Pays, Unpaid
<1>12. CASE Close(c)
  <2>1. /\ cost' = cost + Cost[calls[c].req.model] /\ calls[c].pc = "closing"
        /\ Goto(c, "insert") \/ Finish(c)
    BY <1>12, Zenon DEF Close
  <2>2. calls[c].req \in Requests /\ calls[c].req.kind = "complete"
    BY <1>0, <2>1, Zenon DEF CallOK, Given
  <2>3. calls[c].req.model \in Models /\ Unpaid(calls[c])
    BY <2>1, <2>2, GatewayAssumption, Zenon DEF Unpaid
  <2>4. \E y : Becomes(c, y) /\ y.pc \in {"insert", "idle"}
    BY <1>2, <2>1, FinishMoves, Zenon
  <2> QED
    BY <2>1, <2>3, <2>4, Zenon DEF Pays, Unpaid
<1>13. CASE Insert(c)
  <2>1. cost' = cost
    BY <1>13 DEF Insert
  <2> QED
    BY <1>13, <2>1, InsertMoves, Zenon DEF Pays, Unpaid
<1> QED
  BY <1>3, <1>4, <1>5, <1>6, <1>7, <1>8, <1>9, <1>10, <1>11, <1>12, <1>13,
     Zenon DEF Step

\* Callers, and sets of them, are counted.
LEMMA SomeCallers ==
  ASSUME NEW S, S \subseteq Callers
  PROVE  /\ IsFiniteSet(S) /\ Cardinality(S) \in Nat /\ Cardinality(Callers) \in Nat
         /\ Cardinality(S) <= Cardinality(Callers)
  BY FS_Subset, FS_CardinalityType, GatewayAssumption, Zenon

\* Products of natural numbers.
LEMMA Products ==
  ASSUME NEW a \in Nat, NEW b \in Nat, NEW d \in Nat
  PROVE  /\ a * d \in Nat /\ (a + 1) * d = a * d + d
         /\ a <= b => a * d <= b * d
  OBVIOUS

LEMMA BudgetStep ==
  ASSUME Shapes, CacheHonest, BudgetCovers, NEW c \in Callers, Begin(c) \/ Step(c)
  PROVE  BudgetCovers'
<1>1. PICK y : /\ Becomes(c, y)
               /\ \/ cost' = cost /\ (Unpaid(y) => Unpaid(calls[c]) \/ ~OverBudget)
                  \/ /\ cost' = cost + Cost[calls[c].req.model] /\ calls[c].req.model \in Models
                     /\ Unpaid(calls[c]) /\ ~Unpaid(y)
  BY PayStep, Zenon DEF Pays
<1>2. Owing' = IF Unpaid(y) THEN Owing \cup {c} ELSE Owing \ {c}
  <2>1. calls'[c] = y /\ \A d \in Callers : d # c => calls'[d] = calls[d]
    BY <1>1, OthersKeep, Zenon
  <2>2. Owing' = {d \in Callers : Unpaid(calls'[d])}
    BY DEF Owing, Unpaid
  <2> HIDE DEF Unpaid
  <2> QED
    BY <2>1, <2>2, Zenon DEF Owing
<1>3. PICK n, u, v : n = Cardinality(Callers) /\ u = Cardinality(Owing) /\ v = Cardinality(Owing')
  OBVIOUS
<1>4. n \in Nat /\ u \in Nat /\ v \in Nat /\ u <= n /\ v <= n /\ IsFiniteSet(Owing)
  <2>1. Owing \subseteq Callers /\ Owing' \subseteq Callers
    BY DEF Owing
  <2> QED
    BY <1>3, <2>1, SomeCallers
<1>5. cost \in Nat /\ budget \in Nat /\ \A m \in Models : Cost[m] \in Nat
  BY GatewayAssumption, Zenon DEF BudgetCovers
<1>6. cost' \in Nat
  BY <1>1, <1>5
<1>7. SUFFICES ASSUME NEW m \in Models, \A k \in Models : Cost[k] <= Cost[m]
               PROVE  cost' < budget + (n - v) * Cost[m]
  BY <1>3, <1>6, Zenon DEF BudgetCovers
<1>8. PICK d \in Nat : d = Cost[m]
  BY <1>5
<1>9. cost < budget + (n - u) * d
  BY <1>3, <1>7, <1>8 DEF BudgetCovers
<1>10. n - u \in Nat /\ n - v \in Nat
  BY <1>4
<1>11. CASE cost' = cost /\ v <= u
  <2>1. (n - u) * d <= (n - v) * d /\ (n - u) * d \in Nat /\ (n - v) * d \in Nat
    <3>1. n - u <= n - v
      BY <1>4, <1>11
    <3> QED
      BY <1>10, <3>1, Products
  <2> QED
    BY <1>5, <1>8, <1>9, <1>11, <2>1
<1>12. CASE cost' = cost /\ ~OverBudget
  <2>1. (n - v) * d \in Nat
    BY <1>10, Products
  <2>2. cost < budget
    BY <1>5, <1>12 DEF OverBudget
  <2> QED
    BY <1>5, <1>8, <1>12, <2>1, <2>2
<1>13. CASE /\ cost' = cost + Cost[calls[c].req.model] /\ calls[c].req.model \in Models
            /\ Unpaid(calls[c]) /\ ~Unpaid(y)
  <2>1. v = u - 1
    <3>1. c \in Owing /\ Owing' = Owing \ {c}
      BY <1>2, <1>13, Zenon DEF Owing
    <3> QED
      BY <1>3, <1>4, <3>1, OneLess
  <2>2. (n - v) * d = (n - u) * d + d /\ (n - u) * d \in Nat
    <3>1. n - v = (n - u) + 1
      BY <1>4, <2>1
    <3> QED
      BY <1>10, <3>1, Products
  <2>3. PICK e \in Nat : e = Cost[calls[c].req.model] /\ e <= d
    BY <1>5, <1>7, <1>8, <1>13, Zenon
  <2> QED
    BY <1>5, <1>8, <1>9, <1>13, <2>2, <2>3
<1>14. CASE cost' = cost /\ (Unpaid(y) => Unpaid(calls[c]))
  <2>1. Owing' \subseteq Owing
    BY <1>2, <1>14 DEF Owing
  <2>2. v <= u
    BY <1>3, <1>4, <2>1, FS_Subset
  <2> QED
    BY <1>11, <1>14, <2>2
<1> QED
  BY <1>1, <1>12, <1>13, <1>14, Zenon

-----------------------------------------------------------------------------
(* The breakers.                                                           *)

\* What a caller may still begin at p after it moved to y.
LEMMA ComingMoves ==
  ASSUME Shapes, NEW c \in Callers, NEW y, Becomes(c, y), NEW p
  PROVE  /\ (\A k \in 1..max_attempts : MayBegin(y, p, k) => MayBegin(calls[c], p, k)) =>
                Coming(p)' \subseteq Coming(p)
         /\ \A k \in 1..max_attempts : ~MayBegin(y, p, k) => <<c, k>> \notin Coming(p)'
<1>1. calls'[c] = y /\ \A d \in Callers : d # c => calls'[d] = calls[d]
  BY OthersKeep
<1>2. Coming(p)' = {s \in Slots : MayBegin(calls'[s[1]], p, s[2])}
  BY DEF Coming, MayBegin, Slots
<1>3. \A s \in Slots : s[1] \in Callers /\ s[2] \in 1..max_attempts
  BY DEF Slots
<1> HIDE DEF MayBegin, Slots
<1> QED
  BY <1>1, <1>2, <1>3, Zenon DEF Coming

\* What becomes of p's breaker and of the attempts counted against it:
\* closed, or as it was with no attempt to come that was not to come before,
\* or as it was with an attempt begun that cannot be begun again, or opened
\* by a caller whose first attempt is behind it.
Closed(p) == breaker'[p].opened_at = Never /\ pressed'[p] = 0
Quiet(p) ==
    /\ breaker'[p].opened_at = breaker[p].opened_at /\ pressed'[p] = pressed[p]
    /\ Coming(p)' \subseteq Coming(p)
Pressed(p) ==
    /\ breaker'[p].opened_at = breaker[p].opened_at /\ breaker[p].opened_at # Never
    /\ pressed'[p] = pressed[p] + 1
    /\ \E s \in Coming(p) : Coming(p)' \subseteq Coming(p) \ {s}
Opened(p) ==
    /\ breaker[p].opened_at = Never /\ pressed'[p] = pressed[p]
    /\ \E s \in Slots : s \notin Coming(p)'

LEMMA PressMoves ==
  ASSUME Shapes, CacheHonest, NEW c \in Callers, Begin(c) \/ Step(c), NEW p \in Names,
         breaker[p].opened_at = Never => pressed[p] = 0
  PROVE  Closed(p) \/ Quiet(p) \/ Pressed(p) \/ Opened(p)
<1>0. PICK x, q : x = calls[c] /\ q = Provider(c)
  OBVIOUS
<1>1. /\ CallOK(x) /\ x.attempt \in Nat /\ max_attempts \in Nat \ {0} /\ pressed \in [Names -> Nat]
      /\ breaker \in [Names -> [failures : Nat, opened_at : {Never} \cup 0..now]]
  <2>1. CallOK(x)
    BY <1>0, Zenon DEF Shapes
  <2>2. x.attempt \in Nat
    BY <2>1, Zenon DEF CallOK
  <2> QED
    BY <2>1, <2>2, GatewayAssumption, Zenon DEF Shapes
<1>2. ASSUME NEW y, Becomes(c, y), y.pc \notin {"permit", "lane", "calling", "failed", "trip"}
      PROVE  Coming(p)' \subseteq Coming(p)
  <2>1. \A k \in 1..max_attempts : ~MayBegin(y, p, k)
    BY <1>2, Zenon DEF MayBegin
  <2> QED
    BY <1>2, <2>1, ComingMoves, Zenon
<1>3. ASSUME x.pc \in {"failed", "trip"}, Onward(c)
      PROVE  Coming(p)' \subseteq Coming(p) /\ <<c, 1>> \in Slots /\ <<c, 1>> \notin Coming(p)'
  <2>1. PICK y : /\ Becomes(c, y) /\ y.pc \in {"permit", "route", "idle"}
                 /\ y.pc # "idle" => y.req = x.req
                 /\ y.pc = "permit" => Retries(y, x)
    BY <1>0, <1>3, OnwardMoves, Zenon
  <2>2. y.pc = "permit" => x.attempt >= 1
    BY <1>1, <2>1 DEF CallOK, Served, Attempting, Retries
  <2>3. \A k \in 1..max_attempts : MayBegin(y, p, k) => MayBegin(x, p, k) /\ k # 1
    BY <1>1, <1>3, <2>1, <2>2 DEF MayBegin, Retries
  <2>4. 1 \in 1..max_attempts /\ <<c, 1>> \in Slots
    BY <1>1 DEF Slots
  <2> QED
    BY <1>0, <2>1, <2>3, <2>4, ComingMoves, Zenon
<1>4. ASSUME UNCHANGED <<breaker, pressed>>, Coming(p)' \subseteq Coming(p)
      PROVE  Quiet(p)
  BY <1>4 DEF Quiet
<1>5. CASE Begin(c)
  <2>1. \E y : Becomes(c, y) /\ y.pc \in {"idle", "hit", "route"}
    BY <1>5, BeginMoves
  <2> QED
    BY <1>2, <1>4, <1>5, <2>1, BeginKeeps, Zenon
<1>6. CASE Route(c)
  <2>1. PICK open \in BOOLEAN : circuit_is_open(q, open)
    BY <1>0, <1>6, Zenon DEF Route
  <2>2. PICK y : /\ Becomes(c, y) /\ y.pc \in {"route", "idle", "opening", "permit"}
                 /\ y.pc # "idle" => y.req = x.req
                 /\ y.pc = "permit" => y.at = x.at /\ ~IsOpen(q)
    BY <1>0, <1>6, RouteMoves, Zenon
  <2>3. CASE p = q /\ breaker[p].opened_at # Never /\ ~IsOpen(p)
    <3>1. breaker' = [breaker EXCEPT ![p] = Breaker]
      BY <2>1, <2>3 DEF circuit_is_open
    <3>2. breaker'[p].opened_at = Never
      BY <1>1, <3>1 DEF Breaker
    <3>3. breaker'[p] # breaker[p]
      BY <2>3, <3>2
    <3>4. pressed' = [pressed EXCEPT ![p] = 0]
      BY <2>1, <2>3, <3>3 DEF circuit_is_open
    <3> QED
      BY <1>1, <3>2, <3>4 DEF Closed
  <2>4. CASE ~(p = q /\ breaker[p].opened_at # Never /\ ~IsOpen(p))
    <3>1. breaker'[p] = breaker[p] /\ pressed'[p] = pressed[p]
      BY <1>1, <2>1, <2>4, Zenon DEF circuit_is_open
    <3>2. CASE y.pc = "permit" /\ p = q
      BY <2>2, <2>4, <3>1, <3>2, Zenon DEF Closed
    <3>3. CASE ~(y.pc = "permit" /\ p = q)
      <4>1. \A k \in 1..max_attempts : ~MayBegin(y, p, k)
        BY <1>0, <2>2, <3>3, Zenon DEF MayBegin, Provider
      <4>2. Coming(p)' \subseteq Coming(p)
        BY <2>2, <4>1, ComingMoves, Zenon
      <4> QED
        BY <3>1, <4>2 DEF Quiet
    <3> QED
      BY <3>2, <3>3
  <2> QED
    BY <2>3, <2>4, Zenon
<1>7. CASE AcquireGlobal(c) \/ AcquireModel(c)
  <2>1. PICK y : /\ Becomes(c, y) /\ Keeps(y, x)
                 /\ y.pc = IF AcquireGlobal(c) /\ Limited(c) THEN "lane" ELSE "calling"
    BY <1>0, <1>7, AcquireMoves
  <2>2. x.pc \in {"permit", "lane"} /\ breaker' = breaker
    BY <1>0, <1>7, Zenon DEF AcquireGlobal, AcquireModel
  <2>3. Coming(p)' \subseteq Coming(p)
    <3>1. y.pc \in {"lane", "calling"} /\ y.req = x.req /\ y.at = x.at /\ y.attempt = x.attempt
      BY <2>1 DEF Keeps, SameTry
    <3>2. \A k \in 1..max_attempts : MayBegin(y, p, k) => MayBegin(x, p, k)
      BY <1>1, <2>2, <3>1 DEF MayBegin
    <3> QED
      BY <1>0, <2>1, <3>2, ComingMoves, Zenon
  <2>4. CASE AcquireGlobal(c) /\ Limited(c)
    <3>1. pressed' = pressed
      BY <2>4 DEF AcquireGlobal
    <3> QED
      BY <1>4, <2>2, <2>3, <3>1
  <2>5. CASE ~(AcquireGlobal(c) /\ Limited(c))
    <3>1. pressed' = IF IsOpen(q) THEN [pressed EXCEPT ![q] = @ + 1] ELSE pressed
      BY <1>0, <1>7, <2>5, Zenon DEF AcquireGlobal, AcquireModel, Send
    <3>2. CASE p = q /\ IsOpen(p)
      <4>1. pressed'[p] = pressed[p] + 1 /\ breaker[p].opened_at # Never
        BY <1>1, <3>1, <3>2 DEF IsOpen
      <4>2. x.attempt \in 1..max_attempts
        BY <1>1, <2>2, Zenon DEF CallOK, Served, Attempting
      <4>3. MayBegin(x, p, x.attempt)
        <5>1. \A n \in Nat : n >= n
          OBVIOUS
        <5>2. candidates[x.req][x.at] = p
          BY <1>0, <3>2, Zenon DEF Provider
        <5> QED
          BY <1>1, <2>2, <5>1, <5>2, Zenon DEF MayBegin
      <4>4. <<c, x.attempt>> \in Coming(p)
        BY <1>0, <4>2, <4>3 DEF Coming, Slots
      <4>5. ~MayBegin(y, p, x.attempt)
        BY <1>1, <2>1, <2>5 DEF MayBegin, Keeps, SameTry
      <4>6. <<c, x.attempt>> \notin Coming(p)'
        BY <2>1, <4>2, <4>5, ComingMoves, Zenon
      <4> QED
        BY <2>2, <2>3, <4>1, <4>4, <4>6, Zenon DEF Pressed
    <3>3. CASE ~(p = q /\ IsOpen(p))
      <4>1. pressed'[p] = pressed[p]
        BY <1>1, <3>1, <3>3
      <4> QED
        BY <2>2, <2>3, <4>1 DEF Quiet
    <3> QED
      BY <3>2, <3>3
  <2> QED
    BY <2>4, <2>5
<1>8. CASE Answer(c) \/ Fail(c)
  <2>1. PICK y : Becomes(c, y) /\ y.pc \in {"answered", "failed"} /\ SameTry(y, x)
    BY <1>0, <1>8, ReturnMoves
  <2>2. x.pc = "calling" /\ UNCHANGED <<breaker, pressed>>
    BY <1>0, <1>8, Zenon DEF Answer, Fail
  <2>3. \A k \in 1..max_attempts : MayBegin(y, p, k) => MayBegin(x, p, k)
    BY <1>1, <2>1, <2>2, Zenon DEF MayBegin, SameTry
  <2> QED
    BY <1>0, <1>4, <2>1, <2>2, <2>3, ComingMoves, Zenon
<1>9. CASE StreamOpens(c) \/ Push(c) \/ Return(c) \/ Insert(c)
  <2>1. UNCHANGED <<breaker, pressed>> /\ (Finish(c) \/ Insert(c))
    BY <1>9, Zenon DEF StreamOpens, Push, Return, Insert, shared
  <2>2. \E y : Becomes(c, y) /\ y.pc \in {"idle", "order"}
    BY <2>1, FinishMoves, InsertMoves
  <2> QED
    BY <1>2, <1>4, <2>1, <2>2
<1>10. ASSUME NEW l \in {"failed", "trip", "closing", "insert"}, x.pc # "idle", Goto(c, l),
              l \in {"closing", "insert"} => x.pc \in {"answered", "closing"},
              l \in {"failed", "trip"} => x.pc = "failed" \/ ~x.retryable
       PROVE  Coming(p)' \subseteq Coming(p)
  <2>1. l \in Labels \ {"idle", "hit"}
    BY DEF Labels
  <2>2. PICK y : Becomes(c, y) /\ y.pc = l /\ Keeps(y, x)
    BY <1>0, <1>10, <2>1, GotoMoves, Zenon
  <2>3. \A k \in 1..max_attempts : MayBegin(y, p, k) => MayBegin(x, p, k)
    BY <1>1, <1>10, <2>2, Zenon DEF MayBegin, Keeps, SameTry
  <2> QED
    BY <1>0, <2>2, <2>3, ComingMoves, Zenon
<1>11. CASE StreamFails(c)
  <2>1. x.pc = "opening" /\ Goto(c, "failed") /\ UNCHANGED <<breaker, pressed>>
    BY <1>0, <1>11 DEF StreamFails, shared
  <2>2. ~x.retryable
    BY <1>1, <2>1, Zenon DEF CallOK, Served, Attempting
  <2> QED
    BY <1>4, <1>10, <2>1, <2>2
<1>12. CASE CountFailure(c) \/ ClearFailures(c)
  <2>1. PICK n : pressed' = pressed /\ breaker' = [breaker EXCEPT ![q].failures = n]
    BY <1>0, <1>12, Zenon DEF CountFailure, ClearFailures
  <2>2. breaker'[p].opened_at = breaker[p].opened_at
    BY <1>1, <2>1
  <2>3. CASE CountFailure(c)
    <3>1. x.pc = "failed" /\ (Goto(c, "trip") \/ Onward(c))
      BY <1>0, <2>3 DEF CountFailure
    <3> QED
      BY <1>3, <1>10, <2>1, <2>2, <3>1 DEF Quiet
  <2>4. CASE ClearFailures(c)
    <3>1. x.pc = "answered" /\ Goto(c, "closing")
      BY <1>0, <2>4 DEF ClearFailures
    <3> QED
      BY <1>10, <2>1, <2>2, <3>1 DEF Quiet
  <2> QED
    BY <1>12, <2>3, <2>4
<1>13. CASE Trip(c)
  <2>1. x.pc = "trip" /\ Onward(c) /\ pressed' = pressed
    BY <1>0, <1>13 DEF Trip
  <2>2. CASE breaker[p].opened_at = Never
    BY <1>3, <2>1, <2>2 DEF Opened
  <2>3. CASE breaker[p].opened_at # Never
    <3>1. breaker'[p].opened_at = breaker[p].opened_at
      BY <1>0, <1>1, <1>13, <2>3, Zenon DEF Trip
    <3> QED
      BY <1>3, <2>1, <3>1 DEF Quiet
  <2> QED
    BY <2>2, <2>3
<1>14. CASE Close(c)
  <2>1. /\ x.pc = "closing" /\ (Goto(c, "insert") \/ Finish(c))
        /\ breaker' = [breaker EXCEPT ![q].opened_at = Never]
        /\ pressed' = [pressed EXCEPT ![q] = 0]
    BY <1>0, <1>14, Zenon DEF Close
  <2>2. Coming(p)' \subseteq Coming(p)
    BY <1>2, <1>10, <2>1, FinishMoves
  <2>3. CASE p = q
    BY <1>1, <2>1, <2>3 DEF Closed
  <2>4. CASE p # q
    BY <1>1, <2>1, <2>2, <2>4 DEF Quiet
  <2> QED
    BY <2>3, <2>4
<1> QED
  BY <1>5, <1>6, <1>7, <1>8, <1>9, <1>11, <1>12, <1>13, <1>14 DEF Step

\* The slots, and sets of them, are counted.
LEMMA SomeSlots ==
  ASSUME NEW S, S \subseteq Slots
  PROVE  /\ IsFiniteSet(S) /\ Cardinality(S) \in Nat
         /\ Cardinality(S) <= Cardinality(Callers) * max_attempts
         /\ Cardinality(Callers) * max_attempts \in Nat
         /\ \A s \in Slots : s \notin S => Cardinality(S) < Cardinality(Callers) * max_attempts
<1>1. Cardinality(Callers) \in Nat /\ IsFiniteSet(Callers) /\ max_attempts \in Nat \ {0}
  BY FS_CardinalityType, GatewayAssumption, Zenon
<1>2. IsFiniteSet(1..max_attempts) /\ Cardinality(1..max_attempts) = max_attempts
  BY <1>1, FS_Interval
<1>3. IsFiniteSet(Slots) /\ Cardinality(Slots) = Cardinality(Callers) * max_attempts
  BY <1>1, <1>2, FS_Product DEF Slots
<1>4. /\ IsFiniteSet(S) /\ Cardinality(S) <= Cardinality(Slots)
      /\ Cardinality(Slots) = Cardinality(S) => Slots = S
  BY <1>3, FS_Subset
<1>5. Cardinality(S) \in Nat /\ Cardinality(Slots) \in Nat
  BY <1>3, <1>4, FS_CardinalityType
<1> QED
  BY <1>3, <1>4, <1>5

LEMMA PressStep ==
  ASSUME Shapes, CacheHonest, PressBounded, NEW c \in Callers, Begin(c) \/ Step(c)
  PROVE  PressBounded'
<1>1. SUFFICES ASSUME NEW p \in Names
               PROVE  /\ breaker'[p].opened_at = Never => pressed'[p] = 0
                      /\ breaker'[p].opened_at # Never =>
                            pressed'[p] + Cardinality(Coming(p)') < Cardinality(Callers) * max_attempts
  BY Zenon DEF PressBounded
<1>2. PICK n, u, v : /\ n = Cardinality(Callers) * max_attempts
                     /\ u = Cardinality(Coming(p)) /\ v = Cardinality(Coming(p)')
  OBVIOUS
<1>3. Coming(p) \subseteq Slots /\ Coming(p)' \subseteq Slots
  BY DEF Coming, Slots
<1>4. n \in Nat /\ u \in Nat /\ v \in Nat /\ IsFiniteSet(Coming(p))
  BY <1>2, <1>3, SomeSlots
<1>5. /\ pressed[p] \in Nat /\ (breaker[p].opened_at = Never => pressed[p] = 0)
      /\ breaker[p].opened_at # Never => pressed[p] + u < n
  BY <1>2, Zenon DEF Shapes, PressBounded
<1>6. CASE Closed(p)
  BY <1>6 DEF Closed
<1>7. CASE Quiet(p)
  <2>1. v <= u
    BY <1>2, <1>4, <1>7, FS_Subset DEF Quiet
  <2> QED
    BY <1>2, <1>4, <1>5, <1>7, <2>1 DEF Quiet
<1>8. CASE Pressed(p)
  <2>1. PICK s \in Coming(p) : Coming(p)' \subseteq Coming(p) \ {s}
    BY <1>8 DEF Pressed
  <2>2. IsFiniteSet(Coming(p) \ {s}) /\ Cardinality(Coming(p) \ {s}) = u - 1
    BY <1>2, <1>4, OneLess
  <2>3. v <= u - 1
    BY <1>2, <2>1, <2>2, FS_Subset
  <2> QED
    BY <1>2, <1>4, <1>5, <1>8, <2>3 DEF Pressed
<1>9. CASE Opened(p)
  <2>1. v < n
    BY <1>2, <1>3, <1>9, SomeSlots, Zenon DEF Opened
  <2>2. pressed'[p] = 0
    BY <1>5, <1>9 DEF Opened
  <2> QED
    BY <1>2, <1>4, <2>1, <2>2
<1> QED
  BY <1>5, <1>6, <1>7, <1>8, <1>9, PressMoves, Zenon

-----------------------------------------------------------------------------
(* The invariant and what follows from it.                                 *)

LEMMA GatewayStarts == Init => GatewayInv
<1> SUFFICES ASSUME Init PROVE GatewayInv
  OBVIOUS
<1>1. Shapes
  <2>1. now \in 0..MaxNow /\ made \in 0..MaxCalls /\ 0 \in 0..now
    BY GatewayAssumption DEF Init
  <2>2. breaker \in [Names -> [failures : Nat, opened_at : {Never} \cup 0..now]]
    BY <2>1 DEF Init, Breaker
  <2>3. pressed \in [Names -> Nat] /\ order \in Seq(CacheKeys) /\ Len(order) <= cache_capacity
    BY GatewayAssumption DEF Init
  <2>4. calls = [c \in Callers |-> calls[c]] /\ \A c \in Callers : calls[c] = Idle
    BY DEF Init
  <2>5. \A c \in Callers : CallOK(calls[c])
    BY <2>4, IdleOK
  <2> QED
    BY <2>1, <2>2, <2>3, <2>4, <2>5 DEF Shapes
<1>2. CacheHonest /\ CacheBounded
  BY DEF Init, CacheHonest, CacheBounded
<1>3. PermitsAddUp
  <2>1. \A c \in Callers : calls[c].pc = "idle"
    BY IdleOK DEF Init
  <2>2. Holding(Inside) = {} /\ \A m \in Models : InLane(m) = {}
    BY <2>1 DEF Holding, Inside, InLane
  <2>3. lanes = [m \in Models |-> lanes[m]] /\ lanes = ModelLimit
    BY GatewayAssumption, Zenon DEF Init
  <2>4. permits \in Nat /\ permits = max_concurrent - 0
    BY GatewayAssumption DEF Init
  <2>5. \A m \in Models : ModelLimit[m] # NoLimit =>
           lanes[m] \in Nat /\ lanes[m] = ModelLimit[m] - 0
    BY <2>3, GatewayAssumption
  <2> QED
    BY <2>2, <2>3, <2>4, <2>5, FS_EmptySet DEF PermitsAddUp, Inside
<1>4. BudgetCovers
  <2>1. \A c \in Callers : calls[c].pc = "idle"
    BY IdleOK DEF Init
  <2>2. Owing = {}
    BY <2>1 DEF Owing, Unpaid
  <2>3. Cardinality(Owing) = 0 /\ Cardinality(Callers) \in Nat
    BY <2>2, FS_EmptySet, SomeCallers
  <2>4. ASSUME NEW m \in Models
        PROVE  cost < budget + (Cardinality(Callers) - Cardinality(Owing)) * Cost[m]
    <3>1. PICK n \in Nat, d \in Nat : n = Cardinality(Callers) /\ d = Cost[m]
      BY <2>3, GatewayAssumption, Zenon
    <3>2. n * d \in Nat /\ budget \in Nat \ {0} /\ n - 0 = n
      BY Products, GatewayAssumption
    <3> QED
      BY <2>3, <3>1, <3>2 DEF Init
  <2> QED
    BY <2>4 DEF BudgetCovers, Init
<1>5. PressBounded
  BY DEF Init, PressBounded, Breaker
<1> QED
  BY <1>1, <1>2, <1>3, <1>4, <1>5 DEF GatewayInv

LEMMA GatewayStep == GatewayInv /\ [Next]_vars => GatewayInv'
<1> SUFFICES ASSUME GatewayInv, [Next]_vars PROVE GatewayInv'
  OBVIOUS
<1>1. Shapes /\ CacheHonest /\ CacheBounded /\ PermitsAddUp /\ BudgetCovers /\ PressBounded
  BY DEF GatewayInv
<1>2. ASSUME NEW c \in Callers, Begin(c) \/ Step(c)
      PROVE  GatewayInv'
  BY <1>1, <1>2, ShapesStep, HonestStep, BoundedStep, PermitsStep, BudgetStep, PressStep
     DEF GatewayInv
<1>3. ASSUME now' \in {now, now + 1}, now' \in 0..MaxNow,
             UNCHANGED <<breaker, permits, lanes, cache, order, cost, calls, made, pressed>>
      PROVE  GatewayInv'
  <2>1. now' \in 0..MaxNow /\ 0..now \subseteq 0..now'
    <3>1. now \in 0..MaxNow
      BY <1>1, Zenon DEF Shapes
    <3> QED
      BY <1>3, <3>1, Bounds
  <2>2. breaker' \in [Names -> [failures : Nat, opened_at : {Never} \cup 0..now']]
    <3> DEFINE Old == [failures : Nat, opened_at : {Never} \cup 0..now]
               New == [failures : Nat, opened_at : {Never} \cup 0..now']
    <3>1. Old \subseteq New
      BY <2>1
    <3>2. breaker \in [Names -> Old] /\ breaker' = breaker
      BY <1>1, <1>3, Zenon DEF Shapes
    <3> HIDE DEF Old, New
    <3>3. breaker' \in [Names -> New]
      BY <3>1, <3>2
    <3> QED
      BY <3>3 DEF New
  <2>3. Shapes'
    <3>1. \A c \in Callers : CallOK(calls'[c])
      BY <1>1, <1>3, Zenon DEF Shapes
    <3>2. calls' = [c \in Callers |-> calls'[c]]
      BY <1>1, <1>3, Zenon DEF Shapes
    <3> QED
      BY <1>1, <1>3, <2>1, <2>2, <3>1, <3>2, Zenon DEF Shapes
  <2>4. CacheHonest' /\ CacheBounded'
    BY <1>1, <1>3 DEF CacheHonest, CacheBounded, Holding
  <2>5. PermitsAddUp'
    BY <1>1, <1>3, Zenon DEF PermitsAddUp, Holding, InLane
  <2>6. BudgetCovers' /\ PressBounded'
    BY <1>1, <1>3, Zenon
       DEF BudgetCovers, PressBounded, Owing, Unpaid, Coming, Slots, MayBegin
  <2> QED
    BY <2>3, <2>4, <2>5, <2>6 DEF GatewayInv
<1>4. CASE Tick
  <2>1. now' = now + 1 /\ now' \in 0..MaxNow
    <3>1. now \in 0..MaxNow /\ now < MaxNow /\ now' = now + 1
      BY <1>1, <1>4, Zenon DEF Tick, Shapes
    <3> QED
      BY <3>1, Bounds
  <2> QED
    BY <1>3, <1>4, <2>1 DEF Tick, shared
<1>5. CASE UNCHANGED vars
  BY <1>1, <1>3, <1>5, Zenon DEF vars, Shapes
<1> QED
  BY <1>2, <1>4, <1>5 DEF Next

LEMMA GatewayInvariant == Spec => []GatewayInv
  BY GatewayStarts, GatewayStep, PTL DEF Spec

\* The gateway's shared state and the callers' stay in their types.
THEOREM GatewayTypes == Spec => []TypeOK
<1>1. GatewayInv => TypeOK
  <2> SUFFICES ASSUME Shapes, PermitsAddUp PROVE TypeOK
    BY DEF GatewayInv
  <2>1. permits \in 0..max_concurrent
    <3>1. Cardinality(Holding({"lane", "calling"})) \in Nat
      BY FS_CardinalityType DEF PermitsAddUp
    <3> QED
      BY <3>1, GatewayAssumption DEF PermitsAddUp
  <2>2. \A c \in Callers : calls[c].pc # "idle" => calls[c].req \in Requests
    BY Zenon DEF Shapes, CallOK
  <2>3. \A p \in Names : /\ breaker[p].failures \in Nat
                         /\ breaker[p].opened_at \in {Never} \cup 0..now
                         /\ pressed[p] \in Nat
    BY DEF Shapes
  <2> QED
    BY <2>1, <2>2, <2>3, Zenon DEF Shapes, PermitsAddUp, TypeOK
<1> QED
  BY <1>1, GatewayInvariant, PTL

\* Neither the global limit nor a model's is ever exceeded, and no permit is
\* lost or invented, whatever number of callers share the gateway: a permit
\* is free or held by the caller that call_once gave it to.
THEOREM LimitsAlwaysHeld == Spec => []LimitsHeld
<1>1. GatewayInv => LimitsHeld
  <2> SUFFICES ASSUME PermitsAddUp PROVE LimitsHeld
    BY DEF GatewayInv
  <2>1. ASSUME NEW m \in Models, ModelLimit[m] # NoLimit
        PROVE  Cardinality(InLane(m)) <= ModelLimit[m]
    <3>1. IsFiniteSet(InLane(m)) /\ lanes[m] \in Nat /\ ModelLimit[m] \in Nat
          /\ lanes[m] = ModelLimit[m] - Cardinality(InLane(m))
      BY <2>1, GatewayAssumption, Zenon DEF PermitsAddUp
    <3>2. Cardinality(InLane(m)) \in Nat
      BY <3>1, FS_CardinalityType
    <3> QED
      BY <3>1, <3>2
  <2> QED
    BY <2>1, Zenon DEF LimitsHeld, PermitsAddUp, InLane
<1> QED
  BY <1>1, GatewayInvariant, PTL

\* The spend passes the budget by less than one response of the dearest
\* model for each caller, however many callers read the budget in complete
\* before the others' record_success has added what they spent.
THEOREM OverspendAlwaysBounded == Spec => []OverspendBounded
<1>1. GatewayInv => OverspendBounded
  <2> SUFFICES ASSUME BudgetCovers PROVE OverspendBounded
    BY DEF GatewayInv
  <2>1. PICK m \in Models : \A k \in Models : Cost[k] <= Cost[m]
    BY GatewayAssumption
  <2>2. PICK n, u : n = Cardinality(Callers) /\ u = Cardinality(Owing)
    OBVIOUS
  <2>3. n \in Nat /\ u \in Nat /\ u <= n
    BY <2>2, SomeCallers DEF Owing
  <2>4. PICK d \in Nat : d = Cost[m]
    BY GatewayAssumption
  <2>5. cost < budget + (n - u) * d /\ cost \in Nat /\ budget \in Nat
    BY <2>1, <2>2, <2>4, GatewayAssumption, Zenon DEF BudgetCovers
  <2>6. (n - u) * d <= n * d /\ (n - u) * d \in Nat /\ n * d \in Nat
    <3>1. n - u \in Nat /\ n - u <= n
      BY <2>3
    <3> QED
      BY <2>3, <3>1, Products
  <2>7. cost < budget + n * d
    BY <2>5, <2>6
  <2> QED
    BY <2>2, <2>4, <2>7 DEF OverspendBounded
<1> QED
  BY <1>1, GatewayInvariant, PTL

\* While a provider's breaker is open fewer attempts reach it than the
\* callers have in all: the retries of call_with_retries, which do not ask
\* the breaker again, come from calls that were there when it opened.
THEOREM OpenBreakersAlwaysShield == Spec => []OpenBreakerShields
<1>1. GatewayInv => OpenBreakerShields
  <2> SUFFICES ASSUME Shapes, PressBounded, NEW p \in Names
               PROVE  pressed[p] < Cardinality(Callers) * max_attempts
    BY DEF GatewayInv, OpenBreakerShields
  <2>1. PICK n, u : n = Cardinality(Callers) * max_attempts /\ u = Cardinality(Coming(p))
    OBVIOUS
  <2>2. n \in Nat /\ u \in Nat
    BY <2>1, SomeSlots DEF Coming
  <2>3. pressed[p] \in Nat
    BY DEF Shapes
  <2>4. 0 < n
    <3>1. PICK c \in Callers : TRUE
      BY GatewayAssumption
    <3>2. <<c, 1>> \in Slots
      BY GatewayAssumption DEF Slots
    <3>3. {} \subseteq Slots /\ <<c, 1>> \notin {}
      OBVIOUS
    <3> QED
      BY <2>1, <3>2, <3>3, SomeSlots, FS_EmptySet
  <2>5. CASE breaker[p].opened_at = Never
    BY <2>1, <2>4, <2>5 DEF PressBounded
  <2>6. CASE breaker[p].opened_at # Never
    BY <2>1, <2>2, <2>3, <2>6 DEF PressBounded
  <2> QED
    BY <2>5, <2>6
<1> QED
  BY <1>1, GatewayInvariant, PTL

\* Every cached key is in the eviction order or about to be, for any number
\* of callers between record_success's insertion and its push.
THEOREM CacheAlwaysBounded == Spec => []CacheBounded
<1>1. GatewayInv => CacheBounded
  BY DEF GatewayInv
<1> QED
  BY <1>1, GatewayInvariant, PTL

\* A hit answers the model, the prompt and the options that were asked, with
\* an answer some provider serving that model gave.
THEOREM HitsAlwaysHonest == Spec => []HitsAreHonest
<1>1. GatewayInv => HitsAreHonest
  <2> SUFFICES ASSUME Shapes, NEW c \in Callers, calls[c].pc = "hit"
               PROVE  LET r == calls[c].req  asked == calls[c].response.asked IN
                      /\ ~r.bypass
                      /\ r.model = asked.model /\ r.prompt = asked.prompt
                      /\ r.options = asked.options
                      /\ r.model \in Supports[calls[c].response.provider]
    BY Zenon DEF GatewayInv, HitsAreHonest, Holding
  <2>1. /\ ~calls[c].req.bypass /\ Given(calls[c].response)
        /\ cache_key(calls[c].response.asked) = cache_key(calls[c].req)
    BY Zenon DEF Shapes, CallOK
  <2> QED
    BY <2>1, Zenon DEF cache_key, Given
<1> QED
  BY <1>1, GatewayInvariant, PTL
=============================================================================
