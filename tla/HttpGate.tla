------------------------------ MODULE HttpGate ------------------------------
(***************************************************************************)
(* What a request meets before and in its handler (api/server.ts):         *)
(* bearer token, declared size, the sliding windows of its route, the      *)
(* parsing of its body, the handler.  Every route with limits has a list   *)
(* of windows, shortest first; each window remembers, per method and path, *)
(* the hits it let through.  A timestamp is kept as its age in ticks, cut  *)
(* off at MaxAge, where no window holds it any more; the clock does not go *)
(* back.  A request has an identity only when a limiter sees it.           *)
(***************************************************************************)
EXTENDS Naturals, FiniteSets

CONSTANTS
    Requests,     \* requests that reach a limiter, in the order of arrival
    Keys,         \* method and path
    WindowsOf(_), \* how many windows guard a key: 0 when none does
    Limit(_, _),  \* window.limit
    Length(_, _), \* window.windowMs
    Tcp,          \* config.transport = "tcp"
    MaxAge        \* bound: where ages are cut off

ASSUME RequestsAssumption == Requests \subseteq Nat /\ IsFiniteSet(Requests) /\ Keys # {}
ASSUME WindowsAssumption ==
    \A k \in Keys :
        /\ WindowsOf(k) \in Nat
        /\ \A w \in 1..WindowsOf(k) : Limit(k, w) \in Nat /\ Length(k, w) \in 1..MaxAge

ASSUME MaxAgeAssumption == MaxAge \in Nat

Bodies == {"large", "not json", "invalid", "valid"}
Statuses == {200, 201, 400, 401, 404, 413, 429, 500, 503, 507}

VARIABLES
    reply,    \* the status code of the last answer
    arrived,  \* the requests that reached the limiters
    age,      \* ticks since each of them arrived
    keyOf,    \* the key of each request
    hits,     \* per key and window: the requests whose timestamps it holds
    passed,   \* history: the requests that reached a handler
    refuser   \* history: the window that refused each request, 0 for none

vars == <<reply, arrived, age, keyOf, hits, passed, refuser>>

Windows(k) == 1..WindowsOf(k)

Init ==
    /\ reply = 200 /\ arrived = {}
    /\ age = [r \in Requests |-> 0]
    /\ keyOf = [r \in Requests |-> CHOOSE k \in Keys : TRUE]
    /\ hits = [k \in Keys |-> [w \in Windows(k) |-> {}]]
    /\ passed = {}
    /\ refuser = [r \in Requests |-> 0]

-----------------------------------------------------------------------------
\* The timestamps above the threshold now - windowMs.
Retained(k, w) == {q \in hits[k][w] : age[q] < Length(k, w)}
\* Mutant: one more than the limit.
FullAbove(k, w) == Cardinality(Retained(k, w)) > Limit(k, w)

Full(k, w) == Cardinality(Retained(k, w)) >= Limit(k, w)

\* limiters.every(check) stops at the first window that refuses: those before
\* it have recorded the hit, those after it are not asked.
Refuses(k, w) == Full(k, w) /\ \A v \in 1..(w - 1) : ~Full(k, v)
Passes(k) == \A w \in Windows(k) : ~Full(k, w)

\* Mutant: the hit is recorded before the limit is tested.
CheckedPushFirst(k, r, refusing) ==
    [w \in Windows(k) |->
        IF w <= refusing THEN Retained(k, w) \cup {r} ELSE hits[k][w]]

\* Mutant: the hit goes onto the list with its old timestamps, not the retained ones.
CheckedKeepsOld(k, r, refusing) ==
    [w \in Windows(k) |-> IF w < refusing THEN hits[k][w] \cup {r} ELSE hits[k][w]]

Checked(k, r, refusing) ==
    [w \in Windows(k) |->
        IF w < refusing THEN Retained(k, w) \cup {r}
        ELSE IF w = refusing THEN Retained(k, w) ELSE hits[k][w]]

\* Turned away before the limiters, or nothing to limit.
Answered(code) ==
    /\ reply' = code
    /\ UNCHANGED <<arrived, age, keyOf, hits, passed, refuser>>

\* No bearer token over TCP, and not GET /health.
Unauthorized == Tcp /\ Answered(401)

\* content-length above MAX_JSON_BYTES.
DeclaredTooLarge == Answered(413)

\* 503 when SELECT 1 throws; no token, no limit.
HealthAnswered == Answered(200) \/ Answered(503)

\* Event capture may be paused (507), which is found before the body is parsed
\* (parseJsonBody); then the route's work is done, refused or throws (app.onError).
HandlerAnswer(body) ==
    {500, 507} \cup (IF body = "large" THEN {413}
                     ELSE IF body = "valid" THEN {200, 201, 400, 404, 503} ELSE {400})

Arrives(r, k, refusing) ==
    /\ r \notin arrived /\ \A q \in Requests \ arrived : r <= q
    /\ arrived' = arrived \cup {r}
    /\ keyOf' = [keyOf EXCEPT ![r] = k]
    /\ hits' = [hits EXCEPT ![k] = Checked(k, r, refusing)]
    /\ UNCHANGED age

RateLimited(r, k, w) ==
    /\ Refuses(k, w)
    /\ Arrives(r, k, w)
    /\ reply' = 429
    /\ refuser' = [refuser EXCEPT ![r] = w]
    /\ UNCHANGED passed

Handled(r, k) ==
    /\ Passes(k)
    /\ Arrives(r, k, WindowsOf(k) + 1)
    /\ \E body \in Bodies : reply' \in HandlerAnswer(body)
    /\ passed' = passed \cup {r}
    /\ UNCHANGED refuser

Tick ==
    /\ age' = [r \in Requests |->
                  IF r \in arrived /\ age[r] < MaxAge THEN age[r] + 1 ELSE age[r]]
    /\ UNCHANGED <<reply, arrived, keyOf, hits, passed, refuser>>

Next ==
    \/ Unauthorized \/ DeclaredTooLarge \/ HealthAnswered \/ Tick
    \/ \E r \in Requests, k \in Keys :
           Handled(r, k) \/ \E w \in Windows(k) : RateLimited(r, k, w)

Spec == Init /\ [][Next]_vars

-----------------------------------------------------------------------------
(* Properties *)

\* Every variable keeps its type, and a window's list holds requests that came
\* for its key, never more of them than its limit: old timestamps do not pile up
\* under a load of refusals (SlidingWindowLimiter.check).
TypeOK ==
    /\ age \in [Requests -> 0..MaxAge]
    /\ reply \in Statuses /\ arrived \subseteq Requests
    /\ keyOf \in [Requests -> Keys]
    /\ DOMAIN hits = Keys
    /\ \A k \in Keys :
           /\ hits[k] \in [Windows(k) -> SUBSET {r \in arrived : keyOf[r] = k}]
           /\ \A w \in Windows(k) : Cardinality(hits[k][w]) <= Limit(k, w)
    /\ passed \subseteq Requests
    /\ refuser \in [Requests -> Nat]

Within(S, n) == {r \in S : age[r] < n}
PassedOn(k) == {r \in passed : keyOf[r] = k}

\* At no moment have more requests reached a handler within a window than its
\* limit allows, for every window of a route and whatever is refused in between
\* (SlidingWindowLimiter.check).
NeverAboveLimit ==
    \A k \in Keys : \A w \in Windows(k) :
        Cardinality(Within(PassedOn(k), Length(k, w))) <= Limit(k, w)

\* Who is charged: a request that reached a handler, to every window; a request
\* that a later window refused, only to the windows asked before (limiters.every).
ChargedTo(r, w) == r \in passed \/ w < refuser[r]
HitsAccounted ==
    \A k \in Keys : \A w \in Windows(k) :
        Retained(k, w) =
            {r \in arrived : keyOf[r] = k /\ age[r] < Length(k, w) /\ ChargedTo(r, w)}

=============================================================================
