------------------------------ MODULE LiveResearch -----------------------------
(***************************************************************************)
(* Live research: the candidate URLs of an investigation are admitted,     *)
(* answered from the evidence cache or fetched, under one pooled budget    *)
(* (research.py, fetch.py, cache.py, and the part of service.py that calls *)
(* them).                                                                  *)
(*                                                                         *)
(* Several threads of one server investigate at once: they share the       *)
(* limiter and the cache directory, which also outlives the server.  The   *)
(* network answers as it likes.  Bytes are counted in units.               *)
(***************************************************************************)
EXTENDS Integers, Sequences, FiniteSets

CONSTANTS
    Caller,         \* threads that investigate or read
    Url,            \* canonical URLs, numbered in the order of their cache keys
    HostOf,         \* [Url -> host]
    Ref,            \* bodies, by digest
    Policy,         \* [version, allow, denied]: what a server is started with
    Inquiry,        \* [material, requests, bytes, redirects, time]: requests
    MaxConcurrent,  \* slots of the limiter
    Chunk,          \* _CHUNK_SIZE
    MinBytes,       \* the least max_bytes a Budgets can declare
    Ttl,            \* default_ttl
    BodySizes,      \* sizes of the bodies the network sends
    MaxClock        \* bound: the clock stops here

\* What Budgets accepts (contracts.py:50-52) and a limiter has: counts are integers
\* that are not negative, and a budget declares MinBytes at least.
Bounds ==
    /\ IsFiniteSet(Caller)
    /\ MaxConcurrent \in Nat /\ Chunk \in Nat
    /\ MinBytes \in Nat \ {0}
    /\ BodySizes \subseteq Nat
    /\ \A q \in Inquiry :
        q.requests \in Nat /\ q.bytes \in Nat /\ q.redirects \in Nat /\ q.bytes >= MinBytes

ASSUME LiveResearchAssumption == Bounds

VARIABLES
    policy,     \* ResearchDeps of the running server
    slots,      \* free slots of its ConcurrencyLimiter
    cache,      \* the cache directory: [Url -> entry or NoEntry]
    clock,
    call        \* [Caller -> the investigation it is in]

researchVars == <<policy, slots, cache, clock, call>>

NoEntry == [ref |-> 0]
NoAnswer == [status |-> "none"]
NoInquiry == [material |-> <<>>, requests |-> 0, bytes |-> 0, redirects |-> 0, time |-> 0]

Min2(a, b) == IF a < b THEN a ELSE b
Floor0(n) == IF n > 0 THEN n ELSE 0

\* No investigation; the fields below `made` are those of the fetch in progress.
Idle ==
    [phase |-> "idle", inquiry |-> NoInquiry, left |-> <<>>,
     ledger |-> [requests |-> 0, bytes |-> 0, deadline |-> 0], answer |-> NoAnswer,
     made |-> 0, read |-> 0,
     grant |-> [requests |-> 0, bytes |-> 0], at |-> 0, since |-> 0, hops |-> 0,
     bytes |-> 0, ref |-> 0, size |-> 0, raw |-> 0, todo |-> {}, entry |-> NoEntry]

--------------------------------------------------------------------------------
(* Requests, budgets and admission *)

\* _candidate_urls: without repetitions, at most max_network_requests.
Candidates(q) ==
    LET distinct == SelectSeq([i \in DOMAIN q.material |-> i],
                        LAMBDA i : \A j \in 1..(i - 1) : q.material[j] # q.material[i])
    IN  [i \in 1..Min2(Len(distinct), q.requests) |-> q.material[distinct[i]]]

\* NetworkLedger.for_request.
Ledger(q) == [requests |-> q.requests, bytes |-> q.bytes, deadline |-> clock + q.time]

\* NetworkLedger.allowance is not None.
CanFund(ledger) ==
    /\ ledger.requests >= 1
    /\ ledger.bytes >= MinBytes
    /\ clock < ledger.deadline

\* What one call may spend: the declared budget narrowed to the pool.
Allowance(q, ledger) ==
    [requests |-> Min2(q.requests, ledger.requests), bytes |-> Min2(q.bytes, ledger.bytes)]

\* NetworkLedger.charge.
Charged(ledger, requests, bytes) ==
    [ledger EXCEPT !.requests = Floor0(@ - requests), !.bytes = Floor0(@ - bytes)]

Admitted(u) == HostOf[u] \in policy.allow /\ u \notin policy.denied

\* read_cache finds an entry that this policy may serve.
Servable(u) ==
    /\ cache[u] # NoEntry
    /\ clock <= cache[u].expires
    /\ cache[u].version = policy.version

--------------------------------------------------------------------------------
(* An investigation *)

Init ==
    /\ policy \in Policy
    /\ slots = MaxConcurrent
    /\ cache = [u \in Url |-> NoEntry]
    /\ clock = 0
    /\ call = [c \in Caller |-> Idle]

Becomes(c, k) == call' = [call EXCEPT ![c] = k]

\* _run_research starts.
Begin(c, q) ==
    /\ call[c].phase = "idle"
    /\ Candidates(q) # <<>>
    /\ Becomes(c, [Idle EXCEPT !.phase = "choose", !.inquiry = q,
                               !.left = Candidates(q), !.ledger = Ledger(q)])
    /\ UNCHANGED <<policy, slots, cache, clock>>

\* The call turns to its next candidate.
Proceeded(k, answer) ==
    IF Tail(k.left) = <<>> THEN [Idle EXCEPT !.answer = answer]
    ELSE [Idle EXCEPT !.phase = "choose", !.inquiry = k.inquiry, !.left = Tail(k.left),
                      !.ledger = k.ledger, !.answer = answer,
                      !.made = k.made, !.read = k.read]

\* It ends the current one with `answer`; where the audit line cannot be written
\* the answer is internal_error, whatever was done.
Answered(c, k, answer) ==
    \E a \in {answer, [status |-> "error"]} : Becomes(c, Proceeded(k, a))

\* host_not_allowlisted, access_restricted, nothing left to fund a fetch, or no
\* free slot.
Decline(c) ==
    LET k == call[c] IN
    /\ k.phase = "choose"
    /\ \/ ~Admitted(Head(k.left))
       \/ /\ ~Servable(Head(k.left))
          /\ ~CanFund(k.ledger) \/ slots = 0
    /\ Answered(c, k, [status |-> "declined"])
    /\ UNCHANGED <<policy, slots, cache, clock>>

\* Fault: the cache is asked before the policy.
ServeCachedFirst(c) ==
    LET k == call[c]  u == Head(k.left) IN
    /\ k.phase = "choose"
    /\ Servable(u)
    /\ Answered(c, k, [status |-> "cached", url |-> u, entry |-> cache[u]])
    /\ UNCHANGED <<policy, slots, cache, clock>>

\* A cache hit costs no slot and no budget.
ServeCached(c) ==
    LET k == call[c]  u == Head(k.left) IN
    /\ k.phase = "choose"
    /\ Admitted(u) /\ Servable(u)
    /\ Answered(c, k, [status |-> "cached", url |-> u, entry |-> cache[u]])
    /\ UNCHANGED <<policy, slots, cache, clock>>

\* _fetch_under_current_policy takes a slot and calls fetch.
StartFetch(c) ==
    LET k == call[c]  u == Head(k.left) IN
    /\ k.phase = "choose"
    /\ Admitted(u) /\ ~Servable(u) /\ CanFund(k.ledger) /\ slots > 0
    /\ slots' = slots - 1
    /\ Becomes(c, [k EXCEPT !.phase = "hop", !.answer = NoAnswer, !.at = u, !.since = clock,
                            !.grant = Allowance(k.inquiry, k.ledger)])
    /\ UNCHANGED <<policy, cache, clock>>

--------------------------------------------------------------------------------
(* fetch *)

\* What a call has spent is charged to the pool, whatever came of it.
Settled(k, ok) ==
    [k EXCEPT !.ledger = Charged(@, k.hops, k.bytes),
              !.made = @ + k.hops, !.read = @ + k.bytes]

\* Fault: the slot is only given back with a body.
FetchFailsHolding(c, k) ==
    /\ Answered(c, Settled(k, FALSE), [status |-> "failed"])
    /\ UNCHANGED <<policy, slots, cache, clock>>

\* fetch returned no body; the slot is free again.
FetchFails(c, k) ==
    /\ slots' = slots + 1
    /\ Answered(c, Settled(k, FALSE), [status |-> "failed"])
    /\ UNCHANGED <<policy, cache, clock>>

\* Another hop is within the budgets of the call.
MayHop(k) == k.hops < k.grant.requests /\ k.hops <= k.inquiry.redirects

Hopped(k) == [k EXCEPT !.hops = @ + 1]

\* network_request_count_exceeded, redirect_count_exceeded.
HopExceeds(c) == call[c].phase = "hop" /\ ~MayHop(call[c]) /\ FetchFails(c, call[c])

\* The hop is counted, then refused (its host, an address, the deadline) or lost.
HopFails(c) == call[c].phase = "hop" /\ MayHop(call[c]) /\ FetchFails(c, Hopped(call[c]))

\* _fetch_one_hop connects: the host is allowed, and there is time.
Connects(k) ==
    /\ k.phase = "hop"
    /\ MayHop(k)
    /\ HostOf[k.at] \in policy.allow
    /\ clock < k.ledger.deadline

\* _discard_body: at most one chunk of a body that will not be evidence.
Discarded(k, size) == [Hopped(k) EXCEPT !.bytes = @ + Min2(size, Chunk)]

\* A redirect: the next hop starts at its Location.
HopRedirects(c, u, size) ==
    /\ Connects(call[c])
    /\ Becomes(c, [Discarded(call[c], size) EXCEPT !.at = u])
    /\ UNCHANGED <<policy, slots, cache, clock>>

\* No Location, a status that is not 2xx, a type that is not allowed.
HopRejected(c, size) == Connects(call[c]) /\ FetchFails(c, Discarded(call[c], size))

\* A body begins that may become evidence.
HopBody(c, r, size) ==
    /\ Connects(call[c])
    /\ Becomes(c, [Hopped(call[c]) EXCEPT !.phase = "body", !.ref = r, !.size = size])
    /\ UNCHANGED <<policy, slots, cache, clock>>

\* _read_bounded_body asks for one byte more than is allowed, never for more.
Asked(k) == Min2(Chunk, k.grant.bytes - k.raw + 1)

ReadChunk(c) ==
    LET k == call[c]
        n == Min2(Asked(k), k.size - k.raw)
        read == [k EXCEPT !.raw = @ + n, !.bytes = @ + n]
    IN  /\ k.phase = "body" /\ k.raw < k.size
        /\ clock <= k.ledger.deadline
        /\ IF read.raw > k.grant.bytes THEN FetchFails(c, read)
           ELSE Becomes(c, read) /\ UNCHANGED <<policy, slots, cache, clock>>

\* timeout_exceeded, read_failed, decompressed_limit_exceeded.
BodyFails(c) == call[c].phase = "body" /\ FetchFails(c, call[c])

--------------------------------------------------------------------------------
(* The cache *)

\* build_cache_entry: the life of an entry begins when the body is there.
Entry(k) ==
    [ref |-> k.ref, expires |-> clock + Ttl, version |-> policy.version,
     retrieved |-> k.since]

\* write_cache_atomic replaces the entry, and then sweeps a listing of the cache.
Store(c) ==
    LET k == call[c]  u == Head(k.left) IN
    /\ k.phase = "body" /\ k.raw = k.size
    /\ slots' = slots + 1
    /\ cache' = [cache EXCEPT ![u] = Entry(k)]
    /\ Becomes(c, [Settled(k, TRUE) EXCEPT
                     !.phase = "sweep", !.entry = Entry(k),
                     !.todo = {v \in Url : cache'[v] # NoEntry}])
    /\ UNCHANGED <<policy, clock>>

\* The temporary file cannot be written or renamed.
StoreFails(c) ==
    LET k == call[c] IN
    /\ k.phase = "body" /\ k.raw = k.size
    /\ slots' = slots + 1
    /\ Becomes(c, Proceeded(Settled(k, TRUE), [status |-> "error"]))
    /\ UNCHANGED <<policy, cache, clock>>

\* _self_prune_after_write: older than the fetch of what was just written.
Prunable(k, e) == e # NoEntry /\ k.entry.retrieved > e.expires

\* The sweep goes through its listing in the order of the keys.
Swept(k) == CHOOSE u \in k.todo : \A v \in k.todo : u <= v
Skipped(k) == [k EXCEPT !.phase = "sweep", !.todo = @ \ {Swept(k)}]

\* _sweep_prunable reads an entry ...
SweepRead(c) ==
    LET k == call[c] IN
    /\ k.phase = "sweep" /\ k.todo # {}
    /\ Becomes(c, IF Prunable(k, cache[Swept(k)]) THEN [k EXCEPT !.phase = "unlink"]
                  ELSE Skipped(k))
    /\ UNCHANGED <<policy, slots, cache, clock>>

\* ... and then unlinks the file, whatever it holds by then.
SweepUnlink(c) ==
    LET k == call[c] IN
    /\ k.phase = "unlink"
    /\ cache' = [cache EXCEPT ![Swept(k)] = NoEntry]
    /\ Becomes(c, Skipped(k))
    /\ UNCHANGED <<policy, slots, clock>>

Fetched(c) ==
    LET k == call[c] IN
    /\ k.phase = "sweep" /\ k.todo = {}
    /\ Answered(c, k, [status |-> "fetched", url |-> Head(k.left), entry |-> k.entry])
    /\ UNCHANGED <<policy, slots, cache, clock>>

\* find_by_ref: the first entry, in the order of the keys, that carries the ref.
Holders(r) == {u \in Url : cache[u] # NoEntry /\ cache[u].ref = r}
FirstHolder(r) == CHOOSE u \in Holders(r) : \A v \in Holders(r) : u <= v

\* _read_live_one: missing_ref, expired_ref, or the excerpt.
ReadLive(c, r) ==
    /\ call[c].phase = "idle"
    /\ Becomes(c, [Idle EXCEPT !.answer =
            IF Holders(r) = {} THEN [status |-> "missing", ref |-> r]
            ELSE IF clock > cache[FirstHolder(r)].expires THEN [status |-> "expired", ref |-> r]
            ELSE [status |-> "read", entry |-> cache[FirstHolder(r)]]])
    /\ UNCHANGED <<policy, slots, cache, clock>>

--------------------------------------------------------------------------------

Tick ==
    /\ clock < MaxClock
    /\ clock' = clock + 1
    /\ UNCHANGED <<policy, slots, cache, call>>

\* The server stops, wherever its threads are, and another is started.
Restart(p) ==
    /\ policy' = p
    /\ slots' = MaxConcurrent
    /\ call' = [c \in Caller |-> Idle]
    /\ UNCHANGED <<cache, clock>>

Fetch(c) ==
    \/ HopExceeds(c) \/ HopFails(c)
    \/ \E size \in BodySizes :
        \/ HopRejected(c, size)
        \/ \E u \in Url : HopRedirects(c, u, size)
        \/ \E r \in Ref : HopBody(c, r, size)
    \/ ReadChunk(c) \/ BodyFails(c)

Research(c) ==
    \/ Decline(c) \/ ServeCached(c) \/ StartFetch(c) \/ Fetch(c)
    \/ Store(c) \/ StoreFails(c) \/ SweepRead(c) \/ SweepUnlink(c) \/ Fetched(c)

Next ==
    \/ \E c \in Caller :
        \/ \E q \in Inquiry : Begin(c, q)
        \/ Research(c)
        \/ \E r \in Ref : ReadLive(c, r)
    \/ Tick
    \/ \E p \in Policy : Restart(p)

Spec == Init /\ [][Next]_researchVars

--------------------------------------------------------------------------------
(* Properties *)

Larger(a, b) == IF a > b THEN a ELSE b

\* What the last call of an investigation may read beyond the pool: the bodies of
\* redirects, and one byte that shows an overrun or a rejected body.
Discards(q) == Larger(q.redirects * Chunk + 1, (q.redirects + 1) * Chunk - MinBytes)

\* A fetch is in flight.
Fetching(k) == k.phase \in {"hop", "body"}

\* However many candidates an investigation has, and whether they succeed or
\* not, its calls together make no more requests than declared, and read no more
\* bytes than declared but for what the last call may discard on its way.
BudgetPooled ==
    \A c \in Caller :
        LET k == call[c] IN
        k.inquiry # NoInquiry =>
            /\ k.made + (IF Fetching(k) THEN k.hops ELSE 0) <= k.inquiry.requests
            /\ k.read + (IF Fetching(k) THEN k.bytes ELSE 0) <= k.inquiry.bytes + Discards(k.inquiry)

\* A slot is taken exactly while a fetch is in flight, whichever way it ends.
SlotsConserved ==
    slots = MaxConcurrent - Cardinality({c \in Caller : Fetching(call[c])})

\* Whatever fails, neither the declared budget nor the slots of the limiter leak.
WithinBounds == BudgetPooled /\ SlotsConserved

\* What a server answers from the cache, perhaps after a restart with another
\* policy, is from a destination this server may surface, was stored under this
\* server's policy version and has not expired.
ServesWhatPolicyAllows ==
    \A c \in Caller :
        LET a == call'[c].answer IN
        a # call[c].answer /\ a.status = "cached" =>
            /\ HostOf[a.url] \in policy.allow /\ a.url \notin policy.denied
            /\ a.entry.version = policy.version
            /\ clock <= a.entry.expires

\* It holds of every step, whoever takes it.
RevokedNotServed == [][ServesWhatPolicyAllows]_researchVars

--------------------------------------------------------------------------------
(* The inductive invariant *)

\* A call has the fields of Idle, whatever they hold.
Shaped(k) ==
    k \in [phase : {k.phase}, inquiry : {k.inquiry}, left : {k.left},
           ledger : [requests : {k.ledger.requests}, bytes : {k.ledger.bytes},
                     deadline : {k.ledger.deadline}],
           answer : {k.answer}, made : {k.made}, read : {k.read},
           grant : [requests : {k.grant.requests}, bytes : {k.grant.bytes}],
           at : {k.at}, since : {k.since}, hops : {k.hops}, bytes : {k.bytes}, ref : {k.ref},
           size : {k.size}, raw : {k.raw}, todo : {k.todo}, entry : {k.entry}]

Shape ==
    /\ call = [c \in Caller |-> call[c]]
    /\ \A c \in Caller : Shaped(call[c])

Counted(k) == {k.made, k.read, k.ledger.requests, k.ledger.bytes, k.hops, k.bytes} \subseteq Nat

\* What is made and what is left of an investigation's pool are what it declared,
\* but for the bytes by which its last call may have overdrawn it.
Pooled(k) ==
    /\ k.inquiry \in Inquiry
    /\ Counted(k)
    /\ k.made + k.ledger.requests = k.inquiry.requests
    /\ \/ k.read + k.ledger.bytes = k.inquiry.bytes
       \/ k.ledger.bytes = 0 /\ k.read <= k.inquiry.bytes + Discards(k.inquiry)

\* A fetch that would end now leaves the pool in order.
Chargeable(k) ==
    /\ k.inquiry \in Inquiry
    /\ Counted(k)
    /\ k.made + k.ledger.requests = k.inquiry.requests
    /\ k.read + k.ledger.bytes = k.inquiry.bytes
    /\ k.hops <= k.ledger.requests
    /\ k.bytes <= k.ledger.bytes + Discards(k.inquiry)

\* A fetch starts with the whole pool, which holds the least that can be declared;
\* each hop but one that brings a body discards a chunk at most.
Afloat(k) ==
    /\ Chargeable(k)
    /\ {k.grant.requests, k.grant.bytes, k.raw, k.size} \subseteq Nat
    /\ k.grant.requests = k.ledger.requests /\ k.grant.bytes = k.ledger.bytes
    /\ k.ledger.bytes >= MinBytes
    /\ k.hops <= k.inquiry.redirects + 1
    /\ k.phase = "hop" => k.bytes <= k.hops * Chunk /\ k.raw = 0
    /\ k.phase = "body" =>
          /\ k.hops >= 1 /\ k.bytes <= (k.hops - 1) * Chunk + k.raw
          /\ k.raw <= k.grant.bytes

CallOK(k) ==
    /\ k.phase \in {"idle", "choose", "hop", "body", "sweep", "unlink"}
    /\ k.phase = "idle" => k.inquiry = NoInquiry
    /\ k.phase \in {"choose", "sweep", "unlink"} => Pooled(k)
    /\ k.phase = "choose" => k.hops = 0 /\ k.bytes = 0 /\ k.raw = 0 /\ k.size = 0
    /\ Fetching(k) => Afloat(k)

IInv == Shape /\ SlotsConserved /\ \A c \in Caller : CallOK(call[c])
================================================================================
