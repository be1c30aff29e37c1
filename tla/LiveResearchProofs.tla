--------------------------- MODULE LiveResearchProofs ---------------------------
(***************************************************************************)
(* Live research stays inside what an investigation declared and inside    *)
(* the limiter, and serves from the cache only what the policy of the      *)
(* running server allows: for any number of threads, URLs, policies,       *)
(* requests and bodies, whatever the network answers.                      *)
(***************************************************************************)
EXTENDS LiveResearch, FiniteSetTheorems, TLAPS

--------------------------------------------------------------------------------
(* Calls keep their fields *)

LEMMA IdleShaped == Shaped(Idle)
BY DEF Shaped, Idle

LEMMA ShapeStarts == Init => Shape
BY IdleShaped DEF Init, Shape

\* A step of one call leaves the others alone.
LEMMA OthersStay ==
    ASSUME NEW c \in Caller, NEW k, Shape, Becomes(c, k)
    PROVE  /\ call'[c] = k
           /\ \A d \in Caller : d # c => call'[d] = call[d]
           /\ call' = [d \in Caller |-> call'[d]]
BY DEF Shape, Becomes

LEMMA StepKeepsShape ==
    ASSUME NEW c \in Caller, NEW k, Shape, Becomes(c, k), Shaped(k)
    PROVE  Shape'
<1>1. \A d \in Caller : Shaped(call'[d])
  BY OthersStay DEF Shape
<1>2. QED
  BY <1>1, OthersStay DEF Shape, Shaped

\* The next candidate, or none, starts with what was settled.
LEMMA ProceededFields ==
    ASSUME NEW k, NEW a, Shaped(k)
    PROVE  /\ Shaped(Proceeded(k, a))
           /\ Proceeded(k, a).answer = a
<1>1. CASE Tail(k.left) = <<>>
  BY <1>1 DEF Shaped, Proceeded, Idle
<1>2. CASE Tail(k.left) # <<>>
  BY <1>2, IdleShaped DEF Shaped, Proceeded
<1> QED
  BY <1>1, <1>2

LEMMA SettledFields ==
    ASSUME NEW k, NEW ok, Shaped(k)
    PROVE  /\ Shaped(Settled(k, ok))
           /\ Settled(k, ok).answer = k.answer
           /\ Settled(k, ok).inquiry = k.inquiry
           /\ Settled(k, ok).phase = k.phase
           /\ Settled(k, ok).left = k.left
           /\ Settled(k, ok).made = k.made + k.hops
           /\ Settled(k, ok).read = k.read + k.bytes
           /\ Settled(k, ok).hops = k.hops
           /\ Settled(k, ok).bytes = k.bytes
           /\ Settled(k, ok).ledger.requests = Floor0(k.ledger.requests - k.hops)
           /\ Settled(k, ok).ledger.bytes = Floor0(k.ledger.bytes - k.bytes)
BY DEF Shaped, Settled, Charged

\* What a call goes on with: the budget it has left, no fetch, and the answer.
LEMMA ProceededResets ==
    ASSUME NEW k, NEW a, Shaped(k)
    PROVE  \/ /\ Proceeded(k, a).phase = "idle"
              /\ Proceeded(k, a).inquiry = NoInquiry
           \/ /\ Proceeded(k, a).phase = "choose"
              /\ Proceeded(k, a).inquiry = k.inquiry
              /\ Proceeded(k, a).ledger = k.ledger
              /\ Proceeded(k, a).made = k.made /\ Proceeded(k, a).read = k.read
              /\ Proceeded(k, a).hops = 0 /\ Proceeded(k, a).bytes = 0
              /\ Proceeded(k, a).raw = 0 /\ Proceeded(k, a).size = 0
BY DEF Shaped, Proceeded, Idle

--------------------------------------------------------------------------------
(* What each step does with the answer of its caller *)

\* The call that acts keeps its fields, and comes from the cache with nothing.
Mute(c) ==
    /\ Shape'
    /\ \A d \in Caller : call'[d].answer # call[d].answer => call'[d].answer.status # "cached"

\* An answer of another status than "cached".
LEMMA MuteStep ==
    ASSUME NEW c \in Caller, NEW k, Shape, Becomes(c, k), Shaped(k),
           k.answer = call[c].answer \/ k.answer.status # "cached"
    PROVE  Mute(c)
<1>1. Shape'
  BY StepKeepsShape
<1>2. QED
  BY <1>1, OthersStay DEF Mute

LEMMA MuteAnswer ==
    ASSUME NEW c \in Caller, NEW k, NEW a, Shape, Shaped(k), a.status # "cached",
           Answered(c, k, a)
    PROVE  Mute(c)
<1>1. PICK b \in {a, [status |-> "error"]} : Becomes(c, Proceeded(k, b))
  BY DEF Answered
<1>2. b.status # "cached"
  OBVIOUS
<1>3. QED
  BY <1>1, <1>2, ProceededFields, MuteStep

LEMMA MuteFailure ==
    ASSUME NEW c \in Caller, NEW k, Shape, Shaped(k), FetchFails(c, k)
    PROVE  Mute(c)
<1>1. Shaped(Settled(k, FALSE))
  BY SettledFields
<1>2. QED
  BY <1>1, MuteAnswer DEF FetchFails

LEMMA HopShapes ==
    ASSUME NEW k, Shaped(k), NEW size
    PROVE  /\ Shaped(Hopped(k)) /\ Hopped(k).answer = k.answer
           /\ Shaped(Discarded(k, size)) /\ Discarded(k, size).answer = k.answer
<1>1. Shaped(Hopped(k)) /\ Hopped(k).answer = k.answer
  BY DEF Shaped, Hopped
<1>2. Shaped(Discarded(k, size)) /\ Discarded(k, size).answer = Hopped(k).answer
  BY <1>1 DEF Shaped, Discarded
<1>3. QED
  BY <1>1, <1>2

\* Every step of a fetch.
LEMMA FetchMute ==
    ASSUME NEW c \in Caller, Shape, Fetch(c)
    PROVE  Mute(c)
<1> DEFINE k == call[c]
<1>1. Shaped(k)
  BY DEF Shape
<1> HIDE DEF k
<1>2. CASE HopExceeds(c) \/ BodyFails(c)
  BY <1>1, <1>2, MuteFailure DEF HopExceeds, BodyFails, k
<1>3. CASE HopFails(c)
  BY <1>1, <1>3, HopShapes, MuteFailure DEF HopFails, k
<1>4. CASE \E size \in BodySizes : HopRejected(c, size)
  BY <1>1, <1>4, HopShapes, MuteFailure DEF HopRejected, k
<1>5. ASSUME NEW size \in BodySizes, NEW u \in Url, HopRedirects(c, u, size)
      PROVE  Mute(c)
  <2>1. Becomes(c, [Discarded(k, size) EXCEPT !.at = u])
    BY <1>5 DEF HopRedirects, k
  <2>2. /\ Shaped([Discarded(k, size) EXCEPT !.at = u])
        /\ [Discarded(k, size) EXCEPT !.at = u].answer = k.answer
    BY <1>1, HopShapes DEF Shaped
  <2> QED
    BY <2>1, <2>2, MuteStep DEF k
<1>6. ASSUME NEW size \in BodySizes, NEW r \in Ref, HopBody(c, r, size)
      PROVE  Mute(c)
  <2> DEFINE b == [Hopped(k) EXCEPT !.phase = "body", !.ref = r, !.size = size]
  <2>1. Becomes(c, b)
    BY <1>6 DEF HopBody, k
  <2>2. Shaped(b) /\ b.answer = k.answer
    BY <1>1, HopShapes DEF Shaped
  <2> HIDE DEF b
  <2> QED
    BY <2>1, <2>2, MuteStep DEF k
<1>7. CASE ReadChunk(c)
  <2> DEFINE n == Min2(Asked(k), k.size - k.raw)
             b == [k EXCEPT !.raw = @ + n, !.bytes = @ + n]
  <2>1. Becomes(c, b) \/ FetchFails(c, b)
    BY <1>7 DEF ReadChunk, k
  <2> HIDE DEF n
  <2>2. Shaped(b) /\ b.answer = k.answer
    BY <1>1 DEF Shaped
  <2> HIDE DEF b
  <2> QED
    BY <2>1, <2>2, MuteStep, MuteFailure DEF k
<1>8. QED
  BY <1>2, <1>3, <1>4, <1>5, <1>6, <1>7 DEF Fetch

\* Every step of an investigation that is not of a fetch, and is no hit of the cache.
LEMMA ResearchMute ==
    ASSUME NEW c \in Caller, Shape, Research(c), ~Fetch(c), ~ServeCached(c)
    PROVE  Mute(c)
<1> DEFINE k == call[c]
<1>1. Shaped(k)
  BY DEF Shape
<1> HIDE DEF k
<1>2. CASE Decline(c)
  BY <1>1, <1>2, MuteAnswer DEF Decline, k
<1>3. CASE StartFetch(c)
  <2> DEFINE a == Allowance(k.inquiry, k.ledger)
             u == Head(k.left)
             b == [k EXCEPT !.phase = "hop", !.answer = NoAnswer, !.at = u, !.since = clock,
                            !.grant = a]
  <2>1. Becomes(c, b)
    BY <1>3 DEF StartFetch, k
  <2>2. a \in [requests : {a.requests}, bytes : {a.bytes}]
    BY DEF Allowance
  <2> HIDE DEF a, u
  <2>3. Shaped(b) /\ b.answer.status # "cached"
    BY <1>1, <2>2 DEF Shaped, NoAnswer
  <2> HIDE DEF b
  <2> QED
    BY <2>1, <2>3, MuteStep
<1>4. CASE Store(c)
  <2> DEFINE s == Settled(k, TRUE)
             t == {v \in Url : cache'[v] # NoEntry}
             b == [s EXCEPT !.phase = "sweep", !.entry = Entry(k), !.todo = t]
  <2>1. Becomes(c, b)
    BY <1>4 DEF Store, k
  <2>2. Shaped(s) /\ s.answer = k.answer
    BY <1>1, SettledFields
  <2> HIDE DEF s, t
  <2>3. Shaped(b) /\ b.answer = k.answer
    BY <2>2 DEF Shaped
  <2> HIDE DEF b
  <2> QED
    BY <2>1, <2>3, MuteStep DEF k
<1>5. CASE StoreFails(c)
  <2> DEFINE b == Proceeded(Settled(k, TRUE), [status |-> "error"])
  <2>1. Becomes(c, b)
    BY <1>5 DEF StoreFails, k
  <2> DEFINE s == Settled(k, TRUE)
             e == [status |-> "error"]
  <2>2. Shaped(s)
    BY <1>1, SettledFields
  <2>3. e.status # "cached"
    OBVIOUS
  <2> HIDE DEF s, e
  <2>4. Shaped(b) /\ b.answer = e
    BY <2>2, ProceededFields DEF s, e
  <2> HIDE DEF b
  <2> QED
    BY <2>1, <2>3, <2>4, MuteStep
<1>6. Shaped(Skipped(k)) /\ Skipped(k).answer = k.answer
  BY <1>1 DEF Shaped, Skipped
<1>7. CASE SweepRead(c)
  <2>1. Becomes(c, [k EXCEPT !.phase = "unlink"]) \/ Becomes(c, Skipped(k))
    BY <1>7 DEF SweepRead, k
  <2>2. Shaped([k EXCEPT !.phase = "unlink"]) /\ [k EXCEPT !.phase = "unlink"].answer = k.answer
    BY <1>1 DEF Shaped
  <2> QED
    BY <1>6, <2>1, <2>2, MuteStep DEF k
<1>8. CASE SweepUnlink(c)
  BY <1>6, <1>8, MuteStep DEF SweepUnlink, k
<1>9. CASE Fetched(c)
  BY <1>1, <1>9, MuteAnswer DEF Fetched, k
<1> QED
  BY <1>2, <1>3, <1>4, <1>5, <1>7, <1>8, <1>9 DEF Research

--------------------------------------------------------------------------------
(* The policy and the cache *)

\* A hit is of an entry that this policy may serve.
LEMMA HitsAreServable ==
    ASSUME NEW c \in Caller, Shape, ServeCached(c)
    PROVE  Shape' /\ ServesWhatPolicyAllows
<1> DEFINE k == call[c]
           u == Head(k.left)
<1>1. PICK a \in {[status |-> "cached", url |-> u, entry |-> cache[u]], [status |-> "error"]} :
        Becomes(c, Proceeded(k, a))
  BY DEF ServeCached, Answered
<1>2. Shaped(k)
  BY DEF Shape
<1>3. Admitted(u) /\ Servable(u)
  BY DEF ServeCached
<1>4. /\ Shape'
      /\ call'[c].answer = a
      /\ \A d \in Caller : d # c => call'[d] = call[d]
  BY <1>1, <1>2, ProceededFields, StepKeepsShape, OthersStay
<1>5. QED
  BY <1>3, <1>4 DEF ServesWhatPolicyAllows, Admitted, Servable

LEMMA NextShape ==
    ASSUME Shape, [Next]_researchVars
    PROVE  Shape' /\ ServesWhatPolicyAllows
<1>1. ASSUME NEW c \in Caller, Mute(c)
      PROVE  Shape' /\ ServesWhatPolicyAllows
  BY <1>1 DEF Mute, ServesWhatPolicyAllows
<1>2. ASSUME NEW c \in Caller, NEW q \in Inquiry, Begin(c, q)
      PROVE  Mute(c)
  <2> DEFINE l == Ledger(q)
             n == Candidates(q)
             b == [Idle EXCEPT !.phase = "choose", !.inquiry = q, !.left = n, !.ledger = l]
  <2>1. Becomes(c, b)
    BY <1>2 DEF Begin
  <2>2. l \in [requests : {l.requests}, bytes : {l.bytes}, deadline : {l.deadline}]
    BY DEF Ledger
  <2> HIDE DEF l, n
  <2>3. Shaped(b)
    BY <2>2, IdleShaped DEF Shaped
  <2>4. b.answer.status # "cached"
    BY DEF Idle, NoAnswer
  <2> HIDE DEF b
  <2> QED
    BY <2>1, <2>3, <2>4, MuteStep
<1>3. ASSUME NEW c \in Caller, Research(c)
      PROVE  Shape' /\ ServesWhatPolicyAllows
  <2>1. CASE ServeCached(c)
    BY <2>1, HitsAreServable
  <2>2. CASE Fetch(c)
    BY <1>1, <2>2, FetchMute
  <2>3. CASE ~Fetch(c) /\ ~ServeCached(c)
    BY <1>1, <1>3, <2>3, ResearchMute
  <2> QED
    BY <2>1, <2>2, <2>3
<1>4. ASSUME NEW c \in Caller, NEW r \in Ref, ReadLive(c, r)
      PROVE  Mute(c)
  <2> DEFINE e == cache[FirstHolder(r)]
  <2>1. \E a \in {[status |-> "missing", ref |-> r], [status |-> "expired", ref |-> r],
                 [status |-> "read", entry |-> e]} : Becomes(c, [Idle EXCEPT !.answer = a])
    BY <1>4 DEF ReadLive
  <2> HIDE DEF e
  <2>2. PICK a \in {[status |-> "missing", ref |-> r], [status |-> "expired", ref |-> r],
                 [status |-> "read", entry |-> e]} : Becomes(c, [Idle EXCEPT !.answer = a])
    BY <2>1
  <2>3. a.status # "cached"
    OBVIOUS
  <2>4. Shaped([Idle EXCEPT !.answer = a]) /\ [Idle EXCEPT !.answer = a].answer = a
    BY DEF Shaped, Idle
  <2> QED
    BY <2>2, <2>3, <2>4, MuteStep
<1>5. CASE UNCHANGED call
  BY <1>5 DEF Shape, ServesWhatPolicyAllows
<1>6. ASSUME NEW p \in Policy, Restart(p)
      PROVE  Shape' /\ ServesWhatPolicyAllows
  <2>1. Shape'
    BY <1>6, IdleShaped DEF Restart, Shape
  <2>2. \A d \in Caller : call'[d].answer.status # "cached"
    BY <1>6 DEF Restart, Idle, NoAnswer
  <2> QED
    BY <2>1, <2>2 DEF ServesWhatPolicyAllows
<1> QED
  BY <1>1, <1>2, <1>3, <1>4, <1>5, <1>6 DEF Next, Tick, researchVars

\* Whatever is cached, and under whichever policy it was, an answer of the cache
\* is of a destination the running server may surface, of its policy version, and
\* has not expired.
THEOREM CacheObeysPolicy == Spec => RevokedNotServed
<1>1. Spec => []Shape
  BY ShapeStarts, NextShape, PTL DEF Spec
<1>2. Shape /\ [Next]_researchVars => [ServesWhatPolicyAllows]_researchVars
  BY NextShape
<1>3. QED
  BY <1>1, <1>2, PTL DEF Spec, RevokedNotServed

--------------------------------------------------------------------------------
(* Slots *)

InFlight == {c \in Caller : Fetching(call[c])}

\* A slot is counted once when a call takes it, and once when it gives it back.
LEMMA SlotsStep ==
    ASSUME Bounds, Shape, SlotsConserved, NEW c \in Caller, NEW k, Becomes(c, k),
           \/ slots' = slots /\ (Fetching(k) <=> Fetching(call[c]))
           \/ slots' = slots + 1 /\ Fetching(call[c]) /\ ~Fetching(k)
           \/ slots' = slots - 1 /\ ~Fetching(call[c]) /\ Fetching(k)
    PROVE  SlotsConserved'
<1> DEFINE after == {d \in Caller : Fetching(call'[d])}
<1>1. call'[c] = k /\ \A d \in Caller : d # c => call'[d] = call[d]
  BY OthersStay
<1>2. IsFiniteSet(InFlight)
  BY FS_Subset DEF InFlight, Bounds
<1>3. Cardinality(InFlight) \in Nat /\ slots = MaxConcurrent - Cardinality(InFlight)
  BY <1>2, FS_CardinalityType DEF SlotsConserved, InFlight
<1>4. SlotsConserved' <=> slots' = MaxConcurrent - Cardinality(after)
  BY DEF SlotsConserved, Fetching
<1>5. CASE slots' = slots /\ (Fetching(k) <=> Fetching(call[c]))
  <2>1. after = InFlight
    BY <1>1, <1>5 DEF InFlight
  <2> QED
    BY <1>3, <1>4, <1>5, <2>1
<1>6. CASE slots' = slots + 1 /\ Fetching(call[c]) /\ ~Fetching(k)
  <2>1. after = InFlight \ {c} /\ c \in InFlight
    BY <1>1, <1>6 DEF InFlight
  <2>2. Cardinality(after) = Cardinality(InFlight) - 1
    BY <1>2, <2>1, FS_RemoveElement
  <2> QED
    BY <1>3, <1>4, <1>6, <2>2 DEF Bounds
<1>7. CASE slots' = slots - 1 /\ ~Fetching(call[c]) /\ Fetching(k)
  <2>1. after = InFlight \cup {c} /\ c \notin InFlight
    BY <1>1, <1>7 DEF InFlight
  <2>2. Cardinality(after) = Cardinality(InFlight) + 1
    BY <1>2, <2>1, FS_AddElement
  <2> QED
    BY <1>3, <1>4, <1>7, <2>2 DEF Bounds
<1>8. QED
  BY <1>5, <1>6, <1>7

\* A server that starts has all its slots.
LEMMA SlotsAllFree ==
    ASSUME Bounds, slots = MaxConcurrent, \A c \in Caller : ~Fetching(call[c])
    PROVE  SlotsConserved
<1>1. {c \in Caller : Fetching(call[c])} = {}
  OBVIOUS
<1>2. QED
  BY <1>1, FS_EmptySet DEF SlotsConserved, Bounds

--------------------------------------------------------------------------------
(* The pool *)

LEMMA SettledPools ==
    ASSUME Bounds, NEW k, NEW ok, Shaped(k), Chargeable(k)
    PROVE  Pooled(Settled(k, ok))
<1> DEFINE s == Settled(k, ok)
<1>1. /\ s.inquiry = k.inquiry /\ s.hops = k.hops /\ s.bytes = k.bytes
      /\ s.made = k.made + k.hops /\ s.read = k.read + k.bytes
      /\ s.ledger.requests = Floor0(k.ledger.requests - k.hops)
      /\ s.ledger.bytes = Floor0(k.ledger.bytes - k.bytes)
  BY SettledFields
<1>2. /\ k.inquiry.requests \in Nat /\ k.inquiry.bytes \in Nat
      /\ k.inquiry.redirects \in Nat
      /\ {k.made, k.read, k.ledger.requests, k.ledger.bytes, k.hops, k.bytes} \subseteq Nat
  BY DEF Chargeable, Counted, Bounds
<1>3. Discards(k.inquiry) \in Int
  BY <1>2 DEF Discards, Larger, Bounds
<1> HIDE DEF s
<1>4. s.ledger.requests = k.ledger.requests - k.hops
  BY <1>1, <1>2 DEF Floor0, Chargeable
<1>5. \/ s.ledger.bytes = k.ledger.bytes - k.bytes /\ k.bytes <= k.ledger.bytes
      \/ s.ledger.bytes = 0
  BY <1>1, <1>2 DEF Floor0
<1>6. Counted(s)
  BY <1>1, <1>2, <1>4, <1>5 DEF Counted, Chargeable
<1>7. s.made + s.ledger.requests = s.inquiry.requests
  BY <1>1, <1>2, <1>4 DEF Chargeable
<1>8. \/ s.read + s.ledger.bytes = s.inquiry.bytes
      \/ s.ledger.bytes = 0 /\ s.read <= s.inquiry.bytes + Discards(s.inquiry)
  BY <1>1, <1>2, <1>3, <1>5 DEF Chargeable
<1>9. Pooled(s)
  BY <1>1, <1>6, <1>7, <1>8 DEF Pooled, Chargeable
<1> QED
  BY <1>9 DEF s

LEMMA PoolGoesOn ==
    ASSUME NEW k, NEW a, Shaped(k), Pooled(k)
    PROVE  CallOK(Proceeded(k, a)) /\ ~Fetching(Proceeded(k, a))
<1> DEFINE p == Proceeded(k, a)
<1>1. \/ p.phase = "idle" /\ p.inquiry = NoInquiry
      \/ /\ p.phase = "choose" /\ p.inquiry = k.inquiry /\ p.ledger = k.ledger
         /\ p.made = k.made /\ p.read = k.read
         /\ p.hops = 0 /\ p.bytes = 0 /\ p.raw = 0 /\ p.size = 0
  BY ProceededResets
<1> HIDE DEF p
<1>2. CASE p.phase = "idle" /\ p.inquiry = NoInquiry
  BY <1>2 DEF CallOK, Fetching, p
<1>3. CASE /\ p.phase = "choose" /\ p.inquiry = k.inquiry /\ p.ledger = k.ledger
           /\ p.made = k.made /\ p.read = k.read
           /\ p.hops = 0 /\ p.bytes = 0 /\ p.raw = 0 /\ p.size = 0
  <2>1. Pooled(p)
    BY <1>3 DEF Pooled, Counted
  <2>2. CallOK(p) /\ ~Fetching(p)
    BY <1>3, <2>1 DEF CallOK, Fetching
  <2> QED
    BY <2>2 DEF p
<1> QED
  BY <1>1, <1>2, <1>3

--------------------------------------------------------------------------------
(* A step of one call *)

LEMMA StepKeeps ==
    ASSUME Bounds, IInv, NEW c \in Caller, NEW k, Becomes(c, k), Shaped(k), CallOK(k),
           \/ slots' = slots /\ (Fetching(k) <=> Fetching(call[c]))
           \/ slots' = slots + 1 /\ Fetching(call[c]) /\ ~Fetching(k)
           \/ slots' = slots - 1 /\ ~Fetching(call[c]) /\ Fetching(k)
    PROVE  IInv'
<1>1. Shape /\ SlotsConserved
  BY DEF IInv
<1>2. Shape'
  BY <1>1, StepKeepsShape
<1>3. SlotsConserved'
  BY <1>1, SlotsStep
<1>4. \A d \in Caller : CallOK(call'[d])
  BY <1>1, OthersStay DEF IInv
<1>5. QED
  BY <1>2, <1>3, <1>4 DEF IInv, CallOK, Pooled, Counted, Afloat, Chargeable, Fetching

LEMMA AnswerKeeps ==
    ASSUME Bounds, IInv, NEW c \in Caller, NEW k, NEW a, Shaped(k), Pooled(k),
           Answered(c, k, a),
           \/ slots' = slots /\ ~Fetching(call[c])
           \/ slots' = slots + 1 /\ Fetching(call[c])
    PROVE  IInv'
<1>1. PICK b : Becomes(c, Proceeded(k, b))
  BY DEF Answered
<1>2. Shaped(Proceeded(k, b)) /\ CallOK(Proceeded(k, b)) /\ ~Fetching(Proceeded(k, b))
  BY ProceededFields, PoolGoesOn
<1>3. QED
  BY <1>1, <1>2, StepKeeps

LEMMA FailureKeeps ==
    ASSUME Bounds, IInv, NEW c \in Caller, NEW k, Shaped(k), Chargeable(k),
           Fetching(call[c]), FetchFails(c, k)
    PROVE  IInv'
<1>1. Shaped(Settled(k, FALSE)) /\ Pooled(Settled(k, FALSE))
  BY SettledFields, SettledPools
<1>2. QED
  BY <1>1, AnswerKeeps DEF FetchFails

--------------------------------------------------------------------------------
(* A fetch *)

LEMMA HopArithmetic ==
    ASSUME NEW h \in Nat, NEW r \in Nat, NEW n \in Nat
    PROVE  /\ (h + 1) * n = h * n + n
           /\ h <= r => h * n <= r * n
           /\ h * n \in Nat
<1>1. (h + 1) * n = h * n + n /\ h * n \in Nat
  OBVIOUS
<1>2. ASSUME h <= r PROVE h * n <= r * n
  <2>1. r - h \in Nat /\ (r - h) * n >= 0
    BY <1>2
  <2>2. r * n = h * n + (r - h) * n
    OBVIOUS
  <2>3. h * n \in Int /\ r * n \in Int /\ (r - h) * n \in Int
    OBVIOUS
  <2> QED
    BY <2>1, <2>2, <2>3
<1>3. QED
  BY <1>1, <1>2

\* What any number of hops discards, and a body above its allowance, fits beside
\* the pool.
LEMMA DiscardsCover ==
    ASSUME Bounds, NEW q \in Inquiry, NEW pool \in Nat, pool >= MinBytes,
           NEW h \in Nat, NEW raw \in Nat
    PROVE  /\ Discards(q) \in Nat
           /\ h <= q.redirects + 1 => h * Chunk <= pool + Discards(q)
           /\ h <= q.redirects /\ raw <= pool + 1 => h * Chunk + raw <= pool + Discards(q)
<1> DEFINE r == q.redirects
<1>1. r \in Nat /\ Chunk \in Nat /\ MinBytes \in Nat
  BY DEF Bounds
<1>2. /\ r * Chunk \in Nat /\ (r + 1) * Chunk \in Nat /\ h * Chunk \in Nat
      /\ h <= r => h * Chunk <= r * Chunk
      /\ h <= r + 1 => h * Chunk <= (r + 1) * Chunk
  BY <1>1, HopArithmetic
<1>3. /\ Discards(q) >= r * Chunk + 1 /\ Discards(q) >= (r + 1) * Chunk - MinBytes
      /\ Discards(q) \in Nat
  BY <1>1, <1>2 DEF Discards, Larger
<1> HIDE DEF r
<1>4. ASSUME h <= r + 1 PROVE h * Chunk <= pool + Discards(q)
  BY <1>1, <1>2, <1>3, <1>4
<1>5. ASSUME h <= r, raw <= pool + 1 PROVE h * Chunk + raw <= pool + Discards(q)
  BY <1>1, <1>2, <1>3, <1>5
<1>6. QED
  BY <1>3, <1>4, <1>5 DEF r

\* All that the arithmetic of a fetch reads of a call, but for hops, bytes, raw, size
\* and phase.
SamePool(j, k) ==
    /\ j.inquiry = k.inquiry /\ j.made = k.made /\ j.read = k.read
    /\ j.ledger = k.ledger /\ j.grant = k.grant

LEMMA HoppedFields ==
    ASSUME NEW k, Shaped(k)
    PROVE  /\ SamePool(Hopped(k), k)
           /\ Hopped(k).hops = k.hops + 1 /\ Hopped(k).bytes = k.bytes
           /\ Hopped(k).raw = k.raw /\ Hopped(k).size = k.size /\ Hopped(k).phase = k.phase
BY DEF Shaped, SamePool, Hopped

LEMMA DiscardedFields ==
    ASSUME NEW k, NEW size, Shaped(k)
    PROVE  /\ SamePool(Discarded(k, size), k)
           /\ Discarded(k, size).hops = k.hops + 1
           /\ Discarded(k, size).bytes = k.bytes + Min2(size, Chunk)
           /\ Discarded(k, size).raw = k.raw /\ Discarded(k, size).size = k.size
           /\ Discarded(k, size).phase = k.phase
<1>1. Shaped(Hopped(k))
  BY HopShapes
<1>2. /\ SamePool(Discarded(k, size), Hopped(k))
      /\ Discarded(k, size).hops = Hopped(k).hops
      /\ Discarded(k, size).bytes = Hopped(k).bytes + Min2(size, Chunk)
      /\ Discarded(k, size).raw = Hopped(k).raw /\ Discarded(k, size).size = Hopped(k).size
      /\ Discarded(k, size).phase = Hopped(k).phase
  BY <1>1 DEF Shaped, SamePool, Discarded
<1>3. QED
  BY <1>2, HoppedFields DEF SamePool

\* A fetch whose counts stay within hops of a chunk can end now.
LEMMA HopCharges ==
    ASSUME Bounds, NEW k, NEW j, Afloat(k), SamePool(j, k),
           j.hops \in Nat, j.bytes \in Nat, j.raw \in Nat, j.size \in Nat,
           j.hops <= k.ledger.requests, j.hops <= k.inquiry.redirects + 1,
           \/ j.bytes <= j.hops * Chunk
           \/ /\ j.hops >= 1 /\ j.bytes <= (j.hops - 1) * Chunk + j.raw
              /\ j.raw <= j.grant.bytes + 1
    PROVE  Chargeable(j)
<1>1. /\ k.inquiry \in Inquiry /\ k.ledger.bytes \in Nat /\ k.ledger.bytes >= MinBytes
      /\ k.inquiry.redirects \in Nat
      /\ j.inquiry = k.inquiry /\ j.ledger = k.ledger /\ j.grant.bytes = k.ledger.bytes
  BY DEF Afloat, Chargeable, Counted, SamePool, Bounds
<1>2. Discards(k.inquiry) \in Nat
  BY <1>1, DiscardsCover
<1>3. j.bytes <= k.ledger.bytes + Discards(k.inquiry)
  <2>1. CASE j.bytes <= j.hops * Chunk
    <3>1. j.hops * Chunk <= k.ledger.bytes + Discards(k.inquiry)
      BY <1>1, DiscardsCover
    <3>2. j.hops * Chunk \in Nat
      BY HopArithmetic DEF Bounds
    <3> QED
      BY <1>1, <1>2, <2>1, <3>1, <3>2
  <2>2. CASE /\ j.hops >= 1 /\ j.bytes <= (j.hops - 1) * Chunk + j.raw
             /\ j.raw <= j.grant.bytes + 1
    <3> DEFINE h == j.hops - 1
    <3>1. h \in Nat /\ h <= k.inquiry.redirects
      BY <1>1, <2>2
    <3>2. h * Chunk \in Nat
      BY <3>1, HopArithmetic DEF Bounds
    <3> HIDE DEF h
    <3>3. h * Chunk + j.raw <= k.ledger.bytes + Discards(k.inquiry)
      BY <1>1, <2>2, <3>1, DiscardsCover
    <3>4. j.bytes <= h * Chunk + j.raw
      BY <2>2 DEF h
    <3> QED
      BY <1>1, <1>2, <3>2, <3>3, <3>4
  <2> QED
    BY <2>1, <2>2
<1>4. QED
  BY <1>1, <1>3 DEF Chargeable, Counted, Afloat, SamePool

\* One more hop, which brings nothing.
LEMMA HopCounts ==
    ASSUME Bounds, NEW k, Shaped(k), Afloat(k), k.phase = "hop", MayHop(k)
    PROVE  Chargeable(Hopped(k))
<1>1. k.hops + 1 <= k.ledger.requests /\ k.hops + 1 <= k.inquiry.redirects + 1
  BY DEF Afloat, Chargeable, Counted, MayHop, Bounds
<1>2. /\ k.hops \in Nat /\ k.bytes \in Nat /\ k.raw \in Nat /\ k.size \in Nat
      /\ k.bytes <= k.hops * Chunk /\ Chunk \in Nat
  BY DEF Afloat, Chargeable, Counted, Bounds
<1>3. k.bytes <= (k.hops + 1) * Chunk
  <2>1. (k.hops + 1) * Chunk = k.hops * Chunk + Chunk /\ k.hops * Chunk \in Nat
    BY <1>2, HopArithmetic
  <2> QED
    BY <1>2, <2>1
<1>4. /\ SamePool(Hopped(k), k) /\ Hopped(k).hops = k.hops + 1
      /\ Hopped(k).bytes = k.bytes /\ Hopped(k).raw = k.raw /\ Hopped(k).size = k.size
  BY HoppedFields
<1> QED
  BY <1>1, <1>2, <1>3, <1>4, HopCharges

\* One more hop, with at most a chunk of its body.
LEMMA DiscardCounts ==
    ASSUME Bounds, NEW k, NEW size \in BodySizes, Shaped(k), Afloat(k), k.phase = "hop", MayHop(k)
    PROVE  Chargeable(Discarded(k, size)) /\ Afloat(Discarded(k, size))
<1> DEFINE d == Discarded(k, size)
           n == Min2(size, Chunk)
<1>1. /\ k.hops \in Nat /\ k.bytes \in Nat /\ k.raw \in Nat /\ k.size \in Nat
      /\ k.grant.requests \in Nat /\ k.inquiry.redirects \in Nat /\ Chunk \in Nat
      /\ k.grant.requests = k.ledger.requests
      /\ k.bytes <= k.hops * Chunk /\ k.raw = 0
      /\ n \in Nat /\ n <= Chunk
  BY DEF Afloat, Chargeable, Counted, Bounds, Min2
<1>2. k.hops + 1 <= k.ledger.requests /\ k.hops + 1 <= k.inquiry.redirects + 1
  BY <1>1 DEF MayHop
<1>3. (k.hops + 1) * Chunk = k.hops * Chunk + Chunk /\ k.hops * Chunk \in Nat
  BY <1>1, HopArithmetic
<1>4. /\ SamePool(d, k) /\ d.hops = k.hops + 1 /\ d.bytes = k.bytes + n
      /\ d.raw = k.raw /\ d.size = k.size /\ d.phase = k.phase
  BY DiscardedFields
<1> HIDE DEF d, n
<1>5. d.bytes <= d.hops * Chunk /\ d.bytes \in Nat
  BY <1>1, <1>3, <1>4
<1>6. Chargeable(d)
  BY <1>1, <1>2, <1>4, <1>5, HopCharges
<1>7. Afloat(d)
  BY <1>1, <1>2, <1>4, <1>5, <1>6 DEF Afloat, SamePool
<1> QED
  BY <1>6, <1>7 DEF d

\* Only the place of a hop changes.
LEMMA HopMoves ==
    ASSUME NEW k, NEW u, Shaped(k), Afloat(k), k.phase = "hop"
    PROVE  LET m == [k EXCEPT !.at = u] IN Shaped(m) /\ CallOK(m) /\ Fetching(m)
<1> DEFINE m == [k EXCEPT !.at = u]
<1>1. /\ Shaped(m) /\ SamePool(m, k) /\ m.hops = k.hops /\ m.bytes = k.bytes
      /\ m.raw = k.raw /\ m.size = k.size /\ m.phase = "hop"
  BY DEF Shaped, SamePool
<1> HIDE DEF m
<1>2. Afloat(m)
  BY <1>1 DEF Afloat, Chargeable, Counted, SamePool
<1>3. Shaped(m) /\ CallOK(m) /\ Fetching(m)
  BY <1>1, <1>2 DEF CallOK, Fetching
<1> QED
  BY <1>3 DEF m

LEMMA BodyBegins ==
    ASSUME Bounds, NEW k, NEW r, NEW size \in BodySizes, Shaped(k), Afloat(k),
           k.phase = "hop", MayHop(k)
    PROVE  LET m == [Hopped(k) EXCEPT !.phase = "body", !.ref = r, !.size = size]
           IN  Shaped(m) /\ CallOK(m) /\ Fetching(m)
<1> DEFINE j == Hopped(k)
           m == [j EXCEPT !.phase = "body", !.ref = r, !.size = size]
<1>1. /\ Shaped(j) /\ Chargeable(j)
      /\ SamePool(j, k) /\ j.hops = k.hops + 1 /\ j.bytes = k.bytes /\ j.raw = k.raw
  BY HopShapes, HopCounts, HoppedFields
<1> HIDE DEF j
<1>2. /\ Shaped(m) /\ SamePool(m, j) /\ m.hops = j.hops /\ m.bytes = j.bytes
      /\ m.raw = j.raw /\ m.size = size /\ m.phase = "body"
  BY <1>1 DEF Shaped, SamePool
<1> HIDE DEF m
<1>3. /\ k.hops \in Nat /\ k.bytes \in Nat /\ k.raw = 0
      /\ k.bytes <= k.hops * Chunk /\ k.hops * Chunk \in Nat
      /\ {k.grant.requests, k.grant.bytes} \subseteq Nat
      /\ k.grant.requests = k.ledger.requests /\ k.grant.bytes = k.ledger.bytes
      /\ k.ledger.bytes >= MinBytes /\ k.inquiry.redirects \in Nat
      /\ k.hops + 1 <= k.inquiry.redirects + 1 /\ size \in Nat
  BY HopArithmetic DEF Afloat, Chargeable, Counted, MayHop, Bounds
<1>4. Chargeable(m)
  BY <1>1, <1>2 DEF Chargeable, Counted, SamePool
<1>5. (m.hops - 1) * Chunk = k.hops * Chunk
  BY <1>1, <1>2, <1>3
<1>6. m.hops >= 1 /\ m.bytes <= (m.hops - 1) * Chunk + m.raw /\ m.raw <= m.grant.bytes
  BY <1>1, <1>2, <1>3, <1>5 DEF SamePool
<1>7. Afloat(m)
  BY <1>1, <1>2, <1>3, <1>4, <1>6 DEF Afloat, SamePool
<1>8. Shaped(m) /\ CallOK(m) /\ Fetching(m)
  BY <1>2, <1>7 DEF CallOK, Fetching
<1> QED
  BY <1>8 DEF m, j

\* One read asks for a byte more than is left of the allowance at most.
LEMMA ChunkCounts ==
    ASSUME Bounds, NEW k, Shaped(k), Afloat(k), k.phase = "body", k.raw < k.size
    PROVE  LET n == Min2(Asked(k), k.size - k.raw)
               m == [k EXCEPT !.raw = @ + n, !.bytes = @ + n]
           IN  /\ Shaped(m) /\ Chargeable(m)
               /\ m.raw <= k.grant.bytes => CallOK(m) /\ Fetching(m)
<1> DEFINE n == Min2(Asked(k), k.size - k.raw)
           m == [k EXCEPT !.raw = @ + n, !.bytes = @ + n]
<1>1. /\ k.hops \in Nat /\ k.bytes \in Nat /\ k.raw \in Nat /\ k.size \in Nat
      /\ k.grant.bytes \in Nat /\ Chunk \in Nat /\ k.hops >= 1
      /\ k.bytes <= (k.hops - 1) * Chunk + k.raw /\ k.raw <= k.grant.bytes
      /\ k.hops <= k.ledger.requests /\ k.hops <= k.inquiry.redirects + 1
  BY DEF Afloat, Chargeable, Counted, Bounds
<1>2. n \in Nat /\ k.raw + n <= k.grant.bytes + 1
  BY <1>1 DEF Min2, Asked
<1> HIDE DEF n
<1>3. /\ Shaped(m) /\ SamePool(m, k) /\ m.hops = k.hops /\ m.bytes = k.bytes + n
      /\ m.raw = k.raw + n /\ m.size = k.size /\ m.phase = "body"
  BY DEF Shaped, SamePool
<1> HIDE DEF m
<1>4. m.bytes <= (m.hops - 1) * Chunk + m.raw /\ m.bytes \in Nat /\ m.raw \in Nat
  <2>1. (k.hops - 1) * Chunk \in Nat
    BY <1>1, HopArithmetic
  <2> QED
    BY <1>1, <1>2, <1>3, <2>1
<1>5. Chargeable(m)
  BY <1>1, <1>2, <1>3, <1>4, HopCharges DEF SamePool
<1>6. ASSUME m.raw <= k.grant.bytes PROVE CallOK(m) /\ Fetching(m)
  <2>1. Afloat(m)
    BY <1>1, <1>3, <1>4, <1>5, <1>6 DEF Afloat, SamePool
  <2> QED
    BY <1>3, <2>1 DEF CallOK, Fetching
<1>7. /\ Shaped(m) /\ Chargeable(m)
      /\ m.raw <= k.grant.bytes => CallOK(m) /\ Fetching(m)
  BY <1>3, <1>5, <1>6
<1> QED
  BY <1>7 DEF m, n

LEMMA FetchKeeps ==
    ASSUME Bounds, IInv, NEW c \in Caller, Fetch(c)
    PROVE  IInv'
<1> DEFINE k == call[c]
<1>1. Shaped(k) /\ CallOK(k)
  BY DEF IInv, Shape
<1>2. Fetching(k) => Afloat(k) /\ Chargeable(k)
  BY <1>1 DEF CallOK, Afloat
<1>3. k.phase \in {"hop", "body"} => Fetching(call[c])
  BY DEF Fetching
<1> HIDE DEF k
<1>4. CASE HopExceeds(c) \/ BodyFails(c)
  BY <1>1, <1>2, <1>3, <1>4, FailureKeeps DEF HopExceeds, BodyFails, k
<1>5. CASE HopFails(c)
  <2>1. k.phase = "hop" /\ MayHop(k) /\ FetchFails(c, Hopped(k))
    BY <1>5 DEF HopFails, k
  <2>2. Fetching(k) /\ Fetching(call[c])
    BY <1>3, <2>1 DEF k
  <2>3. Chargeable(Hopped(k)) /\ Shaped(Hopped(k))
    BY <1>1, <1>2, <2>1, <2>2, HopCounts, HopShapes
  <2> QED
    BY <2>1, <2>2, <2>3, FailureKeeps
<1>6. ASSUME NEW size \in BodySizes, Connects(k) PROVE
        /\ Fetching(k) /\ Fetching(call[c]) /\ k.phase = "hop" /\ MayHop(k)
        /\ Shaped(Discarded(k, size)) /\ Chargeable(Discarded(k, size))
        /\ Afloat(Discarded(k, size)) /\ Discarded(k, size).phase = "hop"
  <2>1. Fetching(k) /\ Fetching(call[c]) /\ k.phase = "hop" /\ MayHop(k)
    BY <1>3, <1>6 DEF Connects, k
  <2> QED
    BY <1>1, <1>2, <2>1, DiscardCounts, HopShapes, DiscardedFields
<1>7. ASSUME NEW size \in BodySizes, HopRejected(c, size)
      PROVE  IInv'
  <2>1. Connects(k) /\ FetchFails(c, Discarded(k, size))
    BY <1>7 DEF HopRejected, k
  <2> QED
    BY <1>6, <2>1, FailureKeeps
<1>8. ASSUME NEW size \in BodySizes, NEW u \in Url, HopRedirects(c, u, size)
      PROVE  IInv'
  <2> DEFINE m == [Discarded(k, size) EXCEPT !.at = u]
  <2>1. Connects(k) /\ Becomes(c, m) /\ slots' = slots
    BY <1>8 DEF HopRedirects, k
  <2>2. Shaped(m) /\ CallOK(m) /\ Fetching(m)
    BY <1>6, <2>1, HopMoves
  <2> HIDE DEF m
  <2> QED
    BY <1>6, <2>1, <2>2, StepKeeps
<1>9. ASSUME NEW size \in BodySizes, NEW r \in Ref, HopBody(c, r, size)
      PROVE  IInv'
  <2> DEFINE m == [Hopped(k) EXCEPT !.phase = "body", !.ref = r, !.size = size]
  <2>1. Connects(k) /\ Becomes(c, m) /\ slots' = slots
    BY <1>9 DEF HopBody, k
  <2>2. Shaped(m) /\ CallOK(m) /\ Fetching(m)
    BY <1>1, <1>2, <1>6, <2>1, BodyBegins
  <2> HIDE DEF m
  <2> QED
    BY <1>6, <2>1, <2>2, StepKeeps
<1>10. CASE ReadChunk(c)
  <2> DEFINE n == Min2(Asked(k), k.size - k.raw)
             m == [k EXCEPT !.raw = @ + n, !.bytes = @ + n]
  <2>1. /\ k.phase = "body" /\ k.raw < k.size
        /\ IF m.raw > k.grant.bytes THEN FetchFails(c, m) ELSE Becomes(c, m) /\ slots' = slots
    BY <1>10 DEF ReadChunk, k
  <2>2. Fetching(k) /\ Fetching(call[c])
    BY <1>3, <2>1 DEF k
  <2>3. /\ Shaped(m) /\ Chargeable(m)
        /\ m.raw <= k.grant.bytes => CallOK(m) /\ Fetching(m)
    BY <1>1, <1>2, <2>1, <2>2, ChunkCounts
  <2>4. k.grant.bytes \in Nat /\ m.raw \in Int
    <3>1. /\ k.raw \in Nat /\ k.size \in Nat /\ k.grant.bytes \in Nat /\ Chunk \in Nat
      BY <1>2, <2>2 DEF Afloat, Bounds
    <3>2. n \in Int
      BY <3>1 DEF Min2, Asked
    <3> HIDE DEF n
    <3>3. m.raw = k.raw + n
      BY <1>1 DEF Shaped
    <3> QED
      BY <3>1, <3>2, <3>3
  <2> HIDE DEF m
  <2>5. CASE m.raw > k.grant.bytes
    BY <2>1, <2>2, <2>3, <2>5, FailureKeeps
  <2>6. CASE ~(m.raw > k.grant.bytes)
    <3>1. CallOK(m) /\ Fetching(m)
      BY <2>3, <2>4, <2>6
    <3> QED
      BY <2>1, <2>2, <2>3, <2>6, <3>1, StepKeeps
  <2> QED
    BY <2>5, <2>6
<1>11. QED
  BY <1>4, <1>5, <1>7, <1>8, <1>9, <1>10 DEF Fetch

--------------------------------------------------------------------------------
(* The other steps, and the invariant *)

\* A fetch is granted the whole pool, which can fund it.
LEMMA StartKeeps ==
    ASSUME Bounds, IInv, NEW c \in Caller, StartFetch(c)
    PROVE  IInv'
<1> DEFINE k == call[c]
           g == Allowance(k.inquiry, k.ledger)
           u == Head(k.left)
           m == [k EXCEPT !.phase = "hop", !.answer = NoAnswer, !.at = u, !.since = clock,
                          !.grant = g]
<1>1. /\ k.phase = "choose" /\ CanFund(k.ledger) /\ slots' = slots - 1 /\ Becomes(c, m)
      /\ ~Fetching(call[c])
  BY DEF StartFetch, Fetching
<1>2. Shaped(k) /\ CallOK(k)
  BY DEF IInv, Shape
<1>3. Pooled(k) /\ k.hops = 0 /\ k.bytes = 0 /\ k.raw = 0 /\ k.size = 0
  BY <1>1, <1>2 DEF CallOK
<1>4. /\ k.inquiry \in Inquiry /\ k.inquiry.redirects \in Nat
      /\ k.inquiry.requests \in Nat /\ k.inquiry.bytes \in Nat
      /\ {k.made, k.read, k.ledger.requests, k.ledger.bytes} \subseteq Nat
      /\ MinBytes \in Nat \ {0} /\ k.ledger.bytes >= MinBytes
  BY <1>1, <1>3 DEF Pooled, Counted, CanFund, Bounds
<1>5. /\ k.made + k.ledger.requests = k.inquiry.requests
      /\ k.read + k.ledger.bytes = k.inquiry.bytes
  BY <1>3, <1>4 DEF Pooled
<1>6. /\ g \in [requests : {g.requests}, bytes : {g.bytes}]
      /\ g.requests = k.ledger.requests /\ g.bytes = k.ledger.bytes
  BY <1>4, <1>5 DEF Allowance, Min2
<1>7. Discards(k.inquiry) \in Nat
  BY <1>4, DiscardsCover
<1> HIDE DEF k, u, g
<1>8. /\ Shaped(m) /\ m.phase = "hop" /\ m.inquiry = k.inquiry /\ m.made = k.made
      /\ m.read = k.read /\ m.ledger = k.ledger /\ m.hops = k.hops /\ m.bytes = k.bytes
      /\ m.raw = k.raw /\ m.size = k.size /\ m.grant = g
  BY <1>2, <1>6 DEF Shaped, NoAnswer
<1> HIDE DEF m
<1>9. Chargeable(m)
  BY <1>3, <1>4, <1>5, <1>7, <1>8 DEF Chargeable, Counted
<1>10. 0 * Chunk = 0
  BY DEF Bounds
<1>11. Afloat(m)
  BY <1>3, <1>4, <1>6, <1>8, <1>9, <1>10 DEF Afloat
<1>12. CallOK(m) /\ Fetching(m)
  BY <1>8, <1>11 DEF CallOK, Fetching
<1> QED
  BY <1>1, <1>8, <1>12, StepKeeps DEF m

LEMMA ResearchKeeps ==
    ASSUME Bounds, IInv, NEW c \in Caller, Research(c)
    PROVE  IInv'
<1> DEFINE k == call[c]
<1>1. Shaped(k) /\ CallOK(k)
  BY DEF IInv, Shape
<1>2. /\ k.phase \in {"choose", "sweep", "unlink"} => Pooled(k) /\ ~Fetching(call[c])
      /\ k.phase = "body" => Chargeable(k) /\ Fetching(call[c])
  BY <1>1 DEF CallOK, Afloat, Fetching
<1> HIDE DEF k
<1>3. CASE Decline(c) \/ ServeCached(c) \/ Fetched(c)
  BY <1>1, <1>2, <1>3, AnswerKeeps DEF Decline, ServeCached, Fetched, k
<1>4. CASE StartFetch(c)
  BY <1>4, StartKeeps
<1>5. CASE Fetch(c)
  BY <1>5, FetchKeeps
<1> DEFINE s == Settled(k, TRUE)
<1>6. ASSUME k.phase = "body"
      PROVE  Shaped(s) /\ Pooled(s) /\ Fetching(call[c])
  BY <1>1, <1>2, <1>6, SettledFields, SettledPools
<1>7. CASE Store(c)
  <2> DEFINE t == {v \in Url : cache'[v] # NoEntry}
             b == [s EXCEPT !.phase = "sweep", !.entry = Entry(k), !.todo = t]
  <2>1. k.phase = "body" /\ slots' = slots + 1 /\ Becomes(c, b)
    BY <1>7 DEF Store, k
  <2>2. Shaped(s) /\ Pooled(s) /\ Fetching(call[c])
    BY <1>6, <2>1
  <2> HIDE DEF s, t
  <2>3. /\ Shaped(b) /\ SamePool(b, s) /\ b.phase = "sweep"
        /\ b.hops = s.hops /\ b.bytes = s.bytes
    BY <2>2 DEF Shaped, SamePool
  <2> HIDE DEF b
  <2>4. CallOK(b) /\ ~Fetching(b)
    BY <2>2, <2>3 DEF CallOK, Fetching, Pooled, Counted, SamePool
  <2> QED
    BY <2>1, <2>2, <2>3, <2>4, StepKeeps
<1>8. CASE StoreFails(c)
  <2> DEFINE e == [status |-> "error"]
             b == Proceeded(s, e)
  <2>1. k.phase = "body" /\ slots' = slots + 1 /\ Becomes(c, b)
    BY <1>8 DEF StoreFails, k
  <2>2. Shaped(s) /\ Pooled(s) /\ Fetching(call[c])
    BY <1>6, <2>1
  <2> HIDE DEF s, e
  <2>3. Shaped(b) /\ CallOK(b) /\ ~Fetching(b)
    BY <2>2, ProceededFields, PoolGoesOn
  <2> HIDE DEF b
  <2> QED
    BY <2>1, <2>2, <2>3, StepKeeps
<1>9. ASSUME NEW b, Shaped(b), SamePool(b, k), b.hops = k.hops, b.bytes = k.bytes,
             b.phase \in {"sweep", "unlink"}, k.phase \in {"sweep", "unlink"},
             Becomes(c, b), slots' = slots
      PROVE  IInv'
  <2>1. CallOK(b) /\ ~Fetching(b)
    BY <1>2, <1>9 DEF CallOK, Fetching, Pooled, Counted, SamePool
  <2> QED
    BY <1>2, <1>9, <2>1, StepKeeps
<1>10. LET b == Skipped(k)
       IN  Shaped(b) /\ SamePool(b, k) /\ b.hops = k.hops /\ b.bytes = k.bytes /\ b.phase = "sweep"
  BY <1>1 DEF Shaped, SamePool, Skipped
<1>11. CASE SweepRead(c)
  <2> DEFINE b == [k EXCEPT !.phase = "unlink"]
  <2>1. /\ k.phase = "sweep" /\ slots' = slots
        /\ Becomes(c, b) \/ Becomes(c, Skipped(k))
    BY <1>11 DEF SweepRead, k
  <2>2. Shaped(b) /\ SamePool(b, k) /\ b.hops = k.hops /\ b.bytes = k.bytes /\ b.phase = "unlink"
    BY <1>1 DEF Shaped, SamePool
  <2> HIDE DEF b
  <2> QED
    BY <1>9, <1>10, <2>1, <2>2
<1>12. CASE SweepUnlink(c)
  <2>1. k.phase = "unlink" /\ slots' = slots /\ Becomes(c, Skipped(k))
    BY <1>12 DEF SweepUnlink, k
  <2> QED
    BY <1>9, <1>10, <2>1
<1> QED
  BY <1>3, <1>4, <1>5, <1>7, <1>8, <1>11, <1>12 DEF Research

LEMMA InitInvariant ==
    ASSUME Bounds, Init
    PROVE  IInv
<1>1. \A c \in Caller : CallOK(call[c]) /\ ~Fetching(call[c])
  BY DEF Init, Idle, CallOK, Fetching
<1>2. QED
  BY <1>1, ShapeStarts, SlotsAllFree DEF IInv, Init

LEMMA NextInvariant ==
    ASSUME Bounds, IInv, [Next]_researchVars
    PROVE  IInv'
<1>1. Shape'
  BY NextShape DEF IInv
<1>2. ASSUME NEW c \in Caller, NEW q \in Inquiry, Begin(c, q)
      PROVE  IInv'
  <2> DEFINE l == Ledger(q)
             n == Candidates(q)
             b == [Idle EXCEPT !.phase = "choose", !.inquiry = q, !.left = n, !.ledger = l]
  <2>1. Becomes(c, b) /\ slots' = slots /\ call[c].phase = "idle"
    BY <1>2 DEF Begin
  <2>2. /\ l \in [requests : {l.requests}, bytes : {l.bytes}, deadline : {l.deadline}]
        /\ l.requests = q.requests /\ l.bytes = q.bytes
        /\ q.requests \in Nat /\ q.bytes \in Nat
    BY DEF Ledger, Bounds
  <2> HIDE DEF l, n
  <2>3. Shaped(b)
    BY <2>2, IdleShaped DEF Shaped
  <2>4. /\ b.phase = "choose" /\ b.inquiry = q /\ b.ledger = l /\ b.made = 0 /\ b.read = 0
        /\ b.hops = 0 /\ b.bytes = 0 /\ b.raw = 0 /\ b.size = 0
    BY DEF Idle
  <2> HIDE DEF b
  <2>5. CallOK(b) /\ ~Fetching(b) /\ ~Fetching(call[c])
    BY <2>1, <2>2, <2>4 DEF CallOK, Fetching, Pooled, Counted
  <2> QED
    BY <2>1, <2>3, <2>5, StepKeeps
<1>3. ASSUME NEW c \in Caller, NEW r \in Ref, ReadLive(c, r)
      PROVE  IInv'
  <2>1. PICK a : /\ Becomes(c, [Idle EXCEPT !.answer = a])
                 /\ slots' = slots /\ call[c].phase = "idle"
    BY <1>3 DEF ReadLive
  <2> DEFINE b == [Idle EXCEPT !.answer = a]
  <2>2. Shaped(b) /\ b.phase = "idle" /\ b.inquiry = NoInquiry
    BY DEF Shaped, Idle
  <2> HIDE DEF b
  <2>3. CallOK(b) /\ ~Fetching(b) /\ ~Fetching(call[c])
    BY <2>1, <2>2 DEF CallOK, Fetching
  <2> QED
    BY <2>1, <2>2, <2>3, StepKeeps DEF b
<1>4. CASE UNCHANGED <<slots, call>>
  BY <1>1, <1>4 DEF IInv, SlotsConserved, CallOK, Pooled, Counted, Afloat, Chargeable, Fetching
<1>5. ASSUME NEW p \in Policy, Restart(p)
      PROVE  IInv'
  <2>1. \A c \in Caller : CallOK(call'[c]) /\ ~Fetching(call'[c])
    BY <1>5 DEF Restart, Idle, CallOK, Fetching
  <2>2. slots' = MaxConcurrent
    BY <1>5 DEF Restart
  <2>3. SlotsConserved'
    <3>1. {c \in Caller : Fetching(call'[c])} = {}
      BY <2>1
    <3> QED
      BY <2>2, <3>1, FS_EmptySet DEF SlotsConserved, Fetching, Bounds
  <2>4. (\A c \in Caller : CallOK(call[c]))'
    BY <2>1 DEF CallOK, Pooled, Counted, Afloat, Chargeable, Fetching
  <2> QED
    BY <1>1, <2>3, <2>4 DEF IInv
<1> QED
  BY <1>2, <1>3, <1>4, <1>5, ResearchKeeps DEF Next, Tick, researchVars

LEMMA InvariantBounds ==
    ASSUME Bounds, IInv
    PROVE  WithinBounds
<1> SUFFICES ASSUME NEW c \in Caller, call[c].inquiry # NoInquiry
             PROVE  LET k == call[c] IN
                    /\ k.made + (IF Fetching(k) THEN k.hops ELSE 0) <= k.inquiry.requests
                    /\ k.read + (IF Fetching(k) THEN k.bytes ELSE 0)
                         <= k.inquiry.bytes + Discards(k.inquiry)
  BY DEF WithinBounds, BudgetPooled, IInv
<1> DEFINE k == call[c]
<1>1. CallOK(k) /\ k.phase # "idle"
  BY DEF IInv, CallOK
<1>2. k.inquiry \in Inquiry /\ Counted(k)
  BY <1>1 DEF CallOK, Fetching, Pooled, Afloat, Chargeable
<1>3. /\ k.inquiry.requests \in Nat /\ k.inquiry.bytes \in Nat
      /\ k.inquiry.bytes >= MinBytes /\ MinBytes \in Nat
  BY <1>2 DEF Bounds
<1>4. Discards(k.inquiry) \in Nat
  BY <1>2, <1>3, DiscardsCover
<1> HIDE DEF k
<1>5. CASE Fetching(k)
  <2>1. Chargeable(k)
    BY <1>1, <1>5 DEF CallOK, Afloat
  <2> QED
    BY <1>2, <1>3, <1>4, <1>5, <2>1 DEF Chargeable, Counted, k
<1>6. CASE ~Fetching(k)
  <2>1. Pooled(k)
    BY <1>1, <1>6 DEF CallOK, Fetching
  <2> QED
    BY <1>2, <1>3, <1>4, <1>6, <2>1 DEF Pooled, Counted, k
<1> QED
  BY <1>5, <1>6

\* However many candidates, redirects and failures an investigation meets, its
\* fetches together stay inside the declared requests and, but for the discards of
\* the last, bytes; and no way a fetch ends leaks a slot of the limiter.
THEOREM BudgetAndSlotsHold == Spec => []WithinBounds
<1> USE LiveResearchAssumption
<1>1. Init => IInv
  BY InitInvariant
<1>2. IInv /\ [Next]_researchVars => IInv'
  BY NextInvariant
<1>3. IInv => WithinBounds
  BY InvariantBounds
<1>4. QED
  BY <1>1, <1>2, <1>3, PTL DEF Spec
================================================================================
