------------------------- MODULE InvestigateWalkProofs --------------------------
(* No walk mixes the records of two builds, for every instance.            *)
EXTENDS InvestigateWalk, ListProofs, Integers, SequenceTheorems, FiniteSetTheorems, TLAPS

--------------------------------------------------------------------------------
(* The builds of a walk *)

LEMMA InitBuilds == Init => BuildInv
<1> SUFFICES ASSUME Init PROVE BuildInv
  OBVIOUS
<1>1. /\ build \in Build /\ setting \in Setting
      /\ walk = [q \in Request |-> walk[q]]
      /\ \A q \in Request : walk[q] = Unstarted
  BY DEF Init
<1>2. /\ Unstarted.state = "idle" /\ Unstarted.builds = {}
      /\ Unstarted.cursor.kind # "offset" /\ WholeWalk(Unstarted)
  BY DEF Unstarted, NoCursor, WholeWalk
<1> QED
  BY <1>1, <1>2 DEF BuildInv, CursorsBound, BuildsOfOne

\* A page that was answered leaves the walk bound to the build that answered it,
\* if the walk had not begun or was bound to that build before.
LEMMA AnswerKeepsBuild ==
    ASSUME BuildInv, NEW q \in Request, NEW offset,
           walk[q].builds \subseteq {build},
           Answer(q, offset), UNCHANGED <<build, setting, trace>>
    PROVE  BuildInv'
<1>0. setting' = setting /\ setting \in Setting
  BY DEF BuildInv
<1>1. PICK page, outcome : walk' = [walk EXCEPT ![q] = Continued(q, offset, page, outcome)]
  BY DEF Answer
<1> DEFINE next == NextCursor(q, offset, page, outcome)
<1>2. /\ walk' = [r \in Request |-> walk'[r]]
      /\ walk'[q] = Continued(q, offset, page, outcome)
      /\ \A r \in Request \ {q} : walk'[r] = walk[r]
  BY <1>1 DEF BuildInv
<1>3. /\ walk'[q].builds = {build}
      /\ walk'[q].cursor = next
      /\ walk'[q].state \in {"ended", "open"}
      /\ WholeWalk(walk'[q])
  BY <1>2 DEF Continued, WholeWalk
<1>4. next.kind = "offset" => next.request = q /\ next.build = build
  BY DEF NextCursor, OffsetCursor, CompactedCursor, NoCursor
<1>5. build' = build /\ build \in Build
  BY DEF BuildInv
<1>6. CursorsBound'
  BY <1>2, <1>3, <1>4 DEF BuildInv, CursorsBound
<1>7. BuildsOfOne'
  BY <1>2, <1>3, <1>5 DEF BuildInv, BuildsOfOne
<1>8. \A r \in Request : WholeWalk(walk'[r])
  BY <1>2, <1>3 DEF BuildInv
<1> QED
  BY <1>0, <1>2, <1>5, <1>6, <1>7, <1>8 DEF BuildInv

LEMMA FirstPageKeepsBuild ==
    ASSUME BuildInv, NEW q \in Request, FirstPage(q)
    PROVE  BuildInv'
<1>1. walk[q].builds = {}
  BY DEF BuildInv, BuildsOfOne, FirstPage
<1> QED
  BY <1>1, AnswerKeepsBuild DEF FirstPage

\* The cursor that is accepted is the walk's own: another one names another
\* request.  So the server's build is the build the walk is bound to.
LEMMA NextPageKeepsBuild ==
    ASSUME BuildInv, NEW q \in Request, NextPage(q)
    PROVE  BuildInv'
<1>1. PICK p \in Request : /\ Accepts(q, walk[p].cursor)
                          /\ Answer(q, walk[p].cursor.offset)
  BY DEF NextPage
<1>2. /\ walk[p].cursor.kind = "offset"
      /\ walk[p].cursor.request = q
      /\ walk[p].cursor.build = build
  BY <1>1 DEF Accepts
<1>3. p = q
  BY <1>2 DEF BuildInv, CursorsBound
<1>4. walk[q].builds = {build}
  BY <1>2, <1>3 DEF BuildInv, CursorsBound
<1> QED
  BY <1>1, <1>4, AnswerKeepsBuild DEF NextPage

LEMMA RefuseKeepsBuild ==
    ASSUME BuildInv, NEW q \in Request, Refuse(q)
    PROVE  BuildInv'
<1>1. WholeWalk(walk[q]) /\ walk[q].state = "open"
  BY DEF BuildInv, Refuse
<1>2. /\ walk' = [r \in Request |-> walk'[r]]
      /\ walk'[q] = [walk[q] EXCEPT !.state = "refused"]
      /\ \A r \in Request \ {q} : walk'[r] = walk[r]
  BY DEF BuildInv, Refuse
<1>3. /\ walk'[q].state = "refused"
      /\ walk'[q].cursor = walk[q].cursor
      /\ walk'[q].builds = walk[q].builds
      /\ WholeWalk(walk'[q])
  BY <1>1, <1>2 DEF WholeWalk
<1>4. build' = build /\ setting' = setting
  BY DEF Refuse
<1>5. \A r \in Request : /\ walk'[r].cursor = walk[r].cursor
                         /\ walk'[r].builds = walk[r].builds
                         /\ r # q => walk'[r].state = walk[r].state
  BY <1>2, <1>3
<1>6. CursorsBound'
  BY <1>5 DEF BuildInv, CursorsBound
<1>7. BuildsOfOne'
  BY <1>1, <1>3, <1>5 DEF BuildInv, BuildsOfOne
<1>8. \A r \in Request : WholeWalk(walk'[r])
  BY <1>2, <1>3 DEF BuildInv
<1> QED
  BY <1>2, <1>4, <1>6, <1>7, <1>8 DEF BuildInv

\* An answer without evidence binds the walk to no build.
LEMMA AbstainKeepsBuild ==
    ASSUME BuildInv, NEW q \in Request, Abstain(q)
    PROVE  BuildInv'
<1>1. WholeWalk(walk[q]) /\ walk[q].state \in {"idle", "open"}
  BY DEF BuildInv, Abstain
<1>2. /\ walk' = [r \in Request |-> walk'[r]]
      /\ walk'[q] = [walk[q] EXCEPT !.state = "abstained"]
      /\ \A r \in Request \ {q} : walk'[r] = walk[r]
  BY DEF BuildInv, Abstain
<1>3. /\ walk'[q].state = "abstained"
      /\ walk'[q].cursor = walk[q].cursor
      /\ walk'[q].builds = walk[q].builds
      /\ WholeWalk(walk'[q])
  BY <1>1, <1>2 DEF WholeWalk
<1>4. build' = build /\ setting' = setting
  BY DEF Abstain
<1>5. \A r \in Request : /\ walk'[r].cursor = walk[r].cursor
                         /\ walk'[r].builds = walk[r].builds
                         /\ r # q => walk'[r].state = walk[r].state
  BY <1>2, <1>3
<1>6. CursorsBound'
  BY <1>5 DEF BuildInv, CursorsBound
<1>7. BuildsOfOne'
  BY <1>1, <1>3, <1>5 DEF BuildInv, BuildsOfOne
<1>8. \A r \in Request : WholeWalk(walk'[r])
  BY <1>2, <1>3 DEF BuildInv
<1> QED
  BY <1>2, <1>4, <1>6, <1>7, <1>8 DEF BuildInv

LEMMA NextKeepsBuild == BuildInv /\ [Next]_vars => BuildInv'
<1> SUFFICES ASSUME BuildInv, [Next]_vars
             PROVE  BuildInv'
  OBVIOUS
<1>1. CASE \E q \in Request : FirstPage(q)
  BY <1>1, FirstPageKeepsBuild
<1>2. CASE \E q \in Request : NextPage(q)
  BY <1>2, NextPageKeepsBuild
<1>3. CASE \E q \in Request : Refuse(q)
  BY <1>3, RefuseKeepsBuild
<1>7. CASE \E q \in Request : Abstain(q)
  BY <1>7, AbstainKeepsBuild
<1>4. CASE \E b \in Build, s \in Setting : Restart(b, s)
  BY <1>4 DEF Restart, BuildInv, CursorsBound, BuildsOfOne
<1>5. CASE \E q \in Request : \E t \in Traces[q] : RepositoryChanges(q, t)
  BY <1>5 DEF RepositoryChanges, BuildInv, CursorsBound, BuildsOfOne
<1>6. CASE UNCHANGED vars
  BY <1>6 DEF vars, BuildInv, CursorsBound, BuildsOfOne
<1> QED
  BY <1>1, <1>2, <1>3, <1>4, <1>5, <1>6, <1>7 DEF Next

\* No walk mixes the records of two builds, whatever restarts, commits, failing
\* legs of a search, compaction and mistaken cursors come in between
\* (service.py:170-181, 1005-1013).
THEOREM OneBuild == Spec => []OneBuildPerWalk
<1>1. BuildInv => OneBuildPerWalk
  <2> SUFFICES ASSUME BuildInv, NEW q \in Request
               PROVE  Cardinality(walk[q].builds) <= 1
    BY DEF OneBuildPerWalk
  <2>1. CASE walk[q].builds = {}
    BY <2>1, FS_EmptySet
  <2>2. CASE walk[q].builds # {}
    <3>1. PICK b \in Build : walk[q].builds = {b}
      BY <2>2 DEF BuildInv, BuildsOfOne
    <3>2. Cardinality({b}) = 1
      BY FS_Singleton
    <3> QED
      BY <3>1, <3>2
  <2> QED
    BY <2>1, <2>2
<1>2. Spec => []BuildInv
  BY InitBuilds, NextKeepsBuild, PTL DEF Spec
<1> QED
  BY <1>1, <1>2, PTL

\* A cursor that is accepted is the walk's own, so a client that mistakes one
\* walk's cursor for another's is refused and never sees the wrong slice.
THEOREM CursorsStayBound == Spec => []CursorsBound
<1>1. BuildInv => CursorsBound
  BY DEF BuildInv
<1> QED
  BY <1>1, InitBuilds, NextKeepsBuild, PTL DEF Spec

--------------------------------------------------------------------------------
(* Slices and filters of sequences *)

LEMMA TakeIs ==
    ASSUME NEW S, NEW s \in Seq(S), NEW n \in Nat
    PROVE  /\ Take(s, n) \in Seq(S)
           /\ Len(Take(s, n)) = IF n < Len(s) THEN n ELSE Len(s)
           /\ \A i \in 1..Len(Take(s, n)) : Take(s, n)[i] = s[i]
           /\ n >= Len(s) => Take(s, n) = s
BY DEF Take

LEMMA SkipIs ==
    ASSUME NEW S, NEW s \in Seq(S), NEW n \in Nat
    PROVE  /\ Skip(s, n) \in Seq(S)
           /\ Len(Skip(s, n)) = IF n < Len(s) THEN Len(s) - n ELSE 0
           /\ \A i \in 1..Len(Skip(s, n)) : Skip(s, n)[i] = s[i + n]
BY DEF Skip

LEMMA ToSetIs ==
    ASSUME NEW S, NEW s \in Seq(S)
    PROVE  /\ ToSet(s) \subseteq S
           /\ \A x : x \in ToSet(s) <=> \E i \in 1..Len(s) : x = s[i]
BY DEF ToSet

\* A list without some refs: those that are left keep their order and come no later, and a
\* start of the list that has none of these refs stays as it is.
LEMMA WithoutKeeps ==
    ASSUME NEW S, NEW s \in Seq(S), NEW refs
    PROVE  /\ Without(s, refs) \in Seq(S) /\ Len(Without(s, refs)) <= Len(s)
           /\ \A i \in 1..Len(Without(s, refs)) :
                \E j \in i..Len(s) : Without(s, refs)[i] = s[j]
           /\ \A j \in 1..Len(s) : s[j] \notin refs =>
                \E i \in 1..Len(Without(s, refs)) : i <= j /\ Without(s, refs)[i] = s[j]
           /\ \A n \in 0..Len(s) : (\A i \in 1..n : s[i] \notin refs) =>
                n <= Len(Without(s, refs)) /\ \A i \in 1..n : Without(s, refs)[i] = s[i]
<1> DEFINE some == ToSet(s) \ refs
<1>1. \A i \in 1..Len(s) : s[i] \in some <=> s[i] \notin refs
  BY ToSetIs
<1>2. Without(s, refs) = Among(s, some)
  BY DEF Without
<1> HIDE DEF some
<1> DEFINE kept == Among(s, some)
<1>3. /\ kept \in Seq(S) /\ Len(kept) <= Len(s)
      /\ \A i \in 1..Len(kept) : \E j \in i..Len(s) : s[j] \in some /\ kept[i] = s[j]
      /\ \A j \in 1..Len(s) : s[j] \in some => \E i \in 1..Len(kept) : i <= j /\ kept[i] = s[j]
      /\ \A n \in 0..Len(s) : (\A i \in 1..n : s[i] \in some) =>
           n <= Len(kept) /\ \A i \in 1..n : kept[i] = s[i]
  BY AmongKeeps
<1> HIDE DEF kept
<1>4. \A n \in 0..Len(s) : (\A i \in 1..n : s[i] \notin refs) => \A i \in 1..n : s[i] \in some
  BY <1>1
<1>5. \A n \in 0..Len(s) : (\A i \in 1..n : s[i] \notin refs) =>
         n <= Len(kept) /\ \A i \in 1..n : kept[i] = s[i]
  BY <1>3, <1>4
<1>6. /\ \A i \in 1..Len(kept) : \E j \in i..Len(s) : kept[i] = s[j]
      /\ \A j \in 1..Len(s) : s[j] \notin refs => \E i \in 1..Len(kept) : i <= j /\ kept[i] = s[j]
  BY <1>1, <1>3
<1>7. Without(s, refs) = kept
  BY <1>2 DEF kept
<1> QED
  BY <1>3, <1>5, <1>6, <1>7

\* A list without what it does not have is the list.
LEMMA WithoutNothing ==
    ASSUME NEW S, NEW s \in Seq(S), NEW refs, \A i \in 1..Len(s) : s[i] \notin refs
    PROVE  Without(s, refs) = s
<1>1. /\ Without(s, refs) \in Seq(S) /\ Len(Without(s, refs)) <= Len(s)
      /\ Len(s) <= Len(Without(s, refs)) /\ \A i \in 1..Len(s) : Without(s, refs)[i] = s[i]
  BY WithoutKeeps
<1>2. Len(Without(s, refs)) = Len(s)
  BY <1>1
<1> QED
  BY <1>1, <1>2, SeqEqual

\* What is found is never its own successor.
LEMMA SuccessorsAre ==
    ASSUME build \in Build, NEW found
    PROVE  /\ Successors(found) \in Seq(Ref)
           /\ \A i \in 1..Len(Successors(found)) : Successors(found)[i] \notin found
<1> DEFINE rows == Supersedes[build]
           Adds(i) == rows[i][2] \in found /\ rows[i][1] \notin found
           places == [i \in DOMAIN rows |-> i]
           first == {i \in DOMAIN rows : /\ Adds(i)
                                         /\ \A j \in 1..(i - 1) : Adds(j) => rows[j][1] # rows[i][1]}
           new == Among(places, first)
<1>1. rows \in Seq(Ref \X Ref)
  BY InvestigateWalkAssumption
<1>2. places \in Seq(DOMAIN rows) /\ \A i \in 1..Len(places) : places[i] = i
  BY <1>1
<1>3. Successors(found) = [k \in DOMAIN new |-> rows[new[k]][1]]
  BY DEF Successors
<1> HIDE DEF places
<1>4. /\ new \in Seq(DOMAIN rows) /\ Len(new) <= Len(places)
      /\ \A i \in 1..Len(new) : \E j \in i..Len(places) : places[j] \in first /\ new[i] = places[j]
  <2> DEFINE D == DOMAIN rows
  <2>1. places \in Seq(D)
    BY <1>2
  <2> HIDE DEF D, first, rows
  <2>2. /\ new \in Seq(D) /\ Len(new) <= Len(places)
        /\ \A i \in 1..Len(new) : \E j \in i..Len(places) : places[j] \in first /\ new[i] = places[j]
    BY <2>1, AmongKeeps
  <2> QED
    BY <2>2 DEF D
<1>5. \A i \in 1..Len(new) : new[i] \in first
  BY <1>4
<1> HIDE DEF new
<1>6. \A i \in 1..Len(new) : rows[new[i]] \in Ref \X Ref /\ rows[new[i]][1] \notin found
  <2>1. \A i \in first : rows[i] \in Ref \X Ref /\ rows[i][1] \notin found
    BY <1>1
  <2> HIDE DEF rows, first
  <2> QED
    BY <1>5, <2>1
<1>7. DOMAIN new = 1..Len(new) /\ Len(new) \in Nat
  BY <1>4
<1>8. \A i \in 1..Len(new) : rows[new[i]][1] \in Ref
  BY <1>6
<1> HIDE DEF rows
<1>9. Successors(found) \in [1..Len(new) -> Ref]
  BY <1>3, <1>7, <1>8
<1>10. Successors(found) \in Seq(Ref) /\ Len(Successors(found)) = Len(new)
  BY <1>7, <1>9
<1> QED
  BY <1>3, <1>6, <1>7, <1>10

--------------------------------------------------------------------------------
(* One page *)

LEMMA RequestTyped ==
    ASSUME build \in Build, setting \in Setting, NEW q \in Request, trace[q] \in Traces[q]
    PROVE  /\ Prefix(setting, build, q, trace[q]) \in Seq(Ref)
           /\ Ranked[setting][build][q] \in Seq(Ref) /\ Researched[q] \in Seq(Ref)
           /\ MaxEvidence[q] \in Nat \ {0} /\ SearchLimit[q] \in Nat \ {0}
           /\ trace[q] \in Seq(Ref)
<1>1. /\ Skills[setting][q] \in Seq(Ref) /\ trace[q] \in Seq(Ref)
      /\ Capabilities[setting][q] \in Seq(Ref)
      /\ Counterfactual[build][q] \in Seq(Ref)
  BY InvestigateWalkAssumption
<1>2. Prefix(setting, build, q, trace[q]) \in Seq(Ref)
  BY <1>1 DEF Prefix
<1> QED
  BY <1>1, <1>2, InvestigateWalkAssumption

\* The slice of the prefix is full, or ends where the prefix ends.
LEMMA ShownIs ==
    ASSUME build \in Build, setting \in Setting, NEW q \in Request, trace[q] \in Traces[q], NEW offset \in Nat
    PROVE  LET prefix == Prefix(setting, build, q, trace[q])  shown == Shown(q, offset) IN
           /\ shown \in Seq(Ref) /\ Len(shown) <= MaxEvidence[q]
           /\ offset >= Len(prefix) => Len(shown) = 0
           /\ offset < Len(prefix) =>
                \/ Len(shown) = MaxEvidence[q] /\ offset + Len(shown) <= Len(prefix)
                \/ offset + Len(shown) = Len(prefix)
           /\ \A i \in 1..Len(shown) : offset + i <= Len(prefix) /\ shown[i] = prefix[offset + i]
<1> DEFINE prefix == Prefix(setting, build, q, trace[q])
           rest == Skip(prefix, offset)
<1>1. prefix \in Seq(Ref) /\ MaxEvidence[q] \in Nat \ {0} /\ Shown(q, offset) = Take(rest, MaxEvidence[q])
  BY RequestTyped DEF Shown
<1> HIDE DEF prefix
<1>2. /\ rest \in Seq(Ref)
      /\ Len(rest) = IF offset < Len(prefix) THEN Len(prefix) - offset ELSE 0
      /\ \A i \in 1..Len(rest) : rest[i] = prefix[i + offset]
  BY <1>1, SkipIs
<1> HIDE DEF rest
<1>3. /\ Shown(q, offset) \in Seq(Ref)
      /\ Len(Shown(q, offset)) = IF MaxEvidence[q] < Len(rest) THEN MaxEvidence[q] ELSE Len(rest)
      /\ \A i \in 1..Len(Shown(q, offset)) : Shown(q, offset)[i] = rest[i]
  <2> DEFINE max == MaxEvidence[q]
             taken == Take(rest, max)
  <2>1. rest \in Seq(Ref) /\ max \in Nat /\ Shown(q, offset) = taken
    BY <1>1, <1>2
  <2> HIDE DEF max
  <2>2. /\ taken \in Seq(Ref) /\ Len(taken) = IF max < Len(rest) THEN max ELSE Len(rest)
        /\ \A i \in 1..Len(taken) : taken[i] = rest[i]
    BY <2>1, TakeIs
  <2> HIDE DEF taken
  <2> QED
    BY <2>1, <2>2 DEF max
<1>4. Len(prefix) \in Nat /\ Len(rest) \in Nat
  BY <1>1, <1>2
<1>5. \A i \in 1..Len(Shown(q, offset)) :
         offset + i <= Len(prefix) /\ Shown(q, offset)[i] = prefix[offset + i]
  BY <1>1, <1>2, <1>3, <1>4
<1>6. /\ Len(Shown(q, offset)) <= MaxEvidence[q]
      /\ offset >= Len(prefix) => Len(Shown(q, offset)) = 0
      /\ offset < Len(prefix) =>
           \/ Len(Shown(q, offset)) = MaxEvidence[q] /\ offset + Len(Shown(q, offset)) <= Len(prefix)
           \/ offset + Len(Shown(q, offset)) = Len(prefix)
  BY <1>1, <1>2, <1>3, <1>4
<1> QED
  BY <1>3, <1>5, <1>6 DEF prefix

\* A search without a shortfall found the next refs of the ranking.
LEMMA SearchIs ==
    ASSUME build \in Build, setting \in Setting, NEW q \in Request, trace[q] \in Traces[q], NEW offset \in Nat,
           NEW search \in Searches(q, offset)
    PROVE  LET ranking == Ranked[setting][build][q] IN
           /\ search.matches \in Seq(Ref)
           /\ search.truncated \in BOOLEAN /\ search.degraded \in BOOLEAN
           /\ search.truncated => Len(search.matches) >= 1
           /\ ~search.degraded =>
                /\ search.truncated <=> Len(ranking) - offset > SearchLimit[q]
                /\ search.matches = Take(Skip(ranking, offset), SearchLimit[q])
<1> DEFINE ranking == Ranked[setting][build][q]
<1>1. ranking \in Seq(Ref) /\ SearchLimit[q] \in Nat \ {0}
  BY RequestTyped
<1>2. PICK ordered \in {ranking} \union Degraded[setting][build][q] :
         search = [matches |-> Take(Skip(ordered, offset), SearchLimit[q]),
                   truncated |-> Len(ordered) - offset > SearchLimit[q],
                   degraded |-> ordered # ranking]
  BY DEF Searches
<1> DEFINE rest == Skip(ordered, offset)
<1>3. ordered \in Seq(Ref)
  <2>1. Degraded[setting][build][q] \subseteq Seq(Ref)
    BY InvestigateWalkAssumption
  <2> QED
    BY <1>1, <1>2, <2>1
<1>4. rest \in Seq(Ref) /\ Len(rest) = IF offset < Len(ordered) THEN Len(ordered) - offset ELSE 0
  BY <1>3, SkipIs
<1> HIDE DEF rest
<1>5. /\ Take(rest, SearchLimit[q]) \in Seq(Ref)
      /\ Len(Take(rest, SearchLimit[q])) =
            IF SearchLimit[q] < Len(rest) THEN SearchLimit[q] ELSE Len(rest)
  BY <1>1, <1>4, TakeIs
<1>6. /\ search.matches = Take(rest, SearchLimit[q])
      /\ search.truncated = (Len(ordered) - offset > SearchLimit[q])
      /\ search.degraded = (ordered # ranking)
  BY <1>2 DEF rest
<1>7. Len(ordered) \in Nat
  BY <1>3
<1>8. ASSUME search.truncated
      PROVE  Len(search.matches) >= 1
  <2> DEFINE l == Len(ordered)  m == SearchLimit[q]
  <2>1. l - offset > m
    BY <1>6, <1>8
  <2>2. l \in Nat /\ m \in Nat /\ m >= 1
    BY <1>1, <1>7
  <2>3. Len(rest) = l - offset
    BY <1>4, <2>1, <2>2
  <2>4. Len(search.matches) = m
    BY <1>5, <1>6, <2>1, <2>3
  <2> QED
    BY <2>2, <2>4
<1>9. search.truncated \in BOOLEAN /\ search.degraded \in BOOLEAN
  BY <1>6
<1>10. ASSUME ~search.degraded
       PROVE  /\ search.truncated <=> Len(ranking) - offset > SearchLimit[q]
              /\ search.matches = Take(Skip(ranking, offset), SearchLimit[q])
  <2>1. ordered = ranking
    BY <1>6, <1>10
  <2> QED
    BY <1>6, <2>1 DEF rest
<1> QED
  BY <1>5, <1>6, <1>8, <1>9, <1>10

--------------------------------------------------------------------------------
(* What a page shows of the catalogue *)

LEMMA JoinIs ==
    ASSUME NEW S, NEW a \in Seq(S), NEW b \in Seq(S)
    PROVE  /\ a \o b \in Seq(S) /\ Len(a \o b) = Len(a) + Len(b)
           /\ \A i \in 1..Len(a) : (a \o b)[i] = a[i]
           /\ \A i \in 1..Len(b) : (a \o b)[Len(a) + i] = b[i]
           /\ ToSet(a \o b) = ToSet(a) \union ToSet(b)
<1>1. /\ a \o b \in Seq(S) /\ Len(a \o b) = Len(a) + Len(b)
      /\ \A i \in 1..Len(a) : (a \o b)[i] = a[i]
      /\ \A i \in 1..Len(b) : (a \o b)[Len(a) + i] = b[i]
  OBVIOUS
<1>2. \A x : x \in ToSet(a \o b) <=> x \in ToSet(a) \/ x \in ToSet(b)
  <2>1. Len(a) \in Nat /\ Len(b) \in Nat
    OBVIOUS
  <2>2. /\ \A x : x \in ToSet(a) <=> \E i \in 1..Len(a) : x = a[i]
        /\ \A x : x \in ToSet(b) <=> \E i \in 1..Len(b) : x = b[i]
        /\ \A x : x \in ToSet(a \o b) <=> \E i \in 1..Len(a \o b) : x = (a \o b)[i]
    BY <1>1, ToSetIs
  <2> DEFINE c == a \o b
             m == Len(a)
             n == Len(b)
  <2> HIDE DEF c, m, n
  <2>3. /\ Len(c) = m + n /\ m \in Nat /\ n \in Nat
        /\ \A i \in 1..m : c[i] = a[i]
        /\ \A i \in 1..n : c[m + i] = b[i]
        /\ \A x : x \in ToSet(a) <=> \E i \in 1..m : x = a[i]
        /\ \A x : x \in ToSet(b) <=> \E i \in 1..n : x = b[i]
        /\ \A x : x \in ToSet(c) <=> \E i \in 1..Len(c) : x = c[i]
    BY <1>1, <2>1, <2>2 DEF c, m, n
  <2>4. \A i \in 1..(m + n) : i \in 1..m \/ (i - m \in 1..n /\ m + (i - m) = i)
    BY <2>3
  <2>5. ASSUME NEW x \in ToSet(c) PROVE x \in ToSet(a) \/ x \in ToSet(b)
    <3>1. PICK i \in 1..(m + n) : x = c[i]
      BY <2>3
    <3>2. CASE i \in 1..m
      BY <2>3, <3>1, <3>2
    <3>3. CASE i - m \in 1..n /\ m + (i - m) = i
      <4>1. c[m + (i - m)] = b[i - m]
        BY <2>3, <3>3
      <4> QED
        BY <2>3, <3>1, <3>3, <4>1
    <3> QED
      BY <2>4, <3>2, <3>3
  <2>6. ASSUME NEW x, x \in ToSet(a) \/ x \in ToSet(b) PROVE x \in ToSet(c)
    <3>1. CASE x \in ToSet(a)
      <4>1. PICK i \in 1..m : x = a[i]
        BY <2>3, <3>1
      <4>2. i \in 1..Len(c) /\ x = c[i]
        BY <2>3, <4>1
      <4> QED
        BY <2>3, <4>2
    <3>2. CASE x \in ToSet(b)
      <4>1. PICK i \in 1..n : x = b[i]
        BY <2>3, <3>2
      <4>2. m + i \in 1..Len(c) /\ x = c[m + i]
        BY <2>3, <4>1
      <4> QED
        BY <2>3, <4>2
    <3> QED
      BY <2>6, <3>1, <3>2
  <2> QED
    BY <2>5, <2>6 DEF c
<1> QED
  BY <1>1, <1>2

\* The matches with their successors, less what is shown already: a match is dropped as a
\* repetition or comes no later than it did, and behind the matches stand only successors.
LEMMA LocalIs ==
    ASSUME NEW S, NEW shown \in Seq(S), NEW matches \in Seq(S), NEW after \in Seq(S),
           \A i \in 1..Len(after) : after[i] \notin ToSet(matches)
    PROVE  LET local == Without(matches \o after, ToSet(shown)) IN
           /\ local \in Seq(S)
           /\ \A i \in 1..Len(local) : local[i] \in ToSet(matches) => i <= Len(matches)
           /\ \A j \in 1..Len(matches) :
                matches[j] \in ToSet(shown) \/ \E i \in 1..Len(local) : i <= j /\ local[i] = matches[j]
           /\ (\A j \in 1..Len(matches) : matches[j] \notin ToSet(shown)) =>
                /\ Len(matches) <= Len(local)
                /\ \A j \in 1..Len(matches) : local[j] = matches[j]
<1> DEFINE all == matches \o after
           gone == ToSet(shown)
           local == Without(all, gone)
           m == Len(matches)
           a == Len(after)
<1>1. /\ all \in Seq(S) /\ Len(all) = m + a /\ m \in Nat /\ a \in Nat
      /\ \A j \in 1..m : all[j] = matches[j]
      /\ \A j \in 1..a : all[m + j] = after[j]
  BY JoinIs
<1> HIDE DEF all, gone
<1>2. /\ local \in Seq(S) /\ Len(local) <= Len(all)
      /\ \A i \in 1..Len(local) : \E j \in i..Len(all) : local[i] = all[j]
      /\ \A j \in 1..Len(all) : all[j] \notin gone =>
           \E i \in 1..Len(local) : i <= j /\ local[i] = all[j]
      /\ \A n \in 0..Len(all) : (\A i \in 1..n : all[i] \notin gone) =>
           n <= Len(local) /\ \A i \in 1..n : local[i] = all[i]
  <2> HIDE DEF m, a
  <2>1. all \in Seq(S)
    BY <1>1
  <2> QED
    BY <2>1, WithoutKeeps
<1> HIDE DEF local, m, a
<1>3. ASSUME NEW i \in 1..Len(local), local[i] \in ToSet(matches) PROVE i <= m
  <2>1. PICK j \in i..Len(all) : local[i] = all[j]
    BY <1>2
  <2>2. j \in Nat /\ i \in Nat /\ i <= j /\ j <= m + a /\ j >= 1
    BY <1>1, <2>1
  <2>3. ~ (j > m)
    <3> SUFFICES ASSUME j > m PROVE FALSE
      OBVIOUS
    <3>1. j - m \in 1..a /\ m + (j - m) = j
      BY <1>1, <2>2
    <3>2. all[j] = after[j - m]
      BY <1>1, <3>1
    <3> QED
      BY <1>3, <2>1, <3>1, <3>2 DEF a
  <2> QED
    BY <1>1, <2>2, <2>3
<1>4. ASSUME NEW j \in 1..m, matches[j] \notin gone
      PROVE  \E i \in 1..Len(local) : i <= j /\ local[i] = matches[j]
  <2>1. j \in 1..Len(all) /\ all[j] = matches[j]
    BY <1>1
  <2> QED
    BY <1>2, <1>4, <2>1
<1>5. ASSUME \A j \in 1..m : matches[j] \notin gone
      PROVE  m <= Len(local) /\ \A j \in 1..m : local[j] = matches[j]
  <2>1. m \in 0..Len(all) /\ \A i \in 1..m : all[i] \notin gone
    BY <1>1, <1>5
  <2>2. m <= Len(local) /\ \A i \in 1..m : local[i] = all[i]
    BY <1>2, <2>1
  <2> QED
    BY <1>1, <2>2
<1> QED
  BY <1>2, <1>3, <1>4, <1>5 DEF local, m, all, gone

\* What a page from `from` on shows of `whole`, which goes on behind it ...
Slice(whole, from, shown) ==
    /\ from + Len(shown) <= Len(whole)
    /\ \A i \in (from + 1)..(from + Len(shown)) : whole[i] \in ToSet(shown)
    /\ NoRepetition(whole) => \A i \in 1..Len(shown) : shown[i] = whole[from + i]

\* ... or ends with it.
Rest(whole, from, shown) ==
    /\ \A i \in (from + 1)..Len(whole) : whole[i] \in ToSet(shown)
    /\ NoRepetition(whole) =>
         \A i \in 1..(Len(whole) - from) : i <= Len(shown) /\ shown[i] = whole[from + i]

\* A slice of `s` records at `offset` of `p`, which is full or ends where they end, and where
\* the search starts behind it.
Ends(offset, p, s, max, start) ==
    /\ p \in Nat /\ s \in Nat /\ offset \in Nat /\ max \in Nat /\ start \in Nat
    /\ offset >= p => s = 0
    /\ offset < p => (s = max /\ offset + s <= p) \/ offset + s = p
    /\ start = IF offset < p THEN 0 ELSE offset - p

LEMMA EndsAre ==
    ASSUME NEW offset, NEW p, NEW s, NEW max, NEW start, Ends(offset, p, s, max, start)
    PROVE  /\ s < max => offset + s >= p
           /\ \A r \in Nat : offset <= p + r => offset + s <= p + r
           /\ offset + s >= p => start = offset + s - p
BY DEF Ends

\* The slice of the prefix and the matches of a page at `offset`.
Placed(prefix, ranking, whole, offset, max, shown, start, limit, matches) ==
    /\ Ends(offset, Len(prefix), Len(shown), max, start)
    /\ \A i \in 1..Len(shown) : offset + i <= Len(prefix) /\ shown[i] = prefix[offset + i]
    /\ matches = Take(Skip(ranking, start), limit)
    /\ whole = prefix \o ranking

\* Where they stand in the catalogue.
LEMMA PlacesAre ==
    ASSUME NEW S, NEW prefix \in Seq(S), NEW ranking \in Seq(S), NEW shown \in Seq(S),
           NEW offset \in Nat, NEW max \in Nat, NEW start \in Nat, NEW limit \in Nat,
           NEW whole, NEW matches,
           Placed(prefix, ranking, whole, offset, max, shown, start, limit, matches)
    PROVE  /\ \A i \in 1..Len(shown) : offset + i <= Len(prefix) /\ shown[i] = whole[offset + i]
           /\ Len(shown) < max => offset + Len(shown) >= Len(prefix)
           /\ offset <= Len(whole) => offset + Len(shown) <= Len(whole)
           /\ offset + Len(shown) >= Len(prefix) =>
                /\ \A j \in 1..Len(matches) :
                     /\ offset + Len(shown) + j <= Len(whole)
                     /\ matches[j] = whole[offset + Len(shown) + j]
                /\ ~(Len(ranking) - start > limit) =>
                     Len(matches) >= Len(whole) - offset - Len(shown)
<1> DEFINE p == Len(prefix)
           r == Len(ranking)
           s == Len(shown)
           rest == Skip(ranking, start)
<1>0. /\ Ends(offset, p, s, max, start)
      /\ \A i \in 1..s : offset + i <= p /\ shown[i] = prefix[offset + i]
      /\ matches = Take(Skip(ranking, start), limit) /\ whole = prefix \o ranking
  BY DEF Placed
<1>1. /\ whole \in Seq(S) /\ Len(whole) = p + r /\ p \in Nat /\ r \in Nat /\ s \in Nat
      /\ \A i \in 1..p : whole[i] = prefix[i]
      /\ \A i \in 1..r : whole[p + i] = ranking[i]
  BY <1>0, JoinIs
<1>2. /\ rest \in Seq(S) /\ Len(rest) = IF start < r THEN r - start ELSE 0
      /\ \A i \in 1..Len(rest) : rest[i] = ranking[i + start]
  BY SkipIs
<1> HIDE DEF rest
<1>3. /\ matches \in Seq(S) /\ Len(matches) = IF limit < Len(rest) THEN limit ELSE Len(rest)
      /\ \A i \in 1..Len(matches) : matches[i] = rest[i]
  <2>1. matches = Take(rest, limit)
    BY <1>0 DEF rest
  <2> QED
    BY <1>2, <2>1, TakeIs
<1> DEFINE m == Len(matches)
<1>4. m \in Nat /\ Len(rest) \in Nat
  BY <1>2, <1>3
<1> HIDE DEF p, r, s, m
<1>5. \A i \in 1..s : offset + i <= p /\ shown[i] = whole[offset + i]
  <2> SUFFICES ASSUME NEW i \in 1..s PROVE offset + i <= p /\ shown[i] = whole[offset + i]
    OBVIOUS
  <2>1. offset + i <= p /\ shown[i] = prefix[offset + i]
    BY <1>0
  <2>2. offset + i \in 1..p
    BY <1>1, <2>1
  <2> QED
    BY <1>1, <2>1, <2>2
<1>6. /\ s < max => offset + s >= p
      /\ \A n \in Nat : offset <= p + n => offset + s <= p + n
      /\ offset + s >= p => start = offset + s - p
  BY <1>0, EndsAre, Zenon
<1>7. /\ s < max => offset + s >= p
      /\ offset <= p + r => offset + s <= p + r
      /\ offset + s >= p => start = offset + s - p
  BY <1>1, <1>6
<1>8. ASSUME offset + s >= p
      PROVE  /\ \A j \in 1..m : offset + s + j <= p + r /\ matches[j] = whole[offset + s + j]
             /\ ~(r - start > limit) => m >= p + r - offset - s
  <2>1. start = offset + s - p
    BY <1>7, <1>8
  <2>2. m = IF limit < Len(rest) THEN limit ELSE Len(rest)
    BY <1>3 DEF m
  <2>3. ASSUME NEW j \in 1..m
        PROVE  offset + s + j <= p + r /\ matches[j] = whole[offset + s + j]
    <3>1. j \in 1..Len(rest)
      BY <1>4, <2>2
    <3>2. matches[j] = ranking[j + start]
      BY <1>2, <1>3, <3>1 DEF m
    <3>3. j + start \in 1..r
      BY <1>1, <1>2, <3>1 DEF r
    <3>4. p + (j + start) = offset + s + j
      <4>1. p \in Nat /\ s \in Nat /\ j \in Nat
        BY <1>1, <1>4
      <4> QED
        BY <2>1, <4>1
    <3>5. whole[p + (j + start)] = ranking[j + start]
      BY <1>1, <3>3
    <3> QED
      <4>1. matches[j] = whole[offset + s + j]
        BY <3>2, <3>4, <3>5
      <4>2. p + (j + start) <= p + r
        BY <1>1, <1>4, <3>3
      <4> QED
        BY <3>4, <4>1, <4>2
  <2>4. ~(r - start > limit) => m >= p + r - offset - s
    <3>1. Len(rest) = IF start < r THEN r - start ELSE 0
      BY <1>2
    <3> QED
      BY <1>1, <1>4, <2>1, <2>2, <3>1
  <2> QED
    BY <2>3, <2>4
<1>9. Len(whole) = p + r
  BY <1>1
<1>10. /\ \A i \in 1..s : offset + i <= p /\ shown[i] = whole[offset + i]
       /\ s < max => offset + s >= p
       /\ offset <= Len(whole) => offset + s <= Len(whole)
       /\ offset + s >= p =>
            /\ \A j \in 1..m : offset + s + j <= Len(whole) /\ matches[j] = whole[offset + s + j]
            /\ ~(r - start > limit) => m >= Len(whole) - offset - s
  <2> DEFINE w == Len(whole)
  <2>1. w = p + r
    BY <1>9
  <2>2. offset <= w => offset + s <= w
    BY <1>7, <2>1
  <2> HIDE DEF w
  <2>3. ASSUME offset + s >= p
        PROVE  /\ \A j \in 1..m : offset + s + j <= w /\ matches[j] = whole[offset + s + j]
               /\ ~(r - start > limit) => m >= w - offset - s
    <3>1. \A j \in 1..m : offset + s + j <= w /\ matches[j] = whole[offset + s + j]
      BY <1>8, <2>1, <2>3
    <3>2. ~(r - start > limit) => m >= w - offset - s
      <4>1. w \in Nat /\ p \in Nat /\ r \in Nat /\ s \in Nat
        BY <1>1, <2>1
      <4> QED
        BY <1>4, <1>8, <2>1, <2>3, <4>1
    <3> QED
      BY <3>1, <3>2
  <2> QED
    <3>1. offset <= Len(whole) => offset + s <= Len(whole)
      BY <2>2 DEF w
    <3>2. offset + s >= p => \A j \in 1..m :
             offset + s + j <= Len(whole) /\ matches[j] = whole[offset + s + j]
      BY <2>3 DEF w
    <3>3. offset + s >= p => (~(r - start > limit) => m >= Len(whole) - offset - s)
      BY <2>3 DEF w
    <3> QED
      BY <1>5, <1>7, <3>1, <3>2, <3>3
<1> QED
  BY <1>10 DEF p, r, s, m

\* The evidence of a page is the slice of the prefix, a start of the local records and a start
\* of the research, as far as there is room.
Fills(evidence, max, shown, local, shownLocal, research, shownResearch) ==
    /\ Len(shown) <= max
    /\ shownLocal = Take(local, max - Len(shown))
    /\ shownResearch = Take(research, max - Len(shown) - Len(shownLocal))
    /\ evidence = shown \o shownLocal \o shownResearch

LEMMA EvidenceIs ==
    ASSUME NEW S, NEW shown \in Seq(S), NEW local \in Seq(S), NEW research \in Seq(S),
           NEW max \in Nat, NEW evidence, NEW shownLocal, NEW shownResearch,
           Fills(evidence, max, shown, local, shownLocal, research, shownResearch)
    PROVE  /\ evidence \in Seq(S)
           /\ shownLocal \in Seq(S) /\ shownResearch \in Seq(S)
           /\ Len(evidence) = Len(shown) + Len(shownLocal) + Len(shownResearch)
           /\ Len(shown) + Len(shownLocal) <= max
           /\ Len(shownLocal) <= Len(local) /\ Len(shownResearch) <= Len(research)
           /\ Len(shownLocal) < Len(local) => Len(shown) + Len(shownLocal) = max
           /\ Len(shownResearch) < Len(research) => Len(evidence) = max
           /\ Len(shownResearch) = Len(research) => shownResearch = research
           /\ \A i \in 1..Len(shown) : evidence[i] = shown[i]
           /\ \A j \in 1..Len(shownLocal) :
                    evidence[Len(shown) + j] = local[j] /\ shownLocal[j] = local[j]
           /\ \A j \in 1..Len(shownResearch) : shownResearch[j] = research[j]
           /\ ToSet(shownResearch) \subseteq ToSet(evidence)
<1> DEFINE s == Len(shown)
           room == max - s
           k == Len(shownLocal)
           left == max - s - k
           t == Len(shownResearch)
           both == shown \o shownLocal
<1>0. /\ s <= max /\ shownLocal = Take(local, room) /\ shownResearch = Take(research, left)
      /\ evidence = both \o shownResearch
  BY DEF Fills
<1>1. s \in Nat /\ room \in Nat /\ Len(local) \in Nat /\ Len(research) \in Nat /\ s + room = max
  BY <1>0
<1> HIDE DEF room
<1>2. /\ shownLocal \in Seq(S) /\ k = IF room < Len(local) THEN room ELSE Len(local)
      /\ \A j \in 1..k : shownLocal[j] = local[j]
  BY <1>0, <1>1, TakeIs
<1>3. k \in Nat /\ k <= room /\ left \in Nat /\ left = room - k
  BY <1>1, <1>2 DEF room
<1> HIDE DEF left
<1>4. /\ shownResearch \in Seq(S) /\ t = IF left < Len(research) THEN left ELSE Len(research)
      /\ \A j \in 1..t : shownResearch[j] = research[j]
      /\ left >= Len(research) => shownResearch = research
  BY <1>0, <1>3, TakeIs
<1>5. /\ both \in Seq(S) /\ Len(both) = s + k
      /\ \A i \in 1..s : both[i] = shown[i]
      /\ \A j \in 1..k : both[s + j] = shownLocal[j]
  <2>1. shownLocal \in Seq(S)
    BY <1>2
  <2>2. /\ both \in Seq(S) /\ Len(both) = Len(shown) + Len(shownLocal)
        /\ \A i \in 1..Len(shown) : both[i] = shown[i]
        /\ \A j \in 1..Len(shownLocal) : both[Len(shown) + j] = shownLocal[j]
    <3> HIDE DEF s, k
    <3> QED
      BY <2>1, JoinIs
  <2> HIDE DEF both
  <2> QED
    BY <2>2
<1> HIDE DEF both
<1>6. /\ evidence \in Seq(S) /\ Len(evidence) = Len(both) + t
      /\ \A i \in 1..Len(both) : evidence[i] = both[i]
      /\ ToSet(evidence) = ToSet(both) \union ToSet(shownResearch)
  <2>1. both \in Seq(S) /\ shownResearch \in Seq(S)
    BY <1>4, <1>5
  <2> HIDE DEF s, k
  <2> QED
    BY <1>0, <2>1, JoinIs
<1> HIDE DEF s, k, t
<1>7. t \in Nat
  BY <1>4 DEF t
<1>8. /\ \A i \in 1..s : evidence[i] = shown[i]
      /\ \A j \in 1..k : evidence[s + j] = local[j] /\ shownLocal[j] = local[j]
  <2>1. \A i \in 1..s : i \in 1..Len(both)
    BY <1>1, <1>3, <1>5
  <2>2. \A j \in 1..k : s + j \in 1..Len(both)
    BY <1>1, <1>3, <1>5
  <2> QED
    BY <1>2, <1>5, <1>6, <2>1, <2>2
<1>9. /\ Len(evidence) = s + k + t /\ s + k <= max
      /\ k <= Len(local) /\ t <= Len(research)
      /\ k < Len(local) => s + k = max
      /\ t < Len(research) => Len(evidence) = max
  <2>1. Len(evidence) = s + k + t
    BY <1>5, <1>6
  <2>2. k <= Len(local) /\ (k < Len(local) => k = room) /\ s + k <= max /\ (k = room => s + k = max)
    <3>1. k = IF room < Len(local) THEN room ELSE Len(local)
      BY <1>2
    <3>2. k <= Len(local) /\ (k < Len(local) => k = room)
      BY <1>1, <3>1
    <3>3. s + k <= max /\ (k = room => s + k = max)
      BY <1>1, <1>3
    <3> QED
      BY <3>2, <3>3
  <2>3. left = max - s - k
    BY DEF left
  <2>4. t <= Len(research) /\ (t < Len(research) => t = left)
    BY <1>1, <1>3, <1>4
  <2>5. t = left => s + k + t = max
    BY <1>1, <1>3, <2>3
  <2> QED
    BY <2>1, <2>2, <2>4, <2>5
<1>10. t = Len(research) => shownResearch = research
  BY <1>1, <1>3, <1>4
<1>11. ToSet(shownResearch) \subseteq ToSet(evidence)
  BY <1>6
<1> QED
  BY <1>2, <1>4, <1>6, <1>8, <1>9, <1>10, <1>11
     DEF s, k, t

\* The slice of the prefix, which has `p` refs, reaches its end.
Behind(from, shown, p) == from + Len(shown) >= p

\* What PlacesAre and LocalIs say of a page at `from`.
Pieces(S, whole, from, max, shown, matches, local, p) ==
    /\ whole \in Seq(S) /\ shown \in Seq(S) /\ matches \in Seq(S) /\ local \in Seq(S)
    /\ from \in Nat /\ max \in Nat /\ Len(shown) <= max
    /\ \A i \in 1..Len(shown) : from + i <= Len(whole) /\ shown[i] = whole[from + i]
    /\ Len(shown) < max => Behind(from, shown, p)
    /\ Behind(from, shown, p) => \A j \in 1..Len(matches) :
         /\ from + Len(shown) + j <= Len(whole)
         /\ matches[j] = whole[from + Len(shown) + j]
    /\ \A j \in 1..Len(local) : local[j] \in ToSet(matches) => j <= Len(matches)
    /\ \A j \in 1..Len(matches) :
         matches[j] \in ToSet(shown) \/ \E i \in 1..Len(local) : i <= j /\ local[i] = matches[j]
    /\ (\A j \in 1..Len(matches) : matches[j] \notin ToSet(shown)) =>
         /\ Len(matches) <= Len(local)
         /\ \A j \in 1..Len(matches) : local[j] = matches[j]

\* The evidence `e` of such a page begins with the slice and `k` local records.
Begins(e, S, shown, local, k) ==
    /\ e \in Seq(S) /\ k \in 0..Len(local) /\ Len(shown) + k <= Len(e)
    /\ \A i \in 1..Len(shown) : e[i] = shown[i]
    /\ \A j \in 1..k : e[Len(shown) + j] = local[j]

LEMMA PiecesApart ==
    ASSUME NEW S, NEW whole, NEW from, NEW max, NEW shown, NEW matches, NEW local, NEW p,
           Pieces(S, whole, from, max, shown, matches, local, p), Behind(from, shown, p),
           NoRepetition(whole)
    PROVE  /\ Len(matches) <= Len(local)
           /\ \A j \in 1..Len(matches) : local[j] = matches[j]
<1>1. /\ whole \in Seq(S) /\ shown \in Seq(S) /\ matches \in Seq(S) /\ from \in Nat
      /\ \A i \in 1..Len(shown) : from + i <= Len(whole) /\ shown[i] = whole[from + i]
      /\ \A j \in 1..Len(matches) :
           from + Len(shown) + j <= Len(whole) /\ matches[j] = whole[from + Len(shown) + j]
      /\ \A i, j \in 1..Len(whole) : whole[i] = whole[j] => i = j
  BY DEF Pieces, NoRepetition
<1>2. ASSUME NEW j \in 1..Len(matches), matches[j] \in ToSet(shown) PROVE FALSE
  <2>1. PICK i \in 1..Len(shown) : matches[j] = shown[i]
    <3>1. \A x \in ToSet(shown) : \E i \in 1..Len(shown) : x = shown[i]
      <4>1. shown \in Seq(S)
        BY <1>1
      <4> QED
        BY <4>1, ToSetIs
    <3> QED
      BY <1>2, <3>1
  <2> DEFINE s == Len(shown)
             w == Len(whole)
             m == Len(matches)
  <2>2. s \in Nat /\ w \in Nat /\ i \in 1..s /\ m \in Nat /\ j \in 1..m
    BY <1>1
  <2>3. /\ from + i <= w /\ shown[i] = whole[from + i]
        /\ from + s + j <= w /\ matches[j] = whole[from + s + j]
    BY <1>1
  <2> HIDE DEF s, w, m
  <2>4. from + i \in 1..w /\ from + s + j \in 1..w /\ from + i # from + s + j
    BY <1>1, <2>2, <2>3
  <2>5. whole[from + i] = whole[from + s + j]
    BY <2>1, <2>3
  <2> QED
    BY <1>1, <2>4, <2>5 DEF w
<1> QED
  BY <1>2 DEF Pieces

\* Where whole[from + i] is shown, for a place of the slice or behind it.
LEMMA PiecesShown ==
    ASSUME NEW S, NEW whole, NEW from, NEW max, NEW shown, NEW matches, NEW local, NEW p,
           Pieces(S, whole, from, max, shown, matches, local, p),
           NEW e, NEW k, Begins(e, S, shown, local, k)
    PROVE  /\ \A i \in 1..Len(shown) : whole[from + i] \in ToSet(e) /\ e[i] = whole[from + i]
           /\ Behind(from, shown, p) => \A j \in 1..Len(matches) : j <= k \/ k = Len(local) =>
                whole[from + Len(shown) + j] \in ToSet(e)
<1> DEFINE s == Len(shown)
           m == Len(matches)
           l == Len(local)
<1>1. /\ shown \in Seq(S) /\ matches \in Seq(S) /\ local \in Seq(S)
      /\ \A i \in 1..s : shown[i] = whole[from + i]
      /\ Behind(from, shown, p) => \A j \in 1..m : matches[j] = whole[from + s + j]
      /\ \A j \in 1..m : matches[j] \in ToSet(shown) \/ \E i \in 1..l : i <= j /\ local[i] = matches[j]
  BY DEF Pieces
<1>2. /\ e \in Seq(S) /\ k \in 0..l /\ s + k <= Len(e)
      /\ \A i \in 1..s : e[i] = shown[i]
      /\ \A j \in 1..k : e[s + j] = local[j]
  BY DEF Begins
<1>3. s \in Nat /\ m \in Nat /\ l \in Nat /\ k \in Nat /\ Len(e) \in Nat
  BY <1>1, <1>2
<1>4. \A i \in 1..Len(e) : e[i] \in ToSet(e)
  BY <1>2, ToSetIs
<1>5. \A x \in ToSet(shown) : \E i \in 1..s : x = shown[i]
  BY <1>1, ToSetIs
<1> HIDE DEF s, m, l
<1>6. \A i \in 1..s : i \in 1..Len(e)
  BY <1>2, <1>3
<1>7. \A i \in 1..s : whole[from + i] \in ToSet(e) /\ e[i] = whole[from + i]
  BY <1>1, <1>2, <1>4, <1>6
<1>8. \A x \in ToSet(shown) : x \in ToSet(e)
  BY <1>2, <1>4, <1>5, <1>6
<1>9. ASSUME Behind(from, shown, p), NEW j \in 1..m, j <= k \/ k = l
      PROVE  whole[from + s + j] \in ToSet(e)
  <2>1. matches[j] = whole[from + s + j]
    BY <1>1, <1>9
  <2>2. CASE matches[j] \in ToSet(shown)
    BY <1>8, <2>1, <2>2
  <2>3. CASE \E i \in 1..l : i <= j /\ local[i] = matches[j]
    <3>1. PICK i \in 1..l : i <= j /\ local[i] = matches[j]
      BY <2>3
    <3>2. i \in 1..k
      BY <1>3, <1>9, <3>1
    <3>3. s + i \in 1..Len(e) /\ e[s + i] = local[i]
      BY <1>2, <1>3, <3>2
    <3> QED
      BY <1>4, <2>1, <3>1, <3>3
  <2> QED
    BY <1>1, <2>2, <2>3
<1> QED
  BY <1>7, <1>9 DEF s, m, l

\* A page that can be continued, and carries matches only, is a slice of the catalogue.
LEMMA PiecesSlice ==
    ASSUME NEW S, NEW whole, NEW from, NEW max, NEW shown, NEW matches, NEW local, NEW p,
           Pieces(S, whole, from, max, shown, matches, local, p),
           NEW e, NEW k, Begins(e, S, shown, local, k), Len(e) = Len(shown) + k,
           Len(e) <= max, from + Len(shown) <= Len(whole),
           \A j \in 1..k : local[j] \in ToSet(matches)
    PROVE  Slice(whole, from, e)
<1> DEFINE s == Len(shown)
           m == Len(matches)
           w == Len(whole)
<1>1. /\ s \in Nat /\ m \in Nat /\ w \in Nat /\ from \in Nat /\ k \in Nat /\ max \in Nat
      /\ k \in 0..Len(local) /\ Len(local) \in Nat
  <2>1. whole \in Seq(S) /\ shown \in Seq(S) /\ matches \in Seq(S) /\ local \in Seq(S)
    BY DEF Pieces
  <2>2. s \in Nat /\ m \in Nat /\ w \in Nat /\ Len(local) \in Nat
    BY <2>1
  <2> QED
    BY <2>2 DEF Pieces, Begins
<1>2. k >= 1 => Behind(from, shown, p)
  <2>1. s < max => Behind(from, shown, p)
    BY DEF Pieces
  <2>2. s + k <= max
    OBVIOUS
  <2> HIDE DEF s
  <2> QED
    BY <1>1, <2>1, <2>2
<1>3. k >= 1 => k <= m
  <2>1. \A j \in 1..Len(local) : local[j] \in ToSet(matches) => j <= m
    BY DEF Pieces
  <2> QED
    BY <1>1, <2>1
<1>4. from + s + k <= w
  <2>1. CASE k >= 1
    <3>1. k \in 1..m /\ Behind(from, shown, p)
      BY <1>1, <1>2, <1>3, <2>1
    <3> QED
      BY <3>1 DEF Pieces
  <2>2. CASE ~(k >= 1)
    <3>1. from + s <= w
      OBVIOUS
    <3> HIDE DEF s, w
    <3> QED
      BY <1>1, <2>2, <3>1
  <2> QED
    BY <2>1, <2>2
<1>5. Len(e) = s + k
  OBVIOUS
<1>6. /\ \A i \in 1..s : whole[from + i] \in ToSet(e) /\ e[i] = whole[from + i]
      /\ Behind(from, shown, p) => \A j \in 1..m : j <= k => whole[from + s + j] \in ToSet(e)
  BY PiecesShown
<1>7. NoRepetition(whole) /\ Behind(from, shown, p) => \A j \in 1..m : local[j] = matches[j]
  BY PiecesApart
<1>8. Behind(from, shown, p) => \A j \in 1..m : matches[j] = whole[from + s + j]
  BY DEF Pieces
<1>9. \A j \in 1..k : e[s + j] = local[j]
  BY DEF Begins
<1> HIDE DEF s, m, w
<1>10. \A i \in 1..(s + k) : i \in 1..s \/
          (/\ Behind(from, shown, p) /\ i - s \in 1..k /\ i - s \in 1..m
           /\ s + (i - s) = i /\ from + s + (i - s) = from + i)
  <2> SUFFICES ASSUME NEW i \in 1..(s + k), i \notin 1..s
               PROVE  /\ i - s \in 1..k /\ s + (i - s) = i /\ from + s + (i - s) = from + i
                      /\ k >= 1
    BY <1>1, <1>2, <1>3
  <2> QED
    BY <1>1
<1>11. ASSUME NEW i \in 1..(s + k)
       PROVE  whole[from + i] \in ToSet(e) /\ (NoRepetition(whole) => e[i] = whole[from + i])
  <2>1. CASE i \in 1..s
    BY <1>6, <2>1
  <2>2. CASE i \notin 1..s
    <3> DEFINE j == i - s
    <3>1. Behind(from, shown, p) /\ j \in 1..k /\ j \in 1..m /\ s + j = i /\ from + s + j = from + i
      BY <1>10, <2>2
    <3> HIDE DEF j
    <3>2. whole[from + s + j] \in ToSet(e)
      <4>1. \A n \in 1..m : n <= k => whole[from + s + n] \in ToSet(e)
        BY <1>6, <3>1
      <4>2. j <= k
        BY <1>1, <3>1
      <4> QED
        BY <3>1, <4>1, <4>2
    <3>3. NoRepetition(whole) => e[s + j] = whole[from + s + j]
      BY <1>7, <1>8, <1>9, <3>1
    <3> QED
      BY <3>1, <3>2, <3>3
  <2> QED
    BY <2>1, <2>2
<1>12. \A i \in (from + 1)..(from + (s + k)) : whole[i] \in ToSet(e)
  <2> SUFFICES ASSUME NEW i \in (from + 1)..(from + (s + k)) PROVE whole[i] \in ToSet(e)
    OBVIOUS
  <2>1. i - from \in 1..(s + k) /\ from + (i - from) = i
    BY <1>1
  <2>2. whole[from + (i - from)] \in ToSet(e)
    BY <1>11, <2>1
  <2> QED
    BY <2>1, <2>2
<1>13. from + (s + k) <= w
  BY <1>1, <1>4
<1>14. from + Len(e) <= w /\ \A i \in (from + 1)..(from + Len(e)) : whole[i] \in ToSet(e)
  BY <1>5, <1>12, <1>13
<1>15. NoRepetition(whole) => \A i \in 1..Len(e) : e[i] = whole[from + i]
  BY <1>5, <1>11
<1> QED
  BY <1>14, <1>15 DEF Slice, w

\* A page that cannot be continued shows the rest of the catalogue.
LEMMA PiecesRest ==
    ASSUME NEW S, NEW whole, NEW from, NEW max, NEW shown, NEW matches, NEW local, NEW p,
           Pieces(S, whole, from, max, shown, matches, local, p), Behind(from, shown, p),
           NEW e, Begins(e, S, shown, local, Len(local)),
           Len(matches) >= Len(whole) - from - Len(shown)
    PROVE  Rest(whole, from, e)
<1> DEFINE s == Len(shown)
           m == Len(matches)
           w == Len(whole)
           l == Len(local)
<1>1. s \in Nat /\ m \in Nat /\ w \in Nat /\ from \in Nat /\ l \in Nat /\ Len(e) \in Nat
  <2>1. /\ whole \in Seq(S) /\ shown \in Seq(S) /\ matches \in Seq(S) /\ local \in Seq(S)
        /\ from \in Nat /\ e \in Seq(S)
    BY DEF Pieces, Begins
  <2> QED
    BY <2>1
<1>2. /\ \A i \in 1..s : whole[from + i] \in ToSet(e) /\ e[i] = whole[from + i]
      /\ \A j \in 1..m : whole[from + s + j] \in ToSet(e)
  BY PiecesShown
<1>3. NoRepetition(whole) => m <= l /\ \A j \in 1..m : local[j] = matches[j]
  BY PiecesApart
<1>4. \A j \in 1..m : matches[j] = whole[from + s + j]
  BY DEF Pieces
<1>5. s + l <= Len(e) /\ \A j \in 1..l : e[s + j] = local[j]
  BY DEF Begins
<1>6. m >= w - from - s
  OBVIOUS
<1> HIDE DEF s, m, w, l
<1>7. \A i \in 1..(w - from) : i \in 1..s \/
          (i - s \in 1..m /\ s + (i - s) = i /\ from + s + (i - s) = from + i)
  BY <1>1, <1>6
<1>8. ASSUME NEW i \in 1..(w - from)
      PROVE  /\ whole[from + i] \in ToSet(e)
             /\ NoRepetition(whole) => i <= Len(e) /\ e[i] = whole[from + i]
  <2>1. CASE i \in 1..s
    <3>1. i <= Len(e)
      BY <1>1, <1>5, <2>1
    <3> QED
      BY <1>2, <2>1, <3>1
  <2>2. CASE i \notin 1..s
    <3> DEFINE j == i - s
    <3>1. j \in 1..m /\ s + j = i /\ from + s + j = from + i
      BY <1>7, <2>2
    <3> HIDE DEF j
    <3>2. whole[from + s + j] \in ToSet(e)
      BY <1>2, <3>1
    <3>3. ASSUME NoRepetition(whole) PROVE i <= Len(e) /\ e[i] = whole[from + i]
      <4>1. j \in 1..l /\ s + j <= Len(e)
        BY <1>1, <1>3, <1>5, <3>1, <3>3
      <4>2. e[s + j] = whole[from + s + j]
        BY <1>3, <1>4, <1>5, <3>1, <3>3, <4>1
      <4> QED
        BY <3>1, <4>1, <4>2
    <3> QED
      BY <3>1, <3>2, <3>3
  <2> QED
    BY <2>1, <2>2
<1>9. \A i \in (from + 1)..w : whole[i] \in ToSet(e)
  <2> SUFFICES ASSUME NEW i \in (from + 1)..w PROVE whole[i] \in ToSet(e)
    OBVIOUS
  <2>1. i - from \in 1..(w - from) /\ from + (i - from) = i
    BY <1>1
  <2>2. whole[from + (i - from)] \in ToSet(e)
    BY <1>8, <2>1
  <2> QED
    BY <2>1, <2>2
<1>10. NoRepetition(whole) => \A i \in 1..(w - from) : i <= Len(e) /\ e[i] = whole[from + i]
  BY <1>8
<1> QED
  BY <1>9, <1>10 DEF Rest, w

\* The prefix, the search and the lineage make up such pieces.
LEMMA PageHasPieces ==
    ASSUME build \in Build, setting \in Setting, NEW q \in Request, trace[q] \in Traces[q], NEW offset \in Nat,
           NEW search \in Searches(q, LocalOffset(q, offset)), ~search.degraded
    PROVE  LET prefix == Prefix(setting, build, q, trace[q])
               whole == Catalogue(q, setting, build, trace[q])
               shown == Shown(q, offset)
           IN  /\ Pieces(Ref, whole, offset, MaxEvidence[q], shown, search.matches,
                         Local(search, shown), Len(prefix))
               /\ offset <= Len(whole) => offset + Len(shown) <= Len(whole)
               /\ Behind(offset, shown, Len(prefix)) /\ ~search.truncated =>
                    Len(search.matches) >= Len(whole) - offset - Len(shown)
<1> DEFINE prefix == Prefix(setting, build, q, trace[q])
           ranking == Ranked[setting][build][q]
           whole == prefix \o ranking
           shown == Shown(q, offset)
           max == MaxEvidence[q]
           limit == SearchLimit[q]
           start == LocalOffset(q, offset)
           matches == search.matches
           local == Local(search, shown)
           p == Len(prefix)
<1>1. /\ prefix \in Seq(Ref) /\ ranking \in Seq(Ref) /\ whole \in Seq(Ref) /\ p \in Nat
      /\ max \in Nat \ {0} /\ limit \in Nat \ {0} /\ Len(ranking) \in Nat
  BY RequestTyped
<1>2. Catalogue(q, setting, build, trace[q]) = whole
  BY DEF Catalogue
<1>3. /\ shown \in Seq(Ref) /\ Len(shown) <= max
      /\ offset >= p => Len(shown) = 0
      /\ offset < p =>
           \/ Len(shown) = max /\ offset + Len(shown) <= p
           \/ offset + Len(shown) = p
      /\ \A i \in 1..Len(shown) : offset + i <= p /\ shown[i] = prefix[offset + i]
  BY ShownIs
<1>4. start \in Nat /\ start = IF offset < p THEN 0 ELSE offset - p
  BY <1>1 DEF LocalOffset
<1>5. /\ matches \in Seq(Ref)
      /\ search.truncated <=> Len(ranking) - start > limit
      /\ matches = Take(Skip(ranking, start), limit)
  <2> HIDE DEF start
  <2>1. search \in Searches(q, start)
    BY DEF start
  <2> QED
    BY <1>4, <2>1, SearchIs
<1>6. /\ local = Without(matches \o Successors(ToSet(matches)), ToSet(shown))
      /\ Successors(ToSet(matches)) \in Seq(Ref)
      /\ \A i \in 1..Len(Successors(ToSet(matches))) :
           Successors(ToSet(matches))[i] \notin ToSet(matches)
  BY SuccessorsAre DEF Local
<1> HIDE DEF prefix, ranking, whole, shown, max, limit, start, matches, local
<1>7. /\ local \in Seq(Ref)
      /\ \A i \in 1..Len(local) : local[i] \in ToSet(matches) => i <= Len(matches)
      /\ \A j \in 1..Len(matches) :
           matches[j] \in ToSet(shown) \/ \E i \in 1..Len(local) : i <= j /\ local[i] = matches[j]
      /\ (\A j \in 1..Len(matches) : matches[j] \notin ToSet(shown)) =>
           /\ Len(matches) <= Len(local)
           /\ \A j \in 1..Len(matches) : local[j] = matches[j]
  <2> DEFINE after == Successors(ToSet(matches))
             wanted == Without(matches \o after, ToSet(shown))
  <2>1. /\ shown \in Seq(Ref) /\ matches \in Seq(Ref) /\ after \in Seq(Ref)
        /\ \A i \in 1..Len(after) : after[i] \notin ToSet(matches)
    BY <1>3, <1>5, <1>6
  <2>2. local = wanted
    BY <1>6
  <2> HIDE DEF after
  <2>3. /\ wanted \in Seq(Ref)
        /\ \A i \in 1..Len(wanted) : wanted[i] \in ToSet(matches) => i <= Len(matches)
        /\ \A j \in 1..Len(matches) :
             matches[j] \in ToSet(shown)
               \/ \E i \in 1..Len(wanted) : i <= j /\ wanted[i] = matches[j]
        /\ (\A j \in 1..Len(matches) : matches[j] \notin ToSet(shown)) =>
             /\ Len(matches) <= Len(wanted)
             /\ \A j \in 1..Len(matches) : wanted[j] = matches[j]
    BY <2>1, LocalIs
  <2> HIDE DEF wanted
  <2> QED
    BY <2>2, <2>3
<1>8. /\ \A i \in 1..Len(shown) : offset + i <= p /\ shown[i] = whole[offset + i]
      /\ Len(shown) < max => offset + Len(shown) >= p
      /\ offset <= Len(whole) => offset + Len(shown) <= Len(whole)
      /\ offset + Len(shown) >= p =>
           /\ \A j \in 1..Len(matches) :
                /\ offset + Len(shown) + j <= Len(whole)
                /\ matches[j] = whole[offset + Len(shown) + j]
           /\ ~(Len(ranking) - start > limit) =>
                Len(matches) >= Len(whole) - offset - Len(shown)
  <2>1. Ends(offset, p, Len(shown), max, start)
    <3>1. Len(shown) \in Nat
      BY <1>3
    <3> QED
      BY <1>1, <1>3, <1>4, <3>1 DEF Ends
  <2>2. /\ prefix \in Seq(Ref) /\ ranking \in Seq(Ref) /\ shown \in Seq(Ref)
        /\ limit \in Nat /\ max \in Nat /\ start \in Nat
    BY <1>1, <1>3, <1>4
  <2>3. \A i \in 1..Len(shown) : offset + i <= p /\ shown[i] = prefix[offset + i]
    BY <1>3
  <2>4. matches = Take(Skip(ranking, start), limit)
    BY <1>5
  <2> QED
    <3>1. whole = prefix \o ranking
      BY DEF whole
    <3>2. Placed(prefix, ranking, whole, offset, max, shown, start, limit, matches)
      BY <2>1, <2>3, <2>4, <3>1 DEF Placed
    <3> QED
      BY <2>2, <3>2, PlacesAre
<1>9. Len(whole) \in Nat /\ p <= Len(whole)
  BY <1>1, JoinIs DEF whole
<1>10. \A i \in 1..Len(shown) : offset + i <= Len(whole)
  <2> SUFFICES ASSUME NEW i \in 1..Len(shown) PROVE offset + i <= Len(whole)
    OBVIOUS
  <2>1. offset + i <= p /\ i \in Nat
    BY <1>8
  <2> HIDE DEF p
  <2> QED
    BY <1>1, <1>9, <2>1
<1> HIDE DEF p
<1>11. Pieces(Ref, whole, offset, max, shown, matches, local, p)
  BY <1>1, <1>3, <1>5, <1>7, <1>8, <1>10 DEF Pieces, Behind
<1>12. Behind(offset, shown, p) /\ ~search.truncated =>
          Len(matches) >= Len(whole) - offset - Len(shown)
  BY <1>5, <1>8 DEF Behind
<1> QED
  BY <1>2, <1>8, <1>11, <1>12 DEF prefix, shown, max, matches, local, p

\* A search finds refs of the ranking.
LEMMA MatchesRanked ==
    ASSUME build \in Build, setting \in Setting, NEW q \in Request, trace[q] \in Traces[q], NEW offset \in Nat,
           NEW search \in Searches(q, offset), ~search.degraded
    PROVE  \A x \in ToSet(search.matches) : x \in ToSet(Ranked[setting][build][q])
<1> DEFINE ranking == Ranked[setting][build][q]
           limit == SearchLimit[q]
           rest == Skip(ranking, offset)
           matches == search.matches
<1>1. ranking \in Seq(Ref) /\ limit \in Nat
  BY RequestTyped
<1>2. matches = Take(rest, limit)
  BY SearchIs
<1> HIDE DEF ranking, limit, matches
<1>3. /\ rest \in Seq(Ref) /\ Len(rest) = IF offset < Len(ranking) THEN Len(ranking) - offset ELSE 0
      /\ \A i \in 1..Len(rest) : rest[i] = ranking[i + offset]
  BY <1>1, SkipIs
<1> HIDE DEF rest
<1>4. /\ matches \in Seq(Ref) /\ Len(matches) = IF limit < Len(rest) THEN limit ELSE Len(rest)
      /\ \A i \in 1..Len(matches) : matches[i] = rest[i]
  BY <1>1, <1>2, <1>3, TakeIs
<1>5. ASSUME NEW x \in ToSet(matches) PROVE x \in ToSet(ranking)
  <2>1. PICK i \in 1..Len(matches) : x = matches[i]
    BY <1>4, ToSetIs
  <2>2. Len(rest) \in Nat /\ Len(matches) \in Nat /\ Len(ranking) \in Nat
    BY <1>1, <1>3, <1>4
  <2>3. i \in 1..Len(rest)
    BY <1>1, <1>4, <2>2
  <2>4. i + offset \in 1..Len(ranking) /\ x = ranking[i + offset]
    BY <1>3, <1>4, <2>1, <2>2, <2>3
  <2> QED
    BY <1>1, <2>4, ToSetIs
<1> QED
  BY <1>5 DEF matches, ranking

\* What a page promises: it makes progress when there is more, the last one carries what is
\* left, with the research, and one that is not the last is a slice.
Promises(q, offset, page) ==
    LET whole == Catalogue(q, setting, build, trace[q]) IN
    /\ page.evidence \in Seq(Ref)
    /\ page.more \in BOOLEAN /\ page.degraded \in BOOLEAN
    /\ page.more => Len(page.evidence) >= 1
    /\ ~page.more /\ ~page.failed => ToSet(Researched[q]) \subseteq ToSet(page.evidence)
    /\ ~page.more /\ ~page.degraded => Rest(whole, offset, page.evidence)
    /\ page.more /\ ~page.degraded /\ page.extra = {} /\ offset <= Len(whole) =>
         Slice(whole, offset, page.evidence)

LEMMA PageIs ==
    ASSUME build \in Build, setting \in Setting, NEW q \in Request, trace[q] \in Traces[q], NEW offset \in Nat,
           NEW search \in Searches(q, LocalOffset(q, offset)),
           NEW research \in {Researched[q], <<>>}, NEW page,
           page = Page(q, offset, Shown(q, offset), search,
                       Local(search, Shown(q, offset)), research)
    PROVE  Promises(q, offset, page)
<1> DEFINE shown == Shown(q, offset)
           matches == search.matches
           local == Local(search, shown)
           max == MaxEvidence[q]
           p == Len(Prefix(setting, build, q, trace[q]))
           whole == Catalogue(q, setting, build, trace[q])
           shownLocal == Take(local, max - Len(shown))
           shownResearch == Take(research, max - Len(shown) - Len(shownLocal))
           e == shown \o shownLocal \o shownResearch
           s == Len(shown)
           k == Len(shownLocal)
           t == Len(shownResearch)
<1>1. /\ page.evidence = e
      /\ page.extra = ToSet(shownLocal \o shownResearch) \ ToSet(matches)
      /\ page.more = HasMore(p - offset - s, Len(local) - k, search.truncated, Len(research) - t)
      /\ page.degraded = search.degraded
      /\ page.failed = (research # Researched[q])
  BY DEF Page
<1>2. max \in Nat \ {0} /\ p \in Nat /\ research \in Seq(Ref)
  <2>1. /\ Prefix(setting, build, q, trace[q]) \in Seq(Ref) /\ Researched[q] \in Seq(Ref)
        /\ MaxEvidence[q] \in Nat \ {0}
    BY RequestTyped
  <2>2. <<>> \in Seq(Ref)
    OBVIOUS
  <2>3. p \in Nat
    BY <2>1
  <2>4. research \in Seq(Ref)
    <3>1. CASE research = Researched[q]
      BY <2>1, <3>1
    <3>2. CASE research = <<>>
      BY <2>2, <3>2
    <3> QED
      BY <3>1, <3>2
  <2> QED
    BY <2>1, <2>3, <2>4
<1>3. /\ shown \in Seq(Ref) /\ s <= max
      /\ s < max => offset + s >= p
  <2>1. /\ shown \in Seq(Ref) /\ s <= max
        /\ offset >= p => s = 0
        /\ offset < p => (s = max /\ offset + s <= p) \/ offset + s = p
    BY ShownIs
  <2> HIDE DEF shown, p, max
  <2>2. s \in Nat
    BY <2>1
  <2> HIDE DEF s
  <2> QED
    BY <1>2, <2>1, <2>2
<1>4. LocalOffset(q, offset) \in Nat
  <2> HIDE DEF p
  <2>1. LocalOffset(q, offset) = IF offset < p THEN 0 ELSE offset - p
    BY DEF LocalOffset, p
  <2> QED
    BY <1>2, <2>1
<1>5. /\ matches \in Seq(Ref) /\ search.truncated \in BOOLEAN /\ search.degraded \in BOOLEAN
      /\ search.truncated => Len(matches) >= 1
  BY <1>4, SearchIs
<1>6. /\ local \in Seq(Ref)
      /\ s = 0 => Len(matches) <= Len(local)
  <2> DEFINE after == Successors(ToSet(matches))
             wanted == Without(matches \o after, ToSet(shown))
  <2>1. /\ after \in Seq(Ref)
        /\ \A i \in 1..Len(after) : after[i] \notin ToSet(matches)
    BY SuccessorsAre
  <2>2. local = wanted
    BY DEF Local
  <2> HIDE DEF after, shown, matches
  <2>3. /\ wanted \in Seq(Ref)
        /\ (\A j \in 1..Len(matches) : matches[j] \notin ToSet(shown)) =>
             Len(matches) <= Len(wanted)
    BY <1>3, <1>5, <2>1, LocalIs
  <2>4. s = 0 => \A j \in 1..Len(matches) : matches[j] \notin ToSet(shown)
    <3>1. \A x : x \in ToSet(shown) <=> \E i \in 1..Len(shown) : x = shown[i]
      BY <1>3, ToSetIs
    <3> QED
      BY <3>1
  <2> QED
    BY <2>2, <2>3, <2>4
<1> HIDE DEF shown, matches, local, max, p, whole
<1>7. /\ e \in Seq(Ref) /\ shownLocal \in Seq(Ref) /\ shownResearch \in Seq(Ref)
      /\ Len(e) = s + k + t /\ s + k <= max
      /\ k <= Len(local) /\ t <= Len(research)
      /\ k < Len(local) => s + k = max
      /\ t < Len(research) => Len(e) = max
      /\ t = Len(research) => shownResearch = research
      /\ \A i \in 1..s : e[i] = shown[i]
      /\ \A j \in 1..k : e[s + j] = local[j] /\ shownLocal[j] = local[j]
      /\ \A j \in 1..t : shownResearch[j] = research[j]
      /\ ToSet(shownResearch) \subseteq ToSet(e)
  <2>1. max \in Nat /\ shown \in Seq(Ref) /\ local \in Seq(Ref) /\ research \in Seq(Ref)
        /\ Len(shown) <= max
    BY <1>2, <1>3, <1>6
  <2> QED
    <3>1. Fills(e, max, shown, local, shownLocal, research, shownResearch)
      BY <2>1 DEF Fills
    <3> HIDE DEF e, shownLocal, shownResearch
    <3> QED
      BY <2>1, <3>1, EvidenceIs
<1> HIDE DEF e, shownLocal, shownResearch
<1>8. s \in Nat /\ k \in Nat /\ t \in Nat /\ Len(local) \in Nat /\ Len(research) \in Nat
  BY <1>2, <1>3, <1>6, <1>7
<1> HIDE DEF s, k, t
<1>9. page.more <=> \/ ~(offset + s >= p)
                    \/ k < Len(local)
                    \/ search.truncated
                    \/ t < Len(research)
  <2>1. /\ p - offset - s > 0 <=> ~(offset + s >= p)
        /\ Len(local) - k > 0 <=> k < Len(local)
        /\ Len(research) - t > 0 <=> t < Len(research)
    BY <1>2, <1>8
  <2> QED
    BY <1>1, <1>5, <2>1 DEF HasMore
<1>10. page.evidence \in Seq(Ref) /\ page.degraded \in BOOLEAN /\ page.more \in BOOLEAN
  BY <1>1, <1>5, <1>7 DEF HasMore
<1>11. ASSUME page.more PROVE Len(e) >= 1
  <2>1. max >= 1 /\ Len(e) \in Nat /\ Len(e) >= s + k
    BY <1>2, <1>7, <1>8
  <2>2. CASE ~(offset + s >= p)
    <3>1. s = max
      BY <1>2, <1>3, <1>8, <2>2
    <3> QED
      BY <1>8, <2>1, <3>1
  <2>3. CASE k < Len(local)
    <3>1. s + k = max
      BY <1>7, <2>3
    <3> HIDE DEF e
    <3> QED
      BY <1>8, <2>1, <3>1
  <2>4. CASE t < Len(research)
    BY <1>7, <2>1, <2>4
  <2>5. CASE search.truncated /\ ~(k < Len(local))
    <3>1. CASE s = 0
      <4>1. k = Len(local) /\ Len(local) >= 1
        BY <1>5, <1>6, <1>7, <1>8, <2>5, <3>1
      <4> QED
        BY <1>8, <2>1, <4>1
    <3>2. CASE s # 0
      BY <1>8, <2>1, <3>2
    <3> QED
      BY <3>1, <3>2
  <2> QED
    BY <1>9, <1>11, <2>2, <2>3, <2>4, <2>5
<1>12. ASSUME ~page.more, ~page.failed PROVE ToSet(Researched[q]) \subseteq ToSet(e)
  <2>1. t = Len(research)
    BY <1>7, <1>8, <1>9, <1>12
  <2>2. research = Researched[q]
    BY <1>1, <1>12
  <2> QED
    BY <1>7, <2>1, <2>2
<1>13. ASSUME ~page.degraded
       PROVE  /\ Pieces(Ref, whole, offset, max, shown, matches, local, p)
              /\ offset <= Len(whole) => offset + s <= Len(whole)
              /\ Behind(offset, shown, p) /\ ~search.truncated =>
                   Len(matches) >= Len(whole) - offset - s
  <2>1. ~search.degraded
    BY <1>1, <1>13
  <2> QED
    BY <2>1, PageHasPieces DEF whole, max, shown, matches, local, p, s
<1>14. Begins(e, Ref, shown, local, k)
  BY <1>7, <1>8 DEF Begins, s
<1>15. ASSUME ~page.more, ~page.degraded PROVE Rest(whole, offset, e)
  <2>1. k = Len(local) /\ Behind(offset, shown, p) /\ ~search.truncated
    BY <1>7, <1>8, <1>9, <1>15 DEF Behind, s
  <2>2. Begins(e, Ref, shown, local, Len(local))
    BY <1>14, <2>1
  <2>3. Pieces(Ref, whole, offset, max, shown, matches, local, p)
    BY <1>13, <1>15
  <2>4. Len(matches) >= Len(whole) - offset - Len(shown)
    BY <1>13, <1>15, <2>1 DEF s
  <2> QED
    BY <2>1, <2>2, <2>3, <2>4, PiecesRest
<1>16. ASSUME page.more, ~page.degraded, page.extra = {}, offset <= Len(whole)
       PROVE  Slice(whole, offset, e)
  <2>1. \A x : x \in ToSet(shownLocal) \/ x \in ToSet(shownResearch) => x \in ToSet(matches)
    <3>1. ToSet(shownLocal \o shownResearch) = ToSet(shownLocal) \union ToSet(shownResearch)
      BY <1>7, JoinIs
    <3> QED
      BY <1>1, <1>16, <3>1
  <2>2. t = 0
    <3> SUFFICES ASSUME t # 0 PROVE FALSE
      OBVIOUS
    <3>1. t >= 1 /\ 1 \in 1..t
      BY <1>8
    <3>2. shownResearch[1] \in ToSet(shownResearch)
      BY <1>7, <3>1, ToSetIs DEF t
    <3>3. shownResearch[1] = research[1] /\ 1 \in 1..Len(research)
      BY <1>7, <1>8, <3>1
    <3>4. research = Researched[q]
      BY <3>3
    <3>5. research[1] \in ToSet(Researched[q])
      BY <1>2, <3>3, <3>4, ToSetIs
    <3>6. \A x \in ToSet(matches) : x \in ToSet(Ranked[setting][build][q])
      <4>1. ~search.degraded
        BY <1>1, <1>16
      <4> QED
        BY <1>4, <4>1, MatchesRanked DEF matches
    <3>7. ToSet(Researched[q]) \cap ToSet(Ranked[setting][build][q]) = {}
      BY InvestigateWalkAssumption
    <3> QED
      BY <2>1, <3>2, <3>3, <3>5, <3>6, <3>7
  <2>3. \A j \in 1..k : local[j] \in ToSet(matches)
    <3>1. \A j \in 1..k : shownLocal[j] \in ToSet(shownLocal)
      BY <1>7, ToSetIs DEF k
    <3> QED
      BY <1>7, <2>1, <3>1
  <2>4. Len(e) = Len(shown) + k /\ Len(e) <= max
    BY <1>7, <1>8, <2>2 DEF s
  <2>5. Pieces(Ref, whole, offset, max, shown, matches, local, p)
    BY <1>13, <1>16
  <2>6. offset + Len(shown) <= Len(whole)
    BY <1>13, <1>16 DEF s
  <2> QED
    BY <1>14, <2>3, <2>4, <2>5, <2>6, PiecesSlice
<1> QED
  BY <1>1, <1>10, <1>11, <1>12, <1>15, <1>16 DEF whole, Promises

\* What is left of a page after compaction: all of it when nothing was dropped.
LEMMA DropsAre ==
    ASSUME NEW page, page.evidence \in Seq(Ref), NEW outcome \in Outcomes(page)
    PROVE  LET kept == Without(page.evidence, LastDroppable(page, outcome.dropped)) IN
           /\ outcome.dropped \in Nat /\ outcome.unmet \in BOOLEAN
           /\ kept \in Seq(Ref)
           /\ ~(outcome.dropped > 0) => kept = page.evidence
<1> DEFINE e == page.evidence
           D == Droppable(page)
<1>1. IsFiniteSet(D)
  <2>1. e \in Surjection(1..Len(e), ToSet(e))
    BY ToSetIs DEF Surjection
  <2>2. Len(e) \in Nat /\ IsFiniteSet(1..Len(e))
    BY FS_Interval
  <2>3. IsFiniteSet(ToSet(e))
    <3> DEFINE places == 1..Len(e)
               refs == ToSet(e)
    <3> HIDE DEF places, refs, e
    <3>1. IsFiniteSet(places) /\ e \in Surjection(places, refs)
      BY <2>1, <2>2 DEF places, refs
    <3>2. IsFiniteSet(refs)
      BY <3>1, FS_Surjection
    <3> QED
      BY <3>2 DEF refs
  <2>4. D \subseteq ToSet(e)
    BY DEF Droppable
  <2> QED
    BY <2>3, <2>4, FS_Subset
<1>2. Cardinality(D) \in Nat
  BY <1>1, FS_CardinalityType
<1>3. outcome.dropped \in Nat /\ outcome.unmet \in BOOLEAN
  <2> HIDE DEF D
  <2>1. CASE OutputFits
    <3>1. outcome = [dropped |-> 0, unmet |-> FALSE]
      BY <2>1 DEF Outcomes
    <3> QED
      BY <3>1
  <2>2. CASE ~OutputFits
    <3>1. outcome \in [dropped : 0..Cardinality(D), unmet : BOOLEAN]
      BY <2>2 DEF Outcomes, D
    <3> QED
      BY <1>2, <3>1
  <2> QED
    BY <2>1, <2>2
<1>4. ASSUME ~(outcome.dropped > 0)
      PROVE  LastDroppable(page, outcome.dropped) = {}
  <2>1. outcome.dropped = 0
    BY <1>3, <1>4
  <2>2. \A r : Cardinality({s \in D : s > r}) \in Nat
    <3> SUFFICES ASSUME NEW r PROVE Cardinality({s \in D : s > r}) \in Nat
      OBVIOUS
    <3>1. IsFiniteSet({s \in D : s > r})
      BY <1>1, FS_Subset
    <3> QED
      BY <3>1, FS_CardinalityType
  <2>3. \A r : ~(Cardinality({s \in D : s > r}) < 0)
    <3> SUFFICES ASSUME NEW r PROVE ~(Cardinality({s \in D : s > r}) < 0)
      OBVIOUS
    <3> DEFINE c == Cardinality({s \in D : s > r})
    <3>1. c \in Nat
      BY <2>2
    <3> HIDE DEF c
    <3>2. ~(c < 0)
      BY <3>1
    <3> QED
      BY <3>2 DEF c
  <2> QED
    BY <2>1, <2>3 DEF LastDroppable
<1>5. Without(e, LastDroppable(page, outcome.dropped)) \in Seq(Ref)
  BY WithoutKeeps
<1>6. ASSUME ~(outcome.dropped > 0)
      PROVE  Without(e, LastDroppable(page, outcome.dropped)) = e
  BY <1>4, <1>6, WithoutNothing
<1> QED
  BY <1>3, <1>5, <1>6

\* One call answers with such a page.
LEMMA AnswerIs ==
    ASSUME build \in Build, setting \in Setting, NEW q \in Request, trace[q] \in Traces[q], NEW offset \in Nat,
           Answer(q, offset)
    PROVE  \E page : \E outcome \in Outcomes(page) :
              /\ Promises(q, offset, page)
              /\ walk' = [walk EXCEPT ![q] = Continued(q, offset, page, outcome)]
<1>1. PICK search \in Searches(q, LocalOffset(q, offset)), research \in {Researched[q], <<>>} :
         \E outcome \in Outcomes(Page(q, offset, Shown(q, offset), search,
                                      Local(search, Shown(q, offset)), research)) :
            walk' = [walk EXCEPT ![q] =
                       Continued(q, offset, Page(q, offset, Shown(q, offset), search,
                                                 Local(search, Shown(q, offset)), research),
                                 outcome)]
  BY DEF Answer
<1> DEFINE page == Page(q, offset, Shown(q, offset), search,
                        Local(search, Shown(q, offset)), research)
<1>2. PICK outcome \in Outcomes(page) :
         walk' = [walk EXCEPT ![q] = Continued(q, offset, page, outcome)]
  BY <1>1
<1> HIDE DEF page
<1>3. Promises(q, offset, page)
  <2>1. page = Page(q, offset, Shown(q, offset), search,
                    Local(search, Shown(q, offset)), research)
    BY DEF page
  <2> QED
    BY <2>1, PageIs
<1> QED
  BY <1>2, <1>3

--------------------------------------------------------------------------------
(* A walk, page by page *)

LEMMA SliceAdds ==
    ASSUME NEW S, NEW whole \in Seq(S), NEW from \in Nat, NEW served \in Seq(S), NEW e \in Seq(S),
           UpTo(whole, from, served), Slice(whole, from, e)
    PROVE  UpTo(whole, from + Len(e), served \o e)
<1> DEFINE n == Len(e)
           w == Len(whole)
           both == served \o e
<1>1. n \in Nat /\ w \in Nat /\ from <= w /\ from + n <= w
  BY DEF UpTo, Slice
<1>2. /\ \A i \in 1..from : whole[i] \in ToSet(served)
      /\ \A i \in (from + 1)..(from + n) : whole[i] \in ToSet(e)
  BY DEF UpTo, Slice
<1>3. /\ both \in Seq(S) /\ Len(both) = Len(served) + n
      /\ \A i \in 1..Len(served) : both[i] = served[i]
      /\ \A i \in 1..n : both[Len(served) + i] = e[i]
      /\ ToSet(both) = ToSet(served) \union ToSet(e)
  BY JoinIs
<1>4. ASSUME NoRepetition(whole) PROVE both = SubSeq(whole, 1, from + n)
  <2>1. served = SubSeq(whole, 1, from) /\ \A i \in 1..n : e[i] = whole[from + i]
    BY <1>4 DEF UpTo, Slice
  <2>2. Len(served) = from /\ \A i \in 1..from : served[i] = whole[i]
    BY <1>1, <2>1
  <2> DEFINE start == SubSeq(whole, 1, from + n)
  <2>3. start \in Seq(S) /\ Len(start) = from + n /\ \A i \in 1..(from + n) : start[i] = whole[i]
    BY <1>1
  <2> HIDE DEF both, start, n, w
  <2>4. \A i \in 1..(from + n) : both[i] = start[i]
    <3> SUFFICES ASSUME NEW i \in 1..(from + n) PROVE both[i] = start[i]
      OBVIOUS
    <3>1. CASE i \in 1..from
      BY <1>3, <2>2, <2>3, <3>1
    <3>2. CASE i \notin 1..from
      <4>1. i - from \in 1..n /\ from + (i - from) = i
        BY <1>1, <3>2
      <4>2. both[from + (i - from)] = e[i - from] /\ e[i - from] = whole[from + (i - from)]
        BY <1>3, <2>1, <2>2, <4>1
      <4> QED
        BY <2>3, <4>1, <4>2
    <3> QED
      BY <3>1, <3>2
  <2>5. Len(both) = from + n /\ Len(start) = from + n
    BY <1>3, <2>2, <2>3
  <2> QED
    BY <1>3, <2>3, <2>4, <2>5, SeqEqual DEF start
<1>5. \A i \in 1..(from + n) : whole[i] \in ToSet(both)
  <2> HIDE DEF both, n, w
  <2> SUFFICES ASSUME NEW i \in 1..(from + n) PROVE whole[i] \in ToSet(both)
    OBVIOUS
  <2>1. i \in 1..from \/ i \in (from + 1)..(from + n)
    BY <1>1
  <2> QED
    BY <1>2, <1>3, <2>1
<1> QED
  BY <1>1, <1>4, <1>5 DEF UpTo

LEMMA UpToIsPrefix ==
    ASSUME NEW S, NEW whole \in Seq(S), NEW from \in Nat, NEW served \in Seq(S),
           UpTo(whole, from, served), NoRepetition(whole)
    PROVE  IsPrefix(served, whole)
<1>1. from <= Len(whole) /\ served = SubSeq(whole, 1, from)
  BY DEF UpTo
<1>2. Len(served) = from
  BY <1>1
<1>3. SubSeq(served, 1, Len(served)) = served
  BY <1>2
<1> QED
  BY <1>1, <1>2, <1>3 DEF IsPrefix

LEMMA RestAdds ==
    ASSUME NEW S, NEW whole \in Seq(S), NEW from \in Nat, NEW served \in Seq(S), NEW e \in Seq(S),
           UpTo(whole, from, served), Rest(whole, from, e)
    PROVE  /\ \A i \in 1..Len(whole) : whole[i] \in ToSet(served \o e)
           /\ NoRepetition(whole) => IsPrefix(whole, served \o e)
<1> DEFINE n == Len(e)
           w == Len(whole)
           both == served \o e
<1>1. n \in Nat /\ w \in Nat /\ from <= w
  BY DEF UpTo
<1>2. /\ \A i \in 1..from : whole[i] \in ToSet(served)
      /\ \A i \in (from + 1)..w : whole[i] \in ToSet(e)
  BY DEF UpTo, Rest
<1>3. /\ both \in Seq(S) /\ Len(both) = Len(served) + n
      /\ \A i \in 1..Len(served) : both[i] = served[i]
      /\ \A i \in 1..n : both[Len(served) + i] = e[i]
      /\ ToSet(both) = ToSet(served) \union ToSet(e)
  BY JoinIs
<1>4. \A i \in 1..w : whole[i] \in ToSet(both)
  <2> HIDE DEF both, n, w
  <2> SUFFICES ASSUME NEW i \in 1..w PROVE whole[i] \in ToSet(both)
    OBVIOUS
  <2>1. i \in 1..from \/ i \in (from + 1)..w
    BY <1>1
  <2> QED
    BY <1>2, <1>3, <2>1
<1>5. ASSUME NoRepetition(whole) PROVE IsPrefix(whole, both)
  <2>1. served = SubSeq(whole, 1, from)
        /\ \A i \in 1..(w - from) : i <= n /\ e[i] = whole[from + i]
    BY <1>5 DEF UpTo, Rest
  <2>2. Len(served) = from /\ \A i \in 1..from : served[i] = whole[i]
    BY <1>1, <2>1
  <2> HIDE DEF both, n
  <2>3. w <= Len(both)
    <3>1. CASE w = from
      BY <1>1, <1>3, <2>2, <3>1
    <3>2. CASE w # from
      <4>1. w - from \in 1..(w - from)
        BY <1>1, <3>2
      <4>2. w - from <= n
        BY <2>1, <4>1
      <4> QED
        BY <1>1, <1>3, <2>2, <4>2
    <3> QED
      BY <3>1, <3>2
  <2>4. \A i \in 1..w : both[i] = whole[i]
    <3> SUFFICES ASSUME NEW i \in 1..w PROVE both[i] = whole[i]
      OBVIOUS
    <3>1. CASE i \in 1..from
      BY <1>3, <2>2, <3>1
    <3>2. CASE i \notin 1..from
      <4>1. i - from \in 1..(w - from) /\ from + (i - from) = i /\ i - from \in Nat
        BY <1>1, <3>2
      <4>2. i - from \in 1..n
        <5>1. i - from <= n
          BY <2>1, <4>1
        <5>2. i - from >= 1
          BY <4>1
        <5> QED
          BY <1>1, <4>1, <5>1, <5>2
      <4>3. both[from + (i - from)] = e[i - from] /\ e[i - from] = whole[from + (i - from)]
        BY <1>3, <2>1, <2>2, <4>1, <4>2
      <4> QED
        BY <4>1, <4>3
    <3> QED
      BY <3>1, <3>2
  <2> DEFINE a == SubSeq(whole, 1, w)
             b == SubSeq(both, 1, w)
  <2>5. a \in Seq(S) /\ Len(a) = w /\ \A i \in 1..w : a[i] = whole[i]
    BY <1>1
  <2>6. b \in Seq(S) /\ Len(b) = w /\ \A i \in 1..w : b[i] = both[i]
    BY <1>1, <1>3, <2>3
  <2> HIDE DEF a, b, w
  <2>7. a = b
    BY <2>4, <2>5, <2>6, SeqEqual
  <2> QED
    BY <2>3, <2>7 DEF IsPrefix, a, b, w
<1> QED
  BY <1>4, <1>5

LEMMA CatalogueTyped ==
    ASSUME NEW q \in Request, NEW s \in Setting, NEW b \in Build, NEW t \in Seq(Ref)
    PROVE  Catalogue(q, s, b, t) \in Seq(Ref) /\ Researched[q] \in Seq(Ref)
<1>1. /\ Skills[s][q] \in Seq(Ref) /\ Capabilities[s][q] \in Seq(Ref)
      /\ Researched[q] \in Seq(Ref) /\ Counterfactual[b][q] \in Seq(Ref)
      /\ Ranked[s][b][q] \in Seq(Ref)
  BY InvestigateWalkAssumption
<1>2. Prefix(s, b, q, t) \in Seq(Ref)
  BY <1>1 DEF Prefix
<1> QED
  BY <1>1, <1>2 DEF Catalogue

\* A page at the cursor of a walk, or the first one, leaves a walk.
LEMMA ContinuedIs ==
    ASSUME build \in Build, setting \in Setting, NEW q \in Request, trace[q] \in Traces[q], NEW offset \in Nat,
           WalkIs(q, walk[q]),
           \/ walk[q].state = "idle" /\ offset = 0
           \/ /\ walk[q].state = "open" /\ walk[q].cursor.kind = "offset"
              /\ walk[q].cursor.offset = offset /\ walk[q].builds = {build},
           NEW page, Promises(q, offset, page), NEW outcome \in Outcomes(page)
    PROVE  WalkIs(q, Continued(q, offset, page, outcome))
<1> DEFINE w == walk[q]
           v == Continued(q, offset, page, outcome)
           e == page.evidence
           kept == Without(e, LastDroppable(page, outcome.dropped))
           next == NextCursor(q, offset, page, outcome)
           odd == Unusual(q, page, outcome)
           all == Complete(page, outcome)
           whole == Catalogue(q, setting, build, trace[q])
           state == IF next = NoCursor THEN "ended" ELSE "open"
           served == w.served \o kept
           builds == w.builds \union {build}
           under == IF w.state = "idle" THEN setting ELSE w.setting
           begun == IF w.state = "idle" THEN trace[q] ELSE w.trace
           unusual == w.unusual \union odd
           single == w.state = "idle"
<1>1. v = [state |-> state, cursor |-> next, served |-> served, builds |-> builds,
           setting |-> under, trace |-> begun, unusual |-> unusual, single |-> single, complete |-> all]
  BY DEF Continued
<1>2. /\ w \in Walk
      /\ w.state = "idle" => w = Unstarted
      /\ w.state = "open" /\ w.unusual = {} =>
           \A b \in w.builds : UpTo(Catalogue(q, w.setting, b, w.trace), w.cursor.offset, w.served)
      /\ w.builds # {} => w.setting \in Setting
  BY DEF WalkIs
<1>3. /\ w.served \in Seq(Ref) /\ w.builds \subseteq Build /\ w.trace \in Seq(Ref)
      /\ w.unusual \subseteq {"degraded", "compacted", "reloaded", "moved", "extra"}
  BY <1>2 DEF Walk
<1>4. w.state = "idle" => w.served = <<>> /\ w.builds = {} /\ w.unusual = {}
  BY <1>2 DEF Unstarted
<1>5. trace[q] \in Seq(Ref)
  BY RequestTyped
<1>6. whole \in Seq(Ref) /\ Researched[q] \in Seq(Ref)
  BY <1>5, CatalogueTyped
<1>7. /\ e \in Seq(Ref) /\ page.more \in BOOLEAN /\ page.degraded \in BOOLEAN
      /\ page.more => Len(e) >= 1
      /\ ~page.more /\ ~page.failed => ToSet(Researched[q]) \subseteq ToSet(e)
      /\ ~page.more /\ ~page.degraded => Rest(whole, offset, e)
      /\ page.more /\ ~page.degraded /\ page.extra = {} /\ offset <= Len(whole) =>
           Slice(whole, offset, e)
  BY DEF Promises
<1>8. /\ outcome.dropped \in Nat /\ kept \in Seq(Ref)
      /\ ~(outcome.dropped > 0) => kept = e
  BY <1>7, DropsAre
<1>9. builds = {build}
  BY <1>4
<1> HIDE DEF w, v, e, kept, odd, all, whole
<1>10. /\ outcome.dropped > 0 => next = CompactedCursor(q, outcome.dropped)
       /\ ~(outcome.dropped > 0) /\ page.more => next = OffsetCursor(q, offset + Len(e))
       /\ ~(outcome.dropped > 0) /\ ~page.more => next = NoCursor
  BY DEF NextCursor, NextOffset, e
<1> HIDE DEF next
<1>11. /\ next \in Cursor
       /\ outcome.dropped > 0 \/ page.more => next # NoCursor
       /\ ~(outcome.dropped > 0) /\ page.more => next.kind = "offset" /\ next.offset = offset + Len(e)
  <2>1. CASE outcome.dropped > 0
    <3>1. outcome.dropped \in Nat \ {0}
      BY <1>8, <2>1
    <3> QED
      BY <1>10, <2>1, <3>1 DEF CompactedCursor, NoCursor, Cursor
  <2>2. CASE ~(outcome.dropped > 0) /\ page.more
    <3>1. offset + Len(e) \in Nat \ {0}
      BY <1>7, <2>2
    <3> HIDE DEF e
    <3>2. next = [kind |-> "offset", request |-> q, build |-> build, offset |-> offset + Len(e)]
      BY <1>10, <2>2 DEF OffsetCursor
    <3> QED
      BY <2>2, <3>1, <3>2 DEF NoCursor, Cursor
  <2>3. CASE ~(outcome.dropped > 0) /\ ~page.more
    BY <1>10, <2>3 DEF Cursor
  <2> QED
    BY <2>1, <2>2, <2>3
<1>12. served \in Seq(Ref) /\ begun \in Seq(Ref) /\ under \in Setting
  <2>1. w.state # "idle" => w.builds # {}
    BY DEF w
  <2> QED
    BY <1>2, <1>3, <1>5, <1>8, <2>1
<1>13. odd \subseteq {"degraded", "compacted", "reloaded", "moved", "extra"} /\ all \in BOOLEAN
  BY DEF odd, all, Unusual, Complete
<1>14. v \in Walk
  <2>1. /\ state \in {"idle", "open", "ended", "refused", "abstained"} /\ builds \subseteq Build
        /\ unusual \subseteq {"degraded", "compacted", "reloaded", "moved", "extra"} /\ single \in BOOLEAN
    BY <1>3, <1>9, <1>13
  <2> HIDE DEF state, served, builds, under, begun, unusual, single
  <2> QED
    BY <1>1, <1>11, <1>12, <1>13, <2>1 DEF Walk
<1> HIDE DEF state, served, builds, under, begun, unusual, single
<1>15. /\ v.state = state /\ v.cursor = next /\ v.served = served /\ v.builds = {build}
       /\ v.setting = under /\ v.trace = begun /\ v.unusual = unusual /\ v.single = single /\ v.complete = all
  BY <1>1, <1>9
<1>16. /\ state = "open" \/ state = "ended"
       /\ state = "open" <=> next # NoCursor
  BY DEF state
<1>17. ASSUME unusual = {}
       PROVE  /\ ~page.degraded /\ ~(outcome.dropped > 0) /\ (page.more => page.extra = {})
              /\ under = setting /\ begun = trace[q] /\ UpTo(whole, offset, w.served)
  <2>1. odd = {} /\ w.unusual = {}
    BY <1>17 DEF unusual
  <2>2. /\ ~page.degraded /\ ~(outcome.dropped > 0) /\ (page.more => page.extra = {})
        /\ ~(w.state = "open" /\ setting # w.setting)
        /\ ~(w.state = "open" /\ trace[q] # w.trace)
    BY <2>1 DEF odd, Unusual, w
  <2>3. CASE w.state = "idle"
    <3>1. offset = 0 /\ w.served = <<>>
      BY <1>4, <2>3 DEF w
    <3>2. UpTo(whole, 0, <<>>)
      BY <1>6 DEF UpTo
    <3> QED
      BY <2>2, <2>3, <3>1, <3>2 DEF begun, under
  <2>4. CASE w.state # "idle"
    <3>1. /\ w.state = "open" /\ w.cursor.offset = offset /\ w.builds = {build}
      BY <2>4 DEF w
    <3>2. UpTo(Catalogue(q, w.setting, build, w.trace), offset, w.served)
      BY <1>2, <2>1, <3>1
    <3> QED
      BY <2>2, <2>4, <3>1, <3>2 DEF begun, under, whole
  <2> QED
    BY <2>3, <2>4
<1>18. ASSUME state = "open", unusual = {}
       PROVE  next.kind = "offset" /\ UpTo(whole, next.offset, served)
  <2>1. page.more /\ ~(outcome.dropped > 0)
    BY <1>7, <1>10, <1>16, <1>17, <1>18
  <2>2. UpTo(whole, offset, w.served) /\ Slice(whole, offset, e)
    BY <1>7, <1>17, <1>18, <2>1 DEF UpTo
  <2>3. served = w.served \o e
    BY <1>8, <2>1 DEF served
  <2>4. UpTo(whole, offset + Len(e), w.served \o e)
    BY <1>3, <1>6, <1>7, <2>2, SliceAdds
  <2> QED
    BY <1>11, <2>1, <2>3, <2>4
<1>19. ASSUME state = "ended", unusual = {}
       PROVE  /\ \A i \in 1..Len(whole) : whole[i] \in ToSet(served)
              /\ NoRepetition(whole) => IsPrefix(whole, served)
  <2>1. ~page.more /\ ~(outcome.dropped > 0)
    BY <1>7, <1>11, <1>16, <1>17, <1>19
  <2>2. UpTo(whole, offset, w.served) /\ Rest(whole, offset, e)
    BY <1>7, <1>17, <1>19, <2>1
  <2>3. served = w.served \o e
    BY <1>8, <2>1 DEF served
  <2>4. /\ \A i \in 1..Len(whole) : whole[i] \in ToSet(w.served \o e)
        /\ NoRepetition(whole) => IsPrefix(whole, w.served \o e)
    BY <1>3, <1>6, <1>7, <2>2, RestAdds
  <2> QED
    BY <2>3, <2>4
<1>20. ASSUME single, all
       PROVE  under = setting /\ begun = trace[q] /\ ToSet(whole \o Researched[q]) \subseteq ToSet(served)
  <2>1. w.state = "idle" /\ w.served = <<>> /\ offset = 0
    BY <1>4, <1>20 DEF single, w
  <2>2. ~page.more /\ ~page.degraded /\ ~page.failed /\ outcome.dropped = 0
    BY <1>20 DEF all, Complete
  <2>3. kept = e
    BY <1>8, <2>2
  <2>4. served = e
    BY <1>7, <2>1, <2>3 DEF served
  <2>5. \A i \in 1..Len(whole) : whole[i] \in ToSet(e)
    <3>1. Rest(whole, 0, e)
      BY <1>7, <2>1, <2>2
    <3> QED
      BY <3>1 DEF Rest
  <2>6. ToSet(whole) \subseteq ToSet(e)
    BY <1>6, <2>5, ToSetIs
  <2>7. ToSet(Researched[q]) \subseteq ToSet(e)
    BY <1>7, <2>2
  <2>8. ToSet(whole \o Researched[q]) = ToSet(whole) \union ToSet(Researched[q])
    BY <1>6, JoinIs
  <2> QED
    BY <2>1, <2>4, <2>6, <2>7, <2>8 DEF begun, under
<1>21. v.state = "open" => v.cursor # NoCursor
  BY <1>15, <1>16
<1>22. v.state \notin {"idle", "refused", "abstained"} /\ v.setting \in Setting
  BY <1>12, <1>15, <1>16
<1>23. v.state = "open" /\ v.unusual = {} =>
          /\ v.cursor.kind = "offset"
          /\ \A b \in v.builds : UpTo(Catalogue(q, v.setting, b, v.trace), v.cursor.offset, v.served)
  BY <1>15, <1>17, <1>18 DEF whole
<1>24. v.state = "ended" /\ v.unusual = {} =>
          \A b \in v.builds : LET c == Catalogue(q, v.setting, b, v.trace) IN
              /\ \A i \in 1..Len(c) : c[i] \in ToSet(v.served)
              /\ NoRepetition(c) => IsPrefix(c, v.served)
  BY <1>15, <1>17, <1>19 DEF whole
<1>25. v.single /\ v.complete =>
          \A b \in v.builds :
              ToSet(Catalogue(q, v.setting, b, v.trace) \o Researched[q]) \subseteq ToSet(v.served)
  BY <1>15, <1>20 DEF whole
<1> HIDE DEF v
<1>26. WalkIs(q, v)
  BY <1>14, <1>21, <1>22, <1>23, <1>24, <1>25 DEF WalkIs
<1> QED
  BY <1>26 DEF v

--------------------------------------------------------------------------------
(* The pages of every walk *)

LEMMA InitPages == Init => PagesInv
<1> SUFFICES ASSUME Init PROVE PagesInv
  OBVIOUS
<1>1. BuildInv
  BY InitBuilds
<1>2. \A q \in Request : trace[q] \in Traces[q] /\ walk[q] = Unstarted
  BY DEF Init
<1>3. ASSUME NEW q \in Request PROVE WalkIs(q, Unstarted)
  <2>1. Unstarted \in Walk
    BY DEF Unstarted, Walk, Cursor
  <2> QED
    BY <2>1 DEF Unstarted, WalkIs
<1> QED
  BY <1>1, <1>2, <1>3 DEF PagesInv

\* An answer at the position of a walk leaves every walk as it should be.
LEMMA AnswerKeepsPages ==
    ASSUME PagesInv, NEW q \in Request, NEW offset \in Nat, Answer(q, offset),
           \/ walk[q].state = "idle" /\ offset = 0
           \/ /\ walk[q].state = "open" /\ walk[q].cursor.kind = "offset"
              /\ walk[q].cursor.offset = offset /\ walk[q].builds = {build},
           BuildInv', UNCHANGED <<build, setting, trace>>
    PROVE  PagesInv'
<1>1. build \in Build /\ setting \in Setting /\ trace[q] \in Traces[q] /\ WalkIs(q, walk[q])
  BY DEF PagesInv, BuildInv
<1>2. PICK page : \E outcome \in Outcomes(page) :
         /\ Promises(q, offset, page)
         /\ walk' = [walk EXCEPT ![q] = Continued(q, offset, page, outcome)]
  BY <1>1, AnswerIs
<1>3. PICK outcome \in Outcomes(page) :
         /\ Promises(q, offset, page)
         /\ walk' = [walk EXCEPT ![q] = Continued(q, offset, page, outcome)]
  BY <1>2
<1>4. WalkIs(q, Continued(q, offset, page, outcome))
  BY <1>1, <1>3, ContinuedIs
<1>5. walk = [r \in Request |-> walk[r]]
  BY DEF PagesInv, BuildInv
<1>6. walk'[q] = Continued(q, offset, page, outcome) /\ \A r \in Request \ {q} : walk'[r] = walk[r]
  BY <1>3, <1>5
<1>7. \A r \in Request : WalkIs(r, walk'[r])
  BY <1>4, <1>6 DEF PagesInv
<1> QED
  BY <1>7 DEF PagesInv

LEMMA FirstPageKeepsPages ==
    ASSUME PagesInv, NEW q \in Request, FirstPage(q)
    PROVE  PagesInv'
<1>1. BuildInv'
  BY FirstPageKeepsBuild DEF PagesInv
<1>2. walk[q].state = "idle" /\ Answer(q, 0) /\ UNCHANGED <<build, setting, trace>>
  BY DEF FirstPage
<1> QED
  BY <1>1, <1>2, AnswerKeepsPages

\* The walk's own cursor is the one that is accepted.
LEMMA NextPageAnswers ==
    ASSUME PagesInv, NEW q \in Request, NextPage(q)
    PROVE  /\ walk[q].state = "open" /\ walk[q].cursor.kind = "offset"
           /\ walk[q].cursor.offset \in Nat /\ walk[q].builds = {build}
           /\ Answer(q, walk[q].cursor.offset) /\ UNCHANGED <<build, setting, trace>>
<1>1. PICK p \in Request : Accepts(q, walk[p].cursor) /\ Answer(q, walk[p].cursor.offset)
  BY DEF NextPage
<1>2. /\ walk[p].cursor.kind = "offset" /\ walk[p].cursor.request = q
      /\ walk[p].cursor.build = build
  BY <1>1 DEF Accepts
<1>3. p = q /\ walk[q].builds = {build}
  BY <1>2 DEF PagesInv, BuildInv, CursorsBound
<1>4. walk[q].cursor \in Cursor
  BY DEF PagesInv, WalkIs, Walk
<1>5. walk[q].cursor.offset \in Nat
  BY <1>2, <1>3, <1>4 DEF Cursor, NoCursor
<1> QED
  BY <1>1, <1>2, <1>3, <1>5 DEF NextPage

LEMMA NextPageKeepsPages ==
    ASSUME PagesInv, NEW q \in Request, NextPage(q)
    PROVE  PagesInv'
<1>1. BuildInv'
  BY NextPageKeepsBuild DEF PagesInv
<1> QED
  BY <1>1, NextPageAnswers, AnswerKeepsPages

LEMMA RefuseKeepsPages ==
    ASSUME PagesInv, NEW q \in Request, Refuse(q)
    PROVE  PagesInv'
<1> DEFINE w == walk[q]
           v == [w EXCEPT !.state = "refused"]
<1>1. BuildInv' /\ trace' = trace
  BY RefuseKeepsBuild DEF PagesInv, Refuse
<1>2. walk = [r \in Request |-> walk[r]] /\ walk' = [walk EXCEPT ![q].state = "refused"]
  BY DEF PagesInv, BuildInv, Refuse
<1>3. walk'[q] = v /\ \A r \in Request \ {q} : walk'[r] = walk[r]
  BY <1>2
<1>4. w \in Walk /\ w.state = "open" /\ WalkIs(q, w)
  BY DEF PagesInv, WalkIs, Refuse
<1> HIDE DEF w
<1>5. v \in Walk
  BY <1>4 DEF Walk
<1>6. /\ v.state = "refused" /\ v.cursor = w.cursor /\ v.served = w.served
      /\ v.builds = w.builds /\ v.setting = w.setting /\ v.trace = w.trace /\ v.unusual = w.unusual
      /\ v.single = w.single /\ v.complete = w.complete
  BY <1>4 DEF Walk
<1> HIDE DEF v
<1>7. WalkIs(q, v)
  BY <1>4, <1>5, <1>6 DEF WalkIs
<1>8. \A r \in Request : WalkIs(r, walk'[r])
  BY <1>3, <1>7 DEF PagesInv
<1> QED
  BY <1>1, <1>8 DEF PagesInv

LEMMA AbstainKeepsPages ==
    ASSUME PagesInv, NEW q \in Request, Abstain(q)
    PROVE  PagesInv'
<1> DEFINE w == walk[q]
           v == [w EXCEPT !.state = "abstained"]
<1>1. BuildInv' /\ trace' = trace
  BY AbstainKeepsBuild DEF PagesInv, Abstain
<1>2. walk = [r \in Request |-> walk[r]] /\ walk' = [walk EXCEPT ![q].state = "abstained"]
  BY DEF PagesInv, BuildInv, Abstain
<1>3. walk'[q] = v /\ \A r \in Request \ {q} : walk'[r] = walk[r]
  BY <1>2
<1>4. w \in Walk /\ w.state \in {"idle", "open"} /\ WalkIs(q, w)
  BY DEF PagesInv, WalkIs, Abstain
<1> HIDE DEF w
<1>5. v \in Walk
  BY <1>4 DEF Walk
<1>6. /\ v.state = "abstained" /\ v.cursor = w.cursor /\ v.served = w.served
      /\ v.builds = w.builds /\ v.setting = w.setting /\ v.trace = w.trace /\ v.unusual = w.unusual
      /\ v.single = w.single /\ v.complete = w.complete
  BY <1>4 DEF Walk
<1> HIDE DEF v
<1>7. WalkIs(q, v)
  <2>1. CASE w.state = "idle"
    <3>1. w.builds = {} /\ w.single = FALSE
      BY <1>4, <2>1 DEF WalkIs, Unstarted
    <3> QED
      BY <1>5, <1>6, <3>1 DEF WalkIs
  <2>2. CASE w.state = "open"
    BY <1>4, <1>5, <1>6, <2>2 DEF WalkIs
  <2> QED
    BY <1>4, <2>1, <2>2
<1>8. \A r \in Request : WalkIs(r, walk'[r])
  BY <1>3, <1>7 DEF PagesInv
<1> QED
  BY <1>1, <1>8 DEF PagesInv

LEMMA NextKeepsPages == PagesInv /\ [Next]_vars => PagesInv'
<1> SUFFICES ASSUME PagesInv, [Next]_vars
             PROVE  PagesInv'
  OBVIOUS
<1>1. CASE \E q \in Request : FirstPage(q)
  BY <1>1, FirstPageKeepsPages
<1>2. CASE \E q \in Request : NextPage(q)
  BY <1>2, NextPageKeepsPages
<1>3. CASE \E q \in Request : Refuse(q)
  BY <1>3, RefuseKeepsPages
<1>8. CASE \E q \in Request : Abstain(q)
  BY <1>8, AbstainKeepsPages
<1>4. BuildInv'
  BY NextKeepsBuild DEF PagesInv
<1>5. CASE \E b \in Build, s \in Setting : Restart(b, s)
  BY <1>4, <1>5 DEF Restart, PagesInv
<1>6. CASE \E q \in Request : \E t \in Traces[q] : RepositoryChanges(q, t)
  <2>0. PICK q \in Request : \E t \in Traces[q] : RepositoryChanges(q, t)
    BY <1>6
  <2>1. PICK t \in Traces[q] : RepositoryChanges(q, t)
    BY <2>0
  <2>2. \A r \in Request : trace'[r] \in Traces[r]
    BY <2>1 DEF RepositoryChanges, PagesInv
  <2>3. walk' = walk
    BY <2>1 DEF RepositoryChanges
  <2> QED
    BY <1>4, <2>2, <2>3 DEF PagesInv
<1>7. CASE UNCHANGED vars
  BY <1>4, <1>7 DEF vars, PagesInv
<1> QED
  BY <1>1, <1>2, <1>3, <1>5, <1>6, <1>7, <1>8 DEF Next

LEMMA PagesAlways == Spec => []PagesInv
BY InitPages, NextKeepsPages, PTL DEF Spec

\* Every cursor is none, an offset of at least 1 or one of compaction, and a walk that is
\* open has one to hand back (service.py:165-180).
THEOREM WalkTypeCorrect == Spec => []TypeOK
<1>1. PagesInv => TypeOK
  <2> SUFFICES ASSUME PagesInv PROVE TypeOK
    OBVIOUS
  <2>1. walk = [q \in Request |-> walk[q]] /\ build \in Build /\ setting \in Setting
    BY DEF PagesInv, BuildInv
  <2>2. \A q \in Request : walk[q] \in Walk
    BY DEF PagesInv, WalkIs
  <2>3. walk \in [Request -> Walk]
    BY <2>1, <2>2
  <2> QED
    BY <2>1, <2>3 DEF PagesInv, WalkIs, TypeOK
<1> QED
  BY <1>1, PagesAlways, PTL

\* The pages of a walk are the catalogue, all of it and in its order, for any evidence, any
\* page size and any search limit: whatever is removed from a page as a repetition, and
\* however the prefix and the ranking meet in one page, the next page starts where it
\* should, unless a search told of a shortfall, compaction dropped records, the server came
\* back with other packs, skills or reranker, the trace moved, or a page before the last
\* carried a lineage successor or a research record (service.py:1068-1109).
THEOREM PagesSkipNothing == Spec => []NothingSkipped
<1>1. PagesInv => NothingSkipped
  <2> SUFFICES ASSUME PagesInv PROVE NothingSkipped
    OBVIOUS
  <2>1. ASSUME NEW q \in Request, NEW b, b \in walk[q].builds
        PROVE  /\ Catalogue(q, walk[q].setting, b, walk[q].trace) \in Seq(Ref) /\ walk[q].served \in Seq(Ref)
               /\ walk[q].state # "idle"
    <3>1. /\ walk[q] \in Walk /\ (walk[q].state = "idle" => walk[q] = Unstarted)
          /\ walk[q].builds # {} => walk[q].setting \in Setting
      BY DEF PagesInv, WalkIs
    <3>2. /\ b \in Build /\ walk[q].setting \in Setting
          /\ walk[q].trace \in Seq(Ref) /\ walk[q].served \in Seq(Ref)
      BY <2>1, <3>1 DEF Walk
    <3>3. walk[q].state # "idle"
      BY <2>1, <3>1 DEF Unstarted
    <3> QED
      BY <3>2, <3>3, CatalogueTyped
  <2>2. EveryRecordShown
    <3> SUFFICES ASSUME NEW q \in Request, walk[q].state = "ended", walk[q].unusual = {},
                        NEW b, b \in walk[q].builds
                 PROVE  ToSet(Catalogue(q, walk[q].setting, b, walk[q].trace)) \subseteq ToSet(walk[q].served)
      BY DEF EveryRecordShown
    <3> DEFINE whole == Catalogue(q, walk[q].setting, b, walk[q].trace)
               served == walk[q].served
    <3>1. WalkIs(q, walk[q])
      BY DEF PagesInv
    <3>2. \A i \in 1..Len(whole) : whole[i] \in ToSet(served)
      BY <3>1 DEF WalkIs
    <3>3. whole \in Seq(Ref)
      BY <2>1
    <3> HIDE DEF whole, served
    <3>4. ToSet(whole) \subseteq ToSet(served)
      BY <3>2, <3>3, ToSetIs
    <3> QED
      BY <3>4 DEF whole, served
  <2>3. PagesConsecutive
    <3> SUFFICES ASSUME NEW q \in Request, NEW b, b \in walk[q].builds, walk[q].unusual = {},
                        NoRepetition(Catalogue(q, walk[q].setting, b, walk[q].trace))
                 PROVE  IF walk[q].state = "ended"
                          THEN IsPrefix(Catalogue(q, walk[q].setting, b, walk[q].trace), walk[q].served)
                          ELSE IsPrefix(walk[q].served, Catalogue(q, walk[q].setting, b, walk[q].trace))
      BY DEF PagesConsecutive
    <3>1. WalkIs(q, walk[q]) /\ walk[q] \in Walk
      BY DEF PagesInv, WalkIs
    <3>2. CASE walk[q].state = "ended"
      BY <3>1, <3>2 DEF WalkIs
    <3>3. CASE walk[q].state # "ended"
      <4>1. walk[q].state \in {"open", "refused", "abstained"} /\ walk[q].builds # {}
        BY <2>1, <3>1, <3>3 DEF Walk
      <4>2. /\ walk[q].cursor.kind = "offset"
            /\ UpTo(Catalogue(q, walk[q].setting, b, walk[q].trace), walk[q].cursor.offset, walk[q].served)
        BY <3>1, <4>1 DEF WalkIs
      <4>3. walk[q].cursor.offset \in Nat
        <5>1. walk[q].cursor \in Cursor
          BY <3>1 DEF Walk
        <5> QED
          BY <4>2, <5>1 DEF Cursor, NoCursor
      <4> QED
        BY <2>1, <3>3, <4>2, <4>3, UpToIsPrefix
    <3> QED
      BY <3>2, <3>3
  <2> QED
    BY <2>2, <2>3 DEF NothingSkipped
<1> QED
  BY <1>1, PagesAlways, PTL

\* `complete` on a first response means that nothing is missing from it: every record of the
\* prefix and of the ranking, and all the research (service.py:1119-1123).
THEOREM CompleteIsAll == Spec => []CompleteMeansAll
<1>1. PagesInv => CompleteMeansAll
  BY DEF PagesInv, WalkIs, CompleteMeansAll
<1> QED
  BY <1>1, PagesAlways, PTL

\* No cursor leads back to its own page, whatever changed between the calls: a page that says
\* there is more has shown a record, and the offset counts them (service.py:1102-1109).
THEOREM CursorsAdvance == Spec => CursorAdvances
<1> DEFINE Advances(q) ==
               (/\ walk'[q] # walk[q]
                /\ walk[q].state = "open"
                /\ walk'[q].state = "open"
                /\ walk'[q].cursor.kind = "offset")
               => /\ walk[q].cursor.kind = "offset"
                  /\ walk'[q].cursor.offset > walk[q].cursor.offset
<1>1. PagesInv /\ [Next]_vars => [\A q \in Request : Advances(q)]_vars
  <2> SUFFICES ASSUME PagesInv, [Next]_vars, NEW q \in Request,
                      walk'[q] # walk[q], walk[q].state = "open",
                      walk'[q].state = "open", walk'[q].cursor.kind = "offset"
               PROVE  /\ walk[q].cursor.kind = "offset"
                      /\ walk'[q].cursor.offset > walk[q].cursor.offset
    OBVIOUS
  <2>1. walk = [r \in Request |-> walk[r]]
    BY DEF PagesInv, BuildInv
  <2>2. NextPage(q)
    <3>1. CASE \E r \in Request : FirstPage(r)
      <4>1. PICK r \in Request : FirstPage(r)
        BY <3>1
      <4>2. \E page, outcome : walk' = [walk EXCEPT ![r] = Continued(r, 0, page, outcome)]
        BY <4>1 DEF FirstPage, Answer
      <4> QED
        BY <2>1, <4>1, <4>2 DEF FirstPage
    <3>2. CASE \E r \in Request : NextPage(r)
      <4>1. PICK r \in Request : NextPage(r)
        BY <3>2
      <4>2. PICK s \in Request : Answer(r, walk[s].cursor.offset)
        BY <4>1 DEF NextPage
      <4>3. \E page, outcome :
               walk' = [walk EXCEPT ![r] = Continued(r, walk[s].cursor.offset, page, outcome)]
        BY <4>2 DEF Answer
      <4> QED
        BY <2>1, <4>1, <4>3
    <3>3. CASE \E r \in Request : Refuse(r)
      <4>1. PICK r \in Request : Refuse(r)
        BY <3>3
      <4>2. walk' = [walk EXCEPT ![r].state = "refused"]
        BY <4>1 DEF Refuse
      <4>3. walk[q] \in Walk
        BY DEF PagesInv, WalkIs
      <4>4. r = q => walk'[q].state = "refused"
        BY <2>1, <4>2, <4>3 DEF Walk
      <4> QED
        BY <2>1, <4>2, <4>4
    <3>5. CASE \E r \in Request : Abstain(r)
      <4>1. PICK r \in Request : Abstain(r)
        BY <3>5
      <4>2. walk' = [walk EXCEPT ![r].state = "abstained"]
        BY <4>1 DEF Abstain
      <4>3. walk[q] \in Walk
        BY DEF PagesInv, WalkIs
      <4>4. r = q => walk'[q].state = "abstained"
        BY <2>1, <4>2, <4>3 DEF Walk
      <4> QED
        BY <2>1, <4>2, <4>4
    <3>4. CASE \/ \E b \in Build, s \in Setting : Restart(b, s)
               \/ \E r \in Request : \E t \in Traces[r] : RepositoryChanges(r, t)
               \/ UNCHANGED vars
      BY <3>4 DEF Restart, RepositoryChanges, vars
    <3> QED
      BY <3>1, <3>2, <3>3, <3>4, <3>5 DEF Next
  <2> DEFINE offset == walk[q].cursor.offset
  <2>3. /\ walk[q].cursor.kind = "offset" /\ offset \in Nat /\ Answer(q, offset)
        /\ build \in Build /\ setting \in Setting /\ trace[q] \in Traces[q]
    BY <2>2, NextPageAnswers DEF PagesInv, BuildInv
  <2> HIDE DEF offset
  <2>4. PICK page : \E outcome \in Outcomes(page) :
           /\ Promises(q, offset, page)
           /\ walk' = [walk EXCEPT ![q] = Continued(q, offset, page, outcome)]
    BY <2>3, AnswerIs
  <2>5. PICK outcome \in Outcomes(page) :
           /\ Promises(q, offset, page)
           /\ walk' = [walk EXCEPT ![q] = Continued(q, offset, page, outcome)]
    BY <2>4
  <2>6. walk'[q].cursor = NextCursor(q, offset, page, outcome)
    BY <2>1, <2>5 DEF Continued
  <2>7. page.more /\ walk'[q].cursor = OffsetCursor(q, offset + Len(page.evidence))
    BY <2>6 DEF NextCursor, NextOffset, CompactedCursor, NoCursor
  <2>8. walk'[q].cursor.offset = offset + Len(page.evidence)
    BY <2>7 DEF OffsetCursor
  <2>9. Len(page.evidence) >= 1 /\ page.evidence \in Seq(Ref)
    BY <2>5, <2>7 DEF Promises
  <2>10. Len(page.evidence) \in Nat
    BY <2>9
  <2> QED
    BY <2>3, <2>8, <2>9, <2>10 DEF offset
<1>2. Spec => [][\A q \in Request : Advances(q)]_vars
  BY <1>1, PagesAlways, PTL DEF Spec
<1> QED
  BY <1>2 DEF CursorAdvances
================================================================================
