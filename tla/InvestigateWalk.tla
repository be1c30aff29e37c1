---------------------------- MODULE InvestigateWalk -----------------------------
(***************************************************************************)
(* One client reads the answer of `investigate_work` page by page, handing *)
(* each next_cursor back (service.py, retrieval.py, context.py).           *)
(*                                                                         *)
(* The server keeps nothing between two calls: every page classifies,      *)
(* searches and assembles afresh, and the cursor is only an offset bound   *)
(* to the request and to the build of the snapshot.  What a page is made   *)
(* of can differ from what the page before it was made of: a search may    *)
(* run out of time or lose a leg, the code target's trace follows the git  *)
(* repository, the output budget may drop records, and the server may be   *)
(* restarted, over another generation or over the same one with other      *)
(* skills, packs or reranker.                                              *)
(***************************************************************************)
EXTENDS Integers, FiniteSets, SequencesExt, Lists

CONSTANTS
    Request,        \* distinct requests, each with one client walking it
    Build,          \* generations a server may be started over
    Setting,        \* what else a start can load: packs, skills, a reranker
    Ref,            \* evidence refs, numbered in their string order
    Gated,          \* [Setting -> SUBSET Request]: the router does not proceed
    Skills,         \* [Setting -> [Request -> Seq(Ref)]]: dispatched skills
    Traces,         \* [Request -> SUBSET Seq(Ref)]: what git can answer for its
                    \* code target: the governing decision, then its successors
    Capabilities,   \* [Setting -> [Request -> Seq(Ref)]]: matched capabilities
    Counterfactual, \* [Build -> [Request -> Seq(Ref)]]: a rejected alternative
    Ranked,         \* [Setting -> [Build -> [Request -> Seq(Ref)]]]: the ranking
    Degraded,       \* [... -> SUBSET Seq(Ref)]: the rankings of a search that
                    \* tells of a shortfall (deadline, embedder, reranker)
    Supersedes,     \* [Build -> Seq(Ref \X Ref)]: <<successor, predecessor>> rows
    Researched,     \* [Request -> Seq(Ref)]: live research, the same on each page
    MaxEvidence,    \* [Request -> 1..]: max_evidence
    SearchLimit,    \* [Request -> 1..]: matches one search may return
    OutputFits,     \* TRUE: no page exceeds max_output_chars
    None            \* no setting

ASSUME InvestigateWalkAssumption ==
    /\ Ref \subseteq Nat
    /\ Gated \in [Setting -> SUBSET Request]
    /\ Skills \in [Setting -> [Request -> Seq(Ref)]]
    /\ Capabilities \in [Setting -> [Request -> Seq(Ref)]]
    /\ Researched \in [Request -> Seq(Ref)]
    /\ \A q \in Request : Traces[q] \subseteq Seq(Ref) /\ Traces[q] # {}
    /\ Counterfactual \in [Build -> [Request -> Seq(Ref)]]
    /\ Ranked \in [Setting -> [Build -> [Request -> Seq(Ref)]]]
    /\ \A s \in Setting, b \in Build, q \in Request : Degraded[s][b][q] \subseteq Seq(Ref)
    \* The ref of a live record is none of a passage (fetch.py:439).
    /\ \A s \in Setting, b \in Build, q \in Request :
           ToSet(Researched[q]) \cap ToSet(Ranked[s][b][q]) = {}
    /\ Supersedes \in [Build -> Seq(Ref \X Ref)]
    /\ MaxEvidence \in [Request -> Nat \ {0}]
    /\ SearchLimit \in [Request -> Nat \ {0}]
    /\ OutputFits \in BOOLEAN

VARIABLES
    build,   \* the generation the running server serves
    setting, \* what else it was started with
    trace,   \* [Request -> what git answers now]
    walk     \* [Request -> the client's walk]

vars == <<build, setting, trace, walk>>

--------------------------------------------------------------------------------
(* Pages *)

Take(s, n) == SubSeq(s, 1, IF n < Len(s) THEN n ELSE Len(s))
Skip(s, n) == SubSeq(s, n + 1, Len(s))

\* [x for x in s if x not in refs]
Without(s, refs) == Among(s, ToSet(s) \ refs)

\* prefix_evidence: everything that precedes the search results.
Prefix(s, b, q, t) == Skills[s][q] \o t \o Capabilities[s][q] \o Counterfactual[b][q]

\* _apply_lineage: the rows whose predecessor was found ...
Superseding(found) == {row \in ToSet(Supersedes[build]) : row[2] \in found}

\* ... add their successors, each once, in the order of the rows.
Successors(found) ==
    LET rows == Supersedes[build]
        Adds(i) == rows[i][2] \in found /\ rows[i][1] \notin found
        new == Among([i \in DOMAIN rows |-> i],
                     {i \in DOMAIN rows : /\ Adds(i)
                                          /\ \A j \in 1..(i - 1) :
                                               Adds(j) => rows[j][1] # rows[i][1]})
    IN  [k \in DOMAIN new |-> rows[new[k]][1]]

\* Refs a claim or the assessment cites; compaction never drops these.
Cited(q, found) ==
    UNION {{row[1], row[2]} : row \in Superseding(found)}
        \union ToSet(trace[q]) \union ToSet(Counterfactual[build][q])

\* Fault: the prefix is not subtracted.
LocalOffsetUnshifted(q, offset) ==
    IF offset < Len(Prefix(setting, build, q, trace[q])) THEN 0 ELSE offset

\* Where the search resumes: past the prefix, counted in search results.
LocalOffset(q, offset) ==
    LET count == Len(Prefix(setting, build, q, trace[q])) IN
    IF offset < count THEN 0 ELSE offset - count

\* What SearchService.search may return from `offset` on: the ranking, or what a
\* deadline, a failing embedder or a failing reranker makes of it on this call.
Searches(q, offset) ==
    LET whole == Ranked[setting][build][q] IN
    {[matches |-> Take(Skip(ordered, offset), SearchLimit[q]),
      truncated |-> Len(ordered) - offset > SearchLimit[q],
      degraded |-> ordered # whole] :
        ordered \in {whole} \union Degraded[setting][build][q]}

\* The slice of the prefix a page shows, and what it could show of a search:
\* the matches with their lineage, less what the slice shows already.
Shown(q, offset) == Take(Skip(Prefix(setting, build, q, trace[q]), offset), MaxEvidence[q])
Local(search, shown) ==
    Without(search.matches \o Successors(ToSet(search.matches)), ToSet(shown))

\* Fault: a page that ends where the prefix ends counts as inside it.
HasMoreAtPrefixEnd(prefixLeft, localLeft, truncated, researchLeft) ==
    prefixLeft >= 0 \/ localLeft > 0 \/ truncated \/ researchLeft > 0

\* has_more, from how many records the page leaves behind.
HasMore(prefixLeft, localLeft, truncated, researchLeft) ==
    prefixLeft > 0 \/ localLeft > 0 \/ truncated \/ researchLeft > 0

\* The page of InvestigateService._proceed at `offset`.
Page(q, offset, shown, search, local, research) ==
    LET shownLocal == Take(local, MaxEvidence[q] - Len(shown))
        shownResearch == Take(research, MaxEvidence[q] - Len(shown) - Len(shownLocal))
    IN  [evidence |-> shown \o shownLocal \o shownResearch,
         extra |-> ToSet(shownLocal \o shownResearch) \ ToSet(search.matches),
         cited |-> Cited(q, ToSet(search.matches)),
         more |-> HasMore(Len(Prefix(setting, build, q, trace[q])) - offset - Len(shown),
                          Len(local) - Len(shownLocal),
                          search.truncated,
                          Len(research) - Len(shownResearch)),
         degraded |-> search.degraded,
         failed |-> research # Researched[q]]

NextOffset(offset, page) == offset + Len(page.evidence)

--------------------------------------------------------------------------------
(* compact_to_budget *)

Droppable(page) == ToSet(page.evidence) \ page.cited

\* The `n` droppable refs that come last in string order.
LastDroppable(page, n) ==
    {r \in Droppable(page) : Cardinality({s \in Droppable(page) : s > r}) < n}

\* How a page can leave compaction: how many refs were dropped, and whether it
\* is still over the budget, which happens only once nothing is left to drop.
Outcomes(page) ==
    IF OutputFits THEN {[dropped |-> 0, unmet |-> FALSE]}
    ELSE {o \in [dropped : 0..Cardinality(Droppable(page)), unmet : BOOLEAN] :
            o.unmet => o.dropped = Cardinality(Droppable(page))}

--------------------------------------------------------------------------------
(* Cursors *)

NoCursor == [kind |-> "none"]
OffsetCursor(q, offset) ==
    [kind |-> "offset", request |-> q, build |-> build, offset |-> offset]
CompactedCursor(q, dropped) ==
    [kind |-> "ctx-compacted", request |-> q, dropped |-> dropped]

\* Fault: the build is not compared.
AcceptsAnyBuild(q, cursor) ==
    cursor.kind = "offset" /\ cursor.request = q /\ cursor.offset >= 1

\* Fault: the request is not compared.
AcceptsAnyRequest(q, cursor) ==
    cursor.kind = "offset" /\ cursor.build = build /\ cursor.offset >= 1

\* _decode_investigate_cursor does not raise invalid_cursor.
Accepts(q, cursor) ==
    /\ cursor.kind = "offset"
    /\ cursor.request = q
    /\ cursor.build = build
    /\ cursor.offset >= 1

\* Compaction replaces the cursor of the page.
NextCursor(q, offset, page, outcome) ==
    IF outcome.dropped > 0 THEN CompactedCursor(q, outcome.dropped)
    ELSE IF page.more THEN OffsetCursor(q, NextOffset(offset, page))
    ELSE NoCursor

\* Fault: the shortfall of a search is not counted.
CompleteDegraded(page, outcome) ==
    ~page.more /\ ~page.failed /\ outcome.dropped = 0 /\ ~outcome.unmet

\* Nothing truncated, no shortfall in `degradation`.  The shortfalls left out (a
\* leg with no matches, a code target git cannot answer for) only make fewer
\* responses `complete`.
Complete(page, outcome) ==
    /\ ~page.more
    /\ ~page.degraded
    /\ ~page.failed
    /\ outcome.dropped = 0
    /\ ~outcome.unmet

--------------------------------------------------------------------------------
(* Behaviour *)

Unstarted ==
    [state |-> "idle", cursor |-> NoCursor, served |-> <<>>, builds |-> {},
     setting |-> None, trace |-> <<>>, unusual |-> {}, single |-> FALSE, complete |-> FALSE]

Init ==
    /\ build \in Build
    /\ setting \in Setting
    /\ trace \in [Request -> UNION {Traces[q] : q \in Request}]
    /\ \A q \in Request : trace[q] \in Traces[q]
    /\ walk = [q \in Request |-> Unstarted]

\* What happened on this page that a walk cannot be exact after.
Unusual(q, page, outcome) ==
    {event \in {"degraded", "compacted", "reloaded", "moved", "extra"} :
        \/ event = "degraded" /\ page.degraded
        \/ event = "compacted" /\ outcome.dropped > 0
        \/ event = "reloaded" /\ walk[q].state = "open" /\ setting # walk[q].setting
        \/ event = "moved" /\ walk[q].state = "open" /\ trace[q] # walk[q].trace
        \/ event = "extra" /\ page.more /\ page.extra # {}}

\* The walk after that page.
Continued(q, offset, page, outcome) ==
    LET next == NextCursor(q, offset, page, outcome) IN
    [state |-> IF next = NoCursor THEN "ended" ELSE "open",
     cursor |-> next,
     served |-> walk[q].served
                    \o Without(page.evidence, LastDroppable(page, outcome.dropped)),
     builds |-> walk[q].builds \union {build},
     setting |-> IF walk[q].state = "idle" THEN setting ELSE walk[q].setting,
     trace |-> IF walk[q].state = "idle" THEN trace[q] ELSE walk[q].trace,
     unusual |-> walk[q].unusual \union Unusual(q, page, outcome),
     single |-> walk[q].state = "idle",
     complete |-> Complete(page, outcome)]

\* One call: the search is degraded or not, the research fails or not.
Answer(q, offset) ==
    \E shown \in {Shown(q, offset)}, search \in Searches(q, LocalOffset(q, offset)) :
        \E local \in {Local(search, shown)}, research \in {Researched[q], <<>>} :
            \E page \in {Page(q, offset, shown, search, local, research)} :
                \E outcome \in Outcomes(page) :
                    walk' = [walk EXCEPT ![q] = Continued(q, offset, page, outcome)]

FirstPage(q) ==
    /\ walk[q].state = "idle"
    /\ q \notin Gated[setting]
    /\ UNCHANGED <<build, setting, trace>>
    /\ Answer(q, 0)

\* The client passes a cursor it was given, by mistake perhaps for another request.
NextPage(q) ==
    /\ walk[q].state = "open"
    /\ q \notin Gated[setting]
    /\ UNCHANGED <<build, setting, trace>>
    /\ \E cursor \in {walk[p].cursor : p \in Request} :
        /\ Accepts(q, cursor)
        /\ Answer(q, cursor.offset)

\* ServiceError("invalid_cursor"): the walk cannot go on.
Refuse(q) ==
    /\ walk[q].state = "open"
    /\ ~Accepts(q, walk[q].cursor)
    /\ walk' = [walk EXCEPT ![q].state = "refused"]
    /\ UNCHANGED <<build, setting, trace>>

\* The router answers, without evidence and without a cursor: a pack of the
\* request's domain has lapsed by the time the server was started, say.
Abstain(q) ==
    /\ \/ walk[q].state = "idle"
       \/ walk[q].state = "open" /\ Accepts(q, walk[q].cursor)
    /\ q \in Gated[setting]
    /\ walk' = [walk EXCEPT ![q].state = "abstained"]
    /\ UNCHANGED <<build, setting, trace>>

\* The server is started again, over the generation that is active by then and
\* with the packs, the skills and the reranker of that start.
Restart(b, s) ==
    /\ <<b, s>> # <<build, setting>>
    /\ build' = b
    /\ setting' = s
    /\ UNCHANGED <<trace, walk>>

\* A commit, or an edit, changes who governs the code target.
RepositoryChanges(q, t) ==
    /\ t # trace[q]
    /\ trace' = [trace EXCEPT ![q] = t]
    /\ UNCHANGED <<build, setting, walk>>

Step(q) == FirstPage(q) \/ NextPage(q) \/ Refuse(q) \/ Abstain(q)

Next ==
    \/ \E q \in Request : FirstPage(q) \/ NextPage(q) \/ Refuse(q) \/ Abstain(q)
    \/ \E b \in Build, s \in Setting : Restart(b, s)
    \/ \E q \in Request : \E t \in Traces[q] : RepositoryChanges(q, t)

Spec == Init /\ [][Next]_vars

\* The client keeps handing the cursor back.
FairSpec == Spec /\ \A q \in Request : WF_vars(Step(q))

--------------------------------------------------------------------------------
(* Properties *)

Cursor ==
    {NoCursor}
        \union [kind : {"offset"}, request : Request, build : Build, offset : Nat \ {0}]
        \union [kind : {"ctx-compacted"}, request : Request, dropped : Nat \ {0}]

Walk ==
    [state : {"idle", "open", "ended", "refused", "abstained"}, cursor : Cursor,
     served : Seq(Ref), builds : SUBSET Build,
     setting : Setting \union {None}, trace : Seq(Ref),
     unusual : SUBSET {"degraded", "compacted", "reloaded", "moved", "extra"},
     single : BOOLEAN, complete : BOOLEAN]

\* Types; a cursor handed out is never the position of the first page, which
\* _decode_investigate_cursor would refuse, and an open walk has a cursor.
TypeOK ==
    /\ build \in Build
    /\ setting \in Setting
    /\ \A q \in Request : trace[q] \in Traces[q]
    /\ walk \in [Request -> Walk]
    /\ \A q \in Request : walk[q].state = "open" => walk[q].cursor # NoCursor

\* The records the request asks for: the prefix, then the ranking.
Catalogue(q, s, b, t) == Prefix(s, b, q, t) \o Ranked[s][b][q]

\* A walk that ended has shown every record of the prefix and of the ranking,
\* whatever was removed from a page as a repetition, unless a search told of a
\* shortfall that changed its ranking, compaction dropped records, the server
\* was restarted with other packs, skills or reranker, the trace moved, or a page
\* that was not the last carried a lineage successor or a research record.
EveryRecordShown ==
    \A q \in Request :
        walk[q].state = "ended" /\ walk[q].unusual = {} =>
            \A b \in walk[q].builds :
                ToSet(Catalogue(q, walk[q].setting, b, walk[q].trace)) \subseteq ToSet(walk[q].served)

NoRepetition(s) == \A i, j \in DOMAIN s : s[i] = s[j] => i = j

\* With the same exceptions, and no passage both in the prefix and in the
\* ranking, the pages are consecutive slices of the catalogue: nothing is
\* dropped, repeated or reordered; extra records come after the last one.
PagesConsecutive ==
    \A q \in Request : \A b \in walk[q].builds :
        LET whole == Catalogue(q, walk[q].setting, b, walk[q].trace) IN
        walk[q].unusual = {} /\ NoRepetition(whole) =>
            IF walk[q].state = "ended" THEN IsPrefix(whole, walk[q].served)
            ELSE IsPrefix(walk[q].served, whole)

\* The pages of a walk are the catalogue: all of it, and in its order.
NothingSkipped == EveryRecordShown /\ PagesConsecutive

\* No walk mixes records of two generations, although the server restarts
\* between pages and a build may come back.
OneBuildPerWalk == \A q \in Request : Cardinality(walk[q].builds) <= 1

\* A single response that says `complete` holds everything there is, with its
\* lineage successors and research.
CompleteMeansAll ==
    \A q \in Request :
        walk[q].single /\ walk[q].complete =>
            \A b \in walk[q].builds :
                ToSet(Catalogue(q, walk[q].setting, b, walk[q].trace) \o Researched[q])
                    \subseteq ToSet(walk[q].served)

\* Every page that can be continued lies strictly further on, whatever changed
\* between the calls: no cursor leads back to its own page.
CursorAdvances ==
    [][\A q \in Request :
        (/\ walk'[q] # walk[q]
         /\ walk[q].state = "open"
         /\ walk'[q].state = "open"
         /\ walk'[q].cursor.kind = "offset")
        => /\ walk[q].cursor.kind = "offset"
           /\ walk'[q].cursor.offset > walk[q].cursor.offset]_vars

\* A client that keeps following the cursor comes to an end.
WalkEnds == \A q \in Request : <>(walk[q].state \in {"ended", "refused", "abstained"})

\* "Slicing across pages must never drop evidence" (odd/tasks/
\* investigate-cursor-pagination.md:9), here with nothing that changes between
\* the pages and no record dropped for the output budget.
PagesDropNothing ==
    \A q \in Request :
        walk[q].state = "ended" =>
            \A b \in walk[q].builds :
                ToSet(Catalogue(q, walk[q].setting, b, walk[q].trace)) \subseteq ToSet(walk[q].served)
--------------------------------------------------------------------------------
(* The inductive invariants: behind OneBuildPerWalk ...                     *)

\* A walk is a record of these fields, whatever they hold.
WholeWalk(w) ==
    w = [state |-> w.state, cursor |-> w.cursor, served |-> w.served,
         builds |-> w.builds, setting |-> w.setting, trace |-> w.trace,
         unusual |-> w.unusual,
         single |-> w.single, complete |-> w.complete]

\* A cursor names its own request and the build of every page shown so far.
CursorsBound ==
    \A q \in Request :
        walk[q].cursor.kind = "offset" =>
            /\ walk[q].cursor.request = q
            /\ walk[q].builds = {walk[q].cursor.build}

\* Nothing is shown before the first page, and all of one build after it.
BuildsOfOne ==
    \A q \in Request :
        IF walk[q].state = "idle" THEN walk[q].builds = {}
        ELSE \/ walk[q].state = "abstained" /\ walk[q].builds = {}
             \/ \E b \in Build : walk[q].builds = {b}

BuildInv ==
    /\ build \in Build
    /\ setting \in Setting
    /\ walk = [q \in Request |-> walk[q]]
    /\ \A q \in Request : WholeWalk(walk[q])
    /\ CursorsBound
    /\ BuildsOfOne

\* ... and behind the pages.  What a walk has shown is the catalogue up to its cursor:
UpTo(whole, from, served) ==
    /\ from <= Len(whole)
    /\ \A i \in 1..from : whole[i] \in ToSet(served)
    /\ NoRepetition(whole) => served = SubSeq(whole, 1, from)

\* so it is as long as it is open, all of it once it ended, and all with the research when
\* a single response is complete.
WalkIs(q, w) ==
    /\ w \in Walk
    /\ w.state = "open" => w.cursor # NoCursor
    /\ w.state = "idle" => w = Unstarted
    /\ w.builds # {} => w.setting \in Setting
    /\ w.state \in {"open", "refused", "abstained"} /\ w.unusual = {} /\ w.builds # {} =>
          /\ w.cursor.kind = "offset"
          /\ \A b \in w.builds : UpTo(Catalogue(q, w.setting, b, w.trace), w.cursor.offset, w.served)
    /\ w.state = "ended" /\ w.unusual = {} =>
          \A b \in w.builds : LET whole == Catalogue(q, w.setting, b, w.trace) IN
              /\ \A i \in 1..Len(whole) : whole[i] \in ToSet(w.served)
              /\ NoRepetition(whole) => IsPrefix(whole, w.served)
    /\ w.single /\ w.complete =>
          \A b \in w.builds :
              ToSet(Catalogue(q, w.setting, b, w.trace) \o Researched[q]) \subseteq ToSet(w.served)

PagesInv == BuildInv /\ \A q \in Request : trace[q] \in Traces[q] /\ WalkIs(q, walk[q])
================================================================================
