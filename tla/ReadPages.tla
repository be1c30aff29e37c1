-------------------------------- MODULE ReadPages ------------------------------
(***************************************************************************)
(* read_evidence: the refs of a request are resolved one after another and *)
(* cut into windows under one output budget; every item that is cut short  *)
(* has a cursor (service.py: ReadService.read and what it calls, and the   *)
(* queries of repository.py behind it).                                    *)
(*                                                                         *)
(* The server keeps nothing between calls.  The client may follow any      *)
(* cursor it was ever given, with any of its requests, while the server is *)
(* restarted over other material and cached pages expire.                  *)
(***************************************************************************)
EXTENDS Integers, Sequences, FiniteSets

CONSTANTS
    Request,    \* [refs, range, cap, output]: range is a function on the refs, to
                \* <<first, last>> or <<>>, cap is max_extracted_chars, output is
                \* max_output_chars
    Material    \* [passages, capabilities, alternatives, premises, skills, research,
                \* cached]: what a server resolves refs against

VARIABLES
    server,     \* the material of the running server
    expired,    \* the live refs whose cache entries have expired
    cursors,    \* the cursors the client holds
    seen,       \* history: [Request -> the windows it was given, with their texts]
    page        \* the last answer

readVars == <<server, expired, cursors, seen, page>>

NoCursor == [request |-> "none"]
NoPage == [status |-> "none"]

Min2(a, b) == IF a < b THEN a ELSE b
RefsOf(q) == {q.refs[i] : i \in DOMAIN q.refs}

--------------------------------------------------------------------------------
(* Resolution: a ref is [kind, key, version], a text [id, length] *)

Missing == [status |-> "missing_ref"]
Found(text) == [status |-> "found", text |-> text]

Lookup(table, r) == IF r.key \in DOMAIN table THEN Found(table[r.key]) ELSE Missing

Passage(r) == Lookup(server.passages, r)
Capability(r) == Lookup(server.capabilities, r)

\* The alternative or premise whose recomputed ref this is.
Alternative(r) == Lookup(server.alternatives, r)
Premise(r) == Lookup(server.premises, r)

\* The active set carries the skill, and in this version.
Skill(r) ==
    IF r.key \in DOMAIN server.skills /\ server.skills[r.key].version = r.version
    THEN Found(server.skills[r.key].text) ELSE Missing

\* A cached page is there if research is configured and its entry has not expired.
Live(r) ==
    IF ~server.research THEN Missing
    ELSE IF r \in expired THEN [status |-> "expired_ref"] ELSE Lookup(server.cached, r)

Resolve(r) ==
    CASE r.kind = "skill"       -> Skill(r)
      [] r.kind = "capability"  -> Capability(r)
      [] r.kind = "live"        -> Live(r)
      [] r.kind = "alternative" -> Alternative(r)
      [] r.kind = "premise"     -> Premise(r)
      [] OTHER                  -> Passage(r)

--------------------------------------------------------------------------------
(* _window_text *)

\* What the request wants of a text: where it starts, and where it ends.
WantedStart(q, r) == IF q.range[r] # <<>> THEN q.range[r][1] ELSE 1
WantedEnd(q, r, text) ==
    IF q.range[r] # <<>> THEN Min2(q.range[r][2], text.length) ELSE text.length

Room(q, remaining) == IF remaining > 0 THEN Min2(q.cap, remaining) ELSE 0

\* The last character of the window that starts at `start`, start - 1 if it is empty.
WindowEnd(q, r, text, start, remaining) ==
    LET wanted == WantedEnd(q, r, text) IN
    IF wanted < start THEN start - 1 ELSE Min2(wanted, start - 1 + Room(q, remaining))

\* Fault: a cut item resumes at its last character plus what was asked of it.
ResumeAfterCap(q, item) == item.start + q.cap

\* next_cursor of a truncated item.
Resume(q, item) == item.end + 1

--------------------------------------------------------------------------------
(* ReadService.read *)

\* The item of one ref, read from the cursor's position if the cursor names it.
Item(q, r, cursor, remaining) ==
    LET found == Resolve(r)
        start == IF cursor # NoCursor /\ cursor.ref = r THEN cursor.start ELSE WantedStart(q, r)
        end == WindowEnd(q, r, found.text, start, remaining)
    IN  IF found.status # "found" THEN [ref |-> r, status |-> found.status]
        ELSE IF start \notin 1..found.text.length THEN [ref |-> r, status |-> "invalid_range"]
        ELSE [ref |-> r, status |-> "ok", text |-> found.text, start |-> start, end |-> end,
              truncated |-> end < WantedEnd(q, r, found.text)]

Length(item) == IF item.status = "ok" THEN item.end + 1 - item.start ELSE 0

\* The items of a page in the order of the refs, and what is left after each.
Items(q, cursor) ==
    LET step[i \in 0..Len(q.refs)] ==
            IF i = 0 THEN [items |-> <<>>, remaining |-> q.output]
            ELSE LET before == step[i - 1]
                     item == Item(q, q.refs[i], cursor, before.remaining)
                 IN  [items |-> Append(before.items, item),
                      remaining |-> before.remaining - Length(item)]
    IN  step[Len(q.refs)].items

\* Fault: whose cursor it is is not asked.
AcceptsAnyRequest(q, cursor) == cursor # NoCursor => cursor.ref \in RefsOf(q)

Accepts(q, cursor) == cursor # NoCursor => (cursor.request = q /\ cursor.ref \in RefsOf(q))

\* The cursors of a page; the one of the result is that of its first cut item.
CursorsOf(q, items) ==
    {[request |-> q, ref |-> items[i].ref, start |-> Resume(q, items[i])]
        : i \in {j \in DOMAIN items : items[j].status = "ok" /\ items[j].truncated}}

Init ==
    /\ server \in Material
    /\ expired = {}
    /\ cursors = {}
    /\ seen = [q \in Request |-> {}]
    /\ page = NoPage

Read(q, cursor) ==
    /\ Accepts(q, cursor)
    /\ LET items == Items(q, cursor)
           ok == {items[i] : i \in {j \in DOMAIN items : items[j].status = "ok"}}
       IN  /\ page' = [status |-> "ok", request |-> q, items |-> items]
           /\ cursors' = cursors \cup CursorsOf(q, items)
           /\ seen' = [seen EXCEPT ![q] = @ \cup
                {[ref |-> w.ref, text |-> w.text, start |-> w.start, end |-> w.end] : w \in ok}]
    /\ UNCHANGED <<server, expired>>

\* invalid_cursor.
Refuse(q, cursor) ==
    /\ ~Accepts(q, cursor)
    /\ page' = [status |-> "invalid_cursor"]
    /\ UNCHANGED <<server, expired, cursors, seen>>

\* A server is started over another generation, another skill set or no cache.
Restart(m) ==
    /\ server' = m
    /\ UNCHANGED <<expired, cursors, seen, page>>

Expire(r) ==
    /\ r.kind = "live" /\ r \notin expired
    /\ expired' = expired \cup {r}
    /\ UNCHANGED <<server, cursors, seen, page>>

Next ==
    \/ \E q \in Request, c \in cursors \cup {NoCursor} : Read(q, c) \/ Refuse(q, c)
    \/ \E m \in Material : Restart(m)
    \/ \E q \in Request : \E r \in RefsOf(q) : Expire(r)

Spec == Init /\ [][Next]_readVars

--------------------------------------------------------------------------------
(* Properties *)

\* Whichever cursors the client follows and in whatever order, what it has of a
\* text begins where the request's range begins, has no hole, and stays inside the
\* range.  (Only a text that a restart replaced under the same ref is exempt.)
WindowsTile ==
    \A q \in Request : \A w \in seen[q] :
        LET same == {v \in seen[q] : v.ref = w.ref /\ v.text = w.text}
            held == UNION {v.start..v.end : v \in same}
        IN  (\A v \in seen[q] : v.ref = w.ref => v.text = w.text) =>
                /\ held \subseteq WantedStart(q, w.ref)..WantedEnd(q, w.ref, w.text)
                /\ \A n \in WantedStart(q, w.ref)..w.end : n \in held

--------------------------------------------------------------------------------
(* The inductive invariant *)

\* A window lies in its range, or is empty.
Windowed ==
    \A q \in Request : \A w \in seen[q] :
        /\ w.ref \in RefsOf(q) /\ w.text.length \in Nat
        /\ w.start \in Int /\ WantedStart(q, w.ref) <= w.start
        /\ w.end \in Int /\ w.start - 1 <= w.end
        /\ w.start <= w.end => w.end <= WantedEnd(q, w.ref, w.text)

\* A cursor names a request and resumes one of its windows.
Resumes ==
    \A c \in cursors :
        /\ c.request \in Request
        /\ \E w \in seen[c.request] : w.ref = c.ref /\ c.start = w.end + 1

IInv ==
    /\ server \in Material /\ seen = [q \in Request |-> seen[q]]
    /\ Windowed /\ Resumes /\ WindowsTile
================================================================================
