------------------------------- MODULE Decisions -------------------------------
(***************************************************************************)
(* What the documents of a corpus say about decisions, how an index build  *)
(* turns it into tables, and what the readers of those tables answer:      *)
(* lineage (which decision replaced which), premises and the alternatives  *)
(* they rejected (index.py, repository.py, why.py, drift.py, impact.py,    *)
(* guard.py, brief.py, and the parts of service.py that present decisions  *)
(* as evidence).                                                           *)
(*                                                                         *)
(* The corpus changes one document at a time, and a build reads all of it: *)
(* an edit is a removal and another document.  Queries change nothing, so  *)
(* they are operators on the index.                                        *)
(***************************************************************************)
EXTENDS Integers, Sequences, FiniteSets

CONSTANTS
    Library,    \* documents, in the order of their paths: [commit, names, tier,
                \* issue, links, premises, invalidates, alternatives, files]
    RefRank,    \* [DOMAIN Library -> 1..]: the order of their document_refs
    Resembles,  \* [target -> documents with a key that starts like the target,
                \* or that the target starts with], none for targets under 7
    LogOf,      \* [file -> Seq(commit)]: the commits of the line, of its log and
                \* of the file's log, in the order they are tried
    Found,      \* sets of passages <<document, n>> a search may find
    Tasks       \* sets of alternatives' names a task may mention, as numbers

VARIABLES
    corpus,     \* the documents on disk
    index       \* the tables of the active build

decisionVars == <<corpus, index>>

Doc == DOMAIN Library
NoDoc == 0
NoCommit == "none"

Lowest(S) == CHOOSE n \in S : \A k \in S : n <= k
Highest(S) == CHOOSE n \in S : \A k \in S : k <= n
LowestRef(S) == CHOOSE d \in S : \A e \in S : RefRank[d] <= RefRank[e]

--------------------------------------------------------------------------------
(* Lineage *)

\* The keys of the lookup: the path, its name and stem, the commit and its
\* prefixes.
Called(d, t) == t \in Library[d].names \/ t = Library[d].commit

\* The last document that answers to the target, or else the first whose key
\* resembles it.
Predecessor(docs, t) ==
    LET exact == {d \in docs : Called(d, t)}
        alike == Resembles[t] \cap docs
    IN  IF exact # {} THEN Highest(exact) ELSE IF alike # {} THEN Lowest(alike) ELSE NoDoc

\* Fault: targets are looked up while the lookup is being filled.
EarlierPredecessors(docs) ==
    UNION {{[succ |-> d, target |-> l.target, relation |-> l.relation,
             pred |-> Predecessor({e \in docs : e < d}, l.target)]
            : l \in Library[d].links} : d \in docs}

\* _build_lineage_records.
Lineage(docs) ==
    UNION {{[succ |-> d, target |-> l.target, relation |-> l.relation,
             pred |-> Predecessor(docs, l.target)]
            : l \in Library[d].links} : d \in docs}

\* _detect_lineage_cycles: some decisions each supersede one of them.
Cyclic(rows) ==
    \E S \in (SUBSET {r.succ : r \in rows}) \ {{}} :
        \A d \in S : \E r \in rows :
            r.relation = "supersedes" /\ r.succ = d /\ r.pred \in S

--------------------------------------------------------------------------------
(* Premises and alternatives *)

\* Where a document declares the premise.
Declarations(docs, p) ==
    {x \in UNION {{<<d, i>> : i \in DOMAIN Library[d].premises} : d \in docs} :
        Library[x[1]].premises[x[2]].id = p}

OfTier(tier, S) == {x \in S : Library[x[1]].tier = tier}

\* The declaration that counts: the repository's, or of GitHub's the one of the
\* lowest issue, then of the first document.
Declaration(docs, p) ==
    LET repository == OfTier("repository", Declarations(docs, p))
        before(x, y) ==
            \/ Library[x[1]].issue < Library[y[1]].issue
            \/ /\ Library[x[1]].issue = Library[y[1]].issue
               /\ x[1] < y[1] \/ (x[1] = y[1] /\ x[2] <= y[2])
        candidates == IF repository # {} THEN repository ELSE Declarations(docs, p)
    IN  CHOOSE x \in candidates : \A y \in candidates : before(x, y)

\* Fault: GitHub may invalidate whatever it names.
AnyInvalidator(docs, p) == {d \in docs : p \in Library[d].invalidates}

\* The documents whose invalidation counts.
Invalidators(docs, p) ==
    {d \in docs :
        /\ p \in Library[d].invalidates
        /\ Library[d].tier = "repository" \/ OfTier("repository", Declarations(docs, p)) = {}}

\* The declaration of a premise, and what later documents made of it; a premise
\* that is only invalidated has the first document that does so.
Premise(docs, p) ==
    LET by == Invalidators(docs, p)
        declared == Declarations(docs, p) # {}
        x == Declaration(docs, p)
    IN  [status |-> IF by # {} THEN "invalidated" ELSE Library[x[1]].premises[x[2]].status,
         doc |-> IF declared THEN x[1] ELSE Lowest(by),
         invalidation |-> IF by # {} THEN Highest(by) ELSE NoDoc]

PremiseIds(docs) ==
    (UNION {{Library[d].premises[i].id : i \in DOMAIN Library[d].premises} : d \in docs})
        \cup (UNION {{p \in Library[d].invalidates : Invalidators(docs, p) # {}} : d \in docs})

\* duplicate_premise_id, duplicate_alternative_name.
Duplicated(docs) ==
    \/ \E p \in PremiseIds(docs) :
        Cardinality(OfTier("repository", Declarations(docs, p))) > 1
    \/ \E d \in docs : \E i, j \in DOMAIN Library[d].alternatives :
        i < j /\ Library[d].alternatives[i].name = Library[d].alternatives[j].name

--------------------------------------------------------------------------------
(* The corpus and its builds *)

NoIndex == [docs |-> {}, lineage |-> {}, premises |-> <<>>]

Tables(docs) ==
    [docs |-> docs, lineage |-> Lineage(docs),
     premises |-> [p \in PremiseIds(docs) |-> Premise(docs, p)]]

Init == corpus = {} /\ index = NoIndex

Write(d) ==
    /\ d \notin corpus
    /\ corpus' = corpus \cup {d}
    /\ UNCHANGED index

Remove(d) ==
    /\ d \in corpus
    /\ corpus' = corpus \ {d}
    /\ UNCHANGED index

\* build_candidate from the documents to the tables; a build that raises leaves
\* the active one.
Build ==
    /\ corpus # {}
    /\ ~Cyclic(Lineage(corpus))
    /\ ~Duplicated(corpus)
    /\ index' = Tables(corpus)
    /\ UNCHANGED corpus

Next == Build \/ \E d \in Doc : Write(d) \/ Remove(d)

Spec == Init /\ [][Next]_decisionVars

--------------------------------------------------------------------------------
(* _apply_lineage: what a search found, with its lineage *)

DocsOf(found) == {x[1] : x \in found}

By(d, relations) == {r \in index.lineage : r.succ = d /\ r.relation \in relations}
Onto(d, relations) == {r \in index.lineage : r.pred = d /\ r.relation \in relations}

\* get_lineage_relations returns the rows of the found predecessors first, by
\* predecessor, then those that only their successor brought: a row of d as a
\* successor comes after all its rows as a predecessor.
CrownedLast(docs, d) ==
    \E r \in By(d, {"supersedes"}) : r.pred \notin docs \/ RefRank[r.pred] > RefRank[d]

\* The last row to say so decides.
Freshness(docs, d) ==
    LET outdated == Onto(d, {"supersedes", "deprecates"}) # {}
        crowned == By(d, {"supersedes"}) # {}
    IN  IF CrownedLast(docs, d) \/ (crowned /\ ~outdated) THEN "current"
        ELSE IF outdated THEN "stale" ELSE "unknown"

Conflict(docs, d) ==
    LET superseded == Onto(d, {"supersedes"}) # {}
        crowned == By(d, {"supersedes"}) # {}
    IN  IF CrownedLast(docs, d) \/ (crowned /\ ~superseded) THEN "none"
        ELSE IF superseded THEN "declared" ELSE "unknown"

\* Fault: only where the search found both.
SupersedingFound(found) ==
    {r \in index.lineage : r.relation = "supersedes" /\ {r.pred, r.succ} \subseteq DocsOf(found)}

\* The rows that raise a claim: a found decision, and what supersedes it.
Superseding(found) ==
    {r \in index.lineage : r.relation = "supersedes" /\ r.pred \in DocsOf(found)}

LocalEvidence(found) ==
    {[passage |-> x, freshness |-> Freshness(DocsOf(found), x[1]),
      conflict |-> Conflict(DocsOf(found), x[1])] : x \in found}
    \cup {[passage |-> <<r.succ, 1>>, freshness |-> "current", conflict |-> "none"]
          : r \in {s \in Superseding(found) : <<s.succ, 1>> \notin found}}

\* The conflicted claims: the decision, its successor, and the passages at stake.
Claims(found) ==
    {[pred |-> r.pred, succ |-> r.succ, conflicting |-> {x \in found : x[1] = r.pred}]
        : r \in Superseding(found)}

--------------------------------------------------------------------------------
(* why.py: the decision that governs a file, and what became of it *)

\* find_decision_in_database.
DecisionOf(commit) ==
    LET holders == {d \in index.docs : Library[d].commit = commit}
    IN  IF holders = {} THEN NoDoc ELSE LowestRef(holders)

\* trace_causal_archaeology: the first commit of the file that has a decision.
Governing(f) ==
    LET known == {i \in DOMAIN LogOf[f] : DecisionOf(LogOf[f][i]) # NoDoc}
    IN  IF known = {} THEN NoDoc ELSE DecisionOf(LogOf[f][Lowest(known)])

\* The rows that replace a decision: resolved to it, or naming its commit.
Alerts(d) ==
    {r \in index.lineage :
        r.pred = d \/ (Library[d].commit # NoCommit /\ r.target = Library[d].commit)}

\* The first in the order of the table scan, by predecessor and successor.
FirstOf(rows) ==
    LET rank(d) == IF d = NoDoc THEN 0 ELSE RefRank[d]
    IN  CHOOSE r \in rows : \A s \in rows :
            \/ rank(r.pred) < rank(s.pred)
            \/ rank(r.pred) = rank(s.pred) /\ rank(r.succ) <= rank(s.succ)

\* check_lineage_alerts follows the first row of each decision, and stops where
\* there is none or where it has been.
Chain(d, r) ==
    LET step[n \in 0..Len(Library)] ==      \* at most 50 in the code
            IF n = 0 THEN <<r.succ>>
            ELSE LET c == step[n - 1]
                     onward == Alerts(c[Len(c)])
                     met == {d} \cup {c[i] : i \in DOMAIN c}
                 IN  IF onward = {} \/ FirstOf(onward).succ \in met THEN c
                     ELSE Append(c, FirstOf(onward).succ)
    IN  step[Len(Library)]

Leaf(d, r) == LET c == Chain(d, r) IN c[Len(c)]

\* _resolve_code_target_causality.
CausalEvidence(f) ==
    LET d == Governing(f) IN
    IF d = NoDoc THEN {}
    ELSE {[doc |-> d, freshness |-> IF Alerts(d) = {} THEN "current" ELSE "stale"]}
         \cup {[doc |-> Leaf(d, r), freshness |-> "current"] : r \in Alerts(d)}
         \cup {[doc |-> r.succ, freshness |-> "stale"]
               : r \in {s \in Alerts(d) : Leaf(d, s) # s.succ}}

--------------------------------------------------------------------------------
(* The commands that judge files by it *)

\* analyze_architectural_drift, for one file git can trace.
Drift(f) ==
    IF Governing(f) = NoDoc THEN "unindexed"
    ELSE IF Alerts(Governing(f)) = {} THEN "clean" ELSE "stale"

\* analyze_impact: the decisions of the files, the files they share, the risk.
Impact(files) ==
    LET decisions == {Governing(f) : f \in files} \ {NoDoc}
        status(d) == IF Alerts(d) = {} THEN "active" ELSE FirstOf(Alerts(d)).relation
        blast == (UNION {Library[d].files : d \in decisions}) \ files
    IN  [decisions |-> {[doc |-> d, status |-> status(d)] : d \in decisions},
         blast |-> blast,
         risk |-> IF \E d \in decisions : Alerts(d) # {} THEN "CRITICAL"
                  ELSE IF Cardinality(blast) > 6 THEN "HIGH"
                  ELSE IF blast # {} THEN "MEDIUM" ELSE "LOW"]

\* evaluate_guard, on files.
Guard(files, strict) ==
    LET violations == {f \in files : Drift(f) = "stale"}
    IN  [contracts |-> {x.doc : x \in {y \in Impact(files).decisions : y.status = "active"}},
         violations |-> violations,
         status |-> IF violations = {} THEN "PASSED" ELSE IF strict THEN "VETOED" ELSE "WARNING"]

\* evaluate_brief: the decisions of the files, and those whose words match.
Brief(files, matched) ==
    LET governing == Impact(files).decisions
    IN  governing \cup {[doc |-> d, status |-> "active"]
            : d \in {e \in matched \cap index.docs :
                        /\ Library[e].commit # NoCommit
                        /\ \A x \in governing : x.doc # e}}

--------------------------------------------------------------------------------
(* _evaluate_counterfactual *)

\* The first alternative the task names, by name and then document.
Matched(task) ==
    LET named == {x \in UNION {{<<d, i>> : i \in DOMAIN Library[d].alternatives} : d \in index.docs} :
                    Library[x[1]].alternatives[x[2]].name \in task}
        name(x) == Library[x[1]].alternatives[x[2]].name
    IN  {x \in named : \A y \in named :
            name(x) < name(y) \/ (name(x) = name(y) /\ RefRank[x[1]] <= RefRank[y[1]])}

PremisesOf(x) == Library[x[1]].alternatives[x[2]].premises
WithStatus(S, status) == {p \in S \cap DOMAIN index.premises : index.premises[p].status = status}

\* Fault: a premise nobody declares does not count.
LenientVerdict(x) ==
    LET of == PremisesOf(x) IN
    IF WithStatus(of, "invalidated") # {} THEN "premise_changed"
    ELSE IF WithStatus(of, "active") # {} THEN "repeat_of_rejected"
    ELSE "unassessed"

Verdict(x) ==
    LET of == PremisesOf(x) IN
    IF WithStatus(of, "invalidated") # {} THEN "premise_changed"
    ELSE IF of # {} /\ of = WithStatus(of, "active") THEN "repeat_of_rejected"
    ELSE "unassessed"

--------------------------------------------------------------------------------
(* Properties *)

\* Some indexed document names d, and no other, as what it replaces.
Replaced(d, relations) ==
    \E e \in index.docs : \E l \in Library[e].links :
        l.relation \in relations /\ {c \in index.docs : Called(c, l.target)} = {d}

\* Whatever a search finds of a decision that another indexed document says it
\* supersedes, the answer carries a conflicted claim over every passage of it.
SupersessionClaimed ==
    \A found \in Found : \A d \in DocsOf(found) \cap index.docs :
        Replaced(d, {"supersedes"}) =>
            \E c \in Claims(found) : c.pred = d /\ c.conflicting = {x \in found : x[1] = d}

\* A premise that a repository document declares has the status, the document and
\* the invalidation it would have without any GitHub document in the corpus.
RepositoryOutranksGitHub ==
    LET own == {d \in index.docs : Library[d].tier = "repository"}
    IN  \A p \in PremiseIds(index.docs) :
            OfTier("repository", Declarations(own, p)) # {} =>
                index.premises[p] = Premise(own, p)

\* What the answer for a code target shows as current, the governing decision or
\* the one it evolved into, is not itself replaced, unless the documents replace
\* each other in a circle.
CurrentIsActive ==
    \/ \A f \in DOMAIN LogOf : \A e \in CausalEvidence(f) :
            e.freshness = "current" => Alerts(e.doc) = {}
    \/ \E S \in SUBSET index.docs \ {{}} : \A d \in S : \E r \in Alerts(d) : r.succ \in S

\* When an indexed document replaces the decision that governs a file, by
\* whichever name, no guard over that file passes and no brief calls it active.
JudgesSeeIt ==
    \A files \in SUBSET DOMAIN LogOf : \A f \in files :
        LET d == Governing(f) IN
        d # NoDoc /\ Replaced(d, {"supersedes", "deprecates", "amends"}) =>
            /\ Guard(files, TRUE).status = "VETOED"
            /\ d \notin Guard(files, TRUE).contracts
            /\ \A x \in Brief(files, index.docs) : x.doc = d => x.status # "active"

\* Who asks for the decision of a file learns what replaced it.
ReplacementSeen == JudgesSeeIt /\ CurrentIsActive

\* A task is told that it repeats a rejected architecture only while every premise
\* of the rejection is declared, and none is invalidated by the repository.
RepeatOnlyUnderPremises ==
    \A task \in Tasks : \A x \in Matched(task) :
        Verdict(x) = "repeat_of_rejected" =>
            \A p \in PremisesOf(x) :
                /\ Declarations(index.docs, p) # {}
                /\ ~\E d \in index.docs :
                        Library[d].tier = "repository" /\ p \in Library[d].invalidates

\* "Older evidence is marked stale ... active successors are marked current"
\* (docs/cli-and-tools.md:37).
SupersededNeverCurrent ==
    \A found \in Found : \A e \in LocalEvidence(found) :
        Onto(e.passage[1], {"supersedes"}) # {} => e.freshness # "current"

--------------------------------------------------------------------------------
(* The inductive invariant *)

\* The tables are those of the documents that the build has read.
IInv ==
    /\ corpus \subseteq Doc /\ index.docs \subseteq Doc
    /\ index = Tables(index.docs)
================================================================================
