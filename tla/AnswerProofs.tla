------------------------------ MODULE AnswerProofs ------------------------------
(***************************************************************************)
(* Theorems about what Bruriah answers, for any documents, evidence and    *)
(* passages: what is replaced is shown as replaced, and premises stand or  *)
(* fall by the repository's word; claims say what their evidence bears     *)
(* out, and an answer that is cut says so; a search that tells of no       *)
(* shortfall has searched the whole corpus.                                *)
(***************************************************************************)
EXTENDS Evidence, ListProofs, Integers, SequenceTheorems, FiniteSetTheorems, TLAPS

--------------------------------------------------------------------------------
(* The tables of decisions *)

\* An index has the rows, and the premises, of its documents.
LEMMA TablesAre ==
    ASSUME NEW docs
    PROVE  /\ Decided!Tables(docs).docs = docs
           /\ Decided!Tables(docs).lineage = Decided!Lineage(docs)
           /\ Decided!Tables(docs).premises =
                [p \in Decided!PremiseIds(docs) |-> Decided!Premise(docs, p)]
BY DEF Decided!Tables

LEMMA NoIndexIsOfNothing == Decided!NoIndex = Decided!Tables({})
<1>1. Decided!Lineage({}) = {}
  BY DEF Decided!Lineage
<1>2. Decided!PremiseIds({}) = {}
  BY DEF Decided!PremiseIds
<1>3. [p \in Decided!PremiseIds({}) |-> Decided!Premise({}, p)] = <<>>
  BY <1>2
<1> QED
  BY <1>1, <1>3 DEF Decided!NoIndex, Decided!Tables

LEMMA DecisionSteps == Decided!Spec => []Decided!IInv
<1>1. Decided!Init => Decided!IInv
  BY NoIndexIsOfNothing, TablesAre DEF Decided!Init, Decided!IInv
<1>2. Decided!IInv /\ [Decided!Next]_(Decided!decisionVars) => Decided!IInv'
  <2> SUFFICES ASSUME Decided!IInv, [Decided!Next]_(Decided!decisionVars) PROVE Decided!IInv'
    OBVIOUS
  <2>1. CASE Decided!Build
    <3>1. tables' = Decided!Tables(documents) /\ documents' = documents
      BY <2>1 DEF Decided!Build
    <3>2. tables'.docs = documents
      BY <3>1, TablesAre
    <3>3. documents' \subseteq Decided!Doc /\ tables'.docs \subseteq Decided!Doc
      BY <3>1, <3>2 DEF Decided!IInv
    <3>4. tables' = Decided!Tables(tables'.docs)
      BY <3>1, <3>2
    <3> QED
      BY <3>3, <3>4 DEF Decided!IInv
  <2>2. CASE \E d \in Decided!Doc : Decided!Write(d) \/ Decided!Remove(d)
    <3>1. documents' \subseteq Decided!Doc /\ tables' = tables
      BY <2>2 DEF Decided!Write, Decided!Remove, Decided!IInv
    <3> QED
      BY <3>1 DEF Decided!IInv
  <2>3. CASE UNCHANGED Decided!decisionVars
    BY <2>3 DEF Decided!decisionVars, Decided!IInv
  <2> QED
    BY <2>1, <2>2, <2>3 DEF Decided!Next
<1> QED
  BY <1>1, <1>2, PTL DEF Decided!Spec

\* The row that a document's link makes.
LinkRow(docs, d, l) ==
    [succ |-> d, target |-> l.target, relation |-> l.relation,
     pred |-> Decided!Predecessor(docs, l.target)]

\* Every row is of a link of a document, and every link has its row.
LEMMA RowsAreLinks ==
    ASSUME NEW docs
    PROVE  /\ \A r \in Decided!Lineage(docs) :
                \E d \in docs : \E l \in Library[d].links : r = LinkRow(docs, d, l)
           /\ \A d \in docs : \A l \in Library[d].links :
                LinkRow(docs, d, l) \in Decided!Lineage(docs)
BY DEF Decided!Lineage, LinkRow

\* A link to a document that nothing else answers to is a row onto this document.
LEMMA ReplacedHasRow ==
    ASSUME Catalogued, Decided!IInv, NEW d \in Decided!Doc, NEW relations,
           Decided!Replaced(d, relations)
    PROVE  \E r \in tables.lineage :
             /\ r.pred = d /\ r.relation \in relations /\ r.succ \in tables.docs
<1>0. PICK e \in tables.docs : \E l \in Library[e].links :
        l.relation \in relations /\ {c \in tables.docs : Decided!Called(c, l.target)} = {d}
  BY DEF Decided!Replaced
<1>1. PICK l \in Library[e].links :
        l.relation \in relations /\ {c \in tables.docs : Decided!Called(c, l.target)} = {d}
  BY <1>0
<1>2. Decided!Highest({d}) = d
  BY DEF Decided!Highest, Catalogued
<1>3. Decided!Predecessor(tables.docs, l.target) = d
  BY <1>1, <1>2 DEF Decided!Predecessor
<1> DEFINE r == LinkRow(tables.docs, e, l)
<1>4. r \in tables.lineage
  <2>1. tables.lineage = Decided!Lineage(tables.docs)
    BY TablesAre DEF Decided!IInv
  <2> QED
    BY <1>1, <2>1, RowsAreLinks
<1>5. r.pred = d /\ r.relation = l.relation /\ r.succ = e
  BY <1>3 DEF LinkRow
<1> QED
  BY <1>1, <1>4, <1>5

--------------------------------------------------------------------------------
(* What a search is told *)

\* Whatever a search finds of a decision that another document of the index says it
\* supersedes, the answer claims the conflict over every passage of it.
THEOREM SupersessionIsClaimed == Decided!Spec => []SupersessionClaimed
<1> USE DecisionsAssumption
<1>1. Decided!IInv => SupersessionClaimed
  <2> SUFFICES ASSUME Decided!IInv, NEW found \in FoundSets,
                      NEW d \in Decided!DocsOf(found) \cap tables.docs,
                      Decided!Replaced(d, {"supersedes"})
               PROVE  \E c \in Decided!Claims(found) :
                        c.pred = d /\ c.conflicting = {x \in found : x[1] = d}
    BY DEF SupersessionClaimed, Decided!SupersessionClaimed
  <2>1. d \in Decided!Doc
    BY DEF Decided!IInv
  <2>2. PICK r \in tables.lineage : r.pred = d /\ r.relation = "supersedes"
    BY <2>1, ReplacedHasRow
  <2>3. r \in Decided!Superseding(found)
    BY <2>2 DEF Decided!Superseding
  <2> DEFINE c == [pred |-> r.pred, succ |-> r.succ,
                   conflicting |-> {x \in found : x[1] = r.pred}]
  <2>4. c \in Decided!Claims(found)
    BY <2>3 DEF Decided!Claims
  <2>5. c.pred = d /\ c.conflicting = {x \in found : x[1] = d}
    BY <2>2
  <2> QED
    BY <2>4, <2>5
<1> QED
  BY <1>1, DecisionSteps, PTL

--------------------------------------------------------------------------------
(* Premises *)

\* A premise of the index is what the documents make of it.
LEMMA PremiseOfTables ==
    ASSUME Decided!IInv
    PROVE  /\ DOMAIN tables.premises = Decided!PremiseIds(tables.docs)
           /\ \A p \in Decided!PremiseIds(tables.docs) :
                tables.premises[p] = Decided!Premise(tables.docs, p)
<1>1. tables = Decided!Tables(tables.docs)
  BY DEF Decided!IInv
<1>2. tables.premises =
        [p \in Decided!PremiseIds(tables.docs) |-> Decided!Premise(tables.docs, p)]
  BY <1>1, TablesAre, Zenon
<1> QED
  BY <1>2

\* Where a document declares a premise.
LEMMA DeclaredIn ==
    ASSUME NEW docs, NEW p
    PROVE  \A x : x \in Decided!Declarations(docs, p) <=>
             \E d \in docs : \E i \in DOMAIN Library[d].premises :
               x = <<d, i>> /\ Library[d].premises[i].id = p
<1> DEFINE All == UNION {{<<d, i>> : i \in DOMAIN Library[d].premises} : d \in docs}
<1>1. \A x : x \in All <=> \E d \in docs : \E i \in DOMAIN Library[d].premises : x = <<d, i>>
  OBVIOUS
<1>2. \A x : x \in Decided!Declarations(docs, p) <=>
        x \in All /\ Library[x[1]].premises[x[2]].id = p
  BY Zenon DEF Decided!Declarations
<1> HIDE DEF All
<1> QED
  BY <1>1, <1>2

\* Without the documents of GitHub, the repository's declarations and invalidations of
\* a premise that it declares are what they are with them.
LEMMA OwnWord ==
    ASSUME NEW docs, NEW p,
           Decided!OfTier("repository", Decided!Declarations(docs, p)) # {}
    PROVE  LET own == {d \in docs : Library[d].tier = "repository"} IN
           /\ Decided!OfTier("repository", Decided!Declarations(own, p)) =
                Decided!OfTier("repository", Decided!Declarations(docs, p))
           /\ Decided!Invalidators(own, p) = Decided!Invalidators(docs, p)
<1> DEFINE own == {d \in docs : Library[d].tier = "repository"}
           D(S) == Decided!OfTier("repository", Decided!Declarations(S, p))
<1>1. \A S, x : x \in D(S) <=>
        \E d \in S : \E i \in DOMAIN Library[d].premises :
          x = <<d, i>> /\ Library[d].premises[i].id = p /\ Library[d].tier = "repository"
  BY DeclaredIn DEF Decided!OfTier
<1>2. D(own) = D(docs)
  <2> HIDE DEF D
  <2>1. \A x : x \in D(own) <=> x \in D(docs)
    BY <1>1
  <2> QED
    BY <2>1, Zenon DEF D, Decided!OfTier
<1>3. Decided!Invalidators(own, p) = Decided!Invalidators(docs, p)
  BY <1>2 DEF Decided!Invalidators
<1> QED
  BY <1>2, <1>3

\* A premise that the repository declares is what the repository alone makes of it:
\* imported issues change neither its status, nor where it is declared or invalidated.
THEOREM RepositoryDecides == Decided!Spec => []RepositoryOutranksGitHub
<1>1. Decided!IInv => RepositoryOutranksGitHub
  <2> DEFINE docs == tables.docs
             own == {d \in docs : Library[d].tier = "repository"}
  <2> SUFFICES ASSUME Decided!IInv, NEW p \in Decided!PremiseIds(docs),
                      Decided!OfTier("repository", Decided!Declarations(own, p)) # {}
               PROVE  tables.premises[p] = Decided!Premise(own, p)
    BY DEF RepositoryOutranksGitHub, Decided!RepositoryOutranksGitHub
  <2>1. tables.premises[p] = Decided!Premise(docs, p)
    BY PremiseOfTables
  <2>2. Decided!OfTier("repository", Decided!Declarations(docs, p)) # {}
    <3>1. PICK x : x \in Decided!OfTier("repository", Decided!Declarations(own, p))
      OBVIOUS
    <3>2. x \in Decided!OfTier("repository", Decided!Declarations(docs, p))
      BY <3>1, DeclaredIn DEF Decided!OfTier
    <3> QED
      BY <3>2
  <2>3. /\ Decided!OfTier("repository", Decided!Declarations(own, p)) =
             Decided!OfTier("repository", Decided!Declarations(docs, p))
        /\ Decided!Invalidators(own, p) = Decided!Invalidators(docs, p)
    BY <2>2, OwnWord
  <2>4. Decided!Declaration(own, p) = Decided!Declaration(docs, p)
    BY <2>2, <2>3 DEF Decided!Declaration
  <2>5. Decided!Declarations(own, p) # {} /\ Decided!Declarations(docs, p) # {}
    BY <2>2, <2>3 DEF Decided!OfTier
  <2> HIDE DEF own, docs
  <2>6. Decided!Premise(own, p) = Decided!Premise(docs, p)
    BY <2>3, <2>4, <2>5 DEF Decided!Premise
  <2> QED
    BY <2>1, <2>6
<1> QED
  BY <1>1, DecisionSteps, PTL

\* A task is told that it repeats a rejection only while every premise of it is declared
\* and none is invalidated by the repository.
THEOREM RepeatsStandOnPremises == Decided!Spec => []RepeatOnlyUnderPremises
<1>1. Decided!IInv => RepeatOnlyUnderPremises
  <2> SUFFICES ASSUME Decided!IInv, NEW task \in Tasks, NEW x \in Decided!Matched(task),
                      Decided!Verdict(x) = "repeat_of_rejected",
                      NEW p \in Decided!PremisesOf(x)
               PROVE  /\ Decided!Declarations(tables.docs, p) # {}
                      /\ ~\E d \in tables.docs :
                            Library[d].tier = "repository" /\ p \in Library[d].invalidates
    BY DEF RepeatOnlyUnderPremises, Decided!RepeatOnlyUnderPremises
  <2>1. p \in DOMAIN tables.premises /\ tables.premises[p].status = "active"
    BY DEF Decided!Verdict, Decided!WithStatus
  <2>2. /\ DOMAIN tables.premises = Decided!PremiseIds(tables.docs)
        /\ p \in DOMAIN tables.premises =>
             tables.premises[p] = Decided!Premise(tables.docs, p)
    BY PremiseOfTables
  <2>3. Decided!Invalidators(tables.docs, p) = {}
    BY <2>1, <2>2 DEF Decided!Premise
  <2>4. PICK d \in tables.docs : \E i \in DOMAIN Library[d].premises : Library[d].premises[i].id = p
    BY <2>1, <2>2, <2>3 DEF Decided!PremiseIds
  <2>5. Decided!Declarations(tables.docs, p) # {}
    <3>1. PICK i \in DOMAIN Library[d].premises : Library[d].premises[i].id = p
      BY <2>4
    <3>2. <<d, i>> \in Decided!Declarations(tables.docs, p)
      BY <3>1, DeclaredIn
    <3> QED
      BY <3>2
  <2>6. ~\E e \in tables.docs :
           Library[e].tier = "repository" /\ p \in Library[e].invalidates
    BY <2>3 DEF Decided!Invalidators
  <2> QED
    BY <2>5, <2>6
<1> QED
  BY <1>1, DecisionSteps, PTL

--------------------------------------------------------------------------------
(* The choices of the readers *)

\* The lowest number, the highest document and the first document by ref are in the set
\* they are chosen from.
LEMMA Chosen ==
    ASSUME Catalogued, NEW S, S # {}
    PROVE  /\ S \subseteq Nat => Decided!Lowest(S) \in S
           /\ S \subseteq Decided!Doc => Decided!Highest(S) \in S
           /\ S \subseteq Decided!Doc => Decided!LowestRef(S) \in S
<1>1. ASSUME S \subseteq Nat PROVE Decided!Lowest(S) \in S
  BY <1>1, LeastNatural DEF Decided!Lowest
<1>2. ASSUME S \subseteq Decided!Doc PROVE Decided!Highest(S) \in S
  <2>1. S \subseteq Nat /\ Len(Library) \in Nat /\ \A k \in S : k <= Len(Library)
    BY <1>2 DEF Catalogued
  <2>2. \E n \in S : \A k \in S : k <= n
    BY <2>1, GreatestNatural
  <2> QED
    BY <2>2 DEF Decided!Highest
<1>3. ASSUME S \subseteq Decided!Doc PROVE Decided!LowestRef(S) \in S
  <2> DEFINE U == {RefRank[d] : d \in S}
  <2>1. U \subseteq Nat /\ U # {}
    BY <1>3 DEF Catalogued
  <2>2. PICK u \in U : \A v \in U : u <= v
    BY <2>1, LeastNatural
  <2>3. \E d \in S : \A e \in S : RefRank[d] <= RefRank[e]
    BY <2>2
  <2> QED
    BY <2>3 DEF Decided!LowestRef
<1> QED
  BY <1>1, <1>2, <1>3

\* What a row is onto is a document, or nothing.
LEMMA RowsOfDocuments ==
    ASSUME Catalogued, Decided!IInv, NEW r \in tables.lineage
    PROVE  /\ r.succ \in tables.docs
           /\ r.pred \in tables.docs \cup {Decided!NoDoc}
           /\ r.relation \in {"supersedes", "deprecates", "amends"}
<1>1. r \in Decided!Lineage(tables.docs)
  BY TablesAre DEF Decided!IInv
<1>2. PICK d \in tables.docs : \E l \in Library[d].links : r = LinkRow(tables.docs, d, l)
  BY <1>1, RowsAreLinks
<1>3. PICK l \in Library[d].links : r = LinkRow(tables.docs, d, l)
  BY <1>2
<1>4. /\ r.succ = d /\ r.relation = l.relation
      /\ r.pred = Decided!Predecessor(tables.docs, l.target)
  BY <1>3 DEF LinkRow
<1>5. tables.docs \subseteq Decided!Doc /\ Decided!Doc \subseteq Nat
  BY DEF Decided!IInv, Catalogued
<1>6. Decided!Predecessor(tables.docs, l.target) \in tables.docs \cup {Decided!NoDoc}
  <2> DEFINE exact == {e \in tables.docs : Decided!Called(e, l.target)}
             alike == Resembles[l.target] \cap tables.docs
  <2>1. exact # {} => Decided!Highest(exact) \in exact
    BY <1>5, Chosen
  <2>2. alike # {} => Decided!Lowest(alike) \in alike
    <3>1. alike \subseteq Nat
      BY <1>5
    <3> QED
      BY <3>1, Chosen
  <2> QED
    BY <2>1, <2>2 DEF Decided!Predecessor
<1>7. l.relation \in {"supersedes", "deprecates", "amends"}
  BY <1>3, <1>5 DEF Catalogued
<1> QED
  BY <1>4, <1>6, <1>7

\* The first row of a table scan is one of the rows.
LEMMA FirstRow ==
    ASSUME Catalogued, Decided!IInv, NEW rows, rows \subseteq tables.lineage, rows # {}
    PROVE  Decided!FirstOf(rows) \in rows
<1> DEFINE rank(d) == IF d = Decided!NoDoc THEN 0 ELSE RefRank[d]
           before(r, s) == \/ rank(r.pred) < rank(s.pred)
                           \/ rank(r.pred) = rank(s.pred) /\ rank(r.succ) <= rank(s.succ)
<1>1. \A r \in rows : rank(r.pred) \in Nat /\ rank(r.succ) \in Nat
  <2>1. \A d \in tables.docs \cup {Decided!NoDoc} : rank(d) \in Nat
    BY DEF Catalogued, Decided!IInv
  <2> HIDE DEF rank
  <2> QED
    BY <2>1, RowsOfDocuments
<1> HIDE DEF rank
<1> DEFINE U == {rank(r.pred) : r \in rows}
<1>2. PICK u \in U : \A v \in U : u <= v
  <2>1. U \subseteq Nat /\ U # {}
    BY <1>1
  <2> QED
    BY <2>1, LeastNatural
<1> DEFINE W == {rank(r.succ) : r \in {s \in rows : rank(s.pred) = u}}
<1>3. PICK w \in W : \A v \in W : w <= v
  <2>1. W \subseteq Nat /\ W # {}
    BY <1>1, <1>2
  <2> QED
    BY <2>1, LeastNatural
<1>4. PICK r \in rows : rank(r.pred) = u /\ rank(r.succ) = w
  BY <1>3
<1>5. \A s \in rows : u <= rank(s.pred) /\ (rank(s.pred) = u => w <= rank(s.succ))
  BY <1>2, <1>3
<1>6. \A s \in rows : before(r, s)
  BY <1>1, <1>4, <1>5
<1>7. \E x \in rows : \A s \in rows : before(x, s)
  BY <1>6
<1> QED
  BY <1>7, Zenon DEF Decided!FirstOf, rank

\* The decision that governs a file is of the index.
LEMMA GoverningIs ==
    ASSUME Catalogued, Decided!IInv, NEW f \in DOMAIN LogOf
    PROVE  Decided!Governing(f) \in tables.docs \cup {Decided!NoDoc}
<1>1. \A c : Decided!DecisionOf(c) \in tables.docs \cup {Decided!NoDoc}
  <2> SUFFICES ASSUME NEW c
               PROVE  Decided!DecisionOf(c) \in tables.docs \cup {Decided!NoDoc}
    OBVIOUS
  <2> DEFINE holders == {d \in tables.docs : Library[d].commit = c}
  <2>1. holders # {} => Decided!LowestRef(holders) \in holders
    BY Chosen DEF Decided!IInv
  <2> QED
    BY <2>1 DEF Decided!DecisionOf
<1> QED
  BY <1>1 DEF Decided!Governing

\* The rows onto a decision alert.
LEMMA AlertsAreRows ==
    ASSUME NEW d
    PROVE  /\ Decided!Alerts(d) \subseteq tables.lineage
           /\ \A r \in tables.lineage : r.pred = d => r \in Decided!Alerts(d)
BY DEF Decided!Alerts

--------------------------------------------------------------------------------
(* The judges of a file *)

\* A guard does not pass, and no brief calls active, what a document replaces.
LEMMA EveryJudge ==
    ASSUME Catalogued, Decided!IInv
    PROVE  Decided!JudgesSeeIt
<1> DEFINE all == {"supersedes", "deprecates", "amends"}
<1> SUFFICES ASSUME NEW files \in SUBSET DOMAIN LogOf, NEW f \in files,
                    Decided!Governing(f) # Decided!NoDoc,
                    Decided!Replaced(Decided!Governing(f), all)
             PROVE  /\ Decided!Guard(files, TRUE).status = "VETOED"
                    /\ Decided!Governing(f) \notin Decided!Guard(files, TRUE).contracts
                    /\ \A x \in Decided!Brief(files, tables.docs) :
                         x.doc = Decided!Governing(f) => x.status # "active"
  BY DEF Decided!JudgesSeeIt
<1> DEFINE d == Decided!Governing(f)
           first == Decided!FirstOf(Decided!Alerts(d))
           violations == {g \in files : Decided!Drift(g) = "stale"}
           governing == Decided!Impact(files).decisions
<1>1. d \in tables.docs /\ d \in Decided!Doc
  BY GoverningIs DEF Decided!IInv
<1>2. Decided!Alerts(d) # {}
  BY <1>1, ReplacedHasRow, AlertsAreRows
<1>3. first \in tables.lineage /\ first.relation # "active"
  <2>1. first \in Decided!Alerts(d)
    BY <1>2, AlertsAreRows, FirstRow
  <2>2. first \in tables.lineage
    BY <2>1, AlertsAreRows
  <2>3. first.relation \in all
    BY <2>2, RowsOfDocuments
  <2> QED
    BY <2>2, <2>3
<1>4. f \in violations
  BY <1>2 DEF Decided!Drift
<1> DEFINE decisions == {Decided!Governing(g) : g \in files} \ {Decided!NoDoc}
           status(e) == IF Decided!Alerts(e) = {} THEN "active"
                        ELSE Decided!FirstOf(Decided!Alerts(e)).relation
<1>5. governing = {[doc |-> e, status |-> status(e)] : e \in decisions} /\ d \in decisions
  BY DEF Decided!Impact
<1>6. /\ \A x \in governing : x.doc = d => x.status = first.relation
      /\ \E x \in governing : x.doc = d
  <2>1. status(d) = first.relation
    BY <1>2
  <2> HIDE DEF d, first, status, decisions, governing
  <2>2. \A x \in governing : x.doc = d => x.status = first.relation
    BY <1>5, <2>1
  <2>3. [doc |-> d, status |-> status(d)] \in governing
    BY <1>5
  <2> QED
    BY <2>2, <2>3
<1> HIDE DEF d, first, violations, governing
<1>7. Decided!Guard(files, TRUE).status = "VETOED"
  BY <1>4 DEF Decided!Guard, violations
<1>8. d \notin Decided!Guard(files, TRUE).contracts
  <2>1. Decided!Guard(files, TRUE).contracts = {x.doc : x \in {y \in governing : y.status = "active"}}
    BY DEF Decided!Guard, governing
  <2> QED
    BY <1>3, <1>6, <2>1
<1>9. \A x \in Decided!Brief(files, tables.docs) : x.doc = d => x.status # "active"
  <2> SUFFICES ASSUME NEW x \in Decided!Brief(files, tables.docs), x.doc = d
               PROVE  x.status # "active"
    OBVIOUS
  <2>1. \/ x \in governing
        \/ \E e : x = [doc |-> e, status |-> "active"] /\ \A y \in governing : y.doc # e
    <3> DEFINE others == {e \in tables.docs \cap tables.docs :
                            /\ Library[e].commit # Decided!NoCommit
                            /\ \A y \in governing : y.doc # e}
    <3>1. Decided!Brief(files, tables.docs) =
            governing \cup {[doc |-> e, status |-> "active"] : e \in others}
      BY Zenon DEF Decided!Brief, governing
    <3>2. \A e \in others : \A y \in governing : y.doc # e
      OBVIOUS
    <3> HIDE DEF others
    <3> QED
      BY <3>1, <3>2
  <2> QED
    BY <1>3, <1>6, <2>1
<1> QED
  BY <1>7, <1>8, <1>9 DEF d

--------------------------------------------------------------------------------
(* The chain of what a decision evolved into *)

Onward(c) == Decided!FirstOf(Decided!Alerts(c[Len(c)])).succ
Ended(d, c) ==
    \/ Decided!Alerts(c[Len(c)]) = {}
    \/ Onward(c) \in {d} \cup {c[i] : i \in DOMAIN c}
Longer(d, c) == IF Ended(d, c) THEN c ELSE Append(c, Onward(c))

\* Decisions that differ, each replaced by the next.
Followed(r, c) ==
    /\ c \in Seq(tables.docs) /\ Len(c) >= 1 /\ c[1] = r.succ
    /\ \A i \in 1..(Len(c) - 1) : \E a \in Decided!Alerts(c[i]) : a.succ = c[i + 1]
    /\ \A i, j \in 1..Len(c) : c[i] = c[j] => i = j

LEMMA OnwardIs ==
    ASSUME Catalogued, Decided!IInv, NEW c, Decided!Alerts(c[Len(c)]) # {}
    PROVE  /\ \E a \in Decided!Alerts(c[Len(c)]) : a.succ = Onward(c)
           /\ Onward(c) \in tables.docs
<1>1. Decided!FirstOf(Decided!Alerts(c[Len(c)])) \in Decided!Alerts(c[Len(c)])
  BY FirstRow, AlertsAreRows
<1> QED
  BY <1>1, AlertsAreRows, RowsOfDocuments DEF Onward

\* One more step leads to a decision that was not met.
LEMMA FollowOn ==
    ASSUME Catalogued, Decided!IInv, NEW d, NEW r, NEW c, Followed(r, c), ~Ended(d, c)
    PROVE  Followed(r, Append(c, Onward(c)))
<1> DEFINE e == Onward(c)
           l == Append(c, e)
           n == Len(c)
<1>1. /\ \E a \in Decided!Alerts(c[n]) : a.succ = e
      /\ e \in tables.docs
      /\ \A i \in 1..n : c[i] # e
  <2>1. Decided!Alerts(c[n]) # {} /\ e \notin {c[i] : i \in DOMAIN c}
    BY DEF Ended
  <2>2. DOMAIN c = 1..n
    BY DEF Followed
  <2> QED
    BY <2>1, <2>2, OnwardIs
<1> HIDE DEF e
<1>2. /\ c \in Seq(tables.docs) /\ n \in Nat /\ n >= 1
      /\ l \in Seq(tables.docs) /\ Len(l) = n + 1 /\ l[n + 1] = e
      /\ \A i \in 1..n : l[i] = c[i]
  BY <1>1 DEF Followed
<1> HIDE DEF l, n
<1>3. l[1] = r.succ
  BY <1>2 DEF Followed, n
<1>4. ASSUME NEW i \in 1..(Len(l) - 1)
      PROVE  \E a \in Decided!Alerts(l[i]) : a.succ = l[i + 1]
  <2>1. CASE i = n
    BY <1>1, <1>2, <2>1
  <2>2. CASE i # n
    <3>1. i \in 1..(n - 1) /\ i \in 1..n /\ i + 1 \in 1..n
      BY <1>2, <2>2
    <3>2. \E a \in Decided!Alerts(c[i]) : a.succ = c[i + 1]
      BY <3>1 DEF Followed, n
    <3> QED
      BY <1>2, <3>1, <3>2
  <2> QED
    BY <2>1, <2>2
<1>5. ASSUME NEW i \in 1..Len(l), NEW j \in 1..Len(l), l[i] = l[j]
      PROVE  i = j
  <2>1. CASE i \in 1..n /\ j \in 1..n
    BY <1>2, <1>5, <2>1 DEF Followed, n
  <2>2. CASE i = n + 1 \/ j = n + 1
    BY <1>1, <1>2, <1>5, <2>2
  <2> QED
    BY <1>2, <2>1, <2>2
<1>6. Followed(r, l)
  BY <1>2, <1>3, <1>4, <1>5 DEF Followed
<1> QED
  BY <1>6 DEF l, e

\* A chain is no longer than there are documents.
LEMMA ChainsAreShort ==
    ASSUME Catalogued, Decided!IInv, NEW r, NEW c, Followed(r, c)
    PROVE  Len(c) <= Len(Library)
<1> DEFINE n == Len(c)
           N == Len(Library)
<1> SUFFICES ASSUME ~(n <= N) PROVE FALSE
  OBVIOUS
<1>1. n \in Nat /\ N \in Nat /\ c \in [1..n -> 1..N]
  <2>1. tables.docs \subseteq 1..N
    BY DEF Decided!IInv, Catalogued
  <2> QED
    BY <2>1 DEF Followed, Catalogued
<1>2. /\ IsFiniteSet(1..n) /\ Cardinality(1..n) = n
      /\ IsFiniteSet(1..N) /\ Cardinality(1..N) = N
  <2>1. \A m \in Nat : IsFiniteSet(1..m) /\ Cardinality(1..m) = m
    <3> SUFFICES ASSUME NEW m \in Nat PROVE IsFiniteSet(1..m) /\ Cardinality(1..m) = m
      OBVIOUS
    <3>1. 1 \in Int /\ m \in Int
      OBVIOUS
    <3>2. IsFiniteSet(1..m) /\ Cardinality(1..m) = IF 1 > m THEN 0 ELSE m - 1 + 1
      BY <3>1, FS_Interval
    <3> QED
      BY <3>2
  <2> HIDE DEF n, N
  <2> QED
    BY <1>1, <2>1
<1>3. \E i, j \in 1..n : i # j /\ c[i] = c[j]
  <2>1. Cardinality(1..N) < Cardinality(1..n)
    BY <1>1, <1>2
  <2> HIDE DEF n, N
  <2> QED
    BY <1>1, <1>2, <2>1, FS_PigeonHole
<1> QED
  BY <1>3 DEF Followed

\* A chain of one document.
LEMMA OneLong ==
    ASSUME NEW S, NEW x \in S
    PROVE  <<x>> \in Seq(S) /\ Len(<<x>>) = 1 /\ <<x>>[1] = x
OBVIOUS

\* The chain that a reader follows goes from row to row, and ends where no row leads on, or
\* where one leads back.
LEMMA ChainIs ==
    ASSUME Catalogued, Decided!IInv, NEW d, NEW r \in tables.lineage
    PROVE  Followed(r, Decided!Chain(d, r)) /\ Ended(d, Decided!Chain(d, r))
<1> DEFINE N == Len(Library)
           S == {c \in Seq(tables.docs) : Followed(r, c)}
           a == <<r.succ>>
<1>1. N \in Nat
  BY DEF Catalogued
<1>2. a \in S /\ Len(a) = 1
  <2>1. r.succ \in tables.docs
    BY RowsOfDocuments
  <2>2. a \in Seq(tables.docs) /\ Len(a) = 1 /\ a[1] = r.succ
    BY <2>1, OneLong
  <2> HIDE DEF a
  <2>3. 1..(Len(a) - 1) = {} /\ 1..Len(a) = {1}
    BY <2>2
  <2>4. Followed(r, a)
    BY <2>2, <2>3 DEF Followed
  <2> QED
    BY <2>2, <2>4
<1>3. \A c \in S : Longer(d, c) \in S
  <2> SUFFICES ASSUME NEW c \in S, ~Ended(d, c) PROVE Append(c, Onward(c)) \in S
    BY DEF Longer
  <2>1. Followed(r, Append(c, Onward(c)))
    BY FollowOn
  <2>2. Append(c, Onward(c)) \in Seq(tables.docs)
    BY <2>1 DEF Followed
  <2> QED
    BY <2>1, <2>2
<1> HIDE DEF S, a, N
<1> DEFINE g == [i \in 1..N |-> [c \in S |-> Longer(d, c)]]
<1>4. g \in [1..N -> [S -> S]]
  BY <1>3
<1>5. PICK f \in [0..N -> S] : f[0] = a /\ \A i \in 1..N : f[i] = g[i][f[i - 1]]
  <2> HIDE DEF g
  <2>1. N \in Nat /\ a \in S
    BY <1>1, <1>2
  <2> QED
    BY <1>4, <2>1, Iterated
<1>6. f = [n \in 0..N |-> IF n = 0 THEN a ELSE Longer(d, f[n - 1])]
  <2>1. \A i \in 1..N : i - 1 \in 0..N /\ f[i - 1] \in S
    BY <1>1
  <2>2. \A i \in 1..N : f[i] = Longer(d, f[i - 1])
    BY <1>5, <2>1
  <2>3. \A i \in 0..N : f[i] = IF i = 0 THEN a ELSE Longer(d, f[i - 1])
    BY <1>1, <1>5, <2>2
  <2> QED
    BY <2>3
<1> DEFINE step[n \in 0..N] == IF n = 0 THEN a ELSE Longer(d, step[n - 1])
<1>7. step = [n \in 0..N |-> IF n = 0 THEN a ELSE Longer(d, step[n - 1])]
  BY <1>6, Zenon
<1>8. Decided!Chain(d, r) = step[N]
  BY Zenon DEF Decided!Chain, a, N, Longer, Ended, Onward
<1> HIDE DEF step
<1> DEFINE Fine(n) == /\ step[n] \in S
                      /\ Ended(d, step[n]) \/ Len(step[n]) = n + 1
           U == {n \in Nat : n <= N => Fine(n)}
<1>9. 0 \in U
  BY <1>1, <1>2, <1>7
<1>10. ASSUME NEW n \in Nat, n \in U, n + 1 <= N PROVE Fine(n + 1)
  <2>1. n + 1 \in 0..N /\ n \in 0..N /\ n + 1 # 0 /\ (n + 1) - 1 = n
    BY <1>1, <1>10
  <2>2. step[n + 1] = Longer(d, step[n])
    BY <1>7, <2>1
  <2>3. Fine(n)
    BY <1>10, <2>1
  <2>4. step[n + 1] \in S
    BY <1>3, <2>2, <2>3
  <2>5. CASE Ended(d, step[n])
    BY <2>2, <2>3, <2>4, <2>5 DEF Longer
  <2>6. CASE ~Ended(d, step[n])
    <3>1. step[n] \in Seq(tables.docs) /\ Len(step[n]) = n + 1
      BY <2>3, <2>6 DEF S
    <3>2. step[n + 1] = Append(step[n], Onward(step[n]))
      BY <2>2, <2>6 DEF Longer
    <3>3. Len(step[n + 1]) = (n + 1) + 1
      BY <3>1, <3>2
    <3> QED
      BY <2>4, <3>3
  <2> QED
    BY <2>5, <2>6
<1>11. \A n \in Nat : n \in U => n + 1 \in U
  BY <1>10
<1>12. Nat \subseteq U
  <2> HIDE DEF U
  <2> QED
    BY <1>9, <1>11, EveryNatural
<1>13. Fine(N)
  BY <1>1, <1>12
<1>14. Followed(r, step[N])
  BY <1>13 DEF S
<1>15. Len(step[N]) <= N
  BY <1>14, ChainsAreShort DEF N
<1>16. Ended(d, step[N])
  BY <1>1, <1>13, <1>15
<1> QED
  BY <1>8, <1>14, <1>16

\* If a leaf is itself replaced, some documents replace each other in a circle.
LEMMA LeafOrCircle ==
    ASSUME Catalogued, Decided!IInv, NEW d \in tables.docs, NEW r \in Decided!Alerts(d),
           Decided!Alerts(Decided!Leaf(d, r)) # {}
    PROVE  \E S \in SUBSET tables.docs \ {{}} :
             \A x \in S : \E a \in Decided!Alerts(x) : a.succ \in S
<1> DEFINE c == Decided!Chain(d, r)
           n == Len(c)
<1>1. Followed(r, c) /\ Ended(d, c) /\ Decided!Leaf(d, r) = c[n]
  <2>1. r \in tables.lineage
    BY AlertsAreRows
  <2> QED
    BY <2>1, ChainIs DEF Decided!Leaf
<1> HIDE DEF c
<1>2. /\ n \in Nat /\ n >= 1 /\ DOMAIN c = 1..n /\ c[1] = r.succ
      /\ \A i \in 1..n : c[i] \in tables.docs
      /\ \A i \in 1..(n - 1) : \E a \in Decided!Alerts(c[i]) : a.succ = c[i + 1]
  BY <1>1 DEF Followed
<1>3. /\ \E a \in Decided!Alerts(c[n]) : a.succ = Onward(c)
      /\ Onward(c) = d \/ \E j \in 1..n : Onward(c) = c[j]
  BY <1>1, <1>2, OnwardIs DEF Ended
<1> HIDE DEF n
<1>4. CASE \E j \in 1..n : Onward(c) = c[j]
  <2>1. PICK j \in 1..n : Onward(c) = c[j]
    BY <1>4
  <2> DEFINE S == {c[i] : i \in j..n}
  <2>2. c[j] \in S /\ S \subseteq tables.docs
    BY <1>2
  <2>3. ASSUME NEW i \in j..n PROVE \E a \in Decided!Alerts(c[i]) : a.succ \in S
    <3>1. CASE i = n
      BY <1>3, <2>1, <2>2, <3>1
    <3>2. CASE i # n
      <4>1. i \in 1..(n - 1) /\ i + 1 \in j..n
        BY <1>2, <3>2
      <4> QED
        BY <1>2, <4>1
    <3> QED
      BY <3>1, <3>2
  <2>4. \A x \in S : \E a \in Decided!Alerts(x) : a.succ \in S
    BY <2>3
  <2> HIDE DEF S
  <2> QED
    BY <2>2, <2>4
<1>5. CASE Onward(c) = d
  <2> DEFINE S == {d} \cup {c[i] : i \in 1..n}
  <2>1. S \subseteq tables.docs /\ d \in S /\ \A i \in 1..n : c[i] \in S
    BY <1>2
  <2>2. ASSUME NEW i \in 1..n PROVE \E a \in Decided!Alerts(c[i]) : a.succ \in S
    <3>1. CASE i = n
      BY <1>3, <1>5, <2>1, <3>1
    <3>2. CASE i # n
      <4>1. i \in 1..(n - 1) /\ i + 1 \in 1..n
        BY <1>2, <3>2
      <4> QED
        BY <1>2, <2>1, <4>1
    <3> QED
      BY <3>1, <3>2
  <2>3. r \in Decided!Alerts(d) /\ r.succ \in S
    BY <1>2, <2>1
  <2>4. \A x \in S : \E a \in Decided!Alerts(x) : a.succ \in S
    BY <2>2, <2>3
  <2> HIDE DEF S
  <2> QED
    BY <2>1, <2>4
<1> QED
  BY <1>3, <1>4, <1>5

\* Who asks for the decision of a file learns what replaced it: no guard passes and no brief
\* calls it active, and what is shown as current is not itself replaced but where documents
\* replace each other in a circle.
THEOREM ReplacementIsSeen == Decided!Spec => []ReplacementSeen
<1> USE DecisionsAssumption
<1>1. Decided!IInv => Decided!CurrentIsActive
  <2> SUFFICES ASSUME Decided!IInv, NEW f \in DOMAIN LogOf, NEW e \in Decided!CausalEvidence(f),
                      e.freshness = "current", Decided!Alerts(e.doc) # {}
               PROVE  \E S \in SUBSET tables.docs \ {{}} :
                        \A x \in S : \E a \in Decided!Alerts(x) : a.succ \in S
    BY DEF Decided!CurrentIsActive
  <2> DEFINE d == Decided!Governing(f)
  <2>1. d \in tables.docs
    <3>1. d # Decided!NoDoc
      BY DEF Decided!CausalEvidence
    <3> QED
      BY <3>1, GoverningIs
  <2>2. \E r \in Decided!Alerts(d) : e.doc = Decided!Leaf(d, r)
    <3>1. \/ e = [doc |-> d, freshness |-> IF Decided!Alerts(d) = {} THEN "current" ELSE "stale"]
          \/ \E r \in Decided!Alerts(d) :
               e = [doc |-> Decided!Leaf(d, r), freshness |-> "current"]
          \/ \E r \in Decided!Alerts(d) : e = [doc |-> r.succ, freshness |-> "stale"]
      BY DEF Decided!CausalEvidence
    <3> QED
      BY <3>1
  <2> QED
    BY <2>1, <2>2, LeafOrCircle
<1>2. Decided!IInv => ReplacementSeen
  BY <1>1, EveryJudge DEF ReplacementSeen, Decided!ReplacementSeen
<1> QED
  BY <1>2, DecisionSteps, PTL
--------------------------------------------------------------------------------
(* Claims *)

\* The lists of the ledger are the lists of the lemmas.
LEMMA ClaimedLists ==
    /\ \A s, some : Claimed!Among(s, some) = Among(s, some)
    /\ \A s : Claimed!Once(s) = Once(s)
    /\ \A s : Claimed!Joined(s) = Joined(s)
    /\ \A f : Claimed!Range(f) = {f[x] : x \in DOMAIN f}
<1>1. \A s, some : Claimed!Among(s, some) = Among(s, some)
  BY DEF Claimed!Among, Among
<1>2. \A s : Claimed!Once(s) = Once(s)
  BY <1>1, Zenon DEF Claimed!Once, Once
<1>3. \A s : Claimed!Joined(s) = Joined(s)
  BY DEF Claimed!Joined, Joined
<1> QED
  BY <1>1, <1>2, <1>3 DEF Claimed!Range

\* The refs of items are theirs.
RefsOf(items) == {items[i].ref : i \in 1..Len(items)}

LEMMA RefsAre ==
    ASSUME NEW items \in Seq(Statements)
    PROVE  /\ Claimed!Refs(items) \in Seq(Nat) /\ Len(Claimed!Refs(items)) = Len(items)
           /\ \A i \in 1..Len(items) : Claimed!Refs(items)[i] = items[i].ref
           /\ Claimed!Range(Claimed!Refs(items)) = RefsOf(items)
<1>1. Len(items) \in Nat /\ DOMAIN items = 1..Len(items) /\ \A i \in 1..Len(items) : items[i].ref \in Nat
  BY LedgerAssumption DEF Referred
<1>2. Claimed!Refs(items) = [i \in 1..Len(items) |-> items[i].ref]
  BY <1>1 DEF Claimed!Refs
<1>3. DOMAIN Claimed!Refs(items) = 1..Len(items)
  BY <1>2
<1>4. Claimed!Refs(items) \in Seq(Nat) /\ Len(Claimed!Refs(items)) = Len(items)
  BY <1>1, <1>2
<1> QED
  BY <1>2, <1>3, <1>4, ClaimedLists DEF RefsOf

\* What cites two lists cites the refs of both.
LEMMA CitedAre ==
    ASSUME NEW v \in Claimed!Claim
    PROVE  /\ Claimed!CitedBy(v) \in Seq(Nat)
           /\ Claimed!Range(Claimed!CitedBy(v)) =
                Claimed!Range(v.supporting) \cup Claimed!Range(v.conflicting)
<1> DEFINE a == v.supporting
           b == v.conflicting
<1>1. a \in Seq(Nat) /\ b \in Seq(Nat) /\ Claimed!CitedBy(v) = a \o b
  BY DEF Claimed!Claim, Claimed!CitedBy
<1> HIDE DEF a, b
<1>2. /\ a \o b \in Seq(Nat) /\ Len(a \o b) = Len(a) + Len(b) /\ Len(a) \in Nat /\ Len(b) \in Nat
      /\ DOMAIN a = 1..Len(a) /\ DOMAIN b = 1..Len(b) /\ DOMAIN (a \o b) = 1..(Len(a) + Len(b))
      /\ \A i \in 1..Len(a) : (a \o b)[i] = a[i]
      /\ \A i \in 1..Len(b) : (a \o b)[Len(a) + i] = b[i]
  BY <1>1
<1>3. ASSUME NEW x PROVE x \in Claimed!Range(a \o b) <=> x \in Claimed!Range(a) \cup Claimed!Range(b)
  <2>1. ASSUME NEW k \in DOMAIN (a \o b), (a \o b)[k] = x
        PROVE  x \in Claimed!Range(a) \cup Claimed!Range(b)
    <3>1. CASE k <= Len(a)
      BY <1>2, <2>1, <3>1, ClaimedLists
    <3>2. CASE ~(k <= Len(a))
      <4>1. k - Len(a) \in 1..Len(b) /\ Len(a) + (k - Len(a)) = k
        BY <1>2, <2>1, <3>2
      <4>2. (a \o b)[Len(a) + (k - Len(a))] = b[k - Len(a)]
        BY <1>2, <4>1
      <4> QED
        BY <1>2, <2>1, <4>1, <4>2, ClaimedLists
    <3> QED
      BY <3>1, <3>2
  <2>2. ASSUME NEW k \in DOMAIN a, a[k] = x PROVE x \in Claimed!Range(a \o b)
    <3>1. k \in 1..Len(a) /\ k \in DOMAIN (a \o b)
      BY <1>2
    <3> QED
      BY <1>2, <2>2, <3>1, ClaimedLists
  <2>3. ASSUME NEW k \in DOMAIN b, b[k] = x PROVE x \in Claimed!Range(a \o b)
    <3>1. k \in 1..Len(b) /\ Len(a) + k \in DOMAIN (a \o b)
      BY <1>2
    <3> QED
      BY <1>2, <2>3, <3>1, ClaimedLists
  <2> QED
    BY <2>1, <2>2, <2>3, ClaimedLists
<1> QED
  BY <1>1, <1>2, <1>3 DEF a, b

LEMMA VerdictIs ==
    ASSUME NEW state \in Claimed!States, NEW supporting \in Seq(Nat), NEW conflicting \in Seq(Nat),
           NEW others \in Seq(Nat), NEW classes \in SUBSET Claimed!Classes,
           NEW uncertainty \in SUBSET Claimed!Uncertainty,
           NEW v, v = Claimed!Verdict(state, supporting, conflicting, others, classes, uncertainty)
    PROVE  /\ v \in Claimed!Claim /\ v.state = state
           /\ v.supporting = supporting /\ v.conflicting = conflicting
BY DEF Claimed!Verdict, Claimed!Claim

\* Both sides of a disagreement are kept.
LEMMA DisagreementIs ==
    ASSUME NEW items \in Seq(Statements), NEW others \in Seq(Nat)
    PROVE  /\ Claimed!Disagreement(items, others) \in Claimed!Claim
           /\ Claimed!Disagreement(items, others).state = "conflicted"
           /\ Claimed!Range(Claimed!CitedBy(Claimed!Disagreement(items, others))) = RefsOf(items)
<1> DEFINE same == {e \in Statements : e.says = items[1].says}
           other == {e \in Statements : e.says # items[1].says}
           first == Among(items, same)
           rest == Among(items, other)
           heads == {i \in DOMAIN items : \A j \in 1..i - 1 : items[j].says # items[i].says}
           classes == {Claimed!Class(items[p[1]], items[p[2]]) : p \in {p \in heads \X heads : p[1] < p[2]}}
           v == Claimed!Disagreement(items, others)
<1>1. v = Claimed!Verdict("conflicted", Claimed!Refs(first), Claimed!Refs(rest), others, classes,
                          {"evidence_disagrees"})
  BY ClaimedLists, Zenon DEF Claimed!Disagreement
<1>2. first \in Seq(Statements) /\ rest \in Seq(Statements)
  <2> HIDE DEF same, other
  <2> QED
    BY AmongPicks
<1>3. classes \in SUBSET Claimed!Classes
  <2>1. \A a, b : Claimed!Class(a, b) \in Claimed!Classes
    BY DEF Claimed!Class, Claimed!Classes
  <2> QED
    BY <2>1
<1>4. Claimed!Refs(first) \in Seq(Nat) /\ Claimed!Refs(rest) \in Seq(Nat)
  <2> HIDE DEF first, rest
  <2> QED
    BY <1>2, RefsAre
<1>5. RefsOf(first) \cup RefsOf(rest) = RefsOf(items)
  <2>1. \A i \in 1..Len(items) : items[i] \in Statements
    OBVIOUS
  <2>2. \A i \in 1..Len(items) : items[i] \in same \/ items[i] \in other
    BY <2>1
  <2> HIDE DEF same, other
  <2>3. \A x : (\E i \in 1..Len(first) : first[i] = x) <=> x \in same /\ \E j \in 1..Len(items) : items[j] = x
    BY AmongHas
  <2>4. \A x : (\E i \in 1..Len(rest) : rest[i] = x) <=> x \in other /\ \E j \in 1..Len(items) : items[j] = x
    BY AmongHas
  <2> HIDE DEF first, rest
  <2>5. RefsOf(first) \subseteq RefsOf(items)
    BY <2>3 DEF RefsOf
  <2>6. RefsOf(rest) \subseteq RefsOf(items)
    BY <2>4 DEF RefsOf
  <2>7. ASSUME NEW j \in 1..Len(items) PROVE items[j].ref \in RefsOf(first) \cup RefsOf(rest)
    <3>1. CASE items[j] \in same
      BY <2>3, <3>1 DEF RefsOf
    <3>2. CASE items[j] \in other
      BY <2>4, <3>2 DEF RefsOf
    <3> QED
      BY <2>2, <3>1, <3>2
  <2> QED
    BY <2>5, <2>6, <2>7 DEF RefsOf
<1> HIDE DEF v, classes
<1>6. v \in Claimed!Claim /\ v.state = "conflicted"
      /\ v.supporting = Claimed!Refs(first) /\ v.conflicting = Claimed!Refs(rest)
  <2> HIDE DEF first, rest
  <2>1. "conflicted" \in Claimed!States /\ {"evidence_disagrees"} \in SUBSET Claimed!Uncertainty
    BY DEF Claimed!States, Claimed!Uncertainty
  <2> QED
    BY <1>1, <1>3, <1>4, <2>1, VerdictIs
<1>7. Claimed!Range(Claimed!CitedBy(v)) = RefsOf(first) \cup RefsOf(rest)
  <2> HIDE DEF first, rest
  <2> QED
    BY <1>2, <1>6, CitedAre, RefsAre
<1> QED
  BY <1>5, <1>6, <1>7 DEF v

\* Whether it is known who says an item, and it is in date.
Current(e) == Claimed!Authority(e) # "unknown" /\ Claimed!Freshness(e) = "current"

LEMMA AgreementIs ==
    ASSUME NEW items \in Seq(Statements), NEW others \in Seq(Nat)
    PROVE  /\ Claimed!Agreement(items, others) \in Claimed!Claim
           /\ Claimed!Agreement(items, others).state # "conflicted"
           /\ Claimed!Agreement(items, others).state = "supported" <=>
                \E i \in 1..Len(items) : Current(items[i])
<1> DEFINE sure == {e \in Statements : Claimed!Authority(e) # "unknown"}
           known == Among(items, sure)
           state == IF known = <<>> THEN "unknown"
                    ELSE IF \E i \in DOMAIN known : Claimed!Freshness(known[i]) = "current"
                    THEN "supported" ELSE "insufficient"
           uncertainty == CASE state = "unknown" -> {"authority_unknown"}
                            [] state = "insufficient" -> {"no_current_authoritative_evidence"}
                            [] OTHER -> {}
           v == Claimed!Agreement(items, others)
<1>1. v = Claimed!Verdict(state, Claimed!Refs(items), <<>>, others, {}, uncertainty)
  BY ClaimedLists, Zenon DEF Claimed!Agreement
<1>2. known \in Seq(Statements)
  <2> HIDE DEF sure
  <2> QED
    BY AmongPicks
<1>3. Claimed!Refs(items) \in Seq(Nat) /\ <<>> \in Seq(Nat)
  BY RefsAre
<1>4. /\ \A i \in 1..Len(items) : items[i] \in Statements
      /\ \A x : (\E i \in 1..Len(known) : known[i] = x) <=> x \in sure /\ \E j \in 1..Len(items) : items[j] = x
  <2>1. \A i \in 1..Len(items) : items[i] \in Statements
    OBVIOUS
  <2> HIDE DEF sure
  <2> QED
    BY <2>1, AmongHas
<1>5. \A e \in Statements : e \in sure <=> Claimed!Authority(e) # "unknown"
  OBVIOUS
<1> HIDE DEF sure, known
<1>6. state \in {"unknown", "supported", "insufficient"}
  OBVIOUS
<1>7. DOMAIN known = 1..Len(known)
  BY <1>2
<1>8. state = "supported" <=> \E i \in 1..Len(known) : Claimed!Freshness(known[i]) = "current"
  BY <1>7
<1>9. state = "supported" <=> \E i \in 1..Len(items) : Current(items[i])
  BY <1>4, <1>5, <1>8 DEF Current
<1> HIDE DEF state
<1>10. /\ state \in Claimed!States /\ state # "conflicted"
       /\ uncertainty \in SUBSET Claimed!Uncertainty /\ {} \in SUBSET Claimed!Classes
  BY <1>6 DEF Claimed!States, Claimed!Uncertainty
<1> HIDE DEF uncertainty, v
<1>11. v \in Claimed!Claim /\ v.state = state
  BY <1>1, <1>3, <1>10 DEF Claimed!Verdict, Claimed!Claim
<1> QED
  BY <1>9, <1>10, <1>11 DEF v

\* What applies of what has come, and whether it disagrees.
Applying(items, q) == Among(items, {e \in Statements : Claimed!Applies(e, q)})
Disagrees(items) == \E i \in 1..Len(items) : items[i].says # items[1].says

\* The verdict on a claim: a disagreement of what applies is a conflict that cites all of it,
\* and without one a claim is supported by an item that is current.
LEMMA AssessIs ==
    ASSUME NEW items \in Seq(Statements), NEW q
    PROVE  /\ Claimed!Assess(items, q) \in Claimed!Claim
           /\ Claimed!Assess(items, q).state = "conflicted" <=> Disagrees(Applying(items, q))
           /\ Disagrees(Applying(items, q)) =>
                Claimed!Range(Claimed!CitedBy(Claimed!Assess(items, q))) = RefsOf(Applying(items, q))
           /\ Claimed!Assess(items, q).state = "supported" <=>
                /\ ~Disagrees(Applying(items, q))
                /\ \E i \in 1..Len(Applying(items, q)) : Current(Applying(items, q)[i])
<1> DEFINE applicable == Applying(items, q)
           out == {e \in Statements : ~Claimed!Applies(e, q)}
           others == Claimed!Refs(Among(items, out))
           v == Claimed!Assess(items, q)
<1>1. v = IF items = <<>> THEN Claimed!Verdict("insufficient", <<>>, <<>>, <<>>, {}, {"no_evidence"})
          ELSE IF applicable = <<>>
          THEN Claimed!Verdict("insufficient", <<>>, <<>>, others, {}, Claimed!Inapplicable(q))
          ELSE IF \E i \in DOMAIN applicable : applicable[i].says # applicable[1].says
          THEN Claimed!Disagreement(applicable, others)
          ELSE Claimed!Agreement(applicable, others)
  BY ClaimedLists, Zenon DEF Claimed!Assess, Claimed!Heard, Applying
<1>2. applicable \in Seq(Statements) /\ Len(applicable) <= Len(items)
  <2> DEFINE some == {e \in Statements : Claimed!Applies(e, q)}
  <2>1. applicable = Among(items, some)
    BY DEF Applying
  <2> HIDE DEF some, applicable
  <2> QED
    BY <2>1, AmongKeeps
<1>3. others \in Seq(Nat)
  <2> DEFINE left == Among(items, out)
  <2>1. left \in Seq(Statements)
    <3> HIDE DEF out
    <3> QED
      BY AmongPicks
  <2> HIDE DEF left
  <2>2. Claimed!Refs(left) \in Seq(Nat)
    BY <2>1, RefsAre
  <2> QED
    BY <2>2 DEF left
<1>4. Claimed!Inapplicable(q) \in SUBSET Claimed!Uncertainty
  BY DEF Claimed!Inapplicable, Claimed!Uncertainty
<1> HIDE DEF applicable, others, v
<1>5. DOMAIN applicable = 1..Len(applicable) /\ Len(applicable) \in Nat
  BY <1>2
<1>6. CASE items = <<>> \/ applicable = <<>>
  <2>1. Len(applicable) = 0
    BY <1>2, <1>5, <1>6
  <2>2. \E uncertainty \in SUBSET Claimed!Uncertainty, left \in Seq(Nat) :
          v = Claimed!Verdict("insufficient", <<>>, <<>>, left, {}, uncertainty)
    <3>1. CASE items = <<>>
      <4>1. v = Claimed!Verdict("insufficient", <<>>, <<>>, <<>>, {}, {"no_evidence"})
        BY <1>1, <3>1
      <4>2. {"no_evidence"} \in SUBSET Claimed!Uncertainty /\ <<>> \in Seq(Nat)
        BY DEF Claimed!Uncertainty
      <4> QED
        BY <4>1, <4>2
    <3>2. CASE items # <<>>
      <4>1. v = Claimed!Verdict("insufficient", <<>>, <<>>, others, {}, Claimed!Inapplicable(q))
        BY <1>1, <1>6, <3>2
      <4> QED
        BY <1>3, <1>4, <4>1
    <3> QED
      BY <3>1, <3>2
  <2>3. v \in Claimed!Claim /\ v.state = "insufficient"
    <3>1. PICK uncertainty \in SUBSET Claimed!Uncertainty, left \in Seq(Nat) :
            v = Claimed!Verdict("insufficient", <<>>, <<>>, left, {}, uncertainty)
      BY <2>2
    <3>2. "insufficient" \in Claimed!States /\ <<>> \in Seq(Nat) /\ {} \in SUBSET Claimed!Classes
      BY DEF Claimed!States
    <3> QED
      BY <3>1, <3>2 DEF Claimed!Verdict, Claimed!Claim
  <2> QED
    BY <2>1, <2>3 DEF Disagrees, v, applicable
<1>7. CASE items # <<>> /\ applicable # <<>> /\ Disagrees(applicable)
  <2>1. v = Claimed!Disagreement(applicable, others)
    BY <1>1, <1>5, <1>7 DEF Disagrees
  <2>2. v \in Claimed!Claim /\ v.state = "conflicted"
        /\ Claimed!Range(Claimed!CitedBy(v)) = RefsOf(applicable)
    BY <1>2, <1>3, <2>1, DisagreementIs
  <2> QED
    BY <1>7, <2>2 DEF v, applicable
<1>8. CASE items # <<>> /\ applicable # <<>> /\ ~Disagrees(applicable)
  <2>1. v = Claimed!Agreement(applicable, others)
    BY <1>1, <1>5, <1>8 DEF Disagrees
  <2>2. /\ v \in Claimed!Claim /\ v.state # "conflicted"
        /\ v.state = "supported" <=> \E i \in 1..Len(applicable) : Current(applicable[i])
    BY <1>2, <1>3, <2>1, AgreementIs
  <2> QED
    BY <1>8, <2>2 DEF v, applicable
<1> QED
  BY <1>6, <1>7, <1>8

\* One more item that applies is heard with those before it.
LEMMA OneMoreApplies ==
    ASSUME NEW items \in Seq(Statements), NEW item \in Statements, NEW q
    PROVE  /\ Applying(items, q) \in Seq(Statements)
           /\ \/ Applying(Append(items, item), q) = Applying(items, q)
              \/ Applying(Append(items, item), q) = Append(Applying(items, q), item)
<1> DEFINE some == {e \in Statements : Claimed!Applies(e, q)}
<1>1. /\ Applying(items, q) = Among(items, some)
      /\ Applying(Append(items, item), q) = Among(Append(items, item), some)
  BY DEF Applying
<1> HIDE DEF some
<1>2. Among(items, some) \in Seq(Statements)
  BY AmongPicks
<1>3. Among(Append(items, item), some) =
        IF item \in some THEN Append(Among(items, some), item) ELSE Among(items, some)
  BY AmongAppend
<1> QED
  BY <1>1, <1>2, <1>3

\* A disagreement is there for good, and support is lost to a disagreement only.
LEMMA OneMoreItem ==
    ASSUME NEW items \in Seq(Statements), NEW item \in Statements, NEW q,
           NEW before, before = Claimed!Assess(items, q),
           NEW after, after = Claimed!Assess(Append(items, item), q)
    PROVE  /\ before.state = "conflicted" =>
                /\ after.state = "conflicted"
                /\ Claimed!Range(Claimed!CitedBy(before)) \subseteq Claimed!Range(Claimed!CitedBy(after))
           /\ before.state = "supported" => after.state \in {"supported", "conflicted"}
<1> DEFINE a == Applying(items, q)
           b == Applying(Append(items, item), q)
<1>1. Append(items, item) \in Seq(Statements)
  OBVIOUS
<1>2. /\ before.state = "conflicted" <=> Disagrees(a)
      /\ Disagrees(a) => Claimed!Range(Claimed!CitedBy(before)) = RefsOf(a)
      /\ before.state = "supported" <=> ~Disagrees(a) /\ \E i \in 1..Len(a) : Current(a[i])
  BY AssessIs
<1>3. /\ after.state = "conflicted" <=> Disagrees(b)
      /\ Disagrees(b) => Claimed!Range(Claimed!CitedBy(after)) = RefsOf(b)
      /\ after.state = "supported" <=> ~Disagrees(b) /\ \E i \in 1..Len(b) : Current(b[i])
  BY <1>1, AssessIs
<1>4. a \in Seq(Statements) /\ (b = a \/ b = Append(a, item))
  BY OneMoreApplies
<1> HIDE DEF a, b
<1>5. CASE b = a
  BY <1>2, <1>3, <1>5
<1>6. CASE b = Append(a, item)
  <2>1. Len(b) = Len(a) + 1 /\ Len(a) \in Nat /\ \A i \in 1..Len(a) : b[i] = a[i]
    BY <1>4, <1>6
  <2>2. \A i \in 1..Len(a) : i \in 1..Len(b) /\ 1 \in 1..Len(a)
    BY <2>1
  <2>3. Disagrees(a) => Disagrees(b)
    BY <2>1, <2>2 DEF Disagrees
  <2>4. RefsOf(a) \subseteq RefsOf(b)
    BY <2>1, <2>2 DEF RefsOf
  <2>5. (\E i \in 1..Len(a) : Current(a[i])) => \E i \in 1..Len(b) : Current(b[i])
    BY <2>1, <2>2
  <2> QED
    BY <1>2, <1>3, <2>3, <2>4, <2>5
<1> QED
  BY <1>4, <1>5, <1>6

--------------------------------------------------------------------------------
(* Answers of claims *)

\* What an answer begins with: every ref that a claim cites is of a record.
LEMMA RecordsHave ==
    ASSUME claims \in Seq(Claimed!Claim), NEW found \in Seq(Nat)
    PROVE  /\ Claimed!Records(found) \in Seq(Nat)
           /\ Claimed!Protected \subseteq Claimed!Range(Claimed!Records(found))
<1> DEFINE named == [i \in DOMAIN claims |-> Claimed!CitedBy(claims[i]) \o claims[i].others]
           all == Joined(named) \o found
           records == Claimed!Records(found)
<1>1. /\ Len(claims) \in Nat /\ DOMAIN claims = 1..Len(claims)
      /\ \A i \in 1..Len(claims) : claims[i] \in Claimed!Claim
  OBVIOUS
<1>2. ASSUME NEW i \in 1..Len(claims)
      PROVE  /\ Claimed!CitedBy(claims[i]) \in Seq(Nat) /\ claims[i].others \in Seq(Nat)
             /\ Claimed!CitedBy(claims[i]) \o claims[i].others \in Seq(Nat)
  <2>1. Claimed!CitedBy(claims[i]) \in Seq(Nat)
    BY <1>1, CitedAre
  <2>2. claims[i].others \in Seq(Nat)
    BY <1>1 DEF Claimed!Claim
  <2> QED
    BY <2>1, <2>2
<1>3. named \in Seq(Seq(Nat)) /\ Len(named) = Len(claims)
      /\ \A i \in 1..Len(claims) : named[i] = Claimed!CitedBy(claims[i]) \o claims[i].others
  BY <1>1, <1>2
<1>4. records = Once(all)
  BY ClaimedLists DEF Claimed!Records
<1> HIDE DEF named
<1>5. /\ Joined(named) \in Seq(Nat)
      /\ \A n \in 1..Len(claims) : \A i \in 1..Len(named[n]) :
           \E k \in 1..Len(Joined(named)) : Joined(named)[k] = named[n][i]
  BY <1>3, JoinedIs
<1>6. /\ all \in Seq(Nat) /\ Len(all) = Len(Joined(named)) + Len(found) /\ Len(found) \in Nat
      /\ Len(Joined(named)) \in Nat /\ \A k \in 1..Len(Joined(named)) : all[k] = Joined(named)[k]
  <2> DEFINE first == Joined(named)
  <2>1. first \in Seq(Nat)
    BY <1>5
  <2> HIDE DEF first
  <2>2. /\ first \o found \in Seq(Nat) /\ Len(first \o found) = Len(first) + Len(found)
        /\ Len(found) \in Nat /\ Len(first) \in Nat
        /\ \A k \in 1..Len(first) : (first \o found)[k] = first[k]
    BY <2>1
  <2> QED
    BY <2>2 DEF first
<1> HIDE DEF all, records
<1>7. /\ records \in Seq(Nat)
      /\ \A n \in 1..Len(all) : \E i \in 1..Len(records) : records[i] = all[n]
  <2>1. /\ Once(all) \in Seq(Nat)
        /\ \A n \in 1..Len(all) : \E i \in 1..Len(Once(all)) : Once(all)[i] = all[n]
    BY <1>6, OnceIs
  <2> QED
    BY <1>4, <2>1
<1>8. ASSUME NEW c \in 1..Len(claims), NEW ref \in Claimed!Range(Claimed!CitedBy(claims[c]))
      PROVE  ref \in Claimed!Range(records)
  <2> DEFINE x == Claimed!CitedBy(claims[c])
             y == claims[c].others
  <2>1. x \in Seq(Nat) /\ y \in Seq(Nat) /\ named[c] = x \o y
    BY <1>2, <1>3
  <2>2. PICK i \in DOMAIN x : x[i] = ref
    BY ClaimedLists
  <2> HIDE DEF x, y
  <2>3. i \in 1..Len(x \o y) /\ (x \o y)[i] = ref
    BY <2>1, <2>2
  <2>4. PICK k \in 1..Len(Joined(named)) : Joined(named)[k] = ref
    BY <1>5, <2>1, <2>3
  <2>5. k \in 1..Len(all) /\ all[k] = ref
    BY <1>6, <2>4
  <2>6. PICK j \in 1..Len(records) : records[j] = ref
    BY <1>7, <2>5
  <2>7. j \in DOMAIN records
    BY <1>7
  <2> QED
    BY <2>6, <2>7, ClaimedLists
<1>9. Claimed!Protected \subseteq Claimed!Range(records)
  BY <1>1, <1>8 DEF Claimed!Protected
<1> QED
  BY <1>7, <1>9 DEF records

\* The numbers in a list are bounded.
LEMMA BoundedList ==
    ASSUME NEW s \in Seq(Nat)
    PROVE  \E n \in Nat : \A i \in 1..Len(s) : s[i] <= n
<1> DEFINE B(m) == \E n \in Nat : \A i \in 1..m : s[i] <= n
           T == {m \in Nat : m <= Len(s) => B(m)}
<1>0. Len(s) \in Nat /\ \A i \in 1..Len(s) : s[i] \in Nat
  OBVIOUS
<1>1. 0 \in T
  OBVIOUS
<1>2. ASSUME NEW m \in Nat, m \in T, m + 1 <= Len(s)
      PROVE  B(m + 1)
  <2>1. m <= Len(s) /\ s[m + 1] \in Nat
    BY <1>0, <1>2
  <2>2. PICK n \in Nat : \A i \in 1..m : s[i] <= n
    BY <1>2, <2>1
  <2>3. \A i \in 1..m : s[i] <= n + s[m + 1]
    <3>1. \A i \in 1..m : s[i] \in Nat /\ s[i] <= n
      BY <1>0, <2>1, <2>2
    <3> QED
      BY <2>1, <3>1
  <2>4. s[m + 1] <= n + s[m + 1] /\ n + s[m + 1] \in Nat
    BY <2>1
  <2>5. \A i \in 1..(m + 1) : i \in 1..m \/ i = m + 1
    OBVIOUS
  <2> QED
    BY <2>3, <2>4, <2>5
<1> HIDE DEF B
<1>3. \A m \in Nat : m \in T => m + 1 \in T
  BY <1>2
<1>4. Nat \subseteq T
  <2> HIDE DEF T
  <2> QED
    BY <1>1, <1>3, EveryNatural
<1>5. B(Len(s))
  BY <1>0, <1>4
<1> QED
  BY <1>5 DEF B

\* The record that goes is one that no claim cites.
LEMMA VictimIs ==
    ASSUME NEW records \in Seq(Nat), NEW T, T \subseteq Claimed!Range(records), T # {}
    PROVE  (CHOOSE r \in T : \A s \in T : s <= r) \in T
<1>1. PICK n \in Nat : \A i \in 1..Len(records) : records[i] <= n
  BY BoundedList
<1>2. \A x \in T : x \in Nat /\ x <= n
  <2> SUFFICES ASSUME NEW x \in T PROVE x \in Nat /\ x <= n
    OBVIOUS
  <2>1. PICK i \in DOMAIN records : records[i] = x
    BY ClaimedLists
  <2>2. i \in 1..Len(records) /\ records[i] \in Nat
    OBVIOUS
  <2> QED
    BY <1>1, <2>1, <2>2
<1>3. \E r \in T : \A s \in T : s <= r
  BY <1>2, GreatestNatural
<1> QED
  BY <1>3

LEMMA NoResultIs == Claimed!NoResult \in Claimed!Result
BY DEF Claimed!NoResult, Claimed!Result

LEMMA LedgerInit == Claimed!Init => Claimed!LedgerInv
<1> SUFFICES ASSUME Claimed!Init PROVE Claimed!LedgerInv
  OBVIOUS
<1>1. /\ question \in Question /\ evidence = <<>> /\ claims = <<>>
      /\ result = Claimed!NoResult
  BY DEF Claimed!Init
<1>2. result.step = "none" /\ result.status = "none"
  BY <1>1 DEF Claimed!NoResult
<1> QED
  BY <1>1, <1>2, NoResultIs DEF Claimed!LedgerInv

LEMMA AddKeeps == Claimed!LedgerInv /\ Claimed!Add => Claimed!LedgerInv'
<1> SUFFICES ASSUME Claimed!LedgerInv, Claimed!Add PROVE Claimed!LedgerInv'
  OBVIOUS
<1>1. PICK item \in Statements : evidence' = Append(evidence, item)
  BY DEF Claimed!Add
<1>2. evidence' \in Seq(Statements)
  BY <1>1 DEF Claimed!LedgerInv
<1>3. question' = question /\ claims' = claims /\ result' = result
  BY DEF Claimed!Add
<1>4. Claimed!Protected' = Claimed!Protected
  BY <1>3 DEF Claimed!Protected, Claimed!CitedBy
<1>5. Claimed!Size(result)' = Claimed!Size(result)
  BY <1>3 DEF Claimed!Size
<1> QED
  BY <1>2, <1>3, <1>4, <1>5 DEF Claimed!LedgerInv

LEMMA AssessKeeps == Claimed!LedgerInv /\ Claimed!AssessClaim => Claimed!LedgerInv'
<1> SUFFICES ASSUME Claimed!LedgerInv, Claimed!AssessClaim PROVE Claimed!LedgerInv'
  OBVIOUS
<1>1. /\ claims' = Append(claims, Claimed!Assess(evidence, question)) /\ evidence' = <<>>
      /\ question' = question /\ result' = result /\ result.step = "none"
  BY DEF Claimed!AssessClaim
<1>2. evidence \in Seq(Statements) /\ claims \in Seq(Claimed!Claim)
  BY DEF Claimed!LedgerInv
<1>3. Claimed!Assess(evidence, question) \in Claimed!Claim
  BY <1>2, AssessIs
<1>4. claims' \in Seq(Claimed!Claim) /\ evidence' \in Seq(Statements)
  BY <1>1, <1>2, <1>3
<1>5. result'.step = "none" /\ result'.status = "none"
  BY <1>1 DEF Claimed!LedgerInv, Claimed!NoResult
<1> QED
  BY <1>1, <1>4, <1>5 DEF Claimed!LedgerInv

\* Measuring an answer changes nothing but whether it is done, and it is when it fits.
LEMMA BeginIs ==
    ASSUME NEW r \in Claimed!Result
    PROVE  /\ Claimed!Begin(r) \in Claimed!Result /\ Claimed!Begin(r).step \in {"cutting", "done"}
           /\ Claimed!Begin(r).status = r.status /\ Claimed!Begin(r).records = r.records
           /\ Claimed!Begin(r).dropped = r.dropped /\ Claimed!Begin(r).degradation = r.degradation
           /\ Claimed!Begin(r).step = "done" =>
                Claimed!Size(Claimed!Begin(r)) <= Claimed!Begin(r).allowed
<1> DEFINE b == Claimed!Begin(r)
<1>1. b = [r EXCEPT !.step = IF Claimed!Size(r) <= r.allowed THEN "done" ELSE "cutting"]
  BY DEF Claimed!Begin, Claimed!Measured
<1>2. /\ b \in Claimed!Result /\ b.step \in {"cutting", "done"} /\ b.status = r.status
      /\ b.records = r.records /\ b.dropped = r.dropped /\ b.degradation = r.degradation
      /\ b.claims = r.claims /\ b.allowed = r.allowed
      /\ b.step = "done" => Claimed!Size(r) <= r.allowed
  <2> HIDE DEF b
  <2> QED
    BY <1>1 DEF Claimed!Result
<1> HIDE DEF b
<1>3. Claimed!Size(b) = Claimed!Size(r)
  BY <1>2 DEF Claimed!Size
<1> QED
  BY <1>2, <1>3 DEF b

LEMMA AssembleKeeps == Claimed!LedgerInv /\ Claimed!Assemble => Claimed!LedgerInv'
<1> SUFFICES ASSUME Claimed!LedgerInv, Claimed!Assemble PROVE Claimed!LedgerInv'
  OBVIOUS
<1> DEFINE Gathered(records) ==
             (UNION {claims[i].uncertainty : i \in DOMAIN claims})
               \cup (IF records = <<>> /\ claims = <<>> THEN {"no_evidence_available"} ELSE {})
           Told(refused) == IF refused THEN {"research_unavailable"} ELSE {}
           Whole(records, refused) ==
             /\ claims # <<>> /\ \A i \in DOMAIN claims : claims[i].state = "supported"
             /\ records # <<>> /\ Gathered(records) = {} /\ Told(refused) = {}
           Made(records, refused, allowed) ==
             [Claimed!NoResult EXCEPT
                !.status = IF Whole(records, refused) THEN "complete" ELSE "partial",
                !.records = records, !.claims = Len(claims), !.gaps = Gathered(records),
                !.degradation = Told(refused), !.allowed = allowed]
<1>1. PICK found \in {<<>>} \cup {<<ref>> : ref \in Researchable}, refused \in BOOLEAN, allowed \in Allowed :
        result' = Claimed!Begin(Made(Claimed!Records(found), refused, allowed))
  BY DEF Claimed!Assemble
<1>2. found \in Seq(Nat)
  <2>1. CASE found = <<>>
    BY <2>1
  <2>2. CASE found \in {<<ref>> : ref \in Researchable}
    <3>1. PICK ref \in Researchable : found = <<ref>>
      BY <2>2
    <3>2. ref \in Nat
      BY LedgerAssumption DEF Referred
    <3> QED
      BY <3>1, <3>2
  <2> QED
    BY <2>1, <2>2
<1>3. claims \in Seq(Claimed!Claim) /\ evidence \in Seq(Statements) /\ question \in Question
  BY DEF Claimed!LedgerInv
<1>4. question' = question /\ evidence' = evidence /\ claims' = claims
  BY DEF Claimed!Assemble
<1> DEFINE records == Claimed!Records(found)
           made == Made(records, refused, allowed)
<1>5. records \in Seq(Nat) /\ Claimed!Protected \subseteq Claimed!Range(records)
  BY <1>2, <1>3, RecordsHave
<1>6. Gathered(records) \in SUBSET Claimed!Gaps
  <2>1. \A i \in DOMAIN claims : claims[i].uncertainty \subseteq Claimed!Uncertainty
    <3> SUFFICES ASSUME NEW i \in DOMAIN claims
                 PROVE  claims[i].uncertainty \subseteq Claimed!Uncertainty
      OBVIOUS
    <3>1. claims[i] \in Claimed!Claim
      BY <1>3
    <3> QED
      BY <3>1 DEF Claimed!Claim
  <2> DEFINE named == UNION {claims[i].uncertainty : i \in DOMAIN claims}
             none == IF records = <<>> /\ claims = <<>> THEN {"no_evidence_available"} ELSE {}
  <2>2. named \subseteq Claimed!Uncertainty
    <3> SUFFICES ASSUME NEW gap \in named PROVE gap \in Claimed!Uncertainty
      OBVIOUS
    <3>1. PICK i \in DOMAIN claims : gap \in claims[i].uncertainty
      BY Zenon
    <3> QED
      BY <2>1, <3>1
  <2>3. none \subseteq {"no_evidence_available"}
    OBVIOUS
  <2>4. Gathered(records) = named \cup none
    OBVIOUS
  <2> HIDE DEF named, none, Gathered, records
  <2> QED
    BY <2>2, <2>3, <2>4, Zenon DEF Claimed!Gaps
<1>7. Told(refused) \in SUBSET Claimed!Degradation
  BY DEF Claimed!Degradation
<1>8. Len(claims) \in Nat
  BY <1>3
<1> HIDE DEF records, Gathered
<1>9. made.status = "complete" => Told(refused) = {}
  BY DEF Claimed!NoResult
<1> HIDE DEF Told, Whole
<1>10. /\ made \in Claimed!Result /\ made.records = records /\ made.dropped = 0
       /\ made.degradation = Told(refused)
  BY <1>5, <1>6, <1>7, <1>8 DEF Claimed!NoResult, Claimed!Result
<1> HIDE DEF made
<1>11. result' = Claimed!Begin(made)
  BY <1>1 DEF made, records
<1>12. /\ result' \in Claimed!Result /\ result'.step \in {"cutting", "done"}
       /\ result'.status = made.status /\ result'.records = records
       /\ result'.dropped = 0 /\ result'.degradation = Told(refused)
       /\ result'.step = "done" => Claimed!Size(result') <= result'.allowed
  BY <1>10, <1>11, BeginIs
<1>13. Claimed!Protected' = Claimed!Protected
  BY <1>4 DEF Claimed!Protected, Claimed!CitedBy
<1> QED
  BY <1>3, <1>4, <1>5, <1>9, <1>12, <1>13 DEF Claimed!LedgerInv, Claimed!Size

LEMMA GatedKeeps == Claimed!LedgerInv /\ Claimed!AssembleGated => Claimed!LedgerInv'
<1> SUFFICES ASSUME Claimed!LedgerInv, Claimed!AssembleGated PROVE Claimed!LedgerInv'
  OBVIOUS
<1> DEFINE Made(outcome, forced, allowed) ==
             [Claimed!NoResult EXCEPT !.status = outcome, !.allowed = allowed,
                !.degradation = IF forced THEN {"rollback_route_only_mode"} ELSE {}]
<1>1. PICK outcome \in {"route_only", "abstained"}, forced \in BOOLEAN, allowed \in Allowed :
        result' = Claimed!Begin(Made(outcome, forced, allowed))
  BY DEF Claimed!AssembleGated
<1> DEFINE made == Made(outcome, forced, allowed)
<1>2. made \in Claimed!Result /\ made.status \in {"route_only", "abstained"}
  <2> DEFINE marks == IF forced THEN {"rollback_route_only_mode"} ELSE {}
  <2>1. marks \in SUBSET Claimed!Degradation
    BY DEF Claimed!Degradation
  <2>2. allowed \in Allowed /\ outcome \in {"route_only", "abstained"}
    OBVIOUS
  <2>3. made = [Claimed!NoResult EXCEPT !.status = outcome, !.allowed = allowed, !.degradation = marks]
    OBVIOUS
  <2> HIDE DEF made, Made, marks
  <2> QED
    BY <2>1, <2>2, <2>3, NoResultIs DEF Claimed!Result
<1>3. claims \in Seq(Claimed!Claim) /\ evidence \in Seq(Statements) /\ question \in Question
  BY DEF Claimed!LedgerInv
<1>4. question' = question /\ evidence' = evidence /\ claims' = claims
  BY DEF Claimed!AssembleGated
<1> HIDE DEF made
<1>5. /\ result' \in Claimed!Result /\ result'.step \in {"cutting", "done"}
      /\ result'.status = made.status
      /\ result'.step = "done" => Claimed!Size(result') <= result'.allowed
  BY <1>1, <1>2, BeginIs DEF made
<1> QED
  BY <1>2, <1>3, <1>4, <1>5 DEF Claimed!LedgerInv, Claimed!Size

\* An answer that was too long leaves with what is left of it, and not as complete.
LEMMA RenderedIs ==
    ASSUME NEW r \in Claimed!Result, NEW records \in Seq(Nat), NEW dropped \in Nat,
           NEW unmet \in BOOLEAN
    PROVE  LET s == Claimed!Rendered(r, records, dropped, unmet) IN
           /\ s \in Claimed!Result /\ s.step = r.step /\ s.records = records
           /\ s.status # "complete"
           /\ s.status \in {"complete", "partial"} => r.status \in {"complete", "partial"}
           /\ unmet => "output_budget_unmet" \in s.degradation
<1> DEFINE s == Claimed!Rendered(r, records, dropped, unmet)
           status == IF r.status = "complete" THEN "partial" ELSE r.status
           marks == r.degradation \cup (IF dropped > 0 THEN {"output_budget_compacted"} ELSE {})
                                  \cup (IF unmet THEN {"output_budget_unmet"} ELSE {})
<1>1. s = [r EXCEPT !.records = records, !.dropped = dropped, !.status = status,
                    !.degradation = marks]
  BY DEF Claimed!Rendered, Claimed!Result
<1>2. marks \in SUBSET Claimed!Degradation /\ (unmet => "output_budget_unmet" \in marks)
  BY DEF Claimed!Result, Claimed!Degradation
<1>3. /\ status \in {"none", "partial", "route_only", "abstained"}
      /\ status \in {"complete", "partial"} => r.status \in {"complete", "partial"}
  BY DEF Claimed!Result
<1> HIDE DEF s, status, marks
<1> QED
  BY <1>1, <1>2, <1>3 DEF s, Claimed!Result

LEMMA DropKeeps == Claimed!LedgerInv /\ Claimed!Drop => Claimed!LedgerInv'
<1> SUFFICES ASSUME Claimed!LedgerInv, Claimed!Drop PROVE Claimed!LedgerInv'
  OBVIOUS
<1> DEFINE T == Claimed!Droppable(result)
           victim == CHOOSE r \in T : \A s \in T : s <= r
           kept == Among(result.records, Claimed!Range(result.records) \ {victim})
           less == Claimed!Rendered(result, kept, result.dropped + 1, FALSE)
<1>1. /\ result.step = "cutting" /\ T # {}
      /\ question' = question /\ evidence' = evidence /\ claims' = claims
      /\ result' = IF Claimed!Size(less) <= less.allowed THEN [less EXCEPT !.step = "done"] ELSE less
  <2>1. Claimed!Among(result.records, Claimed!Range(result.records) \ {victim}) = kept
    BY ClaimedLists, Zenon
  <2> DEFINE cut == Claimed!Rendered(result,
                      Claimed!Among(result.records, Claimed!Range(result.records) \ {victim}),
                      result.dropped + 1, FALSE)
  <2>2. cut = less
    BY <2>1, Zenon
  <2>3. /\ result.step = "cutting" /\ T # {}
        /\ question' = question /\ evidence' = evidence /\ claims' = claims
        /\ result' = IF Claimed!Measured(cut) <= cut.allowed
                     THEN [cut EXCEPT !.step = "done"] ELSE cut
    BY DEF Claimed!Drop
  <2> HIDE DEF cut, less, T
  <2> QED
    BY <2>2, <2>3, Zenon DEF Claimed!Measured
<1>2. result \in Claimed!Result /\ result.records \in Seq(Nat) /\ result.dropped + 1 \in Nat
  BY DEF Claimed!LedgerInv, Claimed!Result
<1>3. T \subseteq Claimed!Range(result.records) \ Claimed!Protected
  BY DEF Claimed!Droppable
<1>4. victim \notin Claimed!Protected
  <2> HIDE DEF T
  <2>1. victim \in T
    BY <1>1, <1>2, <1>3, VictimIs
  <2> HIDE DEF victim
  <2> QED
    BY <1>3, <2>1
<1> HIDE DEF T, victim
<1>5. /\ kept \in Seq(Nat)
      /\ \A x \in Claimed!Range(result.records) : x # victim => x \in Claimed!Range(kept)
  <2> DEFINE all == result.records
             some == Claimed!Range(all) \ {victim}
  <2>1. all \in Seq(Nat) /\ kept = Among(all, some)
    BY <1>2
  <2>2. \A x \in Claimed!Range(all) : x # victim => x \in some
    OBVIOUS
  <2>3. \A x \in Claimed!Range(all) : \E j \in 1..Len(all) : all[j] = x
    BY <2>1, ClaimedLists
  <2> HIDE DEF all, some, kept
  <2>4. kept \in Seq(Nat)
    BY <2>1, AmongPicks
  <2>5. ASSUME NEW x, x \in some, \E j \in 1..Len(all) : all[j] = x
        PROVE  \E i \in 1..Len(kept) : kept[i] = x
    <3>1. \E i \in 1..Len(Among(all, some)) : Among(all, some)[i] = x
      BY <2>1, <2>5, AmongHas
    <3> QED
      BY <2>1, <3>1
  <2>6. ASSUME NEW x \in Claimed!Range(all), x # victim PROVE x \in Claimed!Range(kept)
    <3>1. PICK i \in 1..Len(kept) : kept[i] = x
      <4>1. x \in some /\ \E j \in 1..Len(all) : all[j] = x
        BY <2>2, <2>3, <2>6
      <4> QED
        BY <2>5, <4>1
    <3>2. i \in DOMAIN kept
      BY <2>4
    <3> QED
      BY <3>1, <3>2, ClaimedLists
  <2> QED
    BY <2>4, <2>6 DEF all
<1> HIDE DEF kept
<1>13. result.dropped + 1 \in Nat /\ kept \in Seq(Nat) /\ result \in Claimed!Result
  BY <1>2, <1>5
<1>6. /\ less \in Claimed!Result /\ less.step = "cutting" /\ less.records = kept
      /\ less.status # "complete"
      /\ less.status \in {"complete", "partial"} => result.status \in {"complete", "partial"}
  BY <1>1, <1>13, RenderedIs
<1> HIDE DEF less
<1>7. result' \in Claimed!Result
      /\ result'.records = kept /\ result'.status = less.status /\ result'.step \in {"cutting", "done"}
  BY <1>1, <1>6 DEF Claimed!Result
<1>8. result'.step = "done" => Claimed!Size(result') <= result'.allowed
  <2>1. CASE Claimed!Size(less) <= less.allowed
    <3>1. result' = [less EXCEPT !.step = "done"]
      BY <1>1, <2>1
    <3>2. result'.records = less.records /\ result'.claims = less.claims
          /\ result'.degradation = less.degradation /\ result'.allowed = less.allowed
      BY <1>6, <3>1 DEF Claimed!Result
    <3>3. Claimed!Size(result') = Claimed!Size(less)
      BY <3>2 DEF Claimed!Size
    <3> QED
      BY <2>1, <3>2, <3>3
  <2>2. CASE ~(Claimed!Size(less) <= less.allowed)
    BY <1>1, <1>6, <2>2
  <2> QED
    BY <2>1, <2>2
<1>9. Claimed!Protected' = Claimed!Protected
  BY <1>1 DEF Claimed!Protected, Claimed!CitedBy
<1>10. result'.status \in {"complete", "partial"} => Claimed!Protected \subseteq Claimed!Range(kept)
  <2>1. result'.status \in {"complete", "partial"} =>
          Claimed!Protected \subseteq Claimed!Range(result.records)
    BY <1>6, <1>7 DEF Claimed!LedgerInv
  <2> QED
    BY <1>4, <1>5, <2>1
<1>11. Claimed!Size(result)' = Claimed!Size(result')
  BY DEF Claimed!Size
<1>12. evidence \in Seq(Statements) /\ claims \in Seq(Claimed!Claim) /\ question \in Question
  BY DEF Claimed!LedgerInv
<1> QED
  BY <1>1, <1>6, <1>7, <1>8, <1>9, <1>10, <1>11, <1>12 DEF Claimed!LedgerInv

LEMMA SayUnmetKeeps == Claimed!LedgerInv /\ Claimed!SayUnmet => Claimed!LedgerInv'
<1> SUFFICES ASSUME Claimed!LedgerInv, Claimed!SayUnmet PROVE Claimed!LedgerInv'
  OBVIOUS
<1> DEFINE less == Claimed!Rendered(result, result.records, result.dropped, TRUE)
<1>1. /\ result' = [less EXCEPT !.step = "done"]
      /\ question' = question /\ evidence' = evidence /\ claims' = claims
  BY DEF Claimed!SayUnmet
<1>2. result \in Claimed!Result /\ result.records \in Seq(Nat) /\ result.dropped \in Nat
  BY DEF Claimed!LedgerInv, Claimed!Result
<1>3. /\ less \in Claimed!Result /\ less.records = result.records /\ less.status # "complete"
      /\ less.status \in {"complete", "partial"} => result.status \in {"complete", "partial"}
      /\ "output_budget_unmet" \in less.degradation
  BY <1>2, RenderedIs
<1> HIDE DEF less
<1>4. /\ result' \in Claimed!Result /\ result'.step = "done" /\ result'.records = result.records
      /\ result'.status = less.status /\ result'.degradation = less.degradation
  BY <1>1, <1>3 DEF Claimed!Result
<1>5. Claimed!Protected' = Claimed!Protected
  BY <1>1 DEF Claimed!Protected, Claimed!CitedBy
<1> QED
  BY <1>1, <1>3, <1>4, <1>5 DEF Claimed!LedgerInv

LEMMA AnsweredKeeps == Claimed!LedgerInv /\ Claimed!Answered => Claimed!LedgerInv'
<1> SUFFICES ASSUME Claimed!LedgerInv, Claimed!Answered PROVE Claimed!LedgerInv'
  OBVIOUS
<1>1. /\ question' = question /\ evidence' = <<>> /\ claims' = <<>>
      /\ result' = Claimed!NoResult
  BY DEF Claimed!Answered
<1>2. result'.step = "none" /\ result'.status = "none"
  BY <1>1 DEF Claimed!NoResult
<1>3. evidence' \in Seq(Statements) /\ claims' \in Seq(Claimed!Claim) /\ question \in Question
  BY <1>1 DEF Claimed!LedgerInv
<1> QED
  BY <1>1, <1>2, <1>3, NoResultIs DEF Claimed!LedgerInv

LEMMA LedgerKeeps == Claimed!LedgerInv /\ [Claimed!Next]_(Claimed!ledgerVars) => Claimed!LedgerInv'
<1> SUFFICES ASSUME Claimed!LedgerInv, [Claimed!Next]_(Claimed!ledgerVars) PROVE Claimed!LedgerInv'
  OBVIOUS
<1>1. CASE Claimed!Next
  BY <1>1, AddKeeps, AssessKeeps, AssembleKeeps, GatedKeeps, DropKeeps, SayUnmetKeeps,
     AnsweredKeeps DEF Claimed!Next
<1>2. CASE UNCHANGED Claimed!ledgerVars
  <2>1. question' = question /\ evidence' = evidence /\ claims' = claims /\ result' = result
    BY <1>2 DEF Claimed!ledgerVars
  <2>2. Claimed!Protected' = Claimed!Protected /\ Claimed!Size(result)' = Claimed!Size(result)
    BY <2>1 DEF Claimed!Protected, Claimed!CitedBy, Claimed!Size
  <2> QED
    BY <2>1, <2>2 DEF Claimed!LedgerInv
<1> QED
  BY <1>1, <1>2

LEMMA LedgerSteps == Claimed!Spec => []Claimed!LedgerInv
BY LedgerInit, LedgerKeeps, PTL DEF Claimed!Spec

\* What a claim is assessed on, the claims and the answer are what they are said to be
\* (evidence.py, context.py): the type invariant of the ledger.
THEOREM LedgerTyped ==
    Claimed!Spec => [](/\ evidence \in Seq(Statements) /\ claims \in Seq(Claimed!Claim)
                       /\ result \in Claimed!Result)
<1>1. Claimed!LedgerInv => /\ evidence \in Seq(Statements) /\ claims \in Seq(Claimed!Claim)
                           /\ result \in Claimed!Result
  BY DEF Claimed!LedgerInv
<1> QED
  BY <1>1, LedgerSteps, PTL

\* An answer that leaves has the size allowed or says it has not, holds every record that a
\* claim cites and is complete only uncut, for any evidence and any size allowed
\* (context.py, compact_to_budget).
THEOREM AnswersFitOrSaySo == Claimed!Spec => []FitsOrSaysSo
<1>1. Claimed!LedgerInv => FitsOrSaysSo
  BY DEF Claimed!LedgerInv, FitsOrSaysSo, Claimed!FitsOrSaysSo
<1> QED
  BY <1>1, LedgerSteps, PTL

\* One more item never settles a disagreement, and takes support back only by disagreeing,
\* for any items in any order (evidence.py, _assess_claim_inner).
THEOREM DisagreementAlwaysStands == Claimed!Spec => DisagreementStands
<1>1. Claimed!LedgerInv /\ [Claimed!Next]_(Claimed!ledgerVars)
        => [Claimed!KeepsDisagreement]_(Claimed!ledgerVars)
  <2> SUFFICES ASSUME Claimed!LedgerInv, Claimed!Next, Len(evidence') = Len(evidence) + 1
               PROVE  LET before == Claimed!Assess(evidence, question)
                          after == Claimed!Assess(evidence', question)
                      IN /\ before.state = "conflicted" =>
                              /\ after.state = "conflicted"
                              /\ Claimed!Range(Claimed!CitedBy(before))
                                   \subseteq Claimed!Range(Claimed!CitedBy(after))
                         /\ before.state = "supported" => after.state \in {"supported", "conflicted"}
    BY DEF Claimed!KeepsDisagreement
  <2>1. evidence \in Seq(Statements) /\ Len(evidence) \in Nat
    BY DEF Claimed!LedgerInv
  <2>2. evidence' # evidence /\ evidence' # <<>>
    BY <2>1
  <2>3. Claimed!Add
    BY <2>2 DEF Claimed!Next, Claimed!AssessClaim, Claimed!Assemble, Claimed!AssembleGated,
       Claimed!Drop, Claimed!SayUnmet, Claimed!Answered
  <2>4. PICK item \in Statements : evidence' = Append(evidence, item)
    BY <2>3 DEF Claimed!Add
  <2> QED
    BY <2>1, <2>4, OneMoreItem
<1> QED
  BY <1>1, LedgerSteps, PTL DEF Claimed!Spec, DisagreementStands, Claimed!DisagreementStands
--------------------------------------------------------------------------------
(* Passages *)

\* The sets and lists of the search are the sets and lists of the lemmas.
LEMMA SearchedSets == \A S : Searching!Cardinality(S) = Cardinality(S)
BY DEF Searching!Cardinality, Cardinality

\* Where the clock is read, a loop may stop; elsewhere it goes on to its end.
LEMMA ReachIs ==
    ASSUME NEW n \in Nat, NEW k \in Searching!Reach(n)
    PROVE  k \in 0..n
BY DEF Searching!Reach

\* The passages up to the k-th are the first k.
LEMMA FirstPassages ==
    ASSUME NEW n \in Nat, NEW k \in 0..n
    PROVE  /\ IsFiniteSet(1..k) /\ Cardinality(1..k) = k /\ 1..k \subseteq 1..n
           /\ k = n \/ k < n
<1>1. k \in Nat /\ 1 \in Int /\ k \in Int
  OBVIOUS
<1>2. IsFiniteSet(1..k) /\ Cardinality(1..k) = (IF 1 > k THEN 0 ELSE k - 1 + 1)
  BY <1>1, FS_Interval
<1> QED
  BY <1>1, <1>2

\* The better of finitely many scores have places.
LEMMA RankedIs ==
    ASSUME NEW S, S \subseteq Passages, NEW score, DOMAIN score = S
    PROVE  Searching!Ranks(Searching!Ranked(score)) /\ DOMAIN Searching!Ranked(score) = S
<1> DEFINE ahead(p) == {q \in DOMAIN score :
                          score[q] > score[p] \/ (score[q] = score[p] /\ q < p)}
<1>1. IsFiniteSet(S)
  BY SearchAssumption, FS_Subset DEF Scannable
<1>2. ASSUME NEW p \in S PROVE 1 + Cardinality(ahead(p)) \in Nat
  <2>1. ahead(p) \in SUBSET S
    OBVIOUS
  <2> HIDE DEF ahead
  <2>2. IsFiniteSet(ahead(p))
    BY <1>1, <2>1, FS_Subset
  <2>3. Cardinality(ahead(p)) \in Nat
    BY <2>2, FS_CardinalityType
  <2> QED
    BY <2>3
<1>3. Searching!Ranked(score) = [p \in S |-> 1 + Searching!Cardinality(ahead(p))]
  <2>1. Searching!Ranked(score) = [p \in DOMAIN score |-> 1 + Searching!Cardinality(ahead(p))]
    BY Zenon DEF Searching!Ranked
  <2> HIDE DEF ahead
  <2> QED
    BY <2>1
<1> HIDE DEF ahead
<1> QED
  BY <1>2, <1>3, SearchedSets DEF Searching!Ranks

LEMMA WeighedIs ==
    ASSUME NEW query, NEW S, S \subseteq Passages, NEW k
    PROVE  Searching!Ranks(Searching!Weighed(query, S, k))
<1> DEFINE some == {q \in S : Searching!Weight(query, q, k) > 0}
           score == [p \in some |-> Searching!Weight(query, p, k)]
<1>1. some \subseteq Passages /\ DOMAIN score = some
  OBVIOUS
<1>2. Searching!Weighed(query, S, k) = Searching!Ranked(score)
  BY DEF Searching!Weighed
<1> HIDE DEF score, some
<1> QED
  BY <1>1, <1>2, RankedIs

LEMMA SimilarIs ==
    ASSUME NEW query, NEW S, S \subseteq Passages
    PROVE  Searching!Ranks(Searching!Similar(query, S))
<1> DEFINE score == [p \in S |-> query.similarity[p]]
<1>1. DOMAIN score = S /\ Searching!Similar(query, S) = Searching!Ranked(score)
  BY DEF Searching!Similar
<1> HIDE DEF score
<1> QED
  BY <1>1, RankedIs

\* A leg that did not run, or was not begun, has no ranks.
LEMMA NoRanks == Searching!Ranks(Searching!None)
BY DEF Searching!Ranks, Searching!None

LEMMA SearchInit == Searching!Init => Searching!SearchInv
<1> SUFFICES ASSUME Searching!Init PROVE Searching!SearchInv
  OBVIOUS
<1>1. /\ request \in Searching!SearchRequests
      /\ search = [step |-> "scan", late |-> FALSE, stopped |-> FALSE, scanned |-> {},
                   lexical |-> [ran |-> FALSE, rank |-> Searching!None],
                   vector |-> [ran |-> FALSE, rank |-> Searching!None],
                   fused |-> <<>>, ordered |-> <<>>, notes |-> {}, matches |-> <<>>]
  BY DEF Searching!Init
<1>2. {} = 1..Searching!Cardinality({})
  BY FS_EmptySet, SearchedSets
<1>3. /\ search.step = "scan" /\ search.late = FALSE /\ search.stopped = FALSE
      /\ search.scanned = {} /\ search.lexical.rank = Searching!None
      /\ search.vector.rank = Searching!None /\ search.fused = <<>> /\ search.ordered = <<>>
      /\ search.notes = {} /\ search.matches = <<>>
      /\ search.lexical = [ran |-> FALSE, rank |-> Searching!None]
      /\ search.vector = [ran |-> FALSE, rank |-> Searching!None]
  BY <1>1
<1>4. Searching!Searchable
  <2>1. Searching!WholeSearch
    BY <1>1, <1>3, Zenon DEF Searching!WholeSearch
  <2> QED
    BY <1>1, <1>3, <2>1 DEF Searching!Searchable
<1>5. Searching!ScannedInOrder
  BY <1>2, <1>3 DEF Searching!ScannedInOrder, Searching!Past
<1>6. Searching!LexicalRanked /\ Searching!VectorRanked
  BY <1>3, NoRanks DEF Searching!LexicalRanked, Searching!VectorRanked, Searching!Past
<1>7. Searching!FusedOfLegs
  BY <1>3 DEF Searching!FusedOfLegs, Searching!Past
<1>8. Searching!OrderedOfFused
  BY <1>3 DEF Searching!OrderedOfFused
<1>9. Searching!CutToThePage
  BY <1>3 DEF Searching!CutToThePage
<1> QED
  BY <1>4, <1>5, <1>6, <1>7, <1>8, <1>9 DEF Searching!SearchInv

LEMMA ScanKeeps == Searching!SearchInv /\ Searching!Scan => Searching!SearchInv'
<1> SUFFICES ASSUME Searching!SearchInv, Searching!Scan PROVE Searching!SearchInv'
  OBVIOUS
<1> DEFINE n == Cardinality(Passages)
<1>1. n \in Nat /\ Passages = 1..n
  BY SearchAssumption, FS_CardinalityType DEF Scannable
<1>2. search.step = "scan" /\ request' = request
  BY DEF Searching!Scan
<1>12. n = Searching!Cardinality(Passages)
  BY SearchedSets, Zenon
<1> HIDE DEF n
<1>3. PICK k \in Searching!Reach(n), late \in BOOLEAN :
        search' = [search EXCEPT !.step = "lexical", !.scanned = 1..k, !.late = late,
                                 !.stopped = Searching!Stopped(k, n)]
  BY <1>12, Zenon DEF Searching!Scan
<1>4. k \in 0..n /\ Cardinality(1..k) = k /\ 1..k \subseteq Passages /\ (k = n \/ k < n)
  BY <1>1, ReachIs, FirstPassages
<1>5. /\ search'.step = "lexical" /\ search'.scanned = 1..k /\ search'.late = late
      /\ search'.stopped = Searching!Stopped(k, n) /\ search'.lexical = search.lexical
      /\ search'.vector = search.vector /\ search'.fused = search.fused
      /\ search'.ordered = search.ordered /\ search'.notes = search.notes
      /\ search'.matches = search.matches
      /\ Searching!WholeSearch'
  BY <1>3 DEF Searching!SearchInv, Searching!Searchable, Searching!WholeSearch
<1>6. search'.stopped \in BOOLEAN /\ (~search'.stopped => k = n)
  BY <1>4, <1>5 DEF Searching!Stopped, Searching!SearchInv, Searching!Searchable
<1>7. Searching!ScannedInOrder'
  BY <1>1, <1>4, <1>5, <1>6, SearchedSets DEF Searching!ScannedInOrder
<1>8. Searching!Searchable'
  BY <1>2, <1>5, <1>6 DEF Searching!SearchInv, Searching!Searchable
<1>9. Searching!LexicalRanked' /\ Searching!VectorRanked'
  BY <1>5 DEF Searching!SearchInv, Searching!LexicalRanked, Searching!VectorRanked,
              Searching!Past, Searching!Ranks
<1>10. Searching!FusedOfLegs' /\ Searching!CutToThePage'
  BY <1>5 DEF Searching!FusedOfLegs, Searching!CutToThePage, Searching!Past
<1>11. Searching!OrderedOfFused'
  BY <1>2, <1>5 DEF Searching!SearchInv, Searching!OrderedOfFused, Searching!Past
<1> QED
  BY <1>7, <1>8, <1>9, <1>10, <1>11 DEF Searching!SearchInv

\* What is missing from a leg is no disclosure.
LEMMA LegTells ==
    ASSUME NEW leg \in {"lexical", "vector"}, NEW found,
           Searching!LegNotes(leg, found) \subseteq Searching!Disclosures
    PROVE  found.ran /\ Searching!LegNotes(leg, found) = {}
BY DEF Searching!LegNotes, Searching!Disclosures, Searching!Unavailable, Searching!NoMatches

LEMMA LegIsSilent ==
    ASSUME NEW leg \in {"lexical", "vector"}, NEW found
    PROVE  "reranked" \notin Searching!LegNotes(leg, found)
BY DEF Searching!LegNotes, Searching!Unavailable, Searching!NoMatches

\* The lexical leg may end with what it found, if a leg that was not stopped and of which
\* nothing is told has found all there is.
LEMMA LexicalEndsWell ==
    ASSUME Searching!SearchInv, search.step = "lexical", request' = request,
           NEW found, NEW late \in BOOLEAN, NEW stopped \in BOOLEAN,
           Searching!LexicalEnds(found, late, stopped), Searching!Ranks(found.rank),
           search.stopped => stopped,
           ~stopped /\ found.ran => found.rank =
             Searching!Weighed(request.query, Passages, Len(request.query.postings))
    PROVE  Searching!SearchInv'
<1> DEFINE told == Searching!LegNotes("lexical", found)
<1>1. /\ search'.step = "vector" /\ search'.scanned = search.scanned /\ search'.late = late
      /\ search'.stopped = stopped /\ search'.lexical = found
      /\ search'.vector = search.vector /\ search'.fused = search.fused
      /\ search'.ordered = search.ordered /\ search'.notes = search.notes \cup told
      /\ search'.matches = search.matches
      /\ Searching!WholeSearch'
  BY DEF Searching!LexicalEnds, Searching!SearchInv, Searching!Searchable, Searching!WholeSearch
<1>2. "reranked" \notin told /\ (told \subseteq Searching!Disclosures => found.ran)
  BY LegTells, LegIsSilent
<1> HIDE DEF told
<1>3. Searching!Searchable'
  BY <1>1 DEF Searching!SearchInv, Searching!Searchable
<1>4. Searching!ScannedInOrder'
  BY <1>1 DEF Searching!SearchInv, Searching!ScannedInOrder, Searching!Past
<1>5. Searching!Untold' => found.ran
  BY <1>1, <1>2 DEF Searching!Untold
<1>6. Searching!LexicalRanked'
  BY <1>1, <1>5 DEF Searching!LexicalRanked, Searching!Ranks
<1>7. Searching!VectorRanked'
  BY <1>1 DEF Searching!SearchInv, Searching!VectorRanked, Searching!Past, Searching!Ranks
<1>8. Searching!FusedOfLegs' /\ Searching!CutToThePage'
  BY <1>1 DEF Searching!FusedOfLegs, Searching!CutToThePage, Searching!Past
<1>9. Searching!OrderedOfFused'
  BY <1>1, <1>2 DEF Searching!SearchInv, Searching!OrderedOfFused, Searching!Past
<1> QED
  BY <1>3, <1>4, <1>6, <1>7, <1>8, <1>9 DEF Searching!SearchInv

LEMMA LexicalKeeps == Searching!SearchInv /\ Searching!Lexical => Searching!SearchInv'
<1> SUFFICES ASSUME Searching!SearchInv, Searching!Lexical PROVE Searching!SearchInv'
  OBVIOUS
<1>1. /\ search.step = "lexical" /\ request' = request
      /\ search.late \in BOOLEAN /\ search.stopped \in BOOLEAN
      /\ request \in Searching!SearchRequests
  BY DEF Searching!Lexical, Searching!SearchInv, Searching!Searchable
<1>2. CASE Searching!LexicalEnds(Searching!Leg(FALSE, Searching!None), search.late, search.stopped)
  <2> DEFINE found == Searching!Leg(FALSE, Searching!None)
  <2>1. Searching!Ranks(found.rank) /\ ~found.ran
    BY NoRanks DEF Searching!Leg
  <2>2. Searching!LexicalEnds(found, search.late, search.stopped)
    BY <1>2
  <2> HIDE DEF found
  <2> QED
    BY <1>1, <2>1, <2>2, LexicalEndsWell
<1>3. CASE Searching!LexicalIndexed
  <2> DEFINE all == Len(request.query.postings)
             full(k) == Searching!Weighed(request.query, Passages, k)
             found(k) == Searching!Leg(TRUE, IF search.late THEN Searching!None ELSE full(k))
             stopped(k) == search.late \/ Searching!Stopped(k, all)
  <2>1. all \in Nat
    <3>1. request.query \in Query
      BY <1>1 DEF Searching!SearchRequests
    <3> QED
      BY <3>1, SearchAssumption DEF Scannable
  <2>2. PICK k \in Searching!Reach(all), late \in BOOLEAN :
          Searching!LexicalEnds(found(k), late, stopped(k))
    BY <1>3, Zenon DEF Searching!LexicalIndexed
  <2>3. k \in 0..all
    BY <2>1, ReachIs
  <2>4. stopped(k) \in BOOLEAN /\ (search.stopped => stopped(k)) /\ (~stopped(k) => ~search.late /\ k = all)
    BY <1>1, <2>1, <2>3 DEF Searching!Stopped
  <2>5. Searching!Ranks(full(k)) /\ Searching!Ranks(Searching!None)
    BY NoRanks, WeighedIs
  <2>6. Searching!Ranks(found(k).rank)
    <3> HIDE DEF full
    <3>1. found(k).rank = IF search.late THEN Searching!None ELSE full(k)
      BY DEF Searching!Leg
    <3> QED
      BY <2>5, <3>1
  <2>7. ~stopped(k) => found(k).rank = full(all)
    <3> HIDE DEF full, stopped
    <3>1. found(k).rank = IF search.late THEN Searching!None ELSE full(k)
      BY DEF Searching!Leg
    <3> QED
      BY <2>4, <3>1
  <2> HIDE DEF stopped, found
  <2> QED
    BY <1>1, <2>2, <2>4, <2>6, <2>7, LexicalEndsWell
<1>4. CASE search.scanned # {} /\ Searching!LexicalScanned
  <2> DEFINE n == Cardinality(search.scanned)
             all == Len(request.query.postings)
             full(k) == Searching!Weighed(request.query, 1..k, all)
             found(read, k) == IF read = 0 THEN Searching!Leg(FALSE, Searching!None)
                               ELSE Searching!Leg(TRUE, full(k))
  <2>1. n = Searching!Cardinality(search.scanned)
    BY SearchedSets, Zenon
  <2>2. n \in Nat /\ search.scanned = 1..n /\ search.scanned \subseteq Passages
        /\ (~search.stopped => search.scanned = Passages)
    <3>1. search.scanned \subseteq Passages
      BY DEF Searching!SearchInv, Searching!ScannedInOrder
    <3>2. IsFiniteSet(search.scanned)
      BY <3>1, SearchAssumption, FS_Subset DEF Scannable
    <3> QED
      BY <1>1, <2>1, <3>1, <3>2, FS_CardinalityType DEF Searching!SearchInv, Searching!ScannedInOrder, Searching!Past
  <2> HIDE DEF n
  <2>3. PICK read \in Searching!Reach(n), k \in Searching!Reach(n), late \in BOOLEAN :
          /\ read < n => k = 0
          /\ Searching!LexicalEnds(found(read, k), late, Searching!Stopped(k, n))
    BY <1>4, <2>1, Zenon DEF Searching!LexicalScanned
  <2>4. read \in 0..n /\ k \in 0..n /\ 1..k \subseteq Passages
    <3>1. read \in 0..n /\ k \in 0..n
      BY <2>2, ReachIs
    <3> QED
      BY <2>2, <3>1, FirstPassages
  <2>5. n # 0
    BY <1>4, <2>2
  <2>6. /\ Searching!Stopped(k, n) \in BOOLEAN /\ (search.stopped => Searching!Stopped(k, n))
        /\ ~Searching!Stopped(k, n) => k = n /\ read = n /\ 1..k = Passages
    BY <1>1, <2>2, <2>3, <2>4, <2>5 DEF Searching!Stopped
  <2>7. Searching!Ranks(full(k)) /\ Searching!Ranks(Searching!None)
    BY <2>4, NoRanks, WeighedIs
  <2>8. ~Searching!Stopped(k, n) => full(k) = Searching!Weighed(request.query, Passages, all)
    BY <2>6
  <2> HIDE DEF full
  <2>9. /\ Searching!Ranks(found(read, k).rank)
        /\ found(read, k).ran => found(read, k).rank = full(k)
    BY <2>7 DEF Searching!Leg
  <2> DEFINE it == found(read, k)
             stopped == Searching!Stopped(k, n)
  <2>10. /\ stopped \in BOOLEAN /\ (search.stopped => stopped)
         /\ Searching!LexicalEnds(it, late, stopped) /\ Searching!Ranks(it.rank)
         /\ ~stopped /\ it.ran =>
              it.rank = Searching!Weighed(request.query, Passages, all)
    BY <2>3, <2>6, <2>8, <2>9
  <2> HIDE DEF it, stopped
  <2> QED
    BY <1>1, <2>10, LexicalEndsWell
<1> QED
  BY <1>2, <1>3, <1>4 DEF Searching!Lexical

\* So may the vector leg.
LEMMA VectorEndsWell ==
    ASSUME Searching!SearchInv, search.step = "vector", request' = request,
           NEW found, NEW late \in BOOLEAN, NEW stopped \in BOOLEAN, NEW told,
           search' = [search EXCEPT !.step = "fuse", !.late = late, !.stopped = stopped,
                                    !.vector = found, !.notes = @ \cup told],
           Searching!Ranks(found.rank), search.stopped => stopped, "reranked" \notin told,
           ~stopped /\ told \subseteq Searching!Disclosures =>
             found.rank = Searching!Similar(request.query, Passages)
    PROVE  Searching!SearchInv'
<1>1. /\ search'.step = "fuse" /\ search'.scanned = search.scanned /\ search'.late = late
      /\ search'.stopped = stopped /\ search'.lexical = search.lexical
      /\ search'.vector = found /\ search'.fused = search.fused
      /\ search'.ordered = search.ordered /\ search'.notes = search.notes \cup told
      /\ search'.matches = search.matches
      /\ Searching!WholeSearch'
  BY DEF Searching!SearchInv, Searching!Searchable, Searching!WholeSearch
<1>2. Searching!Searchable'
  BY <1>1 DEF Searching!SearchInv, Searching!Searchable
<1>3. Searching!ScannedInOrder'
  BY <1>1 DEF Searching!SearchInv, Searching!ScannedInOrder, Searching!Past
<1>4. Searching!Untold' => Searching!Untold /\ told \subseteq Searching!Disclosures
  BY <1>1 DEF Searching!Untold
<1>5. Searching!LexicalRanked'
  BY <1>1, <1>4 DEF Searching!SearchInv, Searching!LexicalRanked, Searching!Past, Searching!Ranks
<1>6. Searching!VectorRanked'
  BY <1>1, <1>4 DEF Searching!VectorRanked, Searching!Ranks
<1>7. Searching!FusedOfLegs' /\ Searching!CutToThePage'
  BY <1>1 DEF Searching!FusedOfLegs, Searching!CutToThePage, Searching!Past
<1>8. Searching!OrderedOfFused'
  BY <1>1 DEF Searching!SearchInv, Searching!OrderedOfFused, Searching!Past
<1> QED
  BY <1>2, <1>3, <1>5, <1>6, <1>7, <1>8 DEF Searching!SearchInv

LEMMA VectorKeeps == Searching!SearchInv /\ Searching!Vector => Searching!SearchInv'
<1> SUFFICES ASSUME Searching!SearchInv, Searching!Vector PROVE Searching!SearchInv'
  OBVIOUS
<1> DEFINE n == Cardinality(search.scanned)
           failed == {IF request.embedder THEN "vector_leg_failed"
                      ELSE Searching!Unavailable.vector}
<1>1. /\ search.step = "vector" /\ request' = request /\ Searching!WholeSearch
      /\ search.late \in BOOLEAN /\ search.stopped \in BOOLEAN
  BY DEF Searching!Vector, Searching!SearchInv, Searching!Searchable
<1>2. n = Searching!Cardinality(search.scanned)
  BY SearchedSets, Zenon
<1> HIDE DEF n
<1>3. CASE search' = [search EXCEPT !.step = "fuse", !.notes = @ \cup failed]
  <2> DEFINE found == search.vector
             late == search.late
             stopped == search.stopped
  <2>1. "reranked" \notin failed /\ ~(failed \subseteq Searching!Disclosures)
    BY DEF Searching!Disclosures, Searching!Unavailable
  <2> HIDE DEF failed
  <2>2. search' = [search EXCEPT !.step = "fuse", !.late = late, !.stopped = stopped,
                                 !.vector = found, !.notes = @ \cup failed]
    BY <1>1, <1>3 DEF Searching!WholeSearch
  <2>3. Searching!Ranks(found.rank)
    BY DEF Searching!SearchInv, Searching!VectorRanked
  <2> HIDE DEF found, late, stopped
  <2>4. late \in BOOLEAN /\ stopped \in BOOLEAN /\ (search.stopped => stopped)
    BY <1>1 DEF late, stopped
  <2> QED
    BY <1>1, <2>1, <2>2, <2>3, <2>4, VectorEndsWell
<1>4. ASSUME NEW k \in Searching!Reach(n), NEW late \in BOOLEAN,
             search' = [search EXCEPT !.step = "fuse", !.late = late,
               !.stopped = Searching!Stopped(k, n),
               !.vector = Searching!Leg(TRUE, Searching!Similar(request.query, 1..k)),
               !.notes = @ \cup Searching!LegNotes("vector",
                                  Searching!Leg(TRUE, Searching!Similar(request.query, 1..k)))]
      PROVE  Searching!SearchInv'
  <2> DEFINE all == Searching!Similar(request.query, 1..k)
             found == Searching!Leg(TRUE, all)
             stopped == Searching!Stopped(k, n)
             told == Searching!LegNotes("vector", found)
  <2>1. search' = [search EXCEPT !.step = "fuse", !.late = late, !.stopped = stopped,
                                 !.vector = found, !.notes = @ \cup told]
    BY <1>4
  <2>2. n \in Nat /\ search.scanned = 1..n /\ search.scanned \subseteq Passages
        /\ (~search.stopped => search.scanned = Passages)
    <3>1. search.scanned \subseteq Passages
      BY DEF Searching!SearchInv, Searching!ScannedInOrder
    <3>2. IsFiniteSet(search.scanned)
      BY <3>1, SearchAssumption, FS_Subset DEF Scannable
    <3>3. n \in Nat
      BY <3>2, FS_CardinalityType DEF n
    <3> QED
      BY <1>1, <1>2, <3>1, <3>3 DEF Searching!SearchInv, Searching!ScannedInOrder, Searching!Past
  <2>3. k \in 0..n /\ 1..k \subseteq Passages
    <3>1. k \in 0..n
      BY <2>2, ReachIs
    <3> QED
      BY <2>2, <3>1, FirstPassages
  <2>4. /\ stopped \in BOOLEAN /\ (search.stopped => stopped)
        /\ ~stopped => 1..k = Passages
    BY <1>1, <2>2, <2>3 DEF Searching!Stopped
  <2>5. Searching!Ranks(all)
    BY <2>3, SimilarIs
  <2>6. ~stopped => all = Searching!Similar(request.query, Passages)
    BY <2>4
  <2> HIDE DEF all, stopped
  <2>7. found.rank = all
    BY DEF Searching!Leg
  <2>8. "reranked" \notin told
    BY LegIsSilent
  <2> HIDE DEF found, told
  <2> QED
    BY <1>1, <2>1, <2>4, <2>5, <2>6, <2>7, <2>8, VectorEndsWell
<1>5. \/ search' = [search EXCEPT !.step = "fuse", !.notes = @ \cup failed]
      \/ \E k \in Searching!Reach(n), late \in BOOLEAN :
           search' = [search EXCEPT !.step = "fuse", !.late = late,
               !.stopped = Searching!Stopped(k, n),
               !.vector = Searching!Leg(TRUE, Searching!Similar(request.query, 1..k)),
               !.notes = @ \cup Searching!LegNotes("vector",
                                  Searching!Leg(TRUE, Searching!Similar(request.query, 1..k)))]
  BY <1>2, Zenon DEF Searching!Vector
<1> QED
  BY <1>3, <1>4, <1>5

LEMMA FuseKeeps == Searching!SearchInv /\ Searching!Fuse => Searching!SearchInv'
<1> SUFFICES ASSUME Searching!SearchInv, Searching!Fuse PROVE Searching!SearchInv'
  OBVIOUS
<1> DEFINE fused == Searching!Fused(search.lexical.rank, search.vector.rank, Searching!Foreign)
           told == Searching!Told
           discounted == IF Searching!Foreign THEN {"lexical_leg_discounted"} ELSE {}
           step == IF request.reranker THEN "rerank" ELSE "page"
<1>1. /\ search.step = "fuse" /\ request' = request
      /\ search' = [search EXCEPT !.step = step, !.fused = fused, !.ordered = fused,
                                  !.notes = @ \cup told \cup discounted]
  BY Zenon DEF Searching!Fuse
<1>2. /\ "reranked" \notin told \cup discounted
      /\ search.stopped => ~(told \subseteq Searching!Disclosures)
  BY DEF Searching!Told, Searching!Disclosures
<1>3. step \in {"rerank", "page"}
  OBVIOUS
<1> HIDE DEF told, discounted, fused, step
<1>4. /\ search'.step = step /\ search'.scanned = search.scanned /\ search'.late = search.late
      /\ search'.stopped = search.stopped /\ search'.lexical = search.lexical
      /\ search'.vector = search.vector /\ search'.fused = fused
      /\ search'.ordered = fused /\ search'.notes = search.notes \cup told \cup discounted
      /\ search'.matches = search.matches
      /\ Searching!WholeSearch'
  BY <1>1 DEF Searching!SearchInv, Searching!Searchable, Searching!WholeSearch
<1>5. Searching!Searchable'
  BY <1>1, <1>3, <1>4 DEF Searching!SearchInv, Searching!Searchable
<1>6. Searching!ScannedInOrder'
  BY <1>1, <1>4 DEF Searching!SearchInv, Searching!ScannedInOrder, Searching!Past
<1>7. Searching!Untold' => Searching!Untold /\ told \subseteq Searching!Disclosures
  BY <1>4 DEF Searching!Untold
<1>8. Searching!LexicalRanked'
  BY <1>1, <1>4, <1>7 DEF Searching!SearchInv, Searching!LexicalRanked, Searching!Past, Searching!Ranks
<1>9. Searching!VectorRanked'
  BY <1>1, <1>4, <1>7 DEF Searching!SearchInv, Searching!VectorRanked, Searching!Past, Searching!Ranks
<1>10. Searching!FusedOfLegs'
  <2>1. Searching!Foreign' = Searching!Foreign
    BY <1>1, <1>4 DEF Searching!Foreign
  <2>2. search'.fused = Searching!Fused(search'.lexical.rank, search'.vector.rank, Searching!Foreign')
    BY <1>4, <2>1, Zenon DEF fused
  <2>3. search'.stopped => ~Searching!Untold'
    BY <1>2, <1>4, <1>7
  <2> QED
    BY <2>2, <2>3 DEF Searching!FusedOfLegs
<1>11. Searching!CutToThePage'
  BY <1>3, <1>4 DEF Searching!CutToThePage
<1>12. Searching!OrderedOfFused'
  BY <1>1, <1>2, <1>4 DEF Searching!SearchInv, Searching!OrderedOfFused, Searching!Past
<1> QED
  BY <1>5, <1>6, <1>8, <1>9, <1>10, <1>11, <1>12 DEF Searching!SearchInv

\* A reranker ends with the fused order, or with one of its own, and says which.
LEMMA RerankEndsWell ==
    ASSUME Searching!SearchInv, search.step = "rerank", request' = request,
           NEW ordered, NEW late \in BOOLEAN, NEW told,
           search' = [search EXCEPT !.step = "page", !.late = late, !.ordered = ordered,
                                    !.notes = @ \cup told],
           \/ "reranked" \notin told /\ ordered = search.ordered
           \/ /\ "reranked" \in told
              /\ \E score \in Searching!Scores :
                   ordered = Searching!Interleaved(search.fused,
                     Searching!Reordered(Searching!Documents(search.fused), score))
    PROVE  Searching!SearchInv'
<1>1. /\ search'.step = "page" /\ search'.scanned = search.scanned /\ search'.late = late
      /\ search'.stopped = search.stopped /\ search'.lexical = search.lexical
      /\ search'.vector = search.vector /\ search'.fused = search.fused
      /\ search'.ordered = ordered /\ search'.notes = search.notes \cup told
      /\ search'.matches = search.matches
      /\ Searching!WholeSearch'
  BY DEF Searching!SearchInv, Searching!Searchable, Searching!WholeSearch
<1>2. Searching!Searchable'
  BY <1>1 DEF Searching!SearchInv, Searching!Searchable
<1>3. Searching!ScannedInOrder'
  BY <1>1 DEF Searching!SearchInv, Searching!ScannedInOrder, Searching!Past
<1>4. Searching!Untold' => Searching!Untold
  BY <1>1 DEF Searching!Untold
<1>5. Searching!LexicalRanked'
  BY <1>1, <1>4 DEF Searching!SearchInv, Searching!LexicalRanked, Searching!Past, Searching!Ranks
<1>6. Searching!VectorRanked'
  BY <1>1, <1>4 DEF Searching!SearchInv, Searching!VectorRanked, Searching!Past, Searching!Ranks
<1>7. Searching!FusedOfLegs'
  <2>1. /\ search.stopped => ~Searching!Untold
        /\ search.fused = Searching!Fused(search.lexical.rank, search.vector.rank, Searching!Foreign)
    BY DEF Searching!SearchInv, Searching!FusedOfLegs, Searching!Past
  <2>2. Searching!Foreign' = Searching!Foreign
    BY <1>1 DEF Searching!Foreign
  <2>3. search'.fused = Searching!Fused(search'.lexical.rank, search'.vector.rank, Searching!Foreign')
    BY <1>1, <2>1, <2>2, Zenon
  <2>4. search'.stopped => ~Searching!Untold'
    BY <1>1, <1>4, <2>1
  <2> QED
    BY <2>3, <2>4 DEF Searching!FusedOfLegs
<1>8. Searching!CutToThePage'
  BY <1>1 DEF Searching!CutToThePage
<1>9. "reranked" \notin search.notes /\ search.ordered = search.fused
  BY DEF Searching!SearchInv, Searching!OrderedOfFused, Searching!Past
<1>10. Searching!OrderedOfFused'
  <2>1. "reranked" \in search'.notes <=> "reranked" \in told
    BY <1>1, <1>9
  <2>2. search'.step = "page"
    BY <1>1
  <2>3. "reranked" \notin told => search'.ordered = search'.fused
    BY <1>1, <1>9
  <2>4. "reranked" \in told =>
          \E score \in Searching!Scores :
            search'.ordered = Searching!Interleaved(search'.fused,
              Searching!Reordered(Searching!Documents(search'.fused), score))
    BY <1>1
  <2> QED
    BY <2>1, <2>2, <2>3, <2>4 DEF Searching!OrderedOfFused, Searching!Past
<1> QED
  BY <1>2, <1>3, <1>5, <1>6, <1>7, <1>8, <1>10 DEF Searching!SearchInv

LEMMA RerankKeeps == Searching!SearchInv /\ Searching!Rerank => Searching!SearchInv'
<1> SUFFICES ASSUME Searching!SearchInv, Searching!Rerank PROVE Searching!SearchInv'
  OBVIOUS
<1>1. /\ search.step = "rerank" /\ request' = request /\ Searching!WholeSearch
      /\ search.late \in BOOLEAN
  BY DEF Searching!Rerank, Searching!SearchInv, Searching!Searchable
<1> DEFINE Order(score) == Searching!Interleaved(search.fused,
                             Searching!Reordered(Searching!Documents(search.fused), score))
           Ends(late, ordered, told) ==
             search' = [search EXCEPT !.step = "page", !.late = late, !.ordered = ordered,
                                      !.notes = @ \cup told]
           Late(late) == IF late THEN {"max_elapsed_ms_exceeded"} ELSE {}
<1>2. \A late : "reranked" \notin Late(late)
  OBVIOUS
<1>3. CASE \/ search' = [search EXCEPT !.step = "page"]
           \/ search' = [search EXCEPT !.step = "page",
                                       !.notes = @ \cup {"max_elapsed_ms_exceeded"}]
  <2> DEFINE none == {}
             late == search.late
             ordered == search.ordered
  <2>1. PICK told \in {{}, {"max_elapsed_ms_exceeded"}} : Ends(late, ordered, told)
    <3>1. CASE search' = [search EXCEPT !.step = "page"]
      <4>1. Ends(late, ordered, none)
        <5>1. search.notes \cup none = search.notes
          OBVIOUS
        <5> HIDE DEF none
        <5> QED
          BY <1>1, <3>1, <5>1 DEF Searching!WholeSearch
      <4> QED
        BY <4>1
    <3>2. CASE search' = [search EXCEPT !.step = "page",
                                        !.notes = @ \cup {"max_elapsed_ms_exceeded"}]
      <4> DEFINE marks == {"max_elapsed_ms_exceeded"}
      <4>1. search' = [search EXCEPT !.step = "page", !.notes = @ \cup marks]
        BY <3>2
      <4> HIDE DEF marks
      <4>2. Ends(late, ordered, marks)
        BY <1>1, <4>1 DEF Searching!WholeSearch
      <4> QED
        BY <4>2 DEF marks
    <3> QED
      BY <1>3, <3>1, <3>2
  <2>2. "reranked" \notin told
    OBVIOUS
  <2>3. late \in BOOLEAN /\ ordered = search.ordered
    BY <1>1
  <2>4. Ends(late, ordered, told)
    BY <2>1
  <2> HIDE DEF late, ordered
  <2> QED
    BY <1>1, <2>2, <2>3, <2>4, RerankEndsWell
<1>4. ASSUME NEW late \in BOOLEAN,
             search' = [search EXCEPT !.step = "page", !.late = late,
                          !.notes = @ \cup Late(late) \cup {"rerank_failed"}]
      PROVE  Searching!SearchInv'
  <2> DEFINE told == Late(late) \cup {"rerank_failed"}
             ordered == search.ordered
  <2>1. "reranked" \notin told
    OBVIOUS
  <2>2. search.notes \cup told = search.notes \cup Late(late) \cup {"rerank_failed"}
    OBVIOUS
  <2>3. search' = [search EXCEPT !.step = "page", !.late = late, !.notes = search.notes \cup told]
    BY <1>1, <1>4, <2>2 DEF Searching!WholeSearch
  <2> HIDE DEF told
  <2>4. Ends(late, ordered, told)
    BY <1>1, <2>3 DEF Searching!WholeSearch
  <2>5. ordered = search.ordered
    OBVIOUS
  <2> HIDE DEF ordered
  <2> QED
    BY <1>1, <2>1, <2>4, <2>5, RerankEndsWell
<1>5. ASSUME NEW late \in BOOLEAN, NEW score \in Searching!Scores,
             search' = [search EXCEPT !.step = "page", !.late = late, !.ordered = Order(score),
                          !.notes = @ \cup Late(late) \cup {"reranked"}]
      PROVE  Searching!SearchInv'
  <2> DEFINE told == Late(late) \cup {"reranked"}
             ordered == Order(score)
  <2>1. "reranked" \in told
    OBVIOUS
  <2>2. search.notes \cup told = search.notes \cup Late(late) \cup {"reranked"}
    OBVIOUS
  <2>3. \E s \in Searching!Scores :
          ordered = Searching!Interleaved(search.fused,
                      Searching!Reordered(Searching!Documents(search.fused), s))
    OBVIOUS
  <2> HIDE DEF ordered
  <2>4. search' = [search EXCEPT !.step = "page", !.late = late, !.ordered = ordered,
                                 !.notes = search.notes \cup told]
    BY <1>1, <1>5, <2>2 DEF Searching!WholeSearch, ordered
  <2> HIDE DEF told
  <2>5. Ends(late, ordered, told)
    BY <1>1, <2>4 DEF Searching!WholeSearch
  <2> QED
    BY <1>1, <2>1, <2>3, <2>5, RerankEndsWell
<1>6. \/ search' = [search EXCEPT !.step = "page"]
      \/ search' = [search EXCEPT !.step = "page",
                                  !.notes = @ \cup {"max_elapsed_ms_exceeded"}]
      \/ \E late \in BOOLEAN :
           \/ search' = [search EXCEPT !.step = "page", !.late = late,
                           !.notes = @ \cup Late(late) \cup {"rerank_failed"}]
           \/ \E score \in Searching!Scores :
                search' = [search EXCEPT !.step = "page", !.late = late, !.ordered = Order(score),
                             !.notes = @ \cup Late(late) \cup {"reranked"}]
  BY Zenon DEF Searching!Rerank
<1> HIDE DEF Late, Order
<1> QED
  BY <1>3, <1>4, <1>5, <1>6

LEMMA PageKeeps == Searching!SearchInv /\ Searching!Page => Searching!SearchInv'
<1> SUFFICES ASSUME Searching!SearchInv, Searching!Page PROVE Searching!SearchInv'
  OBVIOUS
<1> DEFINE rest == SubSeq(search.ordered, request.budget.offset + 1, Len(search.ordered))
<1>1. search.step = "page" /\ request' = request
  BY DEF Searching!Page
<1>2. PICK matches, told :
        /\ told \in {{}, {"max_candidates_exceeded"}, {"max_extracted_chars_exceeded"}}
        /\ search' = [search EXCEPT !.step = "done", !.matches = matches,
                                    !.notes = @ \cup told]
        /\ told = {} => matches = rest
  <2> DEFINE full(i) == i >= request.budget.candidates
                          \/ Searching!Taken(rest, i) >= request.budget.chars
             cut == {i \in 0..Len(rest) - 1 : full(i)}
             first == CHOOSE i \in cut : \A j \in cut : i <= j
             note == IF first >= request.budget.candidates
                     THEN "max_candidates_exceeded" ELSE "max_extracted_chars_exceeded"
             none == {}
  <2>1. search' = IF cut = {} THEN [search EXCEPT !.step = "done", !.matches = rest]
                  ELSE [search EXCEPT !.step = "done", !.matches = SubSeq(rest, 1, first),
                                      !.notes = @ \cup {note}]
    BY Zenon DEF Searching!Page
  <2>2. note \in {"max_candidates_exceeded", "max_extracted_chars_exceeded"}
    OBVIOUS
  <2> HIDE DEF cut, first, note, rest
  <2>3. CASE cut = {}
    <3>1. search.notes \cup none = search.notes
      OBVIOUS
    <3>2. search' = [search EXCEPT !.step = "done", !.matches = rest]
      BY <2>1, <2>3
    <3>4. none = {}
      OBVIOUS
    <3> HIDE DEF none
    <3>3. search' = [search EXCEPT !.step = "done", !.matches = rest, !.notes = @ \cup none]
      BY <3>1, <3>2 DEF Searching!SearchInv, Searching!Searchable, Searching!WholeSearch
    <3> QED
      BY <3>3, <3>4
  <2>4. CASE cut # {}
    <3> DEFINE some == SubSeq(rest, 1, first)
               told == {note}
    <3>1. search' = [search EXCEPT !.step = "done", !.matches = some, !.notes = @ \cup told]
      BY <2>1, <2>4
    <3>2. told \in {{}, {"max_candidates_exceeded"}, {"max_extracted_chars_exceeded"}}
          /\ told # {}
      BY <2>2
    <3> HIDE DEF some, told
    <3> QED
      BY <3>1, <3>2
  <2> QED
    BY <2>3, <2>4
<1> HIDE DEF rest
<1>3. /\ search'.step = "done" /\ search'.scanned = search.scanned /\ search'.late = search.late
      /\ search'.stopped = search.stopped /\ search'.lexical = search.lexical
      /\ search'.vector = search.vector /\ search'.fused = search.fused
      /\ search'.ordered = search.ordered /\ search'.notes = search.notes \cup told
      /\ search'.matches = matches
      /\ Searching!WholeSearch'
  BY <1>2 DEF Searching!SearchInv, Searching!Searchable, Searching!WholeSearch
<1>4. Searching!Searchable'
  BY <1>1, <1>3 DEF Searching!SearchInv, Searching!Searchable
<1>5. Searching!ScannedInOrder'
  BY <1>1, <1>3 DEF Searching!SearchInv, Searching!ScannedInOrder, Searching!Past
<1>6. Searching!Untold' => Searching!Untold /\ told = {}
  <2>1. Searching!Untold' => Searching!Untold /\ told \subseteq Searching!Disclosures
    BY <1>3 DEF Searching!Untold
  <2>2. told # {} => ~(told \subseteq Searching!Disclosures)
    BY <1>2 DEF Searching!Disclosures
  <2> QED
    BY <2>1, <2>2
<1>7. Searching!LexicalRanked'
  BY <1>1, <1>3, <1>6 DEF Searching!SearchInv, Searching!LexicalRanked, Searching!Past, Searching!Ranks
<1>8. Searching!VectorRanked'
  BY <1>1, <1>3, <1>6 DEF Searching!SearchInv, Searching!VectorRanked, Searching!Past, Searching!Ranks
<1>9. Searching!FusedOfLegs'
  <2>1. /\ search.stopped => ~Searching!Untold
        /\ search.fused = Searching!Fused(search.lexical.rank, search.vector.rank, Searching!Foreign)
    BY <1>1 DEF Searching!SearchInv, Searching!FusedOfLegs, Searching!Past
  <2>2. Searching!Foreign' = Searching!Foreign
    BY <1>1, <1>3 DEF Searching!Foreign
  <2>3. search'.fused = Searching!Fused(search'.lexical.rank, search'.vector.rank, Searching!Foreign')
    BY <1>3, <2>1, <2>2, Zenon
  <2>4. search'.stopped => ~Searching!Untold'
    BY <1>3, <1>6, <2>1
  <2> QED
    BY <2>3, <2>4 DEF Searching!FusedOfLegs
<1>10. Searching!CutToThePage'
  <2>1. Searching!Untold' => search'.matches =
          SubSeq(search'.ordered, request'.budget.offset + 1, Len(search'.ordered))
    BY <1>1, <1>2, <1>3, <1>6 DEF rest
  <2> QED
    BY <2>1 DEF Searching!CutToThePage
<1>11. Searching!OrderedOfFused'
  <2>1. "reranked" \in search'.notes <=> "reranked" \in search.notes
    BY <1>2, <1>3
  <2> QED
    BY <1>1, <1>3, <2>1 DEF Searching!SearchInv, Searching!OrderedOfFused, Searching!Past
<1> QED
  BY <1>4, <1>5, <1>7, <1>8, <1>9, <1>10, <1>11 DEF Searching!SearchInv

LEMMA SearchKeeps == Searching!SearchInv /\ [Searching!Next]_(Searching!searchVars) => Searching!SearchInv'
<1> SUFFICES ASSUME Searching!SearchInv, [Searching!Next]_(Searching!searchVars) PROVE Searching!SearchInv'
  OBVIOUS
<1>1. CASE Searching!Next
  BY <1>1, ScanKeeps, LexicalKeeps, VectorKeeps, FuseKeeps, RerankKeeps, PageKeeps DEF Searching!Next
<1>2. CASE UNCHANGED Searching!searchVars
  <2>1. request' = request /\ search' = search
    BY <1>2 DEF Searching!searchVars
  <2>2. Searching!Foreign' = Searching!Foreign /\ (Searching!Untold' <=> Searching!Untold)
    BY <2>1 DEF Searching!Foreign, Searching!Untold
  <2>3. Searching!Searchable' /\ Searching!ScannedInOrder'
    BY <2>1 DEF Searching!SearchInv, Searching!Searchable, Searching!ScannedInOrder,
                Searching!Past, Searching!WholeSearch
  <2>4. Searching!LexicalRanked' /\ Searching!VectorRanked'
    BY <2>1, <2>2 DEF Searching!SearchInv, Searching!LexicalRanked, Searching!VectorRanked,
                      Searching!Past, Searching!Ranks
  <2>5. Searching!FusedOfLegs'
    BY <2>1, <2>2 DEF Searching!SearchInv, Searching!FusedOfLegs, Searching!Past
  <2>6. Searching!OrderedOfFused'
    BY <2>1 DEF Searching!SearchInv, Searching!OrderedOfFused, Searching!Past
  <2>7. Searching!CutToThePage'
    BY <2>1, <2>2 DEF Searching!SearchInv, Searching!CutToThePage
  <2> QED
    BY <2>3, <2>4, <2>5, <2>6, <2>7 DEF Searching!SearchInv
<1> QED
  BY <1>1, <1>2

LEMMA SearchSteps == Searching!Spec => []Searching!SearchInv
BY SearchInit, SearchKeeps, PTL DEF Searching!Spec

--------------------------------------------------------------------------------
(* The fused ranking *)

\* Multiplying by a factor keeps what is not greater, and dividing by one that is not zero.
LEMMA Multiplied ==
    ASSUME NEW x \in Nat, NEW y \in Nat, NEW z \in Nat
    PROVE  /\ x <= y => x * z <= y * z
           /\ z # 0 /\ x * z <= y * z => x <= y
<1>1. ASSUME x <= y PROVE x * z <= y * z
  <2>1. (y - x) * z >= 0
    <3>1. y - x \in Nat
      BY <1>1
    <3> DEFINE d == y - x
    <3>2. d \in Nat
      BY <3>1
    <3> HIDE DEF d
    <3>3. d * z >= 0
      BY <3>2
    <3> QED
      BY <3>3 DEF d
  <2>2. (y - x) * z = y * z - x * z
    OBVIOUS
  <2>3. x * z \in Int /\ y * z \in Int
    OBVIOUS
  <2> QED
    BY <2>1, <2>2, <2>3
<1>2. ASSUME z # 0, x * z <= y * z, ~(x <= y) PROVE FALSE
  <2> DEFINE d == x - y
  <2>1. d \in Nat /\ d >= 1 /\ x = y + d
    BY <1>2
  <2> HIDE DEF d
  <2>2. x * z = y * z + d * z
    BY <2>1
  <2>3. d * z >= 1
    BY <1>2, <2>1
  <2>4. x * z \in Int /\ y * z \in Int /\ d * z \in Int
    BY <2>1
  <2> QED
    BY <1>2, <2>2, <2>3, <2>4
<1> QED
  BY <1>1, <1>2

\* The order of fractions is an order.
Fraction == Nat \X (Nat \ {0})

LEMMA FractionsOrdered ==
    ASSUME NEW s \in Fraction, NEW t \in Fraction, NEW u \in Fraction,
           ~Searching!Above(t, s), ~Searching!Above(u, t)
    PROVE  ~Searching!Above(u, s)
<1> DEFINE a == s[1]
           b == s[2]
           c == t[1]
           d == t[2]
           e == u[1]
           f == u[2]
<1>1. /\ a \in Nat /\ b \in Nat /\ b # 0 /\ c \in Nat /\ d \in Nat /\ d # 0
      /\ e \in Nat /\ f \in Nat /\ f # 0
  BY DEF Fraction
<1>2. ~(c * b > a * d) /\ ~(e * d > c * f)
  BY DEF Searching!Above
<1>3. e * b <= a * f => ~Searching!Above(u, s)
  <2> SUFFICES ASSUME e * b <= a * f PROVE ~(e * b > a * f)
    BY DEF Searching!Above
  <2>1. e * b \in Int /\ a * f \in Int
    BY <1>1
  <2> QED
    BY <2>1
<1> HIDE DEF a, b, c, d, e, f
<1>4. /\ c * b \in Nat /\ a * d \in Nat /\ e * d \in Nat /\ c * f \in Nat /\ e * b \in Nat
      /\ a * f \in Nat
  BY <1>1
<1>5. c * b <= a * d /\ e * d <= c * f
  BY <1>2, <1>4
<1>6. (c * b) * f <= (a * d) * f /\ (e * d) * b <= (c * f) * b
  BY <1>1, <1>4, <1>5, Multiplied
<1>7. (e * b) * d <= (a * f) * d
  <2>1. (e * d) * b = (e * b) * d /\ (c * f) * b = (c * b) * f /\ (a * d) * f = (a * f) * d
    BY <1>1
  <2>2. (e * b) * d \in Nat /\ (a * f) * d \in Nat /\ (c * b) * f \in Nat
    BY <1>1, <1>4
  <2> QED
    BY <1>6, <2>1, <2>2
<1>8. e * b <= a * f
  BY <1>1, <1>4, <1>7, Multiplied
<1> QED
  BY <1>3, <1>8

LEMMA AboveIsOneWay ==
    ASSUME NEW s \in Fraction, NEW t \in Fraction, Searching!Above(s, t)
    PROVE  ~Searching!Above(t, s)
<1>1. s[1] * t[2] \in Int /\ t[1] * s[2] \in Int
  BY DEF Fraction
<1> QED
  BY <1>1 DEF Searching!Above

\* A passage's share, and its score, is a fraction.
LEMMA ScoreIs ==
    ASSUME NEW lexical, NEW vector, Searching!Ranks(lexical), Searching!Ranks(vector),
           NEW foreign, NEW p
    PROVE  Searching!Score(lexical, vector, foreign, p) \in Fraction
<1>1. ASSUME NEW rank, Searching!Ranks(rank), NEW weight \in Nat
      PROVE  Searching!Share(rank, p, weight) \in Fraction
  <2>1. CASE p \in DOMAIN rank
    <3>1. rank[p] \in Nat
      BY <1>1, <2>1 DEF Searching!Ranks
    <3>2. Searching!RrfK + rank[p] \in Nat \ {0}
      BY <3>1 DEF Searching!RrfK
    <3>3. Searching!Share(rank, p, weight) = <<weight, Searching!RrfK + rank[p]>>
      BY <2>1 DEF Searching!Share
    <3> QED
      BY <1>1, <3>2, <3>3 DEF Fraction
  <2>2. CASE p \notin DOMAIN rank
    BY <2>2 DEF Searching!Share, Fraction
  <2> QED
    BY <2>1, <2>2
<1> DEFINE w == IF foreign THEN 1 ELSE 10
           l == Searching!Share(lexical, p, w)
           v == Searching!Share(vector, p, 10)
<1>2. w \in Nat /\ 10 \in Nat
  OBVIOUS
<1>3. Searching!Score(lexical, vector, foreign, p) = <<l[1] * v[2] + v[1] * l[2], l[2] * v[2]>>
  BY DEF Searching!Score
<1> HIDE DEF w
<1>4. l \in Fraction /\ v \in Fraction
  BY <1>1, <1>2
<1> HIDE DEF l, v
<1>5. l[1] \in Nat /\ l[2] \in Nat /\ l[2] # 0 /\ v[1] \in Nat /\ v[2] \in Nat /\ v[2] # 0
  BY <1>4 DEF Fraction
<1>6. \A x, y \in Nat : x * y \in Nat /\ (x # 0 /\ y # 0 => x * y # 0)
  OBVIOUS
<1>7. l[1] * v[2] + v[1] * l[2] \in Nat /\ l[2] * v[2] \in Nat /\ l[2] * v[2] # 0
  BY <1>5, <1>6
<1> QED
  BY <1>3, <1>7 DEF Fraction

\* The fused ranking is a list of passages.
LEMMA FusedIs ==
    ASSUME NEW lexical, NEW vector, Searching!Ranks(lexical), Searching!Ranks(vector),
           NEW foreign
    PROVE  Searching!Fused(lexical, vector, foreign) \in Seq(Passages)
<1> DEFINE refs == DOMAIN lexical \cup DOMAIN vector
           Of(p) == Searching!Score(lexical, vector, foreign, p)
           score == [p \in refs |-> Of(p)]
           Precedes(q, p) == \/ Searching!Above(score[q], score[p])
                             \/ ~Searching!Above(score[p], score[q]) /\ q < p
           R == {x \in refs \X refs : Precedes(x[1], x[2])}
           N == Cardinality(refs)
<1>1. refs \subseteq Passages
  BY DEF Searching!Ranks
<1>2. IsFiniteSet(refs) /\ N \in Nat /\ \A p \in refs : p \in Nat
  <2>1. IsFiniteSet(refs)
    BY <1>1, SearchAssumption, FS_Subset DEF Scannable
  <2>2. Passages \subseteq Nat
    <3>1. Cardinality(Passages) \in Nat
      BY SearchAssumption, FS_CardinalityType DEF Scannable
    <3> QED
      BY <3>1, SearchAssumption DEF Scannable
  <2> QED
    BY <1>1, <2>1, <2>2, FS_CardinalityType
<1>3. \A p \in refs : score[p] \in Fraction
  BY ScoreIs
<1>4. \A q, p \in refs : <<q, p>> \in R <=> Precedes(q, p)
  OBVIOUS
<1> HIDE DEF score, R
<1>5. \A p \in refs : ~Precedes(p, p)
  BY <1>2, <1>3, AboveIsOneWay
<1>6. \A p, q \in refs : p # q => Precedes(p, q) \/ Precedes(q, p)
  BY <1>2
<1>7. ASSUME NEW p \in refs, NEW q \in refs, NEW r \in refs, Precedes(p, q), Precedes(q, r)
      PROVE  Precedes(p, r)
  <2>1. score[p] \in Fraction /\ score[q] \in Fraction /\ score[r] \in Fraction
    BY <1>3
  <2>2. ~Searching!Above(score[q], score[p]) /\ ~Searching!Above(score[r], score[q])
    BY <1>7, <2>1, AboveIsOneWay
  <2>3. ~Searching!Above(score[r], score[p])
    BY <2>1, <2>2, FractionsOrdered
  <2>4. CASE Searching!Above(score[p], score[r])
    BY <2>4
  <2>5. CASE ~Searching!Above(score[p], score[r])
    <3>1. ~Searching!Above(score[p], score[q])
      BY <2>1, <2>2, <2>5, FractionsOrdered
    <3>2. ~Searching!Above(score[q], score[r])
      BY <2>1, <2>2, <2>5, FractionsOrdered
    <3>3. p < q /\ q < r
      BY <1>7, <3>1, <3>2
    <3>4. p < r
      BY <1>2, <3>3
    <3> QED
      BY <2>3, <3>4
  <2> QED
    BY <2>4, <2>5
<1>8. Orders(R, refs)
  <2> HIDE DEF Precedes, refs
  <2> QED
    BY <1>4, <1>5, <1>6, <1>7 DEF Orders
<1>9. \A k \in 1..N : \E p \in refs : PlaceIn(R, refs, p) = k
  <2> HIDE DEF refs
  <2> QED
    BY <1>2, <1>8, PlacesTaken
<1> DEFINE place == [p \in refs |-> 1 + Cardinality({q \in refs : Precedes(q, p)})]
<1>10. \A k \in 1..N : \E p \in refs : place[p] = k
  <2>1. \A p \in refs : {q \in refs : <<q, p>> \in R} = {q \in refs : Precedes(q, p)}
    BY <1>4
  <2>2. \A p \in refs : place[p] = PlaceIn(R, refs, p)
    BY <2>1 DEF PlaceIn
  <2> HIDE DEF Precedes, refs
  <2> QED
    BY <1>9, <2>2
<1>11. Searching!Fused(lexical, vector, foreign) = [k \in 1..N |-> CHOOSE p \in refs : place[p] = k]
  <2> DEFINE there == [p \in refs |-> 1 + Searching!Cardinality({q \in refs : Precedes(q, p)})]
             Table(n, f) == [k \in 1..n |-> CHOOSE p \in refs : f[p] = k]
  <2>1. Searching!Fused(lexical, vector, foreign) = Table(Searching!Cardinality(refs), there)
    BY Zenon DEF Searching!Fused, score
  <2>2. there = place /\ Searching!Cardinality(refs) = N
    <3> HIDE DEF Precedes, refs
    <3> QED
      BY SearchedSets DEF N
  <2> HIDE DEF Table, there, place, refs, N
  <2>3. Searching!Fused(lexical, vector, foreign) = Table(N, place)
    BY <2>1, <2>2, Zenon
  <2> QED
    BY <2>3, Zenon DEF Table
<1> HIDE DEF place, refs, N
<1> DEFINE fused == [k \in 1..N |-> CHOOSE p \in refs : place[p] = k]
<1>12. \A k \in 1..N : fused[k] \in refs
  BY <1>10
<1>13. fused \in Seq(Passages)
  BY <1>1, <1>2, <1>12
<1> QED
  BY <1>11, <1>13, Zenon

--------------------------------------------------------------------------------
(* The reranked order *)

LEMMA SearchedLists ==
    /\ \A s, some : Searching!Among(s, some) = Among(s, some)
    /\ \A s : Searching!Once(s) = Once(s)
    /\ \A s, key : Searching!SortedBy(s, key) = SortedBy(s, key)
<1>1. \A s, some : Searching!Among(s, some) = Among(s, some)
  BY DEF Searching!Among, Among
<1>2. \A s : Searching!Once(s) = Once(s)
  BY <1>1, Zenon DEF Searching!Once, Once
<1>3. \A key, i : Searching!Place(key, i) = Place(key, i)
  BY SearchedSets, Zenon DEF Searching!Place, Place
<1>4. ASSUME NEW s, NEW key PROVE Searching!SortedBy(s, key) = SortedBy(s, key)
  <2> DEFINE place == [i \in 1..Len(s) |-> Place(key, i)]
             there == [i \in 1..Len(s) |-> Searching!Place(key, i)]
             By(f) == [k \in 1..Len(s) |-> s[CHOOSE i \in 1..Len(s) : f[i] = k]]
  <2>1. SortedBy(s, key) = By(place) /\ Searching!SortedBy(s, key) = By(there)
    BY Zenon DEF SortedBy, Searching!SortedBy
  <2>2. there = place
    BY <1>3
  <2> HIDE DEF place, there, By
  <2> QED
    BY <2>1, <2>2
<1> QED
  BY <1>1, <1>2, <1>4

AllDocuments == {DocumentOf[p] : p \in Passages}

\* A list names nothing twice.
NamesOnce(docs) == \A i, j \in 1..Len(docs) : docs[i] = docs[j] => i = j

\* The documents of a ranking: each once, and all.
LEMMA DocumentsAre ==
    ASSUME NEW refs \in Seq(Passages)
    PROVE  /\ Searching!Documents(refs) \in Seq(AllDocuments)
           /\ NamesOnce(Searching!Documents(refs))
           /\ \A n \in 1..Len(Searching!Documents(refs)) : \E i \in 1..Len(refs) :
                Searching!Documents(refs)[n] = DocumentOf[refs[i]]
           /\ \A i \in 1..Len(refs) : \E n \in 1..Len(Searching!Documents(refs)) :
                Searching!Documents(refs)[n] = DocumentOf[refs[i]]
<1> DEFINE all == [i \in DOMAIN refs |-> DocumentOf[refs[i]]]
<1>1. Len(refs) \in Nat /\ DOMAIN refs = 1..Len(refs) /\ \A i \in 1..Len(refs) : refs[i] \in Passages
  OBVIOUS
<1>2. /\ all \in Seq(AllDocuments) /\ Len(all) = Len(refs)
      /\ \A i \in 1..Len(refs) : all[i] = DocumentOf[refs[i]]
  <2>1. all = [i \in 1..Len(refs) |-> DocumentOf[refs[i]]]
    BY <1>1
  <2>2. \A i \in 1..Len(refs) : DocumentOf[refs[i]] \in AllDocuments
    BY <1>1 DEF AllDocuments
  <2> HIDE DEF all
  <2> QED
    BY <1>1, <2>1, <2>2
<1>3. Searching!Documents(refs) = Once(all)
  BY SearchedLists, Zenon DEF Searching!Documents
<1> HIDE DEF all
<1>4. /\ Once(all) \in Seq(AllDocuments)
      /\ \A i, j \in 1..Len(Once(all)) : Once(all)[i] = Once(all)[j] => i = j
      /\ \A i \in 1..Len(Once(all)) : \E n \in 1..Len(all) : Once(all)[i] = all[n]
      /\ \A n \in 1..Len(all) : \E i \in 1..Len(Once(all)) : Once(all)[i] = all[n]
  BY <1>2, OnceIs
<1> DEFINE docs == Once(all)
<1>5. Searching!Documents(refs) = docs
  BY <1>3
<1>6. /\ docs \in Seq(AllDocuments) /\ NamesOnce(docs)
      /\ \A n \in 1..Len(docs) : \E i \in 1..Len(refs) : docs[n] = DocumentOf[refs[i]]
      /\ \A i \in 1..Len(refs) : \E n \in 1..Len(docs) : docs[n] = DocumentOf[refs[i]]
  <2>1. /\ docs \in Seq(AllDocuments) /\ NamesOnce(docs)
        /\ \A i \in 1..Len(docs) : \E n \in 1..Len(all) : docs[i] = all[n]
        /\ \A n \in 1..Len(all) : \E i \in 1..Len(docs) : docs[i] = all[n]
    BY <1>4 DEF NamesOnce
  <2> HIDE DEF docs
  <2>2. \A n \in 1..Len(docs) : \E i \in 1..Len(refs) : docs[n] = DocumentOf[refs[i]]
    <3> SUFFICES ASSUME NEW n \in 1..Len(docs)
                 PROVE  \E i \in 1..Len(refs) : docs[n] = DocumentOf[refs[i]]
      OBVIOUS
    <3>1. PICK i \in 1..Len(all) : docs[n] = all[i]
      BY <2>1
    <3>2. i \in 1..Len(refs) /\ all[i] = DocumentOf[refs[i]]
      BY <1>2
    <3> QED
      BY <3>1, <3>2
  <2>3. \A i \in 1..Len(refs) : \E n \in 1..Len(docs) : docs[n] = DocumentOf[refs[i]]
    <3> SUFFICES ASSUME NEW i \in 1..Len(refs)
                 PROVE  \E n \in 1..Len(docs) : docs[n] = DocumentOf[refs[i]]
      OBVIOUS
    <3>1. PICK n \in 1..Len(docs) : docs[n] = all[i]
      BY <1>2, <2>1
    <3> QED
      BY <1>2, <3>1
  <2> QED
    BY <2>1, <2>2, <2>3
<1> HIDE DEF docs
<1> QED
  BY <1>5, <1>6

\* A list is another one in another order.
Rearranges(x, s) ==
    /\ Len(x) = Len(s)
    /\ \A n \in 1..Len(s) : \E i \in 1..Len(x) : x[i] = s[n]
    /\ \A i \in 1..Len(x) : \E n \in 1..Len(s) : x[i] = s[n]
    /\ NamesOnce(s) => NamesOnce(x)

\* What a reranker reads it sorts, and nothing is lost by that.
LEMMA ReorderedIs ==
    ASSUME NEW docs \in Seq(AllDocuments), NEW score \in Searching!Scores
    PROVE  /\ Searching!Reordered(docs, score) \in Seq(AllDocuments)
           /\ Rearranges(Searching!Reordered(docs, score), docs)
<1> DEFINE L == Len(docs)
           m == IF L < Depth THEN L ELSE Depth
           front == SubSeq(docs, 1, m)
           key == [i \in DOMAIN front |-> 0 - score[front[i]]]
           sorted == SortedBy(front, key)
           rest == SubSeq(docs, m + 1, L)
           x == sorted \o rest
<1>1. L \in Nat /\ m \in Nat /\ m <= L /\ \A i \in 1..L : docs[i] \in AllDocuments
  <2>1. L \in Nat /\ Depth \in Nat
    BY SearchAssumption DEF Scannable
  <2>2. \A i \in 1..L : docs[i] \in AllDocuments
    OBVIOUS
  <2> HIDE DEF L
  <2> QED
    BY <2>1, <2>2
<1>2. Searching!Read(docs) = front
  BY DEF Searching!Read
<1>3. Searching!Reordered(docs, score) = Searching!SortedBy(front, key) \o SubSeq(docs, Len(front) + 1, L)
  BY <1>2, Zenon DEF Searching!Reordered, Searching!Sorted
<1> HIDE DEF m, L
<1>4. front \in Seq(AllDocuments) /\ Len(front) = m /\ \A i \in 1..m : front[i] = docs[i]
  BY <1>1 DEF L
<1>5. rest \in Seq(AllDocuments) /\ Len(rest) = L - m /\ \A i \in 1..(L - m) : rest[i] = docs[m + i]
  <2>1. m + 1 \in 1..(L + 1) /\ L \in Nat
    BY <1>1
  <2>2. Len(rest) = L - m
    BY <1>1
  <2>3. \A i \in 1..(L - m) : rest[i] = docs[m + i]
    BY <1>1
  <2>4. \A i \in m + 1..L : docs[i] \in AllDocuments
    BY <1>1
  <2>5. rest \in Seq(AllDocuments)
    BY <1>1, <2>4
  <2> QED
    BY <2>2, <2>3, <2>5
<1> HIDE DEF front, rest
<1>6. Searching!Reordered(docs, score) = x
  <2>1. Searching!SortedBy(front, key) = sorted
    BY SearchedLists, Zenon
  <2>2. SubSeq(docs, Len(front) + 1, L) = rest
    BY <1>4 DEF rest
  <2> HIDE DEF sorted, key
  <2> QED
    BY <1>3, <2>1, <2>2
<1>7. key \in [1..Len(front) -> Int]
  <2>1. DOMAIN front = 1..Len(front) /\ \A i \in 1..Len(front) : front[i] \in AllDocuments
    BY <1>4
  <2>2. \A d \in AllDocuments : score[d] \in Int
    BY DEF Searching!Scores, AllDocuments
  <2> QED
    BY <2>1, <2>2
<1> HIDE DEF key
<1>8. sorted \in Seq(AllDocuments) /\ Len(sorted) = m
  BY <1>4, <1>7, SortedIs
<1>9. PICK at : Sorts(at, sorted, front, key)
  BY <1>4, <1>7, SortedIs
<1>10. /\ at \in [1..m -> 1..m] /\ \A k \in 1..m : sorted[k] = docs[at[k]]
       /\ \A i \in 1..m : \E k \in 1..m : at[k] = i
       /\ \A k, l \in 1..m : at[k] = at[l] => k = l
  <2>1. /\ at \in [1..m -> 1..m] /\ \A k \in 1..m : sorted[k] = front[at[k]]
        /\ \A i \in 1..m : \E k \in 1..m : at[k] = i
        /\ \A k, l \in 1..m : k < l => key[at[k]] < key[at[l]]
                                    \/ (key[at[k]] = key[at[l]] /\ at[k] < at[l])
    BY <1>4, <1>9 DEF Sorts
  <2>2. \A k \in 1..m : at[k] \in 1..m /\ at[k] \in Int /\ key[at[k]] \in Int
    BY <1>1, <1>4, <1>7, <2>1
  <2>3. \A k, l \in 1..m : at[k] = at[l] => ~(k < l)
    <3> SUFFICES ASSUME NEW k \in 1..m, NEW l \in 1..m, at[k] = at[l], k < l PROVE FALSE
      OBVIOUS
    <3>1. key[at[k]] < key[at[l]] \/ at[k] < at[l]
      BY <2>1
    <3>2. key[at[k]] < key[at[k]] \/ at[k] < at[k]
      BY <3>1
    <3> HIDE DEF sorted
    <3> QED
      BY <2>2, <3>2
  <2>4. \A k, l \in 1..m : at[k] = at[l] => k = l
    BY <1>1, <2>3
  <2> QED
    BY <1>4, <2>1, <2>2, <2>4
<1> HIDE DEF sorted
<1>11. x \in Seq(AllDocuments) /\ Len(x) = L
  BY <1>1, <1>5, <1>8
<1>12. /\ \A i \in 1..m : x[i] = docs[at[i]]
       /\ \A i \in m + 1..L : x[i] = docs[i]
  <2>1. \A i \in 1..m : x[i] = sorted[i]
    BY <1>1, <1>5, <1>8
  <2>2. ASSUME NEW i \in m + 1..L PROVE x[i] = docs[i]
    <3>1. i - m \in 1..(L - m) /\ i \in 1..L /\ ~(i <= m)
      BY <1>1
    <3>2. x[i] = rest[i - m]
      BY <1>1, <1>5, <1>8, <3>1
    <3>3. rest[i - m] = docs[m + (i - m)]
      BY <1>5, <3>1
    <3>4. m + (i - m) = i
      BY <1>1
    <3> QED
      BY <3>2, <3>3, <3>4
  <2> QED
    BY <1>10, <2>1, <2>2
<1> HIDE DEF x
<1>13. \A n \in 1..L : \E i \in 1..L : x[i] = docs[n]
  <2> SUFFICES ASSUME NEW n \in 1..L PROVE \E i \in 1..L : x[i] = docs[n]
    OBVIOUS
  <2>1. CASE n \in 1..m
    <3>1. PICK k \in 1..m : at[k] = n
      BY <1>10, <2>1
    <3> QED
      BY <1>1, <1>12, <3>1
  <2>2. CASE n \in m + 1..L
    BY <1>12, <2>2
  <2> QED
    BY <1>1, <2>1, <2>2
<1>14. ASSUME NamesOnce(docs), NEW i \in 1..L, NEW j \in 1..L, x[i] = x[j] PROVE i = j
  <2> DEFINE from(k) == IF k <= m THEN at[k] ELSE k
  <2>1. \A k \in 1..L : from(k) \in 1..L /\ x[k] = docs[from(k)]
                        /\ (k <= m => from(k) \in 1..m) /\ (~(k <= m) => from(k) = k)
    <3> SUFFICES ASSUME NEW k \in 1..L
                 PROVE  from(k) \in 1..L /\ x[k] = docs[from(k)]
                        /\ (k <= m => from(k) \in 1..m) /\ (~(k <= m) => from(k) = k)
      OBVIOUS
    <3>1. CASE k <= m
      <4>1. k \in 1..m /\ from(k) = at[k]
        BY <1>1, <3>1
      <4>2. at[k] \in 1..m /\ x[k] = docs[at[k]]
        BY <1>10, <1>12, <4>1
      <4> QED
        BY <1>1, <3>1, <4>1, <4>2
    <3>2. CASE ~(k <= m)
      <4>1. k \in m + 1..L /\ from(k) = k
        BY <1>1, <3>2
      <4> QED
        BY <1>12, <3>2, <4>1
    <3> QED
      BY <3>1, <3>2
  <2>2. from(i) = from(j)
    <3> HIDE DEF from
    <3> QED
      BY <1>14, <2>1 DEF NamesOnce, L
  <2>3. CASE i <= m /\ j <= m
    <3>1. i \in 1..m /\ j \in 1..m /\ at[i] = at[j]
      BY <1>1, <2>2, <2>3
    <3> QED
      BY <1>10, <3>1
  <2>4. CASE ~(i <= m) /\ ~(j <= m)
    BY <2>2, <2>4
  <2>5. CASE i <= m /\ ~(j <= m)
    BY <1>1, <2>1, <2>2, <2>5
  <2>6. CASE ~(i <= m) /\ j <= m
    BY <1>1, <2>1, <2>2, <2>6
  <2> QED
    BY <2>3, <2>4, <2>5, <2>6
<1>16. \A i \in 1..L : \E n \in 1..L : x[i] = docs[n]
  <2> SUFFICES ASSUME NEW i \in 1..L PROVE \E n \in 1..L : x[i] = docs[n]
    OBVIOUS
  <2>1. CASE i <= m
    <3>1. i \in 1..m
      BY <1>1, <2>1
    <3>2. at[i] \in 1..m /\ x[i] = docs[at[i]]
      BY <1>10, <1>12, <3>1
    <3> QED
      BY <1>1, <3>2
  <2>2. CASE ~(i <= m)
    <3>1. i \in m + 1..L
      BY <1>1, <2>2
    <3> QED
      BY <1>12, <3>1
  <2> QED
    BY <2>1, <2>2
<1>15. Rearranges(x, docs)
  BY <1>11, <1>13, <1>14, <1>16 DEF Rearranges, NamesOnce, L
<1> QED
  BY <1>6, <1>11, <1>15

\* A pair as one number: a row of less than `wide` places.
LEMMA PairsInOrder ==
    ASSUME NEW wide \in Nat, NEW a \in Nat, NEW b \in Nat, NEW c \in Nat, NEW d \in Nat,
           b < wide, d < wide, a * wide + b <= c * wide + d
    PROVE  a < c \/ (a = c /\ b <= d)
<1>1. ~(c < a)
  <2> SUFFICES ASSUME c < a PROVE FALSE
    OBVIOUS
  <2>1. (c + 1) * wide <= a * wide
    <3>1. c + 1 \in Nat /\ c + 1 <= a
      OBVIOUS
    <3> DEFINE e == c + 1
    <3>2. e \in Nat /\ e <= a
      BY <3>1
    <3> HIDE DEF e
    <3>3. e * wide <= a * wide
      BY <3>2, Multiplied
    <3> QED
      BY <3>3 DEF e
  <2>2. (c + 1) * wide = c * wide + wide
    OBVIOUS
  <2>3. a * wide \in Int /\ c * wide \in Int
    OBVIOUS
  <2> QED
    BY <2>1, <2>2, <2>3
<1>2. ASSUME a = c PROVE b <= d
  <2>1. a * wide + b <= a * wide + d
    BY <1>2
  <2>2. a * wide \in Int
    OBVIOUS
  <2> QED
    BY <2>1, <2>2
<1> QED
  BY <1>1, <1>2

\* How many passages of its document a passage of a ranking has before it, itself counted.
RowOf(s, i) == Cardinality({j \in 1..i : DocumentOf[s[j]] = DocumentOf[s[i]]})

LEMMA RowsAre ==
    ASSUME NEW s \in Seq(Passages)
    PROVE  /\ \A i \in 1..Len(s) : RowOf(s, i) \in Nat /\ RowOf(s, i) >= 1
           /\ \A i, j \in 1..Len(s) : i < j /\ DocumentOf[s[i]] = DocumentOf[s[j]] =>
                RowOf(s, i) < RowOf(s, j)
           /\ \A i \in 1..Len(s) :
                (\A j \in 1..(i - 1) : DocumentOf[s[j]] # DocumentOf[s[i]]) => RowOf(s, i) = 1
<1> DEFINE Mine(i) == {j \in 1..i : DocumentOf[s[j]] = DocumentOf[s[i]]}
<1>1. Len(s) \in Nat
  OBVIOUS
<1>2. ASSUME NEW i \in 1..Len(s)
      PROVE  IsFiniteSet(Mine(i)) /\ Cardinality(Mine(i)) \in Nat /\ i \in Mine(i)
             /\ RowOf(s, i) = Cardinality(Mine(i))
  <2>1. 1 \in Int /\ i \in Int
    OBVIOUS
  <2>2. IsFiniteSet(1..i)
    BY <2>1, FS_Interval
  <2>3. Mine(i) \in SUBSET (1..i) /\ i \in Mine(i)
    OBVIOUS
  <2>4. IsFiniteSet(Mine(i))
    <3> HIDE DEF Mine
    <3> QED
      BY <2>2, <2>3, FS_Subset
  <2>5. RowOf(s, i) = Cardinality(Mine(i))
    BY DEF RowOf
  <2> HIDE DEF Mine
  <2> QED
    BY <2>3, <2>4, <2>5, FS_CardinalityType
<1>3. ASSUME NEW i \in 1..Len(s) PROVE RowOf(s, i) \in Nat /\ RowOf(s, i) >= 1
  <2>1. IsFiniteSet(Mine(i)) /\ Cardinality(Mine(i)) \in Nat /\ Mine(i) # {}
        /\ RowOf(s, i) = Cardinality(Mine(i))
    BY <1>2
  <2> HIDE DEF Mine
  <2>2. Cardinality(Mine(i)) # 0
    BY <2>1, FS_EmptySet
  <2> QED
    BY <2>1, <2>2
<1>4. ASSUME NEW i \in 1..Len(s), NEW j \in 1..Len(s), i < j, DocumentOf[s[i]] = DocumentOf[s[j]]
      PROVE  RowOf(s, i) < RowOf(s, j)
  <2> DEFINE A == Mine(j)
             B == Mine(i)
  <2>1. B \in SUBSET A /\ j \in A /\ j \notin B
    BY <1>4
  <2>2. /\ IsFiniteSet(A) /\ Cardinality(A) \in Nat /\ Cardinality(B) \in Nat
        /\ RowOf(s, i) = Cardinality(B) /\ RowOf(s, j) = Cardinality(A)
    BY <1>2
  <2> HIDE DEF A, B
  <2>3. Cardinality(B) <= Cardinality(A) /\ (Cardinality(A) = Cardinality(B) => A = B)
    BY <2>1, <2>2, FS_Subset
  <2> QED
    BY <2>1, <2>2, <2>3
<1>5. ASSUME NEW i \in 1..Len(s), \A j \in 1..(i - 1) : DocumentOf[s[j]] # DocumentOf[s[i]]
      PROVE  RowOf(s, i) = 1
  <2>1. Mine(i) = {i}
    <3>1. \A j \in 1..i : j = i \/ j \in 1..(i - 1)
      OBVIOUS
    <3> QED
      BY <1>5, <3>1
  <2>2. Cardinality({i}) = 1
    BY FS_Singleton
  <2> QED
    BY <1>2, <2>1, <2>2
<1> QED
  BY <1>3, <1>4, <1>5

\* A ranking dealt out to its documents, which take turns in the order of `docs`.
Deals(at, x, s, docs, turn) ==
    /\ Len(x) = Len(s)
    /\ at \in [1..Len(s) -> 1..Len(s)]
    /\ \A k \in 1..Len(s) : x[k] = s[at[k]]
    /\ \A i \in 1..Len(s) : \E k \in 1..Len(s) : at[k] = i
    /\ \A i \in 1..Len(s) : turn[i] \in 1..Len(docs) /\ docs[turn[i]] = DocumentOf[s[i]]
    /\ \A k, l \in 1..Len(s) : k < l =>
         \/ RowOf(s, at[k]) < RowOf(s, at[l])
         \/ RowOf(s, at[k]) = RowOf(s, at[l]) /\ turn[at[k]] < turn[at[l]]
         \/ RowOf(s, at[k]) = RowOf(s, at[l]) /\ turn[at[k]] = turn[at[l]] /\ at[k] < at[l]

LEMMA InterleavedIs ==
    ASSUME NEW s \in Seq(Passages), NEW docs \in Seq(AllDocuments),
           \A i \in 1..Len(s) : \E d \in 1..Len(docs) : docs[d] = DocumentOf[s[i]]
    PROVE  /\ Searching!Interleaved(s, docs) \in Seq(Passages)
           /\ \E at, turn : Deals(at, Searching!Interleaved(s, docs), s, docs, turn)
<1> DEFINE N == Len(s)
           wide == Len(docs) + 1
           turn == [i \in 1..N |-> CHOOSE d \in DOMAIN docs : docs[d] = DocumentOf[s[i]]]
           row == [i \in 1..N |-> RowOf(s, i)]
           key == [i \in 1..N |-> row[i] * wide + turn[i]]
           x == SortedBy(s, key)
<1>1. N \in Nat /\ DOMAIN s = 1..N /\ DOMAIN docs = 1..Len(docs) /\ Len(docs) \in Nat /\ wide \in Nat
  OBVIOUS
<1>2. \A i \in 1..N : turn[i] \in 1..Len(docs) /\ docs[turn[i]] = DocumentOf[s[i]]
  BY <1>1
<1>3. Searching!Interleaved(s, docs) = x
  <2> DEFINE Doc(i) == DocumentOf[s[i]]
             Row(i) == Searching!Cardinality({j \in 1..i : Doc(j) = Doc(i)})
             Turn(i) == CHOOSE d \in DOMAIN docs : docs[d] = Doc(i)
             pairs == [i \in DOMAIN s |-> Row(i) * (Len(docs) + 1) + Turn(i)]
  <2>1. Searching!Interleaved(s, docs) = Searching!SortedBy(s, pairs)
    BY Zenon DEF Searching!Interleaved
  <2>2. pairs = key
    <3>1. \A i \in 1..N : Row(i) = row[i]
      BY SearchedSets DEF RowOf
    <3>2. \A i \in 1..N : Turn(i) = turn[i]
      OBVIOUS
    <3> HIDE DEF Row, Turn, row, turn
    <3> QED
      BY <1>1, <3>1, <3>2
  <2>3. Searching!SortedBy(s, key) = x
    BY SearchedLists, Zenon
  <2> HIDE DEF pairs, key, x
  <2> QED
    BY <2>1, <2>2, <2>3
<1>4. \A i \in 1..N : row[i] = RowOf(s, i) /\ row[i] \in Nat
  BY RowsAre
<1> HIDE DEF N, wide, turn, row
<1>5. \A i \in 1..N : turn[i] \in Nat /\ turn[i] < wide
  BY <1>1, <1>2 DEF wide
<1>6. \A i \in 1..N : key[i] = row[i] * wide + turn[i] /\ key[i] \in Int
  BY <1>1, <1>4, <1>5
<1>7. key \in [1..Len(s) -> Int]
  <2>1. \A i \in 1..N : row[i] * wide + turn[i] \in Int
    BY <1>6
  <2> QED
    BY <2>1 DEF N
<1> HIDE DEF key
<1>8. x \in Seq(Passages) /\ Len(x) = N
  BY <1>7, SortedIs DEF N
<1>9. PICK at : Sorts(at, x, s, key)
  BY <1>7, SortedIs
<1> HIDE DEF x
<1>10. /\ at \in [1..N -> 1..N] /\ \A k \in 1..N : x[k] = s[at[k]]
       /\ \A i \in 1..N : \E k \in 1..N : at[k] = i
       /\ \A k, l \in 1..N : k < l =>
            key[at[k]] < key[at[l]] \/ (key[at[k]] = key[at[l]] /\ at[k] < at[l])
  BY <1>9 DEF Sorts, N
<1>11. ASSUME NEW k \in 1..N, NEW l \in 1..N, k < l
       PROVE  \/ row[at[k]] < row[at[l]]
              \/ row[at[k]] = row[at[l]] /\ turn[at[k]] < turn[at[l]]
              \/ row[at[k]] = row[at[l]] /\ turn[at[k]] = turn[at[l]] /\ at[k] < at[l]
  <2> DEFINE i == at[k]
             j == at[l]
  <2>1. i \in 1..N /\ j \in 1..N
    BY <1>10
  <2>2. key[i] < key[j] \/ (key[i] = key[j] /\ i < j)
    BY <1>10, <1>11
  <2> HIDE DEF i, j
  <2> DEFINE a == row[i]
             b == turn[i]
             c == row[j]
             d == turn[j]
  <2>3. a \in Nat /\ b \in Nat /\ c \in Nat /\ d \in Nat /\ b < wide /\ d < wide
    BY <1>4, <1>5, <2>1
  <2>4. key[i] = a * wide + b /\ key[j] = c * wide + d /\ key[i] \in Int /\ key[j] \in Int
    BY <1>6, <2>1
  <2> HIDE DEF a, b, c, d
  <2>5. a * wide + b <= c * wide + d
    BY <2>2, <2>4
  <2>6. a < c \/ (a = c /\ b <= d)
    BY <1>1, <2>3, <2>5, PairsInOrder
  <2>7. a = c /\ b = d => i < j
    <3>1. ASSUME a = c, b = d PROVE key[i] = key[j]
      BY <2>4, <3>1
    <3> QED
      BY <2>2, <2>4, <3>1
  <2>8. a < c \/ (a = c /\ b < d) \/ (a = c /\ b = d /\ i < j)
    BY <2>3, <2>6, <2>7
  <2> QED
    BY <2>8 DEF a, b, c, d, i, j
<1>12. Deals(at, x, s, docs, turn)
  <2>1. \A k, l \in 1..N : k < l =>
          \/ RowOf(s, at[k]) < RowOf(s, at[l])
          \/ RowOf(s, at[k]) = RowOf(s, at[l]) /\ turn[at[k]] < turn[at[l]]
          \/ RowOf(s, at[k]) = RowOf(s, at[l]) /\ turn[at[k]] = turn[at[l]] /\ at[k] < at[l]
    <3> SUFFICES ASSUME NEW k \in 1..N, NEW l \in 1..N, k < l
                 PROVE  \/ RowOf(s, at[k]) < RowOf(s, at[l])
                        \/ RowOf(s, at[k]) = RowOf(s, at[l]) /\ turn[at[k]] < turn[at[l]]
                        \/ RowOf(s, at[k]) = RowOf(s, at[l]) /\ turn[at[k]] = turn[at[l]]
                           /\ at[k] < at[l]
      OBVIOUS
    <3>1. at[k] \in 1..N /\ at[l] \in 1..N
      BY <1>10
    <3>2. row[at[k]] = RowOf(s, at[k]) /\ row[at[l]] = RowOf(s, at[l])
      BY <1>4, <3>1
    <3> QED
      BY <1>11, <3>2
  <2> QED
    BY <1>2, <1>8, <1>10, <2>1 DEF Deals, N
<1> QED
  BY <1>3, <1>8, <1>12

\* Dealing keeps the passages of a document in their order.
LEMMA WithinKept ==
    ASSUME NEW s \in Seq(Passages), NEW x \in Seq(Passages), NEW docs, NamesOnce(docs),
           NEW at, NEW turn, Deals(at, x, s, docs, turn), NEW doc
    PROVE  Searching!Within(x, doc) = Searching!Within(s, doc)
<1> DEFINE N == Len(s)
           some == {p \in Passages : DocumentOf[p] = doc}
           y == Among(x, some)
           z == Among(s, some)
<1>1. Searching!Within(x, doc) = y /\ Searching!Within(s, doc) = z
  BY SearchedLists, Zenon DEF Searching!Within
<1>2. \A p \in some : DocumentOf[p] = doc
  OBVIOUS
<1> HIDE DEF some
<1>3. y \in Seq(Passages) /\ z \in Seq(Passages)
  BY AmongPicks
<1>4. PICK bt : Picks(bt, y, x, some)
  BY AmongPicks
<1>5. PICK ct : Picks(ct, z, s, some)
  BY AmongPicks
<1> HIDE DEF y, z
<1>6. /\ bt \in [1..Len(y) -> 1..Len(x)]
      /\ \A i \in 1..Len(y) : y[i] = x[bt[i]] /\ x[bt[i]] \in some
      /\ \A i, j \in 1..Len(y) : i < j => bt[i] < bt[j]
      /\ \A n \in 1..Len(x) : x[n] \in some => \E i \in 1..Len(y) : bt[i] = n
  BY <1>4 DEF Picks
<1>7. /\ Len(x) = N /\ at \in [1..N -> 1..N]
      /\ \A k \in 1..N : x[k] = s[at[k]]
      /\ \A i \in 1..N : \E k \in 1..N : at[k] = i
      /\ \A i \in 1..N : turn[i] \in 1..Len(docs) /\ docs[turn[i]] = DocumentOf[s[i]]
  BY Zenon DEF Deals
<1>14. \A m, n \in 1..N : m < n =>
         \/ RowOf(s, at[m]) < RowOf(s, at[n])
         \/ RowOf(s, at[m]) = RowOf(s, at[n]) /\ turn[at[m]] < turn[at[n]]
         \/ RowOf(s, at[m]) = RowOf(s, at[n]) /\ turn[at[m]] = turn[at[n]] /\ at[m] < at[n]
  BY Zenon DEF Deals
<1>15. \A c, d \in 1..Len(docs) : docs[c] = docs[d] => c = d
  BY Zenon DEF NamesOnce
<1>16. N \in Nat
  OBVIOUS
<1> HIDE DEF N
<1> DEFINE dt == [i \in 1..Len(y) |-> at[bt[i]]]
<1>8. ASSUME NEW i \in 1..Len(y)
      PROVE  /\ bt[i] \in 1..N /\ dt[i] = at[bt[i]] /\ dt[i] \in 1..N
             /\ y[i] = s[dt[i]] /\ s[dt[i]] \in some /\ DocumentOf[s[dt[i]]] = doc
  <2>1. bt[i] \in 1..N
    BY <1>6, <1>7
  <2>2. at[bt[i]] \in 1..N /\ x[bt[i]] = s[at[bt[i]]]
    BY <1>7, <2>1
  <2>3. y[i] = x[bt[i]] /\ x[bt[i]] \in some
    BY <1>6
  <2> QED
    BY <1>2, <2>1, <2>2, <2>3
<1>9. ASSUME NEW i \in 1..Len(y), NEW j \in 1..Len(y), i < j PROVE dt[i] < dt[j]
  <2> DEFINE a == dt[i]
             b == dt[j]
  <2>1. bt[i] < bt[j] /\ bt[i] \in 1..N /\ bt[j] \in 1..N /\ a = at[bt[i]] /\ b = at[bt[j]]
    BY <1>6, <1>8, <1>9
  <2>2. \/ RowOf(s, a) < RowOf(s, b)
        \/ RowOf(s, a) = RowOf(s, b) /\ turn[a] < turn[b]
        \/ RowOf(s, a) = RowOf(s, b) /\ turn[a] = turn[b] /\ a < b
    <3> DEFINE m == bt[i]
               n == bt[j]
    <3>1. m \in 1..N /\ n \in 1..N /\ m < n /\ a = at[m] /\ b = at[n]
      BY <2>1
    <3> HIDE DEF a, b, m, n
    <3> QED
      BY <1>14, <3>1
  <2>3. a \in 1..N /\ b \in 1..N /\ DocumentOf[s[a]] = DocumentOf[s[b]]
    BY <1>8
  <2> HIDE DEF a, b
  <2>4. turn[a] = turn[b] /\ turn[a] \in Int
    <3>1. /\ turn[a] \in 1..Len(docs) /\ docs[turn[a]] = DocumentOf[s[a]]
          /\ turn[b] \in 1..Len(docs) /\ docs[turn[b]] = DocumentOf[s[b]]
      BY <1>7, <2>3
    <3> QED
      BY <1>15, <2>3, <3>1
  <2>5. RowOf(s, a) \in Nat /\ RowOf(s, b) \in Nat /\ (b < a => RowOf(s, b) < RowOf(s, a))
    BY <2>3, RowsAre DEF N
  <2>7. a \in Int /\ b \in Int
    BY <1>16, <2>3
  <2>8. a = b => RowOf(s, a) = RowOf(s, b)
    OBVIOUS
  <2>6. a < b
    BY <2>2, <2>4, <2>5, <2>7, <2>8
  <2> QED
    BY <2>6 DEF a, b
<1>10. ASSUME NEW n \in 1..N, s[n] \in some PROVE \E i \in 1..Len(y) : dt[i] = n
  <2>1. PICK k \in 1..N : at[k] = n
    BY <1>7
  <2>2. x[k] \in some
    BY <1>7, <1>10, <2>1
  <2>3. PICK i \in 1..Len(y) : bt[i] = k
    BY <1>6, <1>7, <2>2
  <2> QED
    BY <1>8, <2>1, <2>3
<1>11. dt \in [1..Len(y) -> 1..N]
  BY <1>8
<1> HIDE DEF dt
<1>12. Picks(dt, y, s, some)
  <2>1. dt \in [1..Len(y) -> 1..Len(s)]
    BY <1>11 DEF N
  <2>2. \A i \in 1..Len(y) : y[i] = s[dt[i]] /\ s[dt[i]] \in some
    BY <1>8
  <2>3. \A i, j \in 1..Len(y) : i < j => dt[i] < dt[j]
    BY <1>9
  <2>4. \A n \in 1..Len(s) : s[n] \in some => \E i \in 1..Len(y) : dt[i] = n
    BY <1>10 DEF N
  <2> QED
    BY <2>1, <2>2, <2>3, <2>4 DEF Picks
<1>13. y = z
  BY <1>3, <1>5, <1>12, PicksSame
<1> QED
  BY <1>1, <1>13

\* No document has its second turn before every one has had its first.
LEMMA EveryoneFirst ==
    ASSUME NEW s \in Seq(Passages), NEW x \in Seq(Passages), NEW docs, Len(docs) \in Nat,
           NamesOnce(docs), NEW at, NEW turn, Deals(at, x, s, docs, turn),
           \A d \in 1..Len(docs) : \E i \in 1..Len(s) : docs[d] = DocumentOf[s[i]],
           NEW k \in 1..Len(docs), NEW l \in 1..Len(docs), k < l
    PROVE  DocumentOf[x[k]] # DocumentOf[x[l]]
<1> SUFFICES ASSUME DocumentOf[x[k]] = DocumentOf[x[l]] PROVE FALSE
  OBVIOUS
<1> DEFINE N == Len(s)
           D == Len(docs)
<1>18. N \in Nat /\ D \in Nat
  OBVIOUS
<1>1. /\ Len(x) = N /\ at \in [1..N -> 1..N]
      /\ \A n \in 1..N : x[n] = s[at[n]]
      /\ \A i \in 1..N : \E n \in 1..N : at[n] = i
      /\ \A i \in 1..N : turn[i] \in 1..D /\ docs[turn[i]] = DocumentOf[s[i]]
  BY Zenon DEF Deals
<1>2. \A m, n \in 1..N : m < n =>
         \/ RowOf(s, at[m]) < RowOf(s, at[n])
         \/ RowOf(s, at[m]) = RowOf(s, at[n]) /\ turn[at[m]] < turn[at[n]]
         \/ RowOf(s, at[m]) = RowOf(s, at[n]) /\ turn[at[m]] = turn[at[n]] /\ at[m] < at[n]
  BY Zenon DEF Deals
<1>3. \A d \in 1..D : \E i \in 1..N : docs[d] = DocumentOf[s[i]]
  OBVIOUS
<1>4. /\ \A i \in 1..N : RowOf(s, i) \in Nat /\ RowOf(s, i) >= 1
      /\ \A i, j \in 1..N : i < j /\ DocumentOf[s[i]] = DocumentOf[s[j]] => RowOf(s, i) < RowOf(s, j)
      /\ \A i \in 1..N :
           (\A j \in 1..(i - 1) : DocumentOf[s[j]] # DocumentOf[s[i]]) => RowOf(s, i) = 1
  BY RowsAre
<1>5. k \in 1..D /\ l \in 1..D
  OBVIOUS
<1>6. \A d, e \in 1..D : docs[d] = docs[e] => d = e
  BY Zenon DEF NamesOnce
<1> HIDE DEF N, D
\* Where a document has its first turn.
<1>7. ASSUME NEW d \in 1..D
      PROVE  \E n \in 1..N : DocumentOf[s[at[n]]] = docs[d] /\ RowOf(s, at[n]) = 1
  <2> DEFINE I == {i \in 1..N : DocumentOf[s[i]] = docs[d]}
  <2>1. I \subseteq Nat /\ I # {}
    <3>1. PICK i \in 1..N : docs[d] = DocumentOf[s[i]]
      BY <1>3
    <3>2. i \in I
      BY <3>1
    <3>3. \A n \in 1..N : n \in Nat
      BY <1>18
    <3> QED
      BY <3>2, <3>3
  <2>2. PICK i \in I : \A j \in I : i <= j
    <3> HIDE DEF I
    <3> QED
      BY <2>1, LeastNatural
  <2>3. i \in 1..N /\ DocumentOf[s[i]] = docs[d]
    OBVIOUS
  <2>4. \A j \in 1..(i - 1) : DocumentOf[s[j]] # DocumentOf[s[i]]
    <3> SUFFICES ASSUME NEW j \in 1..(i - 1), DocumentOf[s[j]] = DocumentOf[s[i]] PROVE FALSE
      OBVIOUS
    <3>1. j \in 1..N /\ j < i /\ i \in Int /\ j \in Int
      BY <1>18, <2>3
    <3>2. j \in I
      BY <2>3, <3>1
    <3>3. i <= j
      BY <2>2, <3>2
    <3> QED
      BY <3>1, <3>3
  <2>5. RowOf(s, i) = 1
    BY <1>4, <2>3, <2>4
  <2>6. PICK n \in 1..N : at[n] = i
    BY <1>1, <2>3
  <2> QED
    BY <2>3, <2>5, <2>6
<1> DEFINE Opens(d, n) == DocumentOf[s[at[n]]] = docs[d] /\ RowOf(s, at[n]) = 1
           first == [d \in 1..D |-> CHOOSE n \in 1..N : Opens(d, n)]
<1>19. \A d \in 1..D : \E n \in 1..N : Opens(d, n)
  BY <1>7
<1> HIDE DEF Opens
<1>20. \A d \in 1..D : first[d] \in 1..N /\ Opens(d, first[d])
  BY <1>19
<1>9. DOMAIN first = 1..D
  OBVIOUS
<1>10. first = [d \in 1..D |-> first[d]]
  OBVIOUS
<1> HIDE DEF first
<1>8. \A d \in 1..D : /\ first[d] \in 1..N
                      /\ DocumentOf[s[at[first[d]]]] = docs[d] /\ RowOf(s, at[first[d]]) = 1
  BY <1>20, Zenon DEF Opens
<1>11. \A d, e \in 1..D : first[d] = first[e] => d = e
  <2> SUFFICES ASSUME NEW d \in 1..D, NEW e \in 1..D, first[d] = first[e] PROVE d = e
    OBVIOUS
  <2>1. DocumentOf[s[at[first[d]]]] = docs[d] /\ DocumentOf[s[at[first[e]]]] = docs[e]
    BY <1>8
  <2>2. docs[d] = docs[e]
    BY <2>1
  <2> QED
    BY <1>6, <2>2
<1>12. ASSUME NEW m \in Nat, \A d \in 1..D : first[d] \in 1..m PROVE D <= m
  <2> DEFINE A == 1..D
             B == 1..m
  <2>1. 1 \in Int /\ D \in Int /\ m \in Int
    BY <1>18
  <2>2. /\ IsFiniteSet(A) /\ Cardinality(A) = (IF 1 > D THEN 0 ELSE D - 1 + 1)
        /\ IsFiniteSet(B) /\ Cardinality(B) = (IF 1 > m THEN 0 ELSE m - 1 + 1)
    BY <2>1, FS_Interval
  <2>3. first \in [A -> B]
    BY <1>10, <1>12
  <2>4. \A d, e \in A : first[d] = first[e] => d = e
    BY <1>11
  <2> HIDE DEF A, B
  <2>5. first \in Injection(A, B)
    BY <2>3, <2>4 DEF Injection, IsInjective
  <2>6. Cardinality(A) <= Cardinality(B)
    BY <2>2, <2>5, FS_Injection
  <2> QED
    BY <1>18, <2>1, <2>2, <2>6
<1>13. D <= N
  BY <1>8, <1>12, <1>18
<1>14. k \in 1..N /\ l \in 1..N /\ k \in Nat /\ l \in Nat
  BY <1>5, <1>13, <1>18
<1>15. RowOf(s, at[l]) > 1
  <2> DEFINE a == at[k]
             b == at[l]
  <2>1. a \in 1..N /\ b \in 1..N
    BY <1>1, <1>14
  <2>2. DocumentOf[s[a]] = DocumentOf[s[b]]
    BY <1>1, <1>14
  <2>3. turn[a] = turn[b] /\ turn[a] \in Int
    <3> HIDE DEF a, b
    <3> DEFINE p == turn[a]
               q == turn[b]
    <3>1. p \in 1..D /\ docs[p] = DocumentOf[s[a]] /\ q \in 1..D /\ docs[q] = DocumentOf[s[b]]
      BY <1>1, <2>1
    <3> HIDE DEF p, q
    <3>2. docs[p] = docs[q]
      BY <2>2, <3>1
    <3>3. p = q
      BY <1>6, <3>1, <3>2
    <3>4. p \in Int
      BY <1>18, <3>1
    <3> QED
      BY <3>3, <3>4 DEF p, q
  <2>4. \/ RowOf(s, a) < RowOf(s, b)
        \/ RowOf(s, a) = RowOf(s, b) /\ turn[a] < turn[b]
        \/ RowOf(s, a) = RowOf(s, b) /\ turn[a] = turn[b] /\ a < b
    BY <1>2, <1>14
  <2> HIDE DEF a, b
  <2>5. RowOf(s, a) < RowOf(s, b)
    BY <1>4, <2>1, <2>2, <2>3, <2>4
  <2>6. RowOf(s, a) \in Nat /\ RowOf(s, a) >= 1 /\ RowOf(s, b) \in Nat
    BY <1>4, <2>1
  <2>7. RowOf(s, b) > 1
    BY <2>5, <2>6
  <2> QED
    BY <2>7 DEF b
<1>16. \A d \in 1..D : first[d] \in 1..(l - 1)
  <2> SUFFICES ASSUME NEW d \in 1..D PROVE first[d] \in 1..(l - 1)
    OBVIOUS
  <2> DEFINE n == first[d]
  <2>1. n \in 1..N /\ n \in Nat /\ RowOf(s, at[n]) = 1
    <3>1. n \in 1..N /\ RowOf(s, at[n]) = 1
      BY <1>8
    <3> HIDE DEF n
    <3> QED
      BY <1>18, <3>1
  <2>2. n # l
    BY <1>15, <2>1
  <2>3. RowOf(s, at[l]) \in Nat
    <3>1. at[l] \in 1..N
      BY <1>1, <1>14
    <3> QED
      BY <1>4, <3>1
  <2>4. ~(l < n)
    <3> SUFFICES ASSUME l < n PROVE FALSE
      OBVIOUS
    <3>1. RowOf(s, at[l]) < RowOf(s, at[n]) \/ RowOf(s, at[l]) = RowOf(s, at[n])
      BY <1>2, <1>14, <2>1
    <3> QED
      BY <1>15, <2>1, <2>3, <3>1
  <2>5. n \in 1..(l - 1)
    BY <1>14, <2>1, <2>2, <2>4
  <2> QED
    BY <2>5
<1>17. D <= l - 1
  <2>1. l - 1 \in Nat
    BY <1>5
  <2> DEFINE m == l - 1
  <2>2. m \in Nat /\ \A d \in 1..D : first[d] \in 1..m
    BY <1>16, <2>1
  <2> HIDE DEF m
  <2>3. D <= m
    BY <1>12, <2>2
  <2> QED
    BY <2>3 DEF m
<1> QED
  BY <1>5, <1>14, <1>17, <1>18

\* What an answer that has been reordered keeps of the fused ranking.
LEMMA ReorderingKeeps ==
    ASSUME NEW s \in Seq(Passages), NEW score \in Searching!Scores,
           NEW x, x = Searching!Interleaved(s, Searching!Reordered(Searching!Documents(s), score))
    PROVE  /\ Len(x) = Len(s)
           /\ \A doc : Searching!Within(x, doc) = Searching!Within(s, doc)
           /\ \A k, l \in 1..Len(Searching!Documents(s)) : k < l => DocumentOf[x[k]] # DocumentOf[x[l]]
<1> DEFINE docs == Searching!Documents(s)
           re == Searching!Reordered(docs, score)
<1>1. /\ docs \in Seq(AllDocuments) /\ NamesOnce(docs)
      /\ \A n \in 1..Len(docs) : \E i \in 1..Len(s) : docs[n] = DocumentOf[s[i]]
      /\ \A i \in 1..Len(s) : \E n \in 1..Len(docs) : docs[n] = DocumentOf[s[i]]
  BY DocumentsAre
<1> HIDE DEF docs
<1>2. re \in Seq(AllDocuments) /\ Rearranges(re, docs)
  BY <1>1, ReorderedIs
<1> HIDE DEF re
<1>3. x = Searching!Interleaved(s, re)
  BY DEF re, docs
<1>4. /\ Len(re) = Len(docs) /\ Len(docs) \in Nat /\ NamesOnce(re)
      /\ \A n \in 1..Len(re) : \E i \in 1..Len(s) : re[n] = DocumentOf[s[i]]
      /\ \A i \in 1..Len(s) : \E n \in 1..Len(re) : re[n] = DocumentOf[s[i]]
  BY <1>1, <1>2 DEF Rearranges, NamesOnce
<1>5. x \in Seq(Passages) /\ \E at, turn : Deals(at, x, s, re, turn)
  BY <1>2, <1>3, <1>4, InterleavedIs
<1>6. PICK at, turn : Deals(at, x, s, re, turn)
  BY <1>5
<1>7. Len(x) = Len(s)
  BY <1>6 DEF Deals
<1>8. \A doc : Searching!Within(x, doc) = Searching!Within(s, doc)
  BY <1>4, <1>5, <1>6, WithinKept
<1>9. \A k, l \in 1..Len(docs) : k < l => DocumentOf[x[k]] # DocumentOf[x[l]]
  <2> SUFFICES ASSUME NEW k \in 1..Len(docs), NEW l \in 1..Len(docs), k < l
               PROVE  DocumentOf[x[k]] # DocumentOf[x[l]]
    OBVIOUS
  <2>1. k \in 1..Len(re) /\ l \in 1..Len(re) /\ Len(re) \in Nat
    BY <1>4
  <2>2. x \in Seq(Passages) /\ NamesOnce(re)
    BY <1>4, <1>5
  <2>3. \A n \in 1..Len(re) : \E i \in 1..Len(s) : re[n] = DocumentOf[s[i]]
    BY <1>4
  <2> QED
    BY <1>6, <2>1, <2>2, <2>3, EveryoneFirst, ZenonT(60)
<1> QED
  BY <1>7, <1>8, <1>9 DEF docs

LEMMA UntoldWhole == Searching!SearchInv => Searching!UntoldIsWhole
<1> SUFFICES ASSUME Searching!SearchInv PROVE Searching!UntoldIsWhole
  OBVIOUS
<1> DEFINE s == search.fused
           x == search.ordered
           documents_ == Searching!Documents(s)
<1>1. CASE search.step = "done" /\ Searching!Untold
  <2>1. ~search.stopped /\ s = Searching!Fused(search.lexical.rank, search.vector.rank, Searching!Foreign)
    BY <1>1 DEF Searching!SearchInv, Searching!FusedOfLegs, Searching!Past
  <2>2. /\ search.lexical.rank = Searching!Weighed(request.query, Passages, Len(request.query.postings))
        /\ Searching!Ranks(search.lexical.rank)
    BY <1>1, <2>1 DEF Searching!SearchInv, Searching!LexicalRanked, Searching!Past
  <2>3. /\ search.vector.rank = Searching!Similar(request.query, Passages)
        /\ Searching!Ranks(search.vector.rank)
    BY <1>1, <2>1 DEF Searching!SearchInv, Searching!VectorRanked, Searching!Past
  <2>4. s = Searching!Whole
    BY <2>1, <2>2, <2>3, Zenon DEF Searching!Whole
  <2>5. s \in Seq(Passages)
    BY <2>1, <2>2, <2>3, FusedIs
  <2>6. search.matches = SubSeq(x, request.budget.offset + 1, Len(x))
    BY <1>1 DEF Searching!SearchInv, Searching!CutToThePage
  <2>7. /\ "reranked" \notin search.notes => x = s
        /\ "reranked" \in search.notes => \E score \in Searching!Scores :
             x = Searching!Interleaved(s, Searching!Reordered(Searching!Documents(s), score))
    BY DEF Searching!SearchInv, Searching!OrderedOfFused
  <2>8. documents_ \in Seq(AllDocuments)
    BY <2>5, DocumentsAre
  <2> HIDE DEF s, x
  <2>9. /\ Len(x) = Len(s)
        /\ \A doc : Searching!Within(x, doc) = Searching!Within(s, doc)
        /\ "reranked" \in search.notes =>
             \A k, l \in 1..Len(documents_) : k < l => DocumentOf[x[k]] # DocumentOf[x[l]]
    <3>1. CASE "reranked" \notin search.notes
      BY <2>7, <3>1
    <3>2. CASE "reranked" \in search.notes
      <4>1. PICK score \in Searching!Scores :
              x = Searching!Interleaved(s, Searching!Reordered(Searching!Documents(s), score))
        BY <2>7, <3>2
      <4> QED
        BY <2>5, <4>1, ReorderingKeeps
    <3> QED
      BY <3>1, <3>2
  <2> HIDE DEF documents_
  <2>10. ASSUME "reranked" \in search.notes
         PROVE  Searching!IsInjective([i \in DOMAIN documents_ |-> DocumentOf[x[i]]])
    <3> DEFINE f == [i \in DOMAIN documents_ |-> DocumentOf[x[i]]]
    <3>1. DOMAIN f = 1..Len(documents_) /\ \A i \in 1..Len(documents_) : f[i] = DocumentOf[x[i]]
      BY <2>8
    <3>2. \A k, l \in 1..Len(documents_) : k < l => f[k] # f[l]
      BY <2>9, <2>10, <3>1
    <3> HIDE DEF f
    <3>3. \A k, l \in DOMAIN f : f[k] = f[l] => k = l
      <4> SUFFICES ASSUME NEW k \in 1..Len(documents_), NEW l \in 1..Len(documents_), f[k] = f[l]
                   PROVE  k = l
        BY <3>1
      <4>1. k \in Int /\ l \in Int
        BY <2>8
      <4>2. ~(k < l) /\ ~(l < k)
        BY <3>2
      <4> QED
        BY <4>1, <4>2
    <3>4. Searching!IsInjective(f)
      BY <3>3 DEF Searching!IsInjective
    <3> QED
      BY <3>4 DEF f
  <2> QED
    BY <2>4, <2>6, <2>9, <2>10, Zenon DEF Searching!UntoldIsWhole, s, x, documents_
<1>2. CASE ~(search.step = "done" /\ Searching!Untold)
  BY <1>2 DEF Searching!UntoldIsWhole, Searching!Untold
<1> QED
  BY <1>1, <1>2

\* An answer that tells of no shortfall ranks what the whole corpus ranks and goes to the end
\* of it, however the deadline cut the two legs; and where it was reranked, no passage was
\* lost, each document kept the order of its own, and none came twice before all had come
\* once (retrieval.py, is_shortfall, _search_full_scan and _rerank_fused).
THEOREM UntoldAnswersWhole == Searching!Spec => []UntoldIsWhole
<1>1. Searching!SearchInv => UntoldIsWhole
  BY UntoldWhole DEF UntoldIsWhole
<1> QED
  BY <1>1, SearchSteps, PTL
================================================================================
