------------------------------- MODULE Search ----------------------------------
(***************************************************************************)
(* One search of the snapshot (retrieval.py, ranking.py): a lexical and a  *)
(* vector leg, each stopped wherever the deadline finds it, fused by       *)
(* reciprocal rank, reordered by an optional reranker and cut into pages.  *)
(* Every shortfall must be told: what comes back without a note is taken   *)
(* for the whole answer.                                                   *)
(***************************************************************************)
EXTENDS Integers, Sequences, FiniteSets, SequencesExt, Lists

CONSTANTS
    Passage,        \* 1..n, in the order of their refs
    DocumentOf,     \* the document of a passage
    Length,         \* the characters of its text
    Query,          \* what is asked: [terms |-> whether it has words, postings |-> <<passage,
                    \* weight>> in term order, similarity |-> of each passage, foreign |->
                    \* whether its language is not the corpus's]
    Budget,         \* [candidates, chars, offset]
    ClockEvery,     \* the clock is read once in so many passages
    Depth,          \* documents a reranker reads
    Snippet         \* characters of a match

VARIABLES
    request,        \* [query, budget, indexed, embedder, reranker]
    search          \* how far it is and what it has found

searchVars == <<request, search>>

RrfK == 60
None == <<>>        \* a leg that could not run; the empty function ran and matched nothing

SearchRequests == [query : Query, budget : Budget, indexed : BOOLEAN, embedder : BOOLEAN,
                   reranker : BOOLEAN]

Init ==
    /\ request \in SearchRequests
    /\ search = [step |-> "scan", late |-> FALSE, stopped |-> FALSE, scanned |-> {},
                 lexical |-> [ran |-> FALSE, rank |-> None], vector |-> [ran |-> FALSE, rank |-> None],
                 fused |-> <<>>, ordered |-> <<>>, notes |-> {}, matches |-> <<>>]

--------------------------------------------------------------------------------
(* Scanning *)

\* How many of n items a loop gets through; the deadline is seen where the clock is read.
Reach(n) ==
    IF search.late THEN {0}
    ELSE {n} \cup {k \in 0..n-1 : k % ClockEvery = 0}

\* The clock may pass the deadline after the last item, and nobody sees it there.
Late(reached, n) == IF search.late \/ reached < n THEN {TRUE} ELSE BOOLEAN

Stopped(reached, n) == search.stopped \/ reached < n

\* The snapshot's rows come in the order of their refs.
Scan ==
    /\ search.step = "scan"
    /\ LET n == Cardinality(Passage)
       IN \E k \in Reach(n), late \in BOOLEAN :
            /\ late \in Late(k, n)
            /\ search' = [search EXCEPT !.step = "lexical", !.scanned = 1..k, !.late = late,
                                        !.stopped = Stopped(k, n)]
    /\ UNCHANGED request

--------------------------------------------------------------------------------
(* The legs *)

\* The better score first, and the smaller ref of two equals.
Ranked(score) ==
    [p \in DOMAIN score |-> 1 + Cardinality({q \in DOMAIN score :
        score[q] > score[p] \/ (score[q] = score[p] /\ q < p)})]

\* What the first k postings add up to.
Weight(query, p, k) ==
    FoldLeft(LAMBDA sum, posting : IF posting[1] = p THEN sum + posting[2] ELSE sum,
             0, SubSeq(query.postings, 1, k))

Weighed(query, S, k) ==
    Ranked([p \in {q \in S : Weight(query, q, k) > 0} |-> Weight(query, p, k)])

Leg(ran, rank) == [ran |-> ran, rank |-> rank]

Unavailable == [lexical |-> "lexical_leg_unavailable", vector |-> "vector_leg_unavailable"]
NoMatches == [lexical |-> "lexical_leg_no_matches", vector |-> "vector_leg_no_matches"]

LegNotes(leg, found) ==
    IF ~found.ran THEN {Unavailable[leg]}
    ELSE IF DOMAIN found.rank = {} THEN {NoMatches[leg]} ELSE {}

LexicalEnds(found, late, stopped) ==
    search' = [search EXCEPT !.step = "vector", !.lexical = found, !.late = late,
                             !.stopped = stopped, !.notes = @ \cup LegNotes("lexical", found)]

\* Over the index, a posting at a time.
LexicalIndexed ==
    LET all == Len(request.query.postings)
    IN \E k \in Reach(all), late \in BOOLEAN :
         /\ late \in Late(k, all)
         /\ LexicalEnds(Leg(TRUE, IF search.late THEN None ELSE Weighed(request.query, Passage, k)), late,
                        search.late \/ Stopped(k, all))

\* Without one, over the passages scanned, which are read first and weighed then.
LexicalScanned ==
    LET n == Cardinality(search.scanned)
        all == Len(request.query.postings)
    IN \E read, k \in Reach(n), late \in BOOLEAN :
         /\ read < n => k = 0
         /\ late \in Late(k, n)
         /\ LexicalEnds(IF read = 0 THEN Leg(FALSE, None) ELSE Leg(TRUE, Weighed(request.query, 1..k, all)),
                        late, Stopped(k, n))

Lexical ==
    /\ search.step = "lexical"
    /\ IF ~request.query.terms \/ (~request.indexed /\ search.scanned = {})
       THEN LexicalEnds(Leg(FALSE, None), search.late, search.stopped)
       ELSE IF request.indexed THEN LexicalIndexed ELSE LexicalScanned
    /\ UNCHANGED request

Similar(query, S) == Ranked([p \in S |-> query.similarity[p]])

\* Without an embedder, or with one that fails, the leg does not run.
Vector ==
    /\ search.step = "vector"
    /\ LET n == Cardinality(search.scanned)
       IN \/ /\ search' = [search EXCEPT !.step = "fuse",
                             !.notes = @ \cup {IF request.embedder THEN "vector_leg_failed"
                                               ELSE Unavailable.vector}]
          \/ /\ request.embedder
             /\ \E k \in Reach(n), late \in BOOLEAN :
                  /\ late \in Late(k, n)
                  /\ LET found == Leg(TRUE, Similar(request.query, 1..k))
                     IN search' = [search EXCEPT !.step = "fuse", !.late = late,
                                     !.stopped = Stopped(k, n), !.vector = found,
                                     !.notes = @ \cup LegNotes("vector", found)]
    /\ UNCHANGED request

--------------------------------------------------------------------------------
(* Fusion *)

\* A query in another language than the corpus's; a scan that read nothing knows of none.
Foreign ==
    request.query.foreign /\ (search.scanned # {} \/ (request.indexed /\ ~request.reranker))

\* A rank's share of the score, as a fraction; the lexical share is a tenth across languages.
Share(rank, p, weight) ==
    IF p \in DOMAIN rank THEN <<weight, RrfK + rank[p]>> ELSE <<0, 1>>

Score(lexical, vector, foreign, p) ==
    LET l == Share(lexical, p, IF foreign THEN 1 ELSE 10)
        v == Share(vector, p, 10)
    IN <<l[1] * v[2] + v[1] * l[2], l[2] * v[2]>>

Above(s, t) == s[1] * t[2] > t[1] * s[2]

\* The better score first, and the smaller ref of two equals.
Fused(lexical, vector, foreign) ==
    LET refs == DOMAIN lexical \cup DOMAIN vector
        score == [p \in refs |-> Score(lexical, vector, foreign, p)]
        Precedes(q, p) == \/ Above(score[q], score[p])
                          \/ ~Above(score[p], score[q]) /\ q < p
        place == [p \in refs |-> 1 + Cardinality({q \in refs : Precedes(q, p)})]
    IN [k \in 1..Cardinality(refs) |-> CHOOSE p \in refs : place[p] = k]

\* Fault: only the scan tells of the deadline.
ToldByScan == IF search.scanned # Passage THEN {"max_elapsed_ms_exceeded"} ELSE {}

Told == IF search.stopped THEN {"max_elapsed_ms_exceeded"} ELSE {}

Fuse ==
    /\ search.step = "fuse"
    /\ LET ordered == Fused(search.lexical.rank, search.vector.rank, Foreign)
           discounted == IF Foreign THEN {"lexical_leg_discounted"} ELSE {}
       IN search' = [search EXCEPT
            !.step = IF request.reranker THEN "rerank" ELSE "page",
            !.fused = ordered, !.ordered = ordered, !.notes = @ \cup Told \cup discounted]
    /\ UNCHANGED request

--------------------------------------------------------------------------------
(* Reranking *)

\* The documents in the order of their first passages, and the passages of one of them.
Documents(refs) == Once([i \in DOMAIN refs |-> DocumentOf[refs[i]]])
Within(refs, doc) == Among(refs, {p \in Passage : DocumentOf[p] = doc})

\* The first passage of every document, then the second of those that have one, and so on.
Interleaved(refs, docs) ==
    LET Doc(i) == DocumentOf[refs[i]]
        Row(i) == Cardinality({j \in 1..i : Doc(j) = Doc(i)})
        Turn(i) == CHOOSE d \in DOMAIN docs : docs[d] = Doc(i)
    IN SortedBy(refs, [i \in DOMAIN refs |-> Row(i) * (Len(docs) + 1) + Turn(i)])

Read(docs) == SubSeq(docs, 1, IF Len(docs) < Depth THEN Len(docs) ELSE Depth)
Sorted(docs, score) == SortedBy(docs, [i \in DOMAIN docs |-> 0 - score[docs[i]]])

\* The documents read by their scores, ties in the order they had; then the rest.
Reordered(docs, score) ==
    Sorted(Read(docs), score) \o SubSeq(docs, Len(Read(docs)) + 1, Len(docs))

Scores == [{DocumentOf[p] : p \in Passage} -> 1..2]

\* Nothing to rerank, no time left, or an answer that is no list of numbers: the fused order
\* stays. A late answer is used, and told.
Rerank ==
    /\ search.step = "rerank"
    /\ \/ /\ search.fused = <<>>
          /\ search' = [search EXCEPT !.step = "page"]
       \/ /\ search.fused # <<>>
          /\ search.late
          /\ search' = [search EXCEPT !.step = "page", !.notes = @ \cup {"max_elapsed_ms_exceeded"}]
       \/ /\ search.fused # <<>>
          /\ ~search.late
          /\ \E late \in BOOLEAN :
                LET told == IF late THEN {"max_elapsed_ms_exceeded"} ELSE {}
                IN \/ search' = [search EXCEPT !.step = "page", !.late = late,
                                    !.notes = @ \cup told \cup {"rerank_failed"}]
                   \/ \E score \in Scores :
                        search' = [search EXCEPT !.step = "page", !.late = late,
                            !.ordered = Interleaved(search.fused,
                                            Reordered(Documents(search.fused), score)),
                            !.notes = @ \cup told \cup {"reranked"}]
    /\ UNCHANGED request

--------------------------------------------------------------------------------
(* The page *)

Least(a, b) == IF a < b THEN a ELSE b

\* The characters the first i entries of the page take.
Taken(rest, i) ==
    FoldLeft(LAMBDA sum, p :
        sum + Least(Least(Snippet, request.budget.chars - sum), Length[p]), 0, SubSeq(rest, 1, i))

\* A page is cut by the number of its matches before it is by their characters.
Page ==
    /\ search.step = "page"
    /\ LET rest == SubSeq(search.ordered, request.budget.offset + 1, Len(search.ordered))
           full(i) == i >= request.budget.candidates \/ Taken(rest, i) >= request.budget.chars
           cut == {i \in 0..Len(rest) - 1 : full(i)}
           first == CHOOSE i \in cut : \A j \in cut : i <= j
       IN search' =
            IF cut = {} THEN [search EXCEPT !.step = "done", !.matches = rest]
            ELSE [search EXCEPT !.step = "done", !.matches = SubSeq(rest, 1, first),
                     !.notes = @ \cup {IF first >= request.budget.candidates
                                       THEN "max_candidates_exceeded"
                                       ELSE "max_extracted_chars_exceeded"}]
    /\ UNCHANGED request

Next == Scan \/ Lexical \/ Vector \/ Fuse \/ Rerank \/ Page

Spec == Init /\ [][Next]_searchVars

--------------------------------------------------------------------------------
(* Properties *)

\* What is told of a healthy answer: a rule that was applied (retrieval.py, is_shortfall).
Disclosures == {"reranked", "lexical_leg_discounted"}

Whole ==
    Fused(Weighed(request.query, Passage, Len(request.query.postings)),
          Similar(request.query, Passage), Foreign)

\* An answer that tells of no shortfall ranks what the whole corpus ranks, and its page goes
\* to the end, wherever the deadline fell; a reranker moved whole documents at most, lost
\* no passage, and put no document twice before every other one had been seen once
\* (retrieval.py, is_shortfall, _search_full_scan and _rerank_fused).
UntoldIsWhole ==
    LET documents == Documents(search.fused)
    IN search.step = "done" /\ search.notes \subseteq Disclosures =>
        /\ search.fused = Whole
        /\ search.matches = SubSeq(search.ordered, request.budget.offset + 1, Len(search.ordered))
        /\ Len(search.ordered) = Len(search.fused)
        /\ \A d \in ToSet(documents) : Within(search.ordered, d) = Within(search.fused, d)
        /\ "reranked" \in search.notes =>
             IsInjective([i \in DOMAIN documents |-> DocumentOf[search.ordered[i]]])

--------------------------------------------------------------------------------
(* The inductive invariant *)

\* A search is a record of these fields, whatever they hold.
WholeSearch ==
    search = [step |-> search.step, late |-> search.late, stopped |-> search.stopped,
              scanned |-> search.scanned, lexical |-> search.lexical, vector |-> search.vector,
              fused |-> search.fused, ordered |-> search.ordered, notes |-> search.notes,
              matches |-> search.matches]

\* Nothing that is missing has been told of.
Untold == search.notes \subseteq Disclosures

\* What has been done at a step that comes after another: a leg that was not stopped and of
\* which nothing is told has ranked the whole corpus; what stopped is told from the fusion
\* on; and what has been reordered is the fused ranking.
Past(steps) == search.step \notin steps

\* What a leg has found is ranks of passages.
Ranks(rank) == DOMAIN rank \subseteq Passage /\ \A p \in DOMAIN rank : rank[p] \in Nat

Searchable ==
    /\ WholeSearch
    /\ request \in SearchRequests
    /\ search.step \in {"scan", "lexical", "vector", "fuse", "rerank", "page", "done"}
    /\ search.late \in BOOLEAN /\ search.stopped \in BOOLEAN

ScannedInOrder ==
    /\ search.scanned = 1..Cardinality(search.scanned) /\ search.scanned \subseteq Passage
    /\ Past({"scan"}) /\ ~search.stopped => search.scanned = Passage

LexicalRanked ==
    /\ Ranks(search.lexical.rank)
    /\ Past({"scan", "lexical"}) /\ ~search.stopped /\ Untold =>
         search.lexical.rank = Weighed(request.query, Passage, Len(request.query.postings))

VectorRanked ==
    /\ Ranks(search.vector.rank)
    /\ Past({"scan", "lexical", "vector"}) /\ ~search.stopped /\ Untold =>
         search.vector.rank = Similar(request.query, Passage)

FusedOfLegs ==
    Past({"scan", "lexical", "vector", "fuse"}) =>
      /\ search.stopped => ~Untold
      /\ search.fused = Fused(search.lexical.rank, search.vector.rank, Foreign)

OrderedOfFused ==
    /\ ~Past({"scan", "lexical", "vector", "fuse", "rerank"}) => "reranked" \notin search.notes
    /\ "reranked" \notin search.notes => search.ordered = search.fused
    /\ "reranked" \in search.notes =>
         \E score \in Scores :
            search.ordered = Interleaved(search.fused, Reordered(Documents(search.fused), score))

CutToThePage ==
    search.step = "done" /\ Untold =>
      search.matches = SubSeq(search.ordered, request.budget.offset + 1, Len(search.ordered))

SearchInv ==
    /\ Searchable /\ ScannedInOrder /\ LexicalRanked /\ VectorRanked
    /\ FusedOfLegs /\ OrderedOfFused /\ CutToThePage
================================================================================
