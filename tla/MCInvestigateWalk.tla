--------------------------- MODULE MCInvestigateWalk ---------------------------
(* Small instances of InvestigateWalk for TLC.                             *)
EXTENDS InvestigateWalk, TLC

CONSTANTS plain, code, b1, b2, s1, s2

\* `plain` asks in words only; `code` names a code target, whose governing
\* decision the search finds too.  Under s2 a skill of `plain` was added, its
\* passages are reranked, and the pack of `code` has lapsed.
MCGated == [s \in Setting |-> IF s = s2 THEN {code} ELSE {}]
MCSkills ==
    [s \in Setting |-> [q \in Request |-> IF q = plain /\ s = s1 THEN <<>> ELSE <<11>>]]
MCTraces == [q \in Request |-> IF q = plain THEN {<<>>} ELSE {<<1>>, <<1, 5>>}]
MCCapabilities ==
    [s \in Setting |-> [q \in Request |-> IF q = plain THEN <<12>> ELSE <<>>]]
MCCounterfactual ==
    [b \in Build |-> [q \in Request |-> IF b = b1 /\ q = plain THEN <<5>> ELSE <<>>]]
\* In b2 the words of `code` match nothing.
MCRanked ==
    [s \in Setting |-> [b \in Build |-> [q \in Request |->
        IF b = b1
        THEN IF q = plain THEN IF s = s1 THEN <<1, 3, 2>> ELSE <<2, 1, 3>> ELSE <<1, 2>>
        ELSE IF q = plain THEN <<1>> ELSE <<>>]]]
\* The deadline leaves passage 1 out, and without the embedder the order of the
\* others is another.
MCDegraded ==
    [s \in Setting |-> [b \in Build |-> [q \in Request |->
        IF q = plain THEN {Reverse(Without(MCRanked[s][b][q], {1}))} ELSE {}]]]
MCSupersedes == [b \in Build |-> IF b = b1 THEN <<<<5, 2>>, <<3, 1>>>> ELSE <<>>]
MCResearched == [q \in Request |-> IF q = plain THEN <<21>> ELSE <<>>]
MCMaxEvidence == [q \in Request |-> 2]
MCSearchLimit == [q \in Request |-> 2]

\* A page whose last record is the successor of its last match.
RankedInOrder ==
    [s \in Setting |-> [b \in Build |-> [q \in Request |-> <<1, 2, 3>>]]]
NoCounterfactual == [b \in Build |-> [q \in Request |-> <<>>]]

\* Pages longer than what one search returns.
LongPages == [q \in Request |-> 4]
NeverDegraded == [s \in Setting |-> [b \in Build |-> [q \in Request |-> {}]]]
OneTrace == [q \in Request |-> {<<>>}]
NoResearch == [q \in Request |-> <<>>]
================================================================================
