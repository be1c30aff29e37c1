------------------------------ MODULE ClaimLedger ------------------------------
(***************************************************************************)
(* The verdict on a claim (evidence.py) and the answer made of several of  *)
(* them (context.py): evidence comes one item after the other, a claim is  *)
(* assessed on what has come, and the answer is cut to the size the        *)
(* request allows, one uncited record after the other.                     *)
(*                                                                         *)
(* An item is what its record and the policy of its source say; dates are  *)
(* numbers, of which 0 is no date.                                         *)
(***************************************************************************)
EXTENDS Integers, SequencesExt, Lists

CONSTANTS
    Item,           \* [ref, publisher, says, matched, authority, jurisdictions, days,
                    \*  place, effective, expires, updated, pack, version]
    Question,       \* [jurisdiction, asOf, version]: what a claim is asked for
    Live,           \* refs that live research may have added
    Allowed,        \* sizes an answer may have
    MaxClaims, MaxItems, Today

VARIABLES
    question,
    evidence,       \* what has come for the claim that is assessed next
    claims,         \* the claims assessed
    result          \* the answer, while it is cut and then whole

ledgerVars == <<question, evidence, claims, result>>

None == "none"
\* claims: how many it carries
NoResult == [step |-> "none", status |-> "none", records |-> <<>>, claims |-> 0, gaps |-> {},
             degradation |-> {}, allowed |-> 0, dropped |-> 0]

Refs(items) == [i \in DOMAIN items |-> items[i].ref]

--------------------------------------------------------------------------------
(* One claim *)

Authority(item) == IF item.matched THEN item.authority ELSE "unknown"

Freshness(item) ==
    IF item.expires # 0 /\ Today > item.expires THEN "expired"
    ELSE IF item.updated = 0 \/ ~item.matched THEN "unknown"
    ELSE IF Today - item.updated > item.days THEN "stale" ELSE "current"

InJurisdiction(item, jurisdiction) ==
    \/ "GLOBAL" \in item.jurisdictions
    \/ jurisdiction # None /\ jurisdiction \in item.jurisdictions

\* An item of no known source is of every jurisdiction; one without a date or a version is
\* not held to them.
Applies(item, q) ==
    /\ item.matched => InJurisdiction(item, q.jurisdiction)
    /\ q.asOf # 0 => /\ item.effective <= q.asOf
                     /\ item.expires # 0 => item.expires >= q.asOf
    /\ q.version # None /\ item.version # None => item.version = q.version

Class(a, b) ==
    IF a.place # b.place THEN "jurisdiction"
    ELSE IF a.effective # b.effective THEN "time"
    ELSE IF a.pack # b.pack \/ a.version # b.version THEN "version" ELSE "definition"

Verdict(state, supporting, conflicting, others, classes, uncertainty) ==
    [state |-> state, supporting |-> supporting, conflicting |-> conflicting,
     others |-> others, classes |-> classes, uncertainty |-> uncertainty]

\* Why nothing applied.
Inapplicable(q) ==
    LET missing == (IF q.jurisdiction = None THEN {"missing_jurisdiction"} ELSE {})
                   \cup (IF q.asOf = 0 THEN {"missing_effective_date"} ELSE {})
    IN IF missing = {} THEN {"no_applicable_evidence"} ELSE missing

\* Fault: what most of the items say is taken.
Majority(items) ==
    LET Votes(e) == {i \in DOMAIN items : items[i].says = e.says}
    IN  Among(items, {e \in Item : \A f \in Item : Cardinality(Votes(f)) <= Cardinality(Votes(e))})

\* Every applicable item has its say.
Heard(items) == items

\* The group of the first statement supports, the others conflict: both sides are kept.
\* Groups are compared by their first items; the refs of the others come in the order of the
\* items and not group by group.
Disagreement(items, others) ==
    LET first == Among(items, {e \in Item : e.says = items[1].says})
        rest == Among(items, {e \in Item : e.says # items[1].says})
        heads == {i \in DOMAIN items : \A j \in 1..i - 1 : items[j].says # items[i].says}
    IN Verdict("conflicted", Refs(first), Refs(rest), others,
               {Class(items[p[1]], items[p[2]]) : p \in {p \in heads \X heads : p[1] < p[2]}},
               {"evidence_disagrees"})

Agreement(items, others) ==
    LET known == Among(items, {e \in Item : Authority(e) # "unknown"})
        state == IF known = <<>> THEN "unknown"
                 ELSE IF \E i \in DOMAIN known : Freshness(known[i]) = "current"
                 THEN "supported" ELSE "insufficient"
    IN Verdict(state, Refs(items), <<>>, others, {},
               CASE state = "unknown" -> {"authority_unknown"}
                 [] state = "insufficient" -> {"no_current_authoritative_evidence"}
                 [] OTHER -> {})

Assess(items, q) ==
    LET applicable == Heard(Among(items, {e \in Item : Applies(e, q)}))
        others == Refs(Among(items, {e \in Item : ~Applies(e, q)}))
    IN IF items = <<>> THEN Verdict("insufficient", <<>>, <<>>, <<>>, {}, {"no_evidence"})
       ELSE IF applicable = <<>>
       THEN Verdict("insufficient", <<>>, <<>>, others, {}, Inapplicable(q))
       ELSE IF \E i \in DOMAIN applicable : applicable[i].says # applicable[1].says
       THEN Disagreement(applicable, others)
       ELSE Agreement(applicable, others)

--------------------------------------------------------------------------------
(* The answer *)

CitedBy(claim) == claim.supporting \o claim.conflicting
Protected == UNION {Range(CitedBy(claims[i])) : i \in DOMAIN claims}

\* The records of an answer: what the claims name, each once and in their order, then what
\* live research found.
Records(found) ==
    Once(Joined([i \in DOMAIN claims |-> CitedBy(claims[i]) \o claims[i].others]) \o found)

\* An answer with no record and no claim is of size Base; a record is twice as long as a
\* marker, and so is a claim.
Base == 2
Size(r) == Base + 2 * (Len(r.records) + r.claims) + Cardinality(r.degradation)

\* Fault: what is measured is the answer without the marker it leaves with.
SizeUnmarked(r) == Base + 2 * (Len(r.records) + r.claims)

\* The answer is measured as it will be returned.
Measured(r) == Size(r)

\* A record no claim cites as for or against it; one that did not apply may go.
Droppable(r) == {ref \in Range(r.records) : ref \notin Protected}

\* The answer as it leaves when it was too long: never complete, and it names what was done.
Rendered(r, records, dropped, unmet) ==
    [r EXCEPT !.records = records, !.dropped = dropped,
              !.status = IF @ = "complete" THEN "partial" ELSE @,
              !.degradation = @ \cup (IF dropped > 0 THEN {"output_budget_compacted"} ELSE {})
                               \cup (IF unmet THEN {"output_budget_unmet"} ELSE {})]

\* What is measured first: an answer that fits leaves as it is.
Begin(r) == [r EXCEPT !.step = IF Measured(r) <= r.allowed THEN "done" ELSE "cutting"]

--------------------------------------------------------------------------------
Init ==
    /\ question \in Question
    /\ evidence = <<>> /\ claims = <<>> /\ result = NoResult

\* An item arrives.
Add ==
    /\ result.step = "none" /\ Len(claims) < MaxClaims /\ Len(evidence) < MaxItems
    /\ \E item \in Item : /\ item.ref \notin Range(Refs(evidence))
                         /\ evidence' = Append(evidence, item)
    /\ UNCHANGED <<question, claims, result>>

\* assess_claim: what has come is the claim's evidence.
AssessClaim ==
    /\ result.step = "none" /\ Len(claims) < MaxClaims
    /\ claims' = Append(claims, Assess(evidence, question))
    /\ evidence' = <<>>
    /\ UNCHANGED <<question, result>>

\* assemble_context for a request that proceeds: live research found some records, or was
\* refused.
Assemble ==
    /\ result.step = "none" /\ evidence = <<>>
    /\ \E found \in {<<>>} \cup {<<ref>> : ref \in Live}, refused \in BOOLEAN, allowed \in Allowed :
         LET records == Records(found)
             gaps == (UNION {claims[i].uncertainty : i \in DOMAIN claims})
                     \cup (IF records = <<>> /\ claims = <<>> THEN {"no_evidence_available"} ELSE {})
             degradation == IF refused THEN {"research_unavailable"} ELSE {}
             whole == /\ claims # <<>> /\ \A i \in DOMAIN claims : claims[i].state = "supported"
                      /\ records # <<>> /\ gaps = {} /\ degradation = {}
         IN result' = Begin([NoResult EXCEPT !.status = IF whole THEN "complete" ELSE "partial",
                                !.records = records, !.claims = Len(claims), !.gaps = gaps,
                                !.degradation = degradation, !.allowed = allowed])
    /\ UNCHANGED <<question, evidence, claims>>

\* assemble_context for a request the routing stops, or with the rollback mode on: no record
\* and no claim, whatever was assessed.
AssembleGated ==
    /\ result.step = "none" /\ evidence = <<>>
    /\ \E outcome \in {"route_only", "abstained"}, forced \in BOOLEAN, allowed \in Allowed :
         /\ forced => outcome = "route_only"
         /\ result' = Begin([NoResult EXCEPT !.status = outcome, !.allowed = allowed,
                                !.degradation = IF forced THEN {"rollback_route_only_mode"} ELSE {}])
    /\ UNCHANGED <<question, evidence, claims>>

\* compact_to_budget: the last record in the order of refs that no claim cites goes.
Drop ==
    /\ result.step = "cutting" /\ Droppable(result) # {}
    /\ LET victim == CHOOSE r \in Droppable(result) : \A s \in Droppable(result) : s <= r
           less == Rendered(result, Among(result.records, Range(result.records) \ {victim}),
                            result.dropped + 1, FALSE)
       IN result' = IF Measured(less) <= less.allowed THEN [less EXCEPT !.step = "done"] ELSE less
    /\ UNCHANGED <<question, evidence, claims>>

\* Nothing is left to drop: the answer says so.
SayUnmet ==
    /\ result.step = "cutting" /\ Droppable(result) = {}
    /\ result' = [Rendered(result, result.records, result.dropped, TRUE) EXCEPT !.step = "done"]
    /\ UNCHANGED <<question, evidence, claims>>

\* The caller has the answer and asks again.
Answered ==
    /\ result.step = "done"
    /\ evidence' = <<>> /\ claims' = <<>> /\ result' = NoResult
    /\ UNCHANGED question

Next == Add \/ AssessClaim \/ Assemble \/ AssembleGated \/ Drop \/ SayUnmet \/ Answered

Spec == Init /\ [][Next]_ledgerVars

--------------------------------------------------------------------------------
(* Properties *)

\* One more item never settles a disagreement, and it never weakens a supported claim but by
\* disagreeing with it: neither the newer statement nor the one most items make is taken
\* for the truth.
KeepsDisagreement ==
    Len(evidence') = Len(evidence) + 1 =>
      LET before == Assess(evidence, question)
          after == Assess(evidence', question)
      IN /\ before.state = "conflicted" =>
              /\ after.state = "conflicted"
              /\ Range(CitedBy(before)) \subseteq Range(CitedBy(after))
         /\ before.state = "supported" => after.state \in {"supported", "conflicted"}

\* It holds of every step, whoever takes it.
DisagreementStands == [][KeepsDisagreement]_ledgerVars

\* An answer that leaves has the size allowed or says it has not, holds every record a claim
\* cites, and is complete only if nothing had to be cut.
FitsOrSaysSo ==
    result.step = "done" =>
        /\ Size(result) <= result.allowed \/ "output_budget_unmet" \in result.degradation
        /\ result.status \in {"complete", "partial"} => Protected \subseteq Range(result.records)
        /\ result.status = "complete" => result.dropped = 0 /\ result.degradation = {}

--------------------------------------------------------------------------------
(* The inductive invariant *)

States == {"insufficient", "unknown", "supported", "conflicted"}
Classes == {"jurisdiction", "time", "version", "definition"}
Uncertainty ==
    {"no_evidence", "missing_jurisdiction", "missing_effective_date", "no_applicable_evidence",
     "evidence_disagrees", "authority_unknown", "no_current_authoritative_evidence"}
Gaps == Uncertainty \cup {"no_evidence_available"}
Degradation ==
    {"research_unavailable", "rollback_route_only_mode", "output_budget_compacted",
     "output_budget_unmet"}

Claim ==
    [state : States, supporting : Seq(Nat), conflicting : Seq(Nat), others : Seq(Nat),
     classes : SUBSET Classes, uncertainty : SUBSET Uncertainty]

Result ==
    [step : {"none", "cutting", "done"},
     status : {"none", "complete", "partial", "route_only", "abstained"}, records : Seq(Nat),
     claims : Nat, gaps : SUBSET Gaps, degradation : SUBSET Degradation,
     allowed : Allowed \cup {0}, dropped : Nat]

\* From the first record that goes, an answer is not complete, and none that goes was cited.
LedgerInv ==
    /\ question \in Question /\ evidence \in Seq(Item) /\ claims \in Seq(Claim)
    /\ result \in Result /\ (result.step = "none" => result = NoResult)
    /\ result.status \in {"complete", "partial"} => Protected \subseteq Range(result.records)
    /\ result.status = "complete" => result.dropped = 0 /\ result.degradation = {}
    /\ result.step = "done" =>
         Size(result) <= result.allowed \/ "output_budget_unmet" \in result.degradation
================================================================================
