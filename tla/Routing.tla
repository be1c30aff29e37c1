--------------------------------- MODULE Routing --------------------------------
(***************************************************************************)
(* What a request may draw on: the signed packs and skills a server loads  *)
(* when it starts (platform.py, packs.py, skills.py, registries.py), and   *)
(* what one request makes of them (classify.py, lookup.py, route.py,       *)
(* dispatch.py, service.py).                                               *)
(*                                                                         *)
(* Days pass, the wheel is upgraded while a server of the old one runs,    *)
(* and the review window of a pack is judged once, at the start, while     *)
(* that of a skill is judged at every request.  Ids are numbers in their   *)
(* order; a request is the keywords it contains and what it declares.      *)
(***************************************************************************)
EXTENDS Integers, SequencesExt

CONSTANTS
    Wheel,          \* sequence of releases: [packs, practices], a domain pack a member of
                    \* packs in the order they are loaded, practices a skill pack
    UserSets,       \* the user's skill packs that open: a set of sequences
    Requests,       \* [words, named, acts, asks, jurisdiction, asOf, risk, host]
    Inventories,    \* what hosts may say they have installed
    Ceiling, MaxDay

VARIABLES
    today,
    wheel,          \* the release that is installed
    service,        \* the server that runs, if any, or why it did not start
    reply           \* the answer a client is reading

routingVars == <<today, wheel, service, reply>>

Nobody == [up |-> FALSE, fault |-> "none", packs |-> <<>>, currency |-> <<>>, skills |-> <<>>]
NoReply == [to |-> {}, outcome |-> "none", gaps |-> {}, actions |-> {}, skills |-> <<>>,
            capabilities |-> <<>>]

Flatten(sequences) == FoldLeft(LAMBDA a, b : a \o b, <<>>, sequences)
ById(things) == SortSeq(things, LAMBDA a, b : a.id < b.id)
Distinct(things) == \A i, j \in DOMAIN things : things[i].id = things[j].id => i = j

--------------------------------------------------------------------------------
(* Loading *)

Currency(pack, day) ==
    IF pack.expires < day THEN "expired"
    ELSE IF pack.reviewed + pack.fresh < day THEN "stale" ELSE "current"

\* Signature, digest and schema; then the window, of which a serving path enforces only
\* that the review is not in the future; then the router.
PackFault(pack, day, release) ==
    IF ~pack.sound THEN "invalid_signature"
    ELSE IF pack.reviewed > day THEN "future_review"
    ELSE IF release \notin pack.routers THEN "incompatible_pack" ELSE "none"

\* No window at all for the skills a server loads.
SkillFault(pack, release) ==
    IF ~pack.sound THEN "invalid_signature"
    ELSE IF release \notin pack.routers THEN "incompatible_pack" ELSE "none"

FirstFault(packs, day, release) ==
    LET bad == {i \in DOMAIN packs : PackFault(packs[i], day, release) # "none"}
    IN IF bad = {} THEN "none"
       ELSE PackFault(packs[CHOOSE i \in bad : \A j \in bad : i <= j], day, release)

\* All the domain packs of the wheel or none of them.
RegistryFault(packs, day, release) ==
    IF FirstFault(packs, day, release) # "none" THEN FirstFault(packs, day, release)
    ELSE IF ~Distinct(packs) THEN "duplicate_pack_id"
    ELSE IF ~Distinct(Flatten([i \in DOMAIN packs |-> packs[i].sources]))
    THEN "duplicate_source_id"
    ELSE IF ~Distinct(Flatten([i \in DOMAIN packs |-> packs[i].capabilities]))
    THEN "duplicate_capability_id" ELSE "none"

SkillsFault(practices, users, release) ==
    LET all == <<practices>> \o users
    IN IF SkillFault(practices, release) # "none" THEN SkillFault(practices, release)
       ELSE IF ~Distinct(all) \/ ~Distinct(Flatten([i \in DOMAIN all |-> all[i].skills]))
       THEN "skills_collision" ELSE "none"

\* The registry of a server assesses the review windows of its packs once.
Assessed(packs, day) ==
    [id \in {packs[i].id : i \in DOMAIN packs} |->
        Currency(CHOOSE p \in {packs[i] : i \in DOMAIN packs} : p.id = id, day)]

Loaded(packs, practices, users, day) ==
    [up |-> TRUE, fault |-> "none", packs |-> ById(packs), currency |-> Assessed(packs, day),
     skills |-> ById(<<practices>> \o users)]

Init ==
    /\ today = 0
    /\ wheel = 1
    /\ service = Nobody
    /\ reply = NoReply

Start ==
    LET release == Wheel[wheel]
    IN /\ ~service.up
       /\ \E users \in UserSets :
            LET fault == IF RegistryFault(release.packs, today, wheel) # "none"
                         THEN RegistryFault(release.packs, today, wheel)
                         ELSE SkillsFault(release.practices, users, wheel)
            IN service' = IF fault # "none" THEN [Nobody EXCEPT !.fault = fault]
                          ELSE Loaded(release.packs, release.practices, users, today)
       /\ UNCHANGED <<today, wheel, reply>>

Stop == service.up /\ service' = Nobody /\ reply' = NoReply /\ UNCHANGED <<today, wheel>>
DayPasses == today < MaxDay /\ today' = today + 1 /\ reply' = NoReply /\ UNCHANGED <<wheel, service>>
Upgrade ==
    /\ wheel < Len(Wheel) /\ wheel' = wheel + 1
    /\ reply' = NoReply
    /\ UNCHANGED <<today, service>>

--------------------------------------------------------------------------------
(* Classification: the first family in this order whose keywords occur *)

Families == <<"law", "accounting", "cybersecurity", "programming", "ux_design">>
RiskOf ==
    [law |-> "regulated", accounting |-> "regulated", cybersecurity |-> "high",
     programming |-> "medium", ux_design |-> "medium", general |-> "low",
     unsupported |-> "unknown"]
Rank == [low |-> 0, medium |-> 1, high |-> 2, unknown |-> 3, regulated |-> 4]

Domain(r) ==
    LET hit == {i \in DOMAIN Families : Families[i] \in r.named}
    IN IF hit # {} THEN Families[CHOOSE i \in hit : \A j \in hit : i <= j]
       ELSE IF "unsupported" \in r.named THEN "unsupported" ELSE "general"

Intent(r) == IF ~r.words THEN "unclear" ELSE IF r.acts THEN "consequential_action" ELSE "investigate"

ClaimType(r) ==
    IF "capability" \in r.asks THEN "capability_recommendation"
    ELSE IF "conclusion" \in r.asks THEN "professional_conclusion" ELSE "factual"

\* Fault: what could not be assessed outranks every declaration.
UnknownOutranks(assessed, declared) ==
    IF assessed = "unknown" \/ Rank[assessed] >= Rank[declared] THEN assessed ELSE declared

EffectiveRisk(assessed, declared) == IF Rank[assessed] >= Rank[declared] THEN assessed ELSE declared

--------------------------------------------------------------------------------
(* Discovery *)

\* An expired pack speaks for none of its domains; a stale one does.
Applicable(s, domain) ==
    SelectSeq(s.packs, LAMBDA p : domain \in p.domains /\ s.currency[p.id] # "expired")

Sources(s, domain) ==
    LET packs == Applicable(s, domain) IN Flatten([i \in DOMAIN packs |-> packs[i].sources])

\* Capabilities go by the claim and not by the domain, nor by the currency of their pack.
Capabilities(s, claim) ==
    IF claim # "capability_recommendation" THEN <<>>
    ELSE Flatten([i \in DOMAIN s.packs |-> ById(s.packs[i].capabilities)])

Owned(pack) == [i \in DOMAIN pack.skills |-> [id |-> pack.skills[i].id,
                    domains |-> pack.skills[i].domains, digest |-> pack.skills[i].digest,
                    reviewed |-> pack.reviewed, fresh |-> pack.fresh, expires |-> pack.expires]]

SkillsOf(s, domain) ==
    SelectSeq(Flatten([i \in DOMAIN s.skills |-> Owned(s.skills[i])]),
              LAMBDA k : domain \in k.domains)

\* Only a request that opted in draws on skills.
Skills(s, r, domain) == IF r.host.opted THEN SkillsOf(s, domain) ELSE <<>>

SourceApplies(source, jurisdiction) ==
    \/ "GLOBAL" \in source.jurisdictions
    \/ jurisdiction # "unknown" /\ jurisdiction \in source.jurisdictions

PackGaps(s, domain) ==
    {[gap |-> "pack_expired", of |-> p.id] :
        p \in {q \in Range(s.packs) : domain \in q.domains /\ s.currency[q.id] = "expired"}}
    \cup {[gap |-> "pack_stale", of |-> p.id] :
        p \in {q \in Range(s.packs) : domain \in q.domains /\ s.currency[q.id] = "stale"}}

--------------------------------------------------------------------------------
(* The route *)

MissingContext(r) ==
    (IF r.jurisdiction = "unknown" THEN {"missing_jurisdiction"} ELSE {})
        \cup (IF r.asOf THEN {} ELSE {"missing_effective_date"})

Decision(outcome, reason, gaps) == [outcome |-> outcome, reason |-> reason, gaps |-> gaps]

Route(s, r) ==
    LET domain == Domain(r)
        sources == Sources(s, domain)
        evidence == \/ Applicable(s, domain) # <<>> \/ Capabilities(s, ClaimType(r)) # <<>>
                    \/ Skills(s, r, domain) # <<>>
        regulated == EffectiveRisk(RiskOf[domain], r.risk) = "regulated"
    IN IF Intent(r) = "consequential_action"
       THEN IF evidence THEN Decision("route_only", "consequential_action", {})
            ELSE Decision("abstained", "consequential_action", {"no_approved_domain_pack"})
       ELSE IF ~evidence
       THEN Decision("abstained", "no_evidence", {"no_approved_domain_pack"})
       ELSE IF regulated /\ MissingContext(r) # {}
       THEN Decision("route_only", "missing_context", MissingContext(r))
       ELSE IF sources # <<>> /\ \A i \in DOMAIN sources : ~SourceApplies(sources[i], r.jurisdiction)
       THEN Decision("route_only", "not_applicable", {"sources_jurisdiction_mismatch"})
       ELSE Decision("proceed", "supported", {})

--------------------------------------------------------------------------------
(* Dispatch: order and ceiling before the host's inventory is looked at *)

\* Of an id the host lists twice, the first entry counts.
Reported(host, id) == SelectSeq(host.skills, LAMBDA e : e.id = id)

Availability(skill, host) ==
    IF Reported(host, skill.id) = <<>> THEN "not_installed"
    ELSE IF Reported(host, skill.id)[1].digest = skill.digest THEN "installed"
    ELSE "digest_divergent"

Selected(matches) ==
    SubSeq(ById(matches), 1, IF Len(matches) < Ceiling THEN Len(matches) ELSE Ceiling)

\* Fault: skills the host has come before the ceiling is applied.
DispatchInstalledFirst(matches, host, day) ==
    LET has(k) == Availability(k, host) = "installed"
        chosen == Selected(IF \E i \in DOMAIN matches : has(matches[i])
                           THEN SelectSeq(matches, has) ELSE matches)
    IN [i \in DOMAIN chosen |->
          [id |-> chosen[i].id, availability |-> Availability(chosen[i], host),
           currency |-> Currency(chosen[i], day)]]

Dispatched(matches, host, day) ==
    LET chosen == Selected(matches)
    IN [i \in DOMAIN chosen |->
          [id |-> chosen[i].id, availability |-> Availability(chosen[i], host),
           currency |-> Currency(chosen[i], day)]]

SkillGaps(skill) ==
    {[gap |-> g, of |-> skill.id] : g \in
        [current |-> {}, stale |-> {"skill_stale"}, expired |-> {"skill_expired"}][skill.currency]
        \cup [installed |-> {}, not_installed |-> {"skill_not_installed"},
              digest_divergent |-> {"skill_digest_divergent"}][skill.availability]}

SkillActions(skill) ==
    (IF skill.currency = "current" THEN {} ELSE {[kind |-> "inspect_capability", of |-> skill.id]})
    \cup (CASE skill.availability = "not_installed" -> {[kind |-> "install_skill", of |-> skill.id]}
            [] skill.availability = "digest_divergent" -> {[kind |-> "inspect_capability", of |-> skill.id]}
            [] OTHER -> {})

CeilingGap(matches) ==
    IF Len(matches) > Ceiling
    THEN {[gap |-> "skill_ceiling_exceeded", of |-> Len(matches) - Ceiling]} ELSE {}

\* The host is asked to draft a skill when no trusted one covers the domain.
Uncovered(skills) == \A i \in DOMAIN skills : skills[i].currency # "current"

--------------------------------------------------------------------------------
(* The answer *)

Escalation ==
    [no_approved_domain_pack |-> "consult_professional", missing_jurisdiction |-> "request_jurisdiction",
     missing_effective_date |-> "request_jurisdiction",
     sources_jurisdiction_mismatch |-> "consult_professional"]

\* Nothing but the decision: no evidence, whatever was found.
Gated(s, r) ==
    LET decision == Route(s, r)
    IN [NoReply EXCEPT
          !.to = {r}, !.outcome = decision.outcome,
          !.gaps = {[gap |-> g, of |-> 0] : g \in decision.gaps} \cup PackGaps(s, Domain(r)),
          !.actions = {[kind |-> Escalation[g], of |-> 0] : g \in decision.gaps}
                      \cup (IF decision.reason = "consequential_action"
                            THEN {[kind |-> "inspect_capability", of |-> 0]} ELSE {})]

\* The gaps of the skills replace those of the packs when the request opted in.
Proceeded(s, r, day) ==
    LET domain == Domain(r)
        matches == Skills(s, r, domain)
        skills == Dispatched(matches, r.host, day)
        drafting == r.host.opted /\ Uncovered(skills)
    IN [to |-> {r}, outcome |-> "proceed", skills |-> skills,
        capabilities |-> Capabilities(s, ClaimType(r)),
        gaps |-> IF r.host.opted
                 THEN CeilingGap(matches) \cup (UNION {SkillGaps(skills[i]) : i \in DOMAIN skills})
                      \cup (IF drafting THEN {[gap |-> "no_skill_for_domain", of |-> 0]} ELSE {})
                 ELSE PackGaps(s, domain),
        actions |-> (UNION {SkillActions(skills[i]) : i \in DOMAIN skills})
                    \cup (IF drafting THEN {[kind |-> "draft_skill_candidate", of |-> 0]} ELSE {})]

Answer(s, r, day) == IF Route(s, r).outcome = "proceed" THEN Proceeded(s, r, day) ELSE Gated(s, r)

Investigate ==
    /\ service.up /\ reply = NoReply
    /\ \E r \in Requests, host \in Inventories :
         reply' = Answer(service, [r EXCEPT !.host = host], today)
    /\ UNCHANGED <<today, wheel, service>>

\* The answer has been read.
Deliver == reply # NoReply /\ reply' = NoReply /\ UNCHANGED <<today, wheel, service>>

Next == Deliver \/ Start \/ Stop \/ DayPasses \/ Upgrade \/ Investigate

Spec == Init /\ [][Next]_routingVars

--------------------------------------------------------------------------------
(* Properties *)

\* What an answer owes to the signed sets alone.
Chosen(answer) ==
    [outcome |-> answer.outcome, capabilities |-> answer.capabilities,
     skills |-> [i \in DOMAIN answer.skills |->
                    [id |-> answer.skills[i].id, currency |-> answer.skills[i].currency]],
     beyond |-> {g \in answer.gaps : g.gap = "skill_ceiling_exceeded"}]

\* What a host says it has installed describes the skills and chooses nothing: under
\* another inventory the route, the skills, their order and what falls past the ceiling
\* would have been the same (dispatch.py:15-22).
InventoryOnlyDescribes ==
    \A r \in reply.to, host \in Inventories :
        service.up /\ host.opted /\ r.host.opted =>
            Chosen(Answer(service, [r EXCEPT !.host = host], today))
                = Chosen(Answer(service, r, today))

\* A declared risk is a floor: whoever declares a request regulated, or asks about a
\* regulated domain, and leaves out the jurisdiction or the date, never gets past the
\* router, however the keywords were read and whatever packs and skills are loaded, on
\* any day; and nothing that asks to act does (route.py:19-69).
FloorsHold ==
    \A r \in reply.to :
        reply.outcome = "proceed" =>
            /\ Intent(r) # "consequential_action"
            /\ r.risk = "regulated" => r.jurisdiction # "unknown" /\ r.asOf
            /\ r.named \cap {"law", "accounting"} # {} => r.jurisdiction # "unknown" /\ r.asOf

--------------------------------------------------------------------------------
(* The inductive invariant *)

\* An answer is to one of the requests, from a host with one of the inventories.
Asked == reply.to \subseteq {[q EXCEPT !.host = h] : q \in Requests, h \in Inventories}

IInv == Asked /\ FloorsHold
================================================================================
