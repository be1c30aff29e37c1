------------------------------- MODULE MCComponents ----------------------------
(***************************************************************************)
(* Finite instances of the components that share no state with each other. *)
(* One run explores them side by side: in a behaviour one component,       *)
(* `part`, moves, and the others stay where they start, so the states are  *)
(* the sum of the components' states and not their product.                *)
(***************************************************************************)
EXTENDS Integers, Sequences, FiniteSets, LiveResearch, Tooling, Evidence

CONSTANT Parts      \* the components to explore

VARIABLE
    part        \* the component that moves

--------------------------------------------------------------------------------
(* LiveResearch: two URLs of two hosts, under three policies *)

MCPolicy ==
    {[version |-> 1, allow |-> {"h1", "h2"}, denied |-> {}],
     [version |-> 1, allow |-> {"h1"}, denied |-> {1}],
     [version |-> 2, allow |-> {"h2"}, denied |-> {}]}

MCInquiry == {[material |-> <<1, 2, 1>>, requests |-> 2, bytes |-> 2, redirects |-> 1, time |-> 1]}

MCHostOf == <<"h1", "h2">>

--------------------------------------------------------------------------------
(* Decisions: a chain of three decisions, a pair that replace each other, two
   imported issues, premises declared twice, invalidated and never declared *)

Document(commit, names, tier, issue, links, premises, invalidates, alternatives, files) ==
    [commit |-> commit, names |-> names, tier |-> tier, issue |-> issue, links |-> links,
     premises |-> premises, invalidates |-> invalidates, alternatives |-> alternatives,
     files |-> files]
Link(relation, target) == [relation |-> relation, target |-> target]
Holds(id) == <<[id |-> id, status |-> "active"]>>

MCLibrary == <<
    Document("a1", {}, "repository", 0, {}, Holds("p1"), {},
             <<[name |-> 1, premises |-> {"p1"}]>>, {"f"}),
    Document("a2", {}, "repository", 0, {Link("supersedes", "a1"), Link("supersedes", "gone")},
             <<>>, {"p2"}, <<>>, {"f", "g"}),
    Document("none", {"adr3"}, "repository", 0, {Link("supersedes", "adr6")}, Holds("p1"), {},
             <<[name |-> 1, premises |-> {"p1", "p2"}]>>, {}),
    Document("none", {"gh2"}, "github", 2, {}, Holds("p1") \o Holds("p2"), {"p1", "p2"},
             <<>>, {}),
    Document("none", {"gh1"}, "github", 1, {}, Holds("p2"), {}, <<>>, {}),
    Document("a6", {"adr6"}, "repository", 0, {Link("amends", "a2"), Link("supersedes", "adr3")},
             <<>>, {"p1"}, <<[name |-> 2, premises |-> {"p1", "p3"}]>>, {"f"})>>

MCResembles ==
    [t \in {"a1", "a2", "adr3", "adr6", "gone"} |-> IF t = "gone" THEN {1, 3} ELSE {}]
MCLogOf == [f |-> <<"x", "a6", "a2", "a1">>, g |-> <<"a2", "a1">>, h |-> <<"a1">>]
MCFound ==
    {{<<d, 1>>} : d \in 1..6}
        \cup {{<<1, 1>>, <<2, 2>>}, {<<1, 1>>, <<2, 1>>, <<6, 1>>}, {<<3, 1>>, <<6, 2>>},
              {<<1, 1>>, <<1, 2>>}}

MCRefRank == <<5, 2, 1, 3, 4, 6>>
MCTasks == {{1}, {2}, {1, 2}}

--------------------------------------------------------------------------------
(* ReadPages: two requests for several refs, one with a range, and one for a premise
   whose text the second server has changed *)

Reference(kind, key, version) == [kind |-> kind, key |-> key, version |-> version]
MCPassage == Reference("passage", "a", 0)
MCSkill == Reference("skill", "s", 1)
MCLive == Reference("live", "v", 0)
MCPremise == Reference("premise", "p", 0)
Text(id, length) == [id |-> id, length |-> length]

Unranged(refs) == [r \in {refs[i] : i \in DOMAIN refs} |-> <<>>]

MCRequest ==
    {[refs |-> <<MCPassage, MCSkill>>, cap |-> 2, output |-> 3,
      range |-> [Unranged(<<MCPassage, MCSkill>>) EXCEPT ![MCPassage] = <<2, 4>>]],
     [refs |-> <<MCLive, MCPassage>>, cap |-> 3, output |-> 2,
      range |-> Unranged(<<MCLive, MCPassage>>)],
     [refs |-> <<MCPremise>>, cap |-> 2, output |-> 3, range |-> Unranged(<<MCPremise>>)]}

Serving(premise, version, research) ==
    [passages |-> [a |-> Text("a", 4)], capabilities |-> <<>>, alternatives |-> <<>>,
     premises |-> [p |-> premise], research |-> research, cached |-> [v |-> Text("v", 2)],
     skills |-> [s |-> [version |-> version, text |-> Text("s", 2)]]]

MCMaterial == {Serving(Text("p1", 2), 1, TRUE), Serving(Text("p2", 3), 2, FALSE)}

--------------------------------------------------------------------------------
(* CorpusWatch: two commits, the second of which has a body and deletes an ADR of the first *)

MCAdds == <<{"x"}, {"z"}>>
MCDrops == <<{}, {"x"}>>

--------------------------------------------------------------------------------
(* GitHubImport: an issue a commit closes, mentioned from another repository and twice by
   the pull request of a second commit, past the cap of pages *)

MCClosing == <<[closes |-> {1}, pr |-> 0], [closes |-> {3}, pr |-> 3]>>
MCMentions == <<<<0, 3, 3>>, <<>>, <<>>>>

MCCloses == [n \in {3} |-> {1}]

--------------------------------------------------------------------------------
(* BenchmarkRun: a trap set of two invocations and another that shares the log *)

MCPlans == {[set |-> 1, keys |-> <<1, 2>>], [set |-> 2, keys |-> <<1>>]}

--------------------------------------------------------------------------------
(* Search: four passages of three documents, the clock read at every second one *)

SearchFor(terms, postings, similarity, foreign) ==
    [terms |-> terms, postings |-> postings, similarity |-> similarity, foreign |-> foreign]
Budgeted(candidates, chars, offset) ==
    [candidates |-> candidates, chars |-> chars, offset |-> offset]

MCDocumentOf == <<1, 1, 2, 3>>
MCLengths == <<2, 1, 2, 1>>
MCQuery ==
    {SearchFor(TRUE, <<<<2, 1>>, <<3, 1>>, <<1, 2>>, <<2, 2>>>>, <<1, 1, 2, 3>>, FALSE),
     SearchFor(TRUE, <<<<1, 3>>, <<4, 1>>>>, <<1, 2, 3, 2>>, TRUE),
     SearchFor(FALSE, <<>>, <<2, 1, 1, 1>>, FALSE)}
MCBudget == {Budgeted(3, 9, 0), Budgeted(4, 3, 1), Budgeted(4, 9, 0)}

--------------------------------------------------------------------------------
(* Routing: two releases of three domain packs; skills of three ids, two of them of
   the user, under a ceiling of two *)

DomainPack(id, domains, window, sources, capabilities) ==
    [id |-> id, sound |-> TRUE, routers |-> {1, 2}, domains |-> domains,
     reviewed |-> window[1], fresh |-> window[2], expires |-> window[3],
     sources |-> sources, capabilities |-> capabilities]
Skilled(id, window, skills) ==
    [id |-> id, sound |-> TRUE, routers |-> {1, 2}, skills |-> skills,
     reviewed |-> window[1], fresh |-> window[2], expires |-> window[3]]
Source(id, jurisdiction) == [id |-> id, jurisdictions |-> {jurisdiction}]
Known(id, domains) == [id |-> id, domains |-> domains, digest |-> id]

MCPractices == Skilled(1, <<0, 1, 2>>, <<Known(3, {"programming"}), Known(1, {"programming"})>>)
MCUsers ==
    {<<>>, <<Skilled(2, <<0, 0, 2>>, <<Known(2, {"programming", "unsupported"})>>)>>,
     <<Skilled(2, <<0, 2, 2>>, <<Known(3, {"programming"})>>)>>}
MCWheel ==
    <<[packs |-> <<DomainPack(3, {"programming"}, <<0, 0, 1>>, <<Source(1, "GLOBAL")>>, <<>>),
                   DomainPack(1, {"general", "programming"}, <<0, 1, 1>>, <<Source(2, "GLOBAL")>>, <<>>),
                   DomainPack(2, {"accounting"}, <<0, 1, 2>>, <<Source(3, "AR")>>, <<[id |-> 1]>>)>>,
       practices |-> MCPractices],
      [packs |-> <<DomainPack(3, {"programming"}, <<2, 1, 3>>, <<Source(1, "GLOBAL")>>, <<>>)>>,
       practices |-> MCPractices]>>

Has(id, digest) == [id |-> id, digest |-> digest]
MCHosts ==
    {[opted |-> FALSE, skills |-> <<>>], [opted |-> TRUE, skills |-> <<>>],
     [opted |-> TRUE, skills |-> <<Has(2, 1), Has(2, 2), Has(3, 3)>>]}

MCAsked ==
    {[words |-> TRUE, named |-> n, acts |-> FALSE, asks |-> a, jurisdiction |-> j,
      asOf |-> j = "AR", risk |-> k, host |-> [opted |-> FALSE, skills |-> <<>>]] :
        n \in {{}, {"programming"}, {"accounting", "programming"}, {"unsupported"}},
        a \in {{}, {"capability"}}, j \in {"unknown", "AR", "UY"}, k \in {"low", "regulated"}}
    \cup {[words |-> w, named |-> {"programming"}, acts |-> w, asks |-> {"conclusion"},
           jurisdiction |-> "unknown", asOf |-> FALSE, risk |-> "low",
           host |-> [opted |-> FALSE, skills |-> <<>>]] : w \in BOOLEAN}

--------------------------------------------------------------------------------
(* ClaimLedger: of four items two say the same, one of them from a source nobody knows,
   and two another thing; two claims, of three items each: a disagreement of two, and one
   more *)

Said(ref, says, matched, authority, place, dates) ==
    [ref |-> ref, publisher |-> ref, says |-> says, matched |-> matched, authority |-> authority,
     jurisdictions |-> {place}, days |-> 1, place |-> place,
     effective |-> dates[1], expires |-> dates[2], updated |-> dates[3],
     pack |-> ref, version |-> IF ref = 4 THEN "v2" ELSE "none"]

MCItem ==
    {Said(1, "a", TRUE, "official", "GLOBAL", <<1, 0, 3>>),
     Said(2, "b", TRUE, "standard", "AR", <<2, 4, 2>>),
     Said(3, "a", FALSE, "primary", "GLOBAL", <<0, 0, 0>>),
     Said(4, "b", TRUE, "official", "GLOBAL", <<2, 0, 1>>)}

MCQuestion ==
    {[jurisdiction |-> q[1], asOf |-> q[2], version |-> "v1"] :
        q \in {<<"none", 0>>, <<"AR", 1>>, <<"AR", 3>>}}

--------------------------------------------------------------------------------
(* DecisionTrail: three commits, on a file of two lines and one of one *)

MCMaxLines == [f |-> 2, g |-> 1]

--------------------------------------------------------------------------------

vars ==
    <<part, researchVars, Gate!gateVars, Homes!homeVars, Setup!setupVars, Trail!trailVars,
      Benchmark!benchVars, Hooks!hookVars, Importing!importVars,
      Watch!watchVars, Pages!readVars, Routed!routingVars,
      Decided!decisionVars, Claimed!ledgerVars, Searching!searchVars>>

\* A component that does not move starts in one state only.
ComponentsInit ==
    /\ part \in Parts
    /\ Init /\ (part # "research" => policy = CHOOSE p \in Policy : TRUE)
    /\ Pages!Init /\ (part # "reading" => server = CHOOSE m \in Material : TRUE)
    /\ Gate!Init /\ Homes!Init /\ Setup!Init /\ Trail!Init /\ Watch!Init /\ Routed!Init
    /\ Decided!Init /\ Hooks!Init /\ Importing!Init
    /\ Benchmark!Init
    /\ part # "benchmark" => installed = CHOOSE m \in [client : Release, commit : Checkout, model : Model] : TRUE
    /\ Claimed!Init /\ (part # "claims" => question = CHOOSE q \in Question : TRUE)
    /\ Searching!Init
    /\ part # "searching" => request = CHOOSE r \in Searching!SearchRequests : TRUE

ComponentsNext ==
    /\ UNCHANGED part
    /\ \/ part = "research" /\ Next
       \/ part = "decisions" /\ Decided!Next
       \/ part = "reading" /\ Pages!Next
       \/ part = "watching" /\ Watch!Next
       \/ part = "importing" /\ Importing!Next
       \/ part = "benchmark" /\ Benchmark!Next
       \/ part = "gate" /\ Gate!Next
       \/ part = "searching" /\ Searching!Next
       \/ part = "routing" /\ Routed!Next
       \/ part = "claims" /\ Claimed!Next
       \/ part = "homes" /\ Homes!Next
       \/ part = "hooks" /\ Hooks!Next
       \/ part = "setups" /\ Setup!Next
       \/ part = "trail" /\ Trail!Next
    /\ IF part = "research" THEN TRUE
       ELSE UNCHANGED researchVars
    /\ IF part = "reading" THEN TRUE
       ELSE UNCHANGED <<server, expired, cursors, seen, page>>
    /\ IF part = "watching" THEN TRUE
       ELSE UNCHANGED <<head, moves, notes, adrs, active, job, last>>
    /\ IF part = "gate" THEN TRUE
       ELSE UNCHANGED <<hook, state, handed, tally>>
    /\ IF part = "routing" THEN TRUE
       ELSE UNCHANGED <<today, wheel, service, reply>>
    /\ IF part = "decisions" THEN TRUE
       ELSE UNCHANGED <<documents, tables>>
    /\ IF part = "homes" THEN TRUE
       ELSE UNCHANGED <<store, policies, pointer, made, launch, told>>
    /\ IF part = "setups" THEN TRUE
       ELSE UNCHANGED <<file, bak, setup, sinceRead, sinceCopy, writes>>
    /\ IF part = "trail" THEN TRUE
       ELSE UNCHANGED <<history, text, mined, index, review>>
    /\ IF part = "benchmark" THEN TRUE
       ELSE UNCHANGED <<installed, log, harness, published>>
    /\ IF part = "hooks" THEN TRUE
       ELSE UNCHANGED <<script, enabled, own, meddled, alias>>
    /\ IF part = "importing" THEN TRUE
       ELSE UNCHANGED <<hub, responses, written, build, warm>>
    /\ IF part = "claims" THEN TRUE
       ELSE UNCHANGED <<question, evidence, claims, result>>
    /\ IF part = "searching" THEN TRUE
       ELSE UNCHANGED <<request, search>>

\* A state is told from the others of its behaviour by the component that moves.
Moving ==
    <<part,
      CASE part = "research" -> researchVars [] part = "decisions" -> Decided!decisionVars
        [] part = "reading" -> Pages!readVars [] part = "watching" -> Watch!watchVars
        [] part = "importing" -> Importing!importVars [] part = "benchmark" -> Benchmark!benchVars
        [] part = "gate" -> Gate!gateVars [] part = "searching" -> Searching!searchVars
        [] part = "routing" -> Routed!routingVars [] part = "claims" -> Claimed!ledgerVars
        [] part = "homes" -> Homes!homeVars [] part = "hooks" -> Hooks!hookVars
        [] part = "setups" -> Setup!setupVars [] part = "trail" -> Trail!trailVars>>

ComponentsSpec == ComponentsInit /\ [][ComponentsNext]_vars
================================================================================
