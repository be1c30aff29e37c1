--------------------------------- MODULE Evidence -------------------------------
(***************************************************************************)
(* The components that evidence passes through, side by side: the corpus   *)
(* that the watcher and `init` make of a repository, the pages in which a  *)
(* client reads it, what a request may draw on, and the tables of          *)
(* decisions and premises.  They share no state; each has its own          *)
(* specification, and here its own variables.                              *)
(***************************************************************************)
EXTENDS Integers, Sequences, FiniteSets

CONSTANTS Commit, Bodied, Broken, Adds, Drops, MaxMoves
VARIABLES head, moves, notes, adrs, active, job, last

Watch == INSTANCE CorpusWatch

CONSTANTS Request, Material
VARIABLES server, expired, cursors, seen, page

Pages == INSTANCE ReadPages

CONSTANTS Wheel, UserSets, Requests, Inventories, Ceiling, MaxDay
VARIABLES today, wheel, service, reply

Routed == INSTANCE Routing

CONSTANTS Library, RefRank, Resembles, LogOf, FoundSets, Tasks
VARIABLES documents, tables

Decided == INSTANCE Decisions WITH corpus <- documents, index <- tables, Found <- FoundSets

CONSTANTS Number, Pulls, Commits, Closes, Mentions, PageSize, MaxPages, MaxAttempts
VARIABLES hub, responses, written, build, warm

Importing == INSTANCE GitHubImport

CONSTANTS Statements, Question, Researchable, Allowed, MaxClaims, MaxItems, Today
VARIABLES question, evidence, claims, result

Claimed == INSTANCE ClaimLedger WITH Item <- Statements, Live <- Researchable

CONSTANTS Passages, DocumentOf, Lengths, Query, Budget, ClockEvery, Depth, Snippet
VARIABLES request, search

Searching == INSTANCE Search WITH Passage <- Passages, Length <- Lengths

--------------------------------------------------------------------------------
(* What the constants are assumed to be *)

\* What a request may ask (contracts.py:43-53, 299-328): characters from the first, in order.
Askable ==
    \A q \in Request :
        /\ Len(q.refs) \in Nat /\ DOMAIN q.refs = 1..Len(q.refs)
        /\ q.cap \in Nat /\ q.output \in Nat
        /\ \A r \in Pages!RefsOf(q) :
             q.range[r] # <<>> => q.range[r][1] \in Nat \ {0} /\ q.range[r][2] \in Nat

\* What a server resolves refs against is text, of some length.
Readable ==
    \A m \in Material :
        /\ \A k \in DOMAIN m.passages : m.passages[k].length \in Nat
        /\ \A k \in DOMAIN m.capabilities : m.capabilities[k].length \in Nat
        /\ \A k \in DOMAIN m.alternatives : m.alternatives[k].length \in Nat
        /\ \A k \in DOMAIN m.premises : m.premises[k].length \in Nat
        /\ \A k \in DOMAIN m.cached : m.cached[k].length \in Nat
        /\ \A k \in DOMAIN m.skills : m.skills[k].text.length \in Nat

ASSUME PagesAssumption == Askable /\ Readable

\* A request is a record, and declares one of the risks (contracts.py:89-107, classify.py:23).
Requested(r) ==
    /\ r \in [words : {r.words}, named : {r.named}, acts : {r.acts}, asks : {r.asks},
              jurisdiction : {r.jurisdiction}, asOf : {r.asOf}, risk : {r.risk},
              host : {r.host}]
    /\ r.risk \in {"low", "medium", "high", "unknown", "regulated"}

ASSUME RoutingAssumption == \A r \in Requests : Requested(r)

\* Documents are ordered by path and by ref, a link states one of the relations that the
\* corpus format knows and a log has an order (index.py:710-745).
Catalogued ==
    /\ Len(Library) \in Nat /\ Decided!Doc = 1..Len(Library)
    /\ \A d \in Decided!Doc : RefRank[d] \in Nat
    /\ \A d \in Decided!Doc : \A l \in Library[d].links :
         l.relation \in {"supersedes", "deprecates", "amends"}
    /\ \A f \in DOMAIN LogOf : DOMAIN LogOf[f] \subseteq Nat

ASSUME DecisionsAssumption == Catalogued

\* Numbers are GitHub's, from 1; of those of other repositories none is kept
\* (github_corpus.py:318-326, 411-428); a page is not cut, and there is one (github_read.py:281-300).
Numbered ==
    /\ Number \subseteq Nat \ {0}
    /\ Len(Commits) \in Nat /\ DOMAIN Commits = 1..Len(Commits)
    /\ \A c \in DOMAIN Commits : Commits[c].closes \subseteq Number
    /\ \A p \in Pulls : Closes[p] \subseteq Number
    /\ \A n \in Number : Mentions[n] \in Seq(Number \cup {0})
    /\ PageSize \in Nat /\ MaxPages \in Nat \ {0}

ASSUME ImportAssumption == Numbered

\* Refs are ordered (context.py:314).
Referred == (\A e \in Statements : e.ref \in Nat) /\ Researchable \subseteq Nat

ASSUME LedgerAssumption == Referred

\* The snapshot has its passages in the order of their refs (repository.py:116-163).
Scannable ==
    /\ IsFiniteSet(Passages) /\ Passages = 1..Cardinality(Passages)
    /\ Depth \in Nat
    /\ \A q \in Query : q.postings \in Seq(Passages \X Nat)

ASSUME SearchAssumption == Scannable

--------------------------------------------------------------------------------
(* Properties *)

\* A watcher with nothing to do has every commit of HEAD in the index, and an init
\* leaves the ADRs of one tree in it (watch.py, RepoWatcher.watch; adrcorpus.py).
IndexedWhatItSaw == Watch!IndexedWhatItSaw

\* Following cursors in any order gives the text from where the range begins, with
\* no hole (service.py, _window_text).
WindowsTile == Pages!WindowsTile

\* Another inventory of the host's chooses the same skills (dispatch.py, dispatch).
InventoryOnlyDescribes == Routed!InventoryOnlyDescribes

\* Nothing regulated proceeds without its context (route.py, route).
FloorsHold == Routed!FloorsHold

\* Finding a superseded decision alone is enough to be told (service.py,
\* _apply_lineage).
SupersessionClaimed == Decided!SupersessionClaimed

\* An imported issue changes nothing the repository says of a premise (index.py,
\* _build_premise_records).
RepositoryOutranksGitHub == Decided!RepositoryOutranksGitHub

\* What replaces the decision of a file is seen by every judge of the file, and the
\* decision shown as current is not replaced (why.py, drift.py, guard.py, brief.py).
ReplacementSeen == Decided!ReplacementSeen

\* A rejection is repeated only while its premises stand (service.py,
\* _evaluate_counterfactual).
RepeatOnlyUnderPremises == Decided!RepeatOnlyUnderPremises

\* "Older evidence is marked stale" (docs/cli-and-tools.md:37).
SupersededNeverCurrent == Decided!SupersededNeverCurrent

\* No part of a thread is saved for the whole (github_read.py, _fetch_all_pages).
ThreadsWhole == Importing!ThreadsWhole

\* A build over a warm cache does again what the last one did (github_read.py,
\* ResponseCache).
WarmRebuild == Importing!WarmRebuild

\* One more item never settles a disagreement, nor takes a supported claim back but by
\* disagreeing with it (evidence.py, _assess_claim_inner).
DisagreementStands == Claimed!DisagreementStands

\* An answer fits or says it does not, keeps what its claims cite, and is complete only
\* uncut (context.py, compact_to_budget).
FitsOrSaysSo == Claimed!FitsOrSaysSo

\* An answer without a shortfall is the whole answer (retrieval.py, is_shortfall).
UntoldIsWhole == Searching!UntoldIsWhole
================================================================================
