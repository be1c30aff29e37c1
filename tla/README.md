# Formal models of Bruriah

Bruriah is an MCP server that answers an agent's questions about a project from
indexed evidence: notes, commits, ADRs, pull requests, approved skills and, when
the user allows it, live sources.  Most of its code is sequential and pure.  What
is hard in it are the parts that several commands share on disk, and the parts
where one answer takes several calls while the world moves.  This directory
models those parts in TLA+, checks the models with TLC and proves the central
theorems with TLAPS.

Paths are relative to `src/bruriah/` unless they name another directory.

## 1. The system

| Component | State | Operations | Interacts with |
| --- | --- | --- | --- |
| Corpus index (`index.py`, `index_runner.py`) | `candidate-<uuid>.sqlite3` generations, `active.json` | build, promote, rollback, recover, prune, open | lock and pointer file; policy and notes it validates against; the descriptor |
| Pointer and lock (`pointer.py`) | pointer file, `flock` beside it | atomic replace, `activation_lock` | the two lifecycles |
| Descriptor and start-up (`platform.py`) | `build-config.json` | write, load, `open_snapshot`, `load_deps` | what `serve`, `why` and other readers start from |
| Skill sets (`skillset.py`, `_cli/skills.py`, `skills.py`) | candidate packs, `skillset-<uuid>.json`, `skills/active.json` | ingest, sign, activate, rollback, recover, prune, open | approvals; the bundled pack |
| Approvals (`approvals.py`) | one record per skill id | approve, revoke, load | activation, rollback, recovery, serve |
| Service (`service.py`, `context.py`, `retrieval.py`, `mcp_server.py`) | none between calls; the client holds a cursor | `investigate_work`, `read_evidence` | snapshot, git, skills, live research |
| Research (`research.py`, `fetch.py`) | a ledger per request, a rate limiter | admit, fetch, charge, store | evidence cache |
| Evidence cache (`cache.py`) | captured pages, one file per URL | store, find, prune | research, `read_evidence` |
| Watcher (`watch.py`) | last fingerprint, in memory | fingerprint, sync | git corpus, index runner, `init --repo` |
| Corpora (`gitcorpus.py`, `adrcorpus.py`, `pdfcorpus.py`, `corpus.py`) | documents on disk | build, parse | index build |
| GitHub import (`github_corpus.py`, `github_read.py`, `issue_links.py`) | a cache of responses, documents on disk | resolve, document, fetch with pages and retries | index build |
| Premises and lineage (`index.py`, `why.py`, `brief.py`, `guard.py`) | tables inside one generation | build, detect cycles, query | corpora; the service |
| Search and verdicts (`retrieval.py`, `ranking.py`, `evidence.py`, `context.py`) | none | scan, rank, fuse, rerank, page; assess, assemble, compact | snapshot, service |
| Routing and dispatch (`route.py`, `classify.py`, `dispatch.py`, `lookup.py`) | what a server loaded at its start | classify, discover, route, dispatch | packs, registries, skills |
| Packs and signatures (`packs.py`, `registries.py`, `signing.py`) | files shipped or signed | load, verify | routing, skills |
| Decide, bootstrap, lens, drift, impact, review | notes that bootstrap mined | make a commit, mine, judge files, post a review | git, index, GitHub |
| Homes (`platform.py`, `_cli/common.py`, `cli.py`) | data and configuration directories, `.bruriah/config.json` | `init`, `resolve_paths` | every command, the client's launch of `serve` |
| Hooks, aliases, client setup (`hooks.py`, `aliases.py`, `setup.py`) | lines in the user's hook, git aliases, entries in clients' files | install, uninstall, merge | git, MCP clients |
| Agent benchmark (`src/evals/agent_regression`) | `runs.jsonl`, reports, `gate-state.json` | plan, resume, run, publish; deny one edit | a client process, git |
| Argument parsing, doctor, demo, UI, evaluation | none shared | parse, print | all of the above |

How they interact.  `bruriah index` builds a generation without a lock, promotes
it under the lock and then writes the descriptor.  `bruriah serve` reads the
descriptor twice, to build its query embedder and to validate the snapshot, then
the pointer and the generation, and reads the approvals and the skill pointer
once; from then on a server works over one immutable snapshot.  An
agent calls `investigate_work`, follows `next_cursor` and reads refs with
`read_evidence`.  Nothing but the file system joins these processes.

What is hard: commands that run at the same time on one data directory; deaths
between two writes; files that are edited between a validation and its use;
sequences of promotions and rollbacks; answers given in pages while the index,
git or the time budget change.  PROJECT.json lists each of these at its line.

What makes each part correct: the index and the skill set must always have a
pointer to stored generations, lose none silently and open what was validated;
an approval must bind exactly what the person saw, and only approved bodies may
be served; pages must together be the answer of one build, and `complete` must
mean complete; a research request must stay inside its budget; the watcher must
index what it saw; premises must have one winner per id; a replaced decision must
be replaced for every reader; a shortfall of a search must be told; a declared
risk must be a floor; what the user wrote in a hook or a client's file must stay;
the benchmark's log must survive a kill with one provenance.

## 2. The modules

| Module | Models | Checked by |
| --- | --- | --- |
| `PointerFile` | the value of a pointer and its three updates (promotion, rollback, recovery) | through its users, `ListProofs` |
| `Lists` | comprehensions that keep order, lists joined and named once, the stable sort | through its users, `ListProofs` |
| `GenerationStore` | abstract specification of a directory of immutable generations | as the property `StoreRefined` of both lifecycles |
| `IndexLifecycle` | the corpus index: commands, lock, descriptor, readers | `IndexLifecycle.cfg`, `IndexModels.cfg`, `IndexRollbackClaim.cfg`, `IndexDescriptorRace.cfg`, `IndexEmbedderClaim.cfg` |
| `SkillLifecycle` | candidates, approvals, skill generations, servers | `SkillSettings.cfg`, `SkillExpiryClaim.cfg`, `SkillApprovalRace.cfg` |
| `InvestigateWalk` | a client that pages through one answer | `InvestigateWalk.cfg`, `InvestigateDropClaim.cfg` |
| `ReadPages` | a client that pages through `read_evidence` | `Components.cfg` |
| `LiveResearch` | research, its ledger, its limiter and the evidence cache | `Components.cfg` |
| `Decisions` | the lineage and premise tables and their readers | `Components.cfg`, `SupersededClaim.cfg` |
| `DecisionTrail` | decide, mine, index, and the review that enforces it | `Components.cfg` |
| `CorpusWatch` | `watch` beside `init --repo` while git moves | `Components.cfg` |
| `GitHubImport` | the import of issues through its cache | `Components.cfg` |
| `Search` | one search with its two legs and its deadline | `Components.cfg` |
| `ClaimLedger` | the verdict on a claim and the cut of an answer | `Components.cfg` |
| `Routing` | packs and skills a start loads, and what a request reaches | `Components.cfg` |
| `ProjectHomes` | the directories of a project | `Components.cfg` |
| `GitHooks` | the block in the pre-commit hook, and the aliases | `Components.cfg` |
| `ClientSetup` | the merge into the clients' files | `Components.cfg` |
| `BenchmarkRun`, `GateHook` | the benchmark's driver and its gate | `Components.cfg` |
| `Tooling` | `BenchmarkRun`, `GateHook`, `ProjectHomes`, `ClientSetup`, `GitHooks` and `DecisionTrail` side by side, each with its variables, and what they promise | `Components.cfg` |
| `Evidence` | `CorpusWatch`, `GitHubImport`, `ReadPages`, `Routing`, `Decisions`, `ClaimLedger` and `Search` in the same way | `Components.cfg`, `SupersededClaim.cfg` |
| `ListProofs`, `IndexLifecycleProofs`, `SkillLifecycleProofs`, `InvestigateWalkProofs`, `LiveResearchProofs`, `ToolingProofs`, `EvidenceProofs`, `AnswerProofs` | lemmas and theorems | TLAPS |
| `MCIndexLifecycle`, `MCSkillLifecycle`, `MCSkillSettings`, `MCInvestigateWalk`, `MCComponents` | the finite instances | |

`MCComponents` explores components that share no state: in a behaviour one of them,
`part`, moves and the others stay where they start, so one run covers the sum of
their state spaces and not the product.  Each has variables of its own, which come with
`LiveResearch`, `Tooling` and `Evidence`, so that the run checks the very properties
that the theorems state.  Components that do interact are in one module: research with its
cache and its limiter (`LiveResearch`), `watch` with `init` and the pointer's
lock (`CorpusWatch`), the build of a corpus with its readers (`Decisions`),
deciding with mining, promotion and review (`DecisionTrail`), starts of a server
with its answers (`Routing`).

A definition marked "Fault" is a mistake the code does not make; a property is worth
its run only if such a mistake breaks it, and PROJECT.json pairs each property with
one.

### IndexLifecycle

State: `corpus` and `policy` are the notes and the policy file; `disk` is the
directory of generations; `pointer` is `active.json` as the sequence
`<<active>> \o retained`; `descriptor` is `build-config.json` (`Torn` while its
writer has truncated it); `lock` is the flock; `pc` and `job` are each command's
program counter and locals; `basis` is a history variable, what the validation
of the active generation saw.

Actions: one per step of a command that another process can see or disturb.
`StartIndex`, `ParseCorpus`, `FinishBuild` are `build_candidate` and its caller,
unlocked; `PromoteValidates`, `PromoteReadsCurrent`, `PromoteWrites` are
`promote` under the lock; `TruncateDescriptor` and the write after it are
`write_build_descriptor`; `RollbackValidates`/`RollbackWrites`,
`RecoverReads`/`RecoverChecks`/`RecoverWrites`, `PruneScans`/`PruneUnlinks` are
the other locked commands; `LoadDescriptor` (`build_serve_deps`), `OpenDescriptor`,
`ReadPointer` and `OpenTarget` (`open_snapshot`) are the reader, which takes no lock
and reads the descriptor twice: `job.embedder` is of the first reading, `job.config`
is the second.  A command can fail where the code raises, and die anywhere; the
kernel then drops its lock.  The environment edits notes and policies.

Abstractions: a generation is what validation compares (model, policy hash,
manifest) and which models its vectors came from; the sqlite contents, the build
id and the file modes are not represented, since bytes never change once a file
has its name.

### SkillLifecycle

`source` are the candidate files, `approval` the records, `today` the calendar,
then `disk`, `pointer`, `lock`, `pc`, `job` as above; `granted` is a history
variable, the bodies approved since each command started.  `approve` analyses the
candidate, reads it again for the body digests and writes one record per skill;
approvals are loaded by listing the directory and reading file by file; activation
compiles, validates and promotes; rollback and recovery validate under the
approvals they loaded before the lock; `serve` loads the approvals, reads the
pointer, opens the set and serves it, or serves no user skills and names a
warning.  Signatures, the router and version gates are one set, `Verifiable`.

### InvestigateWalk

The server keeps nothing between calls, so the state is the running server's
`build`, the `setting` it was started with (packs, skills, a reranker), what git
answers for a code target (`trace`), and the client's `walk`: its cursor, what it was
`served`, and a history of the events after which a walk cannot be exact (`unusual`:
a `degraded` search, which its deadline, its embedder or its reranker left with another
ranking; records `compacted` away; a page of a server that was `reloaded` with another
setting; a trace that `moved`; a page that carried an `extra` record before the last).  `Answer` is `InvestigateService._proceed` as a whole followed by
`compact_to_budget`; `Abstain` is the answer of a request that the router does not let
through; `Accepts` is `_decode_investigate_cursor`, which compares the request and the
build and nothing else; `Restart` is a new server, over another generation or over the
same one with another setting.  A record is a number in the string order of its ref, and
a document has one passage.  Lineage is a constant of a build; the prefix and the
ranking are of the setting too, and a search returns the ranking or one of the
`Degraded` ones, call by call.

### LiveResearch

State: `policy` is the `ResearchDeps` of the running server, `slots` the free
slots of its limiter, `cache` the directory of captured pages, `call` what each
thread is at.  `Begin` is `_run_research` with the ledger of its request; for each
candidate the call declines it, serves it from the cache, or takes a slot and
fetches: hops, redirects, chunks of the body, each charged to the ledger whatever
comes of it.  `Store` writes the entry and starts the sweep, which reads and
unlinks one file at a time while other threads write them again.  `ReadLive` is
`read_evidence` of a cached page.  `Restart` stops the threads anywhere and starts
a server with another policy over the same cache.  Bytes are units, time is a clock
that any step may see later.

### ReadPages

State: `server` is what refs resolve against, `cursors` every cursor the client
was given, `seen` what it has read.  `Read` is `ReadService.read`: refs in order,
windows cut to the cap per item and to what is left of the output budget, a cursor
for each item cut short.  `Refuse` is `invalid_cursor`.  `Restart` and `Expire`
change what is behind the refs.

### Decisions

State: `corpus` and `index`.  `Build` makes the tables: lineage rows by resolved
target, with cycles cut, and one row per premise by tier and order.  The readers
are operators on `index`, since they change nothing: `LocalEvidence` and `Claims`
(`_apply_lineage`), `Governing`, `Alerts`, `Chain` and `CausalEvidence`, `Drift`,
`Impact`, `Guard`, `Brief`, and `Verdict` of the counterfactual.  A document is what
it declares; a target resolves by commit prefix or by key.

### DecisionTrail

State: `history` and `text` are git, `mined` the notes of bootstrap, `index` the
active index with the command that built it, `review` the running review.
`Decide` refuses a predecessor that no index knows; `MineCorpus` takes every commit
with a body; `Bootstrap` scores commits, keeps the best and infers a supersession
where a refactoring touches the same file.  A review goes in the steps at which it
asks git or opens the index: `StartReview`, `Report`, `ReadLines` or `SkipLines`,
`Comment`, `Post`; commits and promotions come in between.

Two things the model shows without a property: bootstrap reads `Supersedes`
trailers only (bootstrap.py:143), so an amendment or a deprecation that `decide`
recorded is lost to an index built from its notes, which `TrailEnforced` exempts;
and `decide` opens the index to find the predecessor but does not say that it has
been superseded already.

### CorpusWatch

State: `head` and `moves` are what a fingerprint sees of git; `notes` and `adrs`
the shared corpus directory; `active` the index; `job` the two commands; `last` the
fingerprint the watcher dealt with.  Both read the log, write one note per commit,
parse the corpus, validate under the pointer's lock and publish; `init` also
replaces the folder of ADRs by way of a staging folder.  Each step can fail or die;
the repository moves at any time.

### GitHubImport

State: `hub` is GitHub, which moves; `responses` the cache; `written` the documents;
`build` the running import with its call.  `ResolveCommit` finds the numbers a commit
closes, `WriteDocument` reads an issue, its timeline and what mentions it; every
path goes through `Ask`, which answers from the cache or pages through the network
with retries and rate limits.  `Die` leaves a torn response, which counts as none.

### Search

One request goes through `Scan`, `Lexical`, `Vector`, `Fuse`, `Rerank` and `Page`.
The deadline falls anywhere the clock is read; an embedder and a reranker may be
absent, fail, be late or return nonsense.  `UntoldIsWhole` compares with `Whole`, the
ranking computed of all passages.

### ClaimLedger

Evidence arrives an item at a time (`Add`); `AssessClaim` is `assess_claim`;
`Assemble` and `AssembleGated` are `assemble_context`; `Drop` and `SayUnmet` are the
two outcomes of a turn of `compact_to_budget`, measured with the marker it leaves
with.

### Routing

`Start` loads packs and skills or refuses with the first fault; `Investigate` is one
request through `classify`, `discover`, `route` and `dispatch`; days pass and the wheel
is upgraded under a running server.  A request is the keyword families it hits and
what it declares.

### ProjectHomes, GitHooks, ClientSetup

`ProjectHomes`: `store` and `policy` are the homes, `pointer` is `config.json`,
`made`, `launch` and `told` are history.  `InitRepo` of each kind, an init that finds
nothing or dies, setup, index, watch, an edited policy, a cleaned repository.
`GitHooks`: the hook is its lines; `Install`, a forced one, `Uninstall`, and the user's
edits, also of the block itself (`meddled`).  `ClientSetup`: a file is read and
merged, copied, replaced, client after client, while the clients empty and write the
same files.

### BenchmarkRun, GateHook

`BenchmarkRun`: `log` is `runs.jsonl`, its lines and whether the last one ends;
`harness` is the process.  `Start` reads and repairs the log, `SetUp` refuses another
client or commit, `RunEnds`, `Record` and `RunFails` are an invocation, an append may be
cut by `Die`.  `GateHook`: one process per tool call prepares a temporary file and
links it; who links first denies.  The run can be killed at any step.

## 3. What the runs show

| Run | Question | Answer |
| --- | --- | --- |
| `index_lifecycle` | Can two commands on one project, with notes and policy edited, crashes and failures, break the pointer, lose a generation or leave an index that does not open? | No: `PointerSound`, `OneConfiguration`, `FreshIndexOpens`, `NoSilentLoss`, and the directory implements `GenerationStore` |
| `index_models` | Can rows of one embedding model end up in an index of another, or a server open a generation of another model than the descriptor it validates by? Is the lock ever kept? | No: `VectorsOfOneModel`, `ServedMatchesItsDescriptor`, `LockReleased` |
| `index_rollback_claim` | Is every retained entry activatable, as index.py:607 says? | No: a note edited between two indexings makes the retained generation fail its manifest check; a rollback to it is refused |
| `index_descriptor_race` | Does a fresh index always open when two models are used on one data directory? | Not always: the descriptor is written outside the lock after the promotion; a run that dies in between, or two that interleave, leave a descriptor of the other model |
| `index_embedder_claim` | Do a server's queries always use the model of the rows it serves, as cli.py:388-399 says? | Not when an index run of another model finishes between the two readings of the descriptor: the embedder is of the first, the snapshot validated by the second, and nothing compares them |
| `skill_lifecycle` | Two commands in two settings. Can a body be activated or served that was not approved since the command started? Can the store of skill sets lose a generation, with a calendar? | No, whatever is edited, granted or revoked meanwhile: `ServedWasApproved`, `ActivatedWasApproved`; no: `RetentionKept`, `StoreRefined` |
| `skill_expiry_claim` | Is an expired skill demoted, as the documents say? | No: one aged pack drops the whole user set at the next start |
| `skill_approval_race` | Does an approval bind what was analysed? | Not when the candidate is saved between its two reads |
| `investigate_walk` | Are pages consecutive slices of one build's answer, is `complete` true, does every walk end? | Yes, but for five named events: `degraded`, `compacted`, `reloaded`, `moved`, `extra` |
| `investigate_drop_claim` | Do pages drop nothing when nothing changes? | They do: a lineage successor on a page is counted in the offset of the next one |
| `superseded_claim` | Is a superseded decision always shown as stale? | No: of a chain of three, found in the middle, the last row decides, and says current |
| `components` | Fourteen components, one at a time; the questions are below | Yes to all |

The questions of `components`, by module:

- `LiveResearch`: does a failing fetch leak budget or a slot (`WithinBounds`)?  Can a
  restart under a narrower policy serve what it may no longer surface, from the cache
  of the old one (`RevokedNotServed`)?
- `ReadPages`: do windows leave a hole or overlap the range, whichever cursors are
  followed (`WindowsTile`)?
- `Decisions`: is a replaced decision found without its successor always claimed as a
  conflict (`SupersessionClaimed`)?  Can an imported issue change a premise that the
  repository declares (`RepositoryOutranksGitHub`)?  Do guard, brief and the causal
  evidence agree with the documents about what is replaced (`ReplacementSeen`)?  Is a
  task told that it repeats a rejection whose premises are not all alive
  (`RepeatOnlyUnderPremises`)?
- `DecisionTrail`: is what a commit replaces replaced for drift and for the lens
  (`TrailEnforced`)?  Do the verdict and the comments of a review agree though the
  index changes between its steps (`OneVerdict`)?
- `CorpusWatch`: does a watcher that sees nothing to do have every commit in the index,
  and does the index hold the ADRs of one tree (`IndexedWhatItSaw`)?
- `GitHubImport`: can half a thread enter a cache that never expires (`ThreadsWhole`)?
  Does the same cache give the same documents (`WarmRebuild`)?
- `Search`: does an answer without a note rank the whole corpus (`UntoldIsWhole`)?
- `ClaimLedger`: does more evidence ever settle a disagreement (`DisagreementStands`)?
  Does a cut answer fit, keep what is cited and say so (`FitsOrSaysSo`)?
- `Routing`: does a host's inventory choose anything (`InventoryOnlyDescribes`)?  Does a
  regulated request get through without its context (`FloorsHold`)?
- `ProjectHomes`: do the server a client starts and the commands use one home, under
  the operator's policy (`OneHome`)?
- `GitHooks`: does the hook keep the user's lines and one whole block
  (`HookKeepsTheUsers`)?
- `ClientSetup`: is an entry of another server lost (`OthersKept`)?
- `BenchmarkRun`: does the log stay readable, without repetitions, of one provenance and
  under the reports (`LogSound`)?
- `GateHook`: is one edit denied and no more, and none let through before
  (`DeniedOnce`)?

The findings in PROJECT.json quote the lines each "no" contradicts.

### Bounds

- Processes: two.  Every conflict of the store is between a command in a locked
  section or reading, and one other that changes a file; a third adds waiting
  on the same lock.  TLAPS proves the store properties for any number.
- Generations: three (index) or four (skills) names; a name is free again once
  no file, pointer or process mentions it, so runs of any length fit.  `Retain`
  is 1 or 2 (the code keeps 2): the cut happens in both.  `index_models` needs
  the product of two models instead and takes two names and `Retain = 1`.
- Contents: two policy texts and two corpus versions, with four manifests, one of
  which has nothing to query; two models; two bodies of one skill; a calendar of
  two days with the review window ending after the first.
- `skill_lifecycle` explores two settings over the same variables, since the
  product of the calendar, four generations and all histories of approvals is too
  large: one with two generations and a candidate edited between two bodies, one
  with a single content, four generations and the calendar.  Sets of several packs
  appear in the violation run only.
- Walks: two requests, one in words with capabilities, a counterfactual and
  research, one with a skill and a code target; two builds; two settings, the second of
  which adds a skill, reranks and has lost the pack of the code target; a search that
  loses a leg or its time on any call of the first request; two records per page and two
  per search.  The page boundary falls inside the prefix, at its end and
  inside the ranking, and a search is longer than a page and the reverse.
- Components, each sized so that its conflict happens: research has two threads, one
  slot, two URLs, three policies and a budget of two requests; the decisions are six
  documents with a chain of three, a circle, a resembling prefix and doubled premises;
  reading has three requests and two servers; watching two commits, one without a body,
  and two moves of the refs; importing an issue and a pull request, pages of one item and a cap of two;
  the benchmark two plans on one log and two versions of the client; the gate three
  edits and a call that is none; searching four passages of three documents with the
  clock read at every second; routing two wheels and a ceiling of two skills; claims
  four items, asked three questions, two claims of up to three items, so that a disagreement of two is there when the
  third comes (two items are too few: the mutant that lets the majority decide shows it); the hook two lines of the user's; setup one entry and
  two writes of the clients; the trail three commits on a file of two lines and one of
  one, one note per bootstrap, one traced line per file.
- In `components` one component moves and the others stay as they start, so its
  `VIEW` is the moving component's state alone: it tells apart the same states, at a
  smaller cost per state.
- Numbers the code fixes are scaled down with what they bound: `PageSize`, `MaxPages`,
  `MaxAttempts`, `Ceiling`, `Chunk`, `ClockEvery`, `Limit`, `LineCap`.
- Symmetry of processes and of generation names is used in `index_lifecycle` and
  `skill_lifecycle`, whose properties are all of safety and name neither; never
  with a liveness property.
- `PolicyStable = TRUE` in the runs: policies are edited between commands.  The policy
  is loaded once at the start of a run (index_runner.py:120), but hashed again at the
  end of the build (index.py:231) and at promotion, so an edit during a run records a
  hash for a corpus selected under the old text.  `OneConfiguration` needs the
  restriction and is listed with that hazard.  `FreshIndexOpens` does not: its premise
  names the edit (`basis.selected = basis.policy`) and the other configuration
  (`descriptor = basis.config`), and its theorem assumes neither.
- `InvestigateWalk.cfg` turns the deadlock check off: both walks may be over.
  `Components.cfg`, and the two claims of its instances, too: a search ends, a
  gate's run is recorded, a clock stands at its bound.

### Fairness

- `IndexLifecycle`: `WF_vars(Advance(p))` for each process, for `LockReleased`
  alone: a command that runs keeps running, as none of its locked sections waits
  for anything.  Nothing is assumed of waiting for the lock.
- `InvestigateWalk`: `WF_vars(Step(q))`, for `WalkEnds` alone: the client goes on
  handing the cursor back, or is refused.  Restarts and commits may come for ever.
- No liveness is claimed for the skill lifecycle, nor for the components of
  `Components.cfg`: each is bounded by a clock, a plan or a number of edits, so that
  "eventually" would speak of the bound.  What they promise of progress is stated as
  safety: `CommitsIndexed` says what holds once the watcher sees nothing to do,
  `WarmRebuild` that a build can be repeated.

## 4. What is proved

Each theorem holds for every value of the constants that satisfies the assumptions
named with it: any number of processes, requests, files or bodies, where the runs
have two or three.  The inductive invariant, `IInv` in most modules, is in the
module it is about, in named conjuncts; TLC checked each on a run before it was
proved.  The assumptions are stated in the modules that declare the constants, so TLC
evaluates them on every run.  A proof has one lemma per action or group of similar actions, one step per
conjunct that the action disturbs, then a lemma that `Next` preserves the whole.

### Lists

`ListProofs` has what the other proofs need of numbers and lists.  The library's
induction theorems take an operator and cannot be instantiated here, but induction can
be stated about a *set*: `LeastNatural` derives from the well-foundedness of finite sets
that a set of naturals has a least element, `GreatestNatural` that a bounded one has a
greatest, `EveryNatural` that a set with 0 that is closed under successor holds them
all, and `Iterated` that a function defined by recursion over an interval exists.  From
these come the operators of `Lists`: what `Among` keeps, in its order and once (`AmongPicks`), that
there is one list of what is kept (`PicksSame`), `OnceIs`, `JoinedIs`, and that the
stable sort is a permutation ordered by key and then by place (`SortedIs`).  The models use
`Among` and recursive functions where they could use `SelectSeq`, which the prover takes
as a name without a definition.  The last lemmas are of the pointer's updates: their entries,
their length and that entries stay distinct.

### The generation stores

`IndexLifecycleProofs`, from `IndexLifecycleAssumption` and `NoneIsNoBuild`, with
`PolicyStable` either way:

- `Invariant`: `Spec => []IInv`.
- `TypeCorrect`, `PointerIsSound`: the type invariant with the bound on the
  pointer, and the soundness of the pointer.
- `Refinement`: every behaviour of the index implements `GenerationStore`.
- `NothingLostSilently`: `NoSilentLoss` as an action property.

`PointerSound` alone is not inductive: a promotion may write a name whose file a
prune is about to remove, unless the lock separates them.  `IInv` adds what makes
it so.  `LockHeld`: the lock is held exactly by the process in a locked phase, so
two are never in one.  `ReadsHold`: what a locked section has read is still true
when it writes (the candidate is on disk, `current` is the pointer, a prune's
victims are not named).  `SalvageSound`: a recovery has kept, in order, entries it
has looked at.  `NamesFresh`: a generation being built has a name that nothing else
mentions, so finishing a build overwrites nothing and a prune cannot meet it.
`LocalsSet` types the locals.  The refinement maps `FinishBuild` to `Store`,
`PromoteWrites` to `Publish`, `RollbackWrites` to `Restore`, `RecoverWrites` to
`Salvage`, `PruneUnlinks` to `Collect`, and everything else to a stutter.

Its second part is about what the files hold:

- `OneModelPerGeneration`: a generation that a reader opens has vectors of one model.
  `ServedModelMatches`: it is the model of the descriptor it was validated by
  (`ServedMatchesItsDescriptor`).  That the server's embedder is of it too does not hold:
  `IndexEmbedderClaim.cfg`.  `RowsOfOneModel` adds the rows that a build has collected and those a
  server has opened.
- `ConfigurationIsOne`, assuming `PolicyStable`: all retained generations are of one
  configuration.
- `FreshIndexAlwaysOpens`, for any projects, models and policies, with edits at any
  time and without an assumption: while nothing was edited since the policy was read
  that the active generation was selected by, a reader by its configuration opens it.
  That readers have that configuration is not promised: `ReadersOpenTheFreshIndex` fails
  in `IndexDescriptorRace.cfg`, because the descriptor is written outside the lock.

`ContentSound` is what makes the last inductive: what a command has validated stays as
it saw it until it writes the pointer, which takes `ReadsHold` and `LockHeld` of the
first invariant.  `PolicyHolds` says what `PolicyStable` gives to `ConfigurationIsOne`.

`SkillLifecycleProofs`, for any number of commands, packs, skills and bodies:

- `SkillInvariant`, `SkillTypeCorrect`, `SkillPointerIsSound`.  No run checks the last
  two by themselves; the pointer's soundness is in what `GenerationStore` promises.
- `ServedOnlyApproved`, `ActivatedOnlyApproved`: nothing is served, and nothing made
  active, that was not approved at some moment since the command started.
- `RetainedSurvive`, `SkillRefinement`: retention and the implementation of
  `GenerationStore`.

The argument of the approvals is `OnlyGranted`: what a command has loaded, *and what it
may still load*, was approved since it started; the second half is what survives a
grant or a revocation between the listing of the directory and the reading of a record.

### Research

`LiveResearchProofs`:

- `CacheObeysPolicy`: no answer from the cache that the running server's policy does
  not allow, or that is of another version of it or expired.
- `BudgetAndSlotsHold`, from `LiveResearchAssumption` (finitely many threads, and counts as
  contracts.py accepts them): fetches stay inside what an investigation declared, and
  no way a fetch ends leaks a slot.

`WithinBounds` speaks of what was made and read; it is inductive only together with
what the ledger still has (`Pooled`: made plus left is what was declared, but for the
discards of the last fetch) and with what a running fetch can still charge (`Afloat`:
its hops and bytes against the grant, a chunk of discards per hop).  The slots are
counted by the calls that hold one, so the step from a fetch to its end takes the cardinality
of a finite set less one.

### Evidence

`EvidenceProofs`:

- `CorpusIndexed`: a watcher with nothing to do has all of HEAD in the index, and an
  init leaves the ADRs of one tree in it.  `SyncCovers` follows the commits of HEAD
  through log, notes and build *as long as the refs have not moved since their times
  were read*; `NotesGrow` and `OnePublishes` are why an init that publishes in
  between takes nothing away.
- `WindowsAlwaysTile`, from `PagesAssumption` (refs in a sequence, limits that are
  naturals, ranges from 1 on, texts of some length).  `Resumes` is the strengthening: every cursor in
  circulation resumes right after a window that was shown.
- `RiskFloorsHold`, `InventoriesOnlyDescribe`, from `RoutingAssumption` (a request has
  the fields of a request).  The second compares the whole dispatch under
  two inventories, through its recursion over the candidates.

`Routing` accumulates along sequences with recursive functions; `Iterated` says that
they exist.

The import from GitHub, from `ImportAssumption` (numbers are positive, a commit, a pull
request and a mention name numbers or, a mention, another repository's; a page has a size
and there is at least one):

- `WarmRebuildsTheSame`: a build over the cache of one that failed at nothing fails at
  nothing and writes the same documents.
- `ThreadsEnterWhole`: half a thread never enters the cache.

Neither property is inductive: both compare a build with what is in the cache, which
later builds add to.  `BuildSound` says that the build has linked and documented exactly
what the responses imply up to its commit, `WarmSound` that the documents of the last
build are what the responses imply of all commits *and that nothing they ask for is
missing*, so a later build has nothing to fetch and nothing that can fail.  What is made of
responses stays what it is as more are saved (`BuildGrows`), as documents look only at
what is saved; that is the step a response that changed, or a document that asked GitHub,
would break.  `CallSound` follows a thread: what a call has read begins the thread as
GitHub has it now, which only grows (`ThreadGrows`), up to the call's page.

### Decisions

`AnswerProofs`, from `DecisionsAssumption` (documents are numbered in the order of
their paths, links state relations that the corpus format knows, commits of a file's
log are in order):

- `SupersessionIsClaimed`: whatever a search finds of a superseded decision, the answer
  claims a conflict over every passage it found of it.
- `RepositoryDecides`: a premise that the repository declares is what the repository
  alone makes of it, whatever issues are imported beside it.
- `RepeatsStandOnPremises`: a task is told that it repeats a rejection only while every
  premise of it is declared and none is invalidated by the repository.
- `ReplacementIsSeen`: every judge of a file learns what replaced its decision, and what
  is shown as current is not itself replaced, but where documents replace each other in
  a circle.

The invariant is that the index is the tables of the documents its last build read; the
theorems are about those tables, for any documents.  `ReplacementIsSeen` has two halves.
A link becomes a row, a row an alert, and an alert a word to the guard, the drift, the
impact and the brief, which `EveryJudge` follows one by one.  And a chain, which the
code walks with a set of what it has seen, is no longer than there are documents
(`ChainsAreShort`, by the pigeonhole), so the model's recursion reaches its end
(`ChainIs`), where either nothing replaces the leaf or the chain meets itself
(`LeafOrCircle`).

### Tooling

`ToolingProofs`:

- `OneDenial`, from `GateAssumption` (edits are calls): one edit is denied at most and none let
  through before.  `OneLink` and `DeniedHasLink` tie a denial to who linked the file.
- `HomesAgree`: the server that a client starts and the commands use one home, under
  the operator's policy.  `MadeIsThere` says that the pointer is to what the last
  init that ended well has made.
- `OthersAreKept`: an entry of another server is in the new file or in `.bak`.
  `MergedKeeps` and `CopyKeeps` hold until the client of that very file writes.
- `TrailAlwaysEnforced`: what a commit of the index was made to replace is replaced for
  drift and for the lens.  `NotesTrue`: a note has at least the supersessions that
  its commit states, also when bootstrap infers more and keeps notes of earlier runs.
- `ReviewIsOneVerdict`: the verdict and the comments of a review agree.
- `LogStaysSound`, from `BenchmarkAssumption` (a plan names an invocation once, which
  run.py:92-97 makes sure of): the log can be read again after any death, holds an
  invocation once and under one provenance, and has what was published of it.
  `WholeLines` says that only a last line can be torn, `KnowsTheLog` that a driver which
  runs knows every record, `LeftIsNew` that what it has left is in the plan, once, and not in
  the log, and `NextIsFirst` that it records what it has just run.
- `HookStaysTheUsers`, from `HooksAssumption` (no line of the user's is a line of the
  block or the shebang): the hook has the user's lines and at most one whole block.  The
  property is inductive; the work is in the file.  Line by line, a hook is the shebang,
  some of the user's lines, the block, the rest (`HookOf`); from there the markers that a
  search finds are the block's own, and what is cut around them is what it should be.

### Paging

`InvestigateWalkProofs`:

- `OneBuild`: no walk mixes the records of two builds.
- `CursorsStayBound`: the cursor a walk holds names its own request and the build
  of every page it has shown.

`OneBuildPerWalk` says nothing about cursors and is not inductive; `BuildInv` adds
`CursorsBound`, from which the cursor the server accepts is the walk's own even
when the client mixes cursors up, and so the build that answers is the build of
the pages before.  `WholeWalk` only says that a walk is a record of its fields.

The second part is about what the pages contain, from `InvestigateWalkAssumption` (refs
are ordered; the ref of a live record is none of a passage, fetch.py:439):

- `PagesSkipNothing`: the pages of a walk are consecutive slices of its catalogue, and
  all of it at the end, but for the five named events.
- `CompleteIsAll`: a single response that says `complete` holds the catalogue and the
  research.
- `CursorsAdvance`: a page that can be continued leads strictly further on.
- `WalkTypeCorrect`: the type invariant.

None of them is inductive, as none says what a walk has shown while it is open.  `UpTo`
does: up to its cursor every record has been shown, and if the catalogue repeats nothing, what was
shown is exactly its beginning.  `WalkIs` says so of a walk at each of its states.  A
step adds one page, and the work is in what a page is (`PageIs`): a slice of the prefix, a slice
of the search's matches with what the prefix has shown removed, the successors that
lineage adds, and research.  If none of the named events happened, the extras are empty
or after the end, nothing was cut, and the two slices join where the cursor says
(`PiecesSlice`, `SliceAdds`, `RestAdds`); if the page is the last one, everything behind
the cursor is on it (`PiecesRest`).

### Claims

`AnswerProofs`, from `LedgerAssumption` (refs are ordered), for any items, questions and sizes:

- `DisagreementAlwaysStands`: one more item never settles a disagreement nor withdraws
  what it cites, and takes support from a claim only by disagreeing with it.
- `AnswersFitOrSaySo`: an answer fits or says it does not, keeps what its claims cite,
  and is complete only uncut.
- `LedgerTyped`: the type invariant.

The first is about the assessment of a list and of the same list with one more item,
through its filters by jurisdiction and date: what was heard before is heard still and
in its order (`OneMoreItem`), so two that said different things still do.  The
second needs that a record that goes is not one that a claim cites (`VictimIs`), and that what is measured is
the answer with its marker.

### Search

`AnswerProofs`, from `SearchAssumption` (passages are numbered in the order of their refs,
postings name passages):

- `UntoldAnswersWhole`: an answer that tells of no shortfall ranks what the whole corpus
  ranks and goes to its end; a reranked one has lost no passage, kept the order within
  each document, and put every document once before any comes twice.

`UntoldIsWhole` speaks of the end only.  `SearchInv` says at each step what has been
done by then: a leg that was not stopped and of which nothing is told has ranked all
(`LexicalRanked`, `VectorRanked`), what stopped is told from the fusion on
(`FusedOfLegs`), and what was reordered is an interleaving of the fused ranking
(`OrderedOfFused`).  Each loop sees the deadline for itself; the step that a missing note would
break is the one from a leg to the fusion.  The rest is about lists.  The fused
ranking is a list of passages because comparing scores as fractions is a strict order
(`FractionsOrdered`), so that every place is taken (`PlacesTaken`).  The interleaving is
a sort by turn and document (`InterleavedIs`): the documents' own orders stay
(`WithinKept`, as there is one list of a document's passages), and before a document's second
turn all the first turns come, which are as many as there are documents
(`EveryoneFirst`, by the pigeonhole).

### Only model-checked

Liveness (`LockReleased`, `WalkEnds`): TLAPS does not reason about fairness and
ENABLED here.  Every invariant and action property of a passing run is stated by a
theorem.

## 5. What is not modelled

- Text: parsing, keyword lists, scores, embeddings, SQL, formatting, YAML,
  cryptography.  The models take their results (a manifest, a ranking, a verdict, a
  family of keywords) as data.
- `status`, `ingest`, `sign`: they change nothing the skill model keeps.
- `heal` (heal.py): a blueprint rendered from the drift report; it changes nothing.
  `doctor`, `demo`, `ui.py`, `evaluation.py`, argument parsing and the MCP transport: no
  shared state.  `dismiss_previous_reviews` (github.py:168) is never called.
- The Windows file layer (`winfs.py`): the models take the POSIX branch of
  `pointer.py`.
- In `ProjectHomes`: the `network_enabled` and `skill_ceiling` switches of
  `config.json`, and inits with `--config-dir`.
- In `GitHooks`: the hook directory of a worktree, and a hook file cut short while it
  is written in place.
- In `BenchmarkRun`: the Antigravity client and its HOMEs, traps, metrics and the
  detection of relapses; the version that claude_code.py:742 remembers for one process.
- In `LiveResearch`: DNS pinning, TLS and the conversion of bodies.  The shipped
  server passes no `ResearchDeps`, so research is dormant there.
- Conversions of PDF and Markdown, and the confinement of corpus paths.

## 6. Plan

Done, in this order: `PointerFile`, `GenerationStore`, `IndexLifecycle` with its
proofs, `SkillLifecycle`, `InvestigateWalk` with its first proof; the modules of
`MCComponents`; the theorems of section 4.

Every invariant and action property that a passing run checks is proved; what TLC alone
shows is liveness.  Next, models: the Windows branch of the pointer's replacement, and
the directory of candidates with `ingest` if it comes to be shared by two commands.
