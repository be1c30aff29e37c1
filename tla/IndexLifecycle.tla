---------------------------- MODULE IndexLifecycle -----------------------------
(***************************************************************************)
(* The corpus index on disk: generations `candidate-<uuid>.sqlite3`, the   *)
(* pointer `active.json`, the descriptor `build-config.json` and the flock *)
(* beside the pointer, shared by every command that runs on one data       *)
(* directory (index.py, index_runner.py, pointer.py, platform.py).         *)
(*                                                                         *)
(* A build holds no lock: it parses the corpus, embeds it and renames a    *)
(* finished generation into place.  Promotion, rollback, recovery and      *)
(* prune each run under the lock; the reader takes none.  Meanwhile the    *)
(* user edits the notes and the policy.  A process can die at any point,   *)
(* and the kernel then drops its lock.                                     *)
(***************************************************************************)
EXTENDS PointerFile, FiniteSets

CONSTANTS
    Process,        \* concurrent `bruriah` commands on one data directory
    Project,        \* project roots, each with its own policy file
    Model,          \* embedding identities (model, revision, prefixes...)
    Config,         \* the BuildConfigs in use: a project and a model
    PolicyText,     \* contents a policy file can have (a hash tells them apart)
    CorpusVersion,  \* contents a project's notes can have
    Manifest,       \* (path, hash) lists a policy can select
    Selected,       \* [policy text, corpus version -> manifest]
    Queryable,      \* manifests with at least one passage
    Generation,     \* names of generation files
    Retain,         \* retained entries a promotion keeps
    PolicyStable,   \* policy files are edited between commands only
    None,           \* no file, no process, no value
    Torn            \* a descriptor whose writer has truncated it

ASSUME IndexLifecycleAssumption ==
    /\ Config \subseteq [project : Project, model : Model]
    /\ Selected \in [PolicyText \X CorpusVersion -> Manifest]
    /\ Queryable \subseteq Manifest
    /\ Retain \in Nat \ {0}
    /\ PolicyStable \in BOOLEAN
    /\ None \notin Process \union Generation \union Config
    /\ Torn \notin Config \union {None}

\* What a generation file holds.  `policy` is its recorded policy hash,
\* `vectors` the models whose embeddings its rows carry.
Build == [model : Model, policy : PolicyText, manifest : Manifest,
          vectors : SUBSET Model]

ASSUME NoneIsNoBuild == None \notin Build \union Manifest \union PolicyText

VARIABLES
    corpus,      \* the notes of each project
    policy,      \* the policy file of each project
    disk,        \* [generation name -> what the file holds, or None]
    pointer,     \* active.json (PointerFile)
    descriptor,  \* build-config.json
    lock,        \* who holds the flock
    pc,          \* where each process is
    job,         \* its local variables
    basis        \* history: what the validation of the active generation saw

env == <<corpus, policy>>
store == <<disk, pointer, descriptor, basis>>
vars == <<corpus, policy, disk, pointer, descriptor, lock, pc, job, basis>>

Basis == [config : Config, policy : PolicyText, selected : PolicyText,
          corpus : CorpusVersion]

NoJob == [embedder |-> None, config |-> None, policy |-> None, gen |-> None, prior |-> None,
          manifest |-> None, vectors |-> {}, seen |-> None,
          current |-> NoPointer, valid |-> NoPointer, next |-> 1,
          victims |-> {}, discarded |-> FALSE, served |-> None]

Job == [embedder : Model \union {None}, config : Config \union {None},
        policy : PolicyText \union {None},
        gen : Generation \union {None}, prior : Generation \union {None},
        manifest : Manifest \union {None}, vectors : SUBSET Model,
        seen : Basis \union {None}, current : Seq(Generation),
        valid : Seq(Generation), next : Nat \ {0},
        victims : SUBSET Generation, discarded : BOOLEAN,
        served : Build \union {None}]

LockedPhases ==
    {"promote_read", "promote_write", "rollback_write", "recover_check", "prune"}

Phases == LockedPhases \union
    {"idle", "parse", "embed", "built", "describe", "describing",
     "rollback", "recover", "prune_wait", "load", "open", "opening", "serving"}

Init ==
    /\ corpus \in [Project -> CorpusVersion]
    /\ policy \in [Project -> PolicyText]
    /\ disk = [g \in Generation |-> None]
    /\ pointer = NoPointer
    /\ descriptor = None
    /\ lock = None
    /\ pc = [p \in Process |-> "idle"]
    /\ job = [p \in Process |-> NoJob]
    /\ basis = None

--------------------------------------------------------------------------------
(* Validation, as the code does it against the files of this moment.       *)

\* Fault: the recorded model is not compared.
PolicyMatches(b, c) == b.policy = policy[c.project]

\* _activation_metadata: recorded configuration and policy hash, no corpus.
ConfigMatches(b, c) ==
    /\ b.model = c.model
    /\ b.policy = policy[c.project]

\* _validate_database: the configuration, and the manifest that policy text
\* `text` selects from the corpus now, with something to query in it.
Validated(g, c, text) ==
    /\ disk[g] # None
    /\ ConfigMatches(disk[g], c)
    /\ disk[g].manifest = Selected[text, corpus[c.project]]
    /\ disk[g].manifest \in Queryable

\* What a validation under config c sees: the policy file of now, and the notes
\* as policy text `text` selects them.
Seen(c, text) == [config |-> c, policy |-> policy[c.project], selected |-> text,
                  corpus |-> corpus[c.project]]

--------------------------------------------------------------------------------
(* Control.  A definition marked "Fault" is a mistake the code does not make; *)
(* the properties are shown to fail when it stands for the one after it.   *)

Goto(p, phase) == pc' = [pc EXCEPT ![p] = phase]

\* Fault: the lock outlives the command.
ReturnHolding(p) ==
    /\ Goto(p, "idle")
    /\ job' = [job EXCEPT ![p] = NoJob]
    /\ UNCHANGED lock

\* The command ends, in success, in a typed error or in death: its locals go
\* and so does its lock.
Return(p) ==
    /\ Goto(p, "idle")
    /\ job' = [job EXCEPT ![p] = NoJob]
    /\ lock' = IF lock = p THEN None ELSE lock

\* Fault: the lock is shared.
AcquireShared(p) == lock' = p

Acquire(p) == lock = None /\ lock' = p

\* uuid4: a name that no file, no pointer entry and no process mentions.
Mentioned(g) ==
    \/ disk[g] # None
    \/ g \in Entries(pointer)
    \/ \E p \in Process : \/ g \in {job[p].gen, job[p].prior} \union job[p].victims
                          \/ g \in Entries(job[p].current) \union Entries(job[p].valid)

NewNames == {g \in Generation : ~Mentioned(g)}

ActiveDatabase ==
    IF pointer # NoPointer /\ disk[Active(pointer)] # None
    THEN Active(pointer) ELSE None

--------------------------------------------------------------------------------
(* run_index: build without the lock, promote under it, then describe.     *)

\* The policy is loaded once, here; the previous index is looked up too.
StartIndex(p, c) ==
    /\ pc[p] = "idle"
    /\ \E g \in NewNames :
           job' = [job EXCEPT ![p] = [NoJob EXCEPT !.config = c,
                                                   !.policy = policy[c.project],
                                                   !.gen = g,
                                                   !.prior = ActiveDatabase]]
    /\ Goto(p, "parse")
    /\ UNCHANGED <<env, store, lock>>

\* Fault: rows are reused whatever model embedded them.
ReusableFromAny(p) ==
    LET g == job[p].prior IN
    IF g # None /\ disk[g] # None THEN disk[g].vectors ELSE {}

\* Rows of the previous index are reused when it is still there and was
\* built with the same model (_compatible); everything else is embedded.
Reusable(p) ==
    LET g == job[p].prior IN
    IF g # None /\ disk[g] # None /\ disk[g].model = job[p].config.model
    THEN disk[g].vectors ELSE {}

ParseCorpus(p) ==
    /\ pc[p] = "parse"
    /\ LET c == job[p].config IN
       job' = [job EXCEPT
                 ![p].manifest = Selected[job[p].policy, corpus[c.project]],
                 ![p].vectors = {c.model} \union Reusable(p)]
    /\ Goto(p, "embed")
    /\ UNCHANGED <<env, store, lock>>

\* The metadata is written last, and hashes the policy file of that moment.
FinishBuild(p) ==
    /\ pc[p] = "embed"
    /\ LET j == job[p] IN
       disk' = [disk EXCEPT ![j.gen] =
                  [model |-> j.config.model, policy |-> policy[j.config.project],
                   manifest |-> j.manifest, vectors |-> j.vectors]]
    /\ Goto(p, "built")
    /\ UNCHANGED <<env, pointer, descriptor, basis, lock, job>>

\* A lineage cycle, a duplicate premise, a failed embedding, an I/O error.
BuildFails(p) ==
    /\ pc[p] \in {"parse", "embed"}
    /\ Return(p)
    /\ UNCHANGED <<env, store>>

\* The candidate is validated under the policy the run loaded at its start.
PromoteValidates(p) ==
    /\ pc[p] = "built"
    /\ Acquire(p)
    /\ LET j == job[p] IN
       /\ Validated(j.gen, j.config, j.policy)
       /\ job' = [job EXCEPT ![p].seen = Seen(j.config, j.policy)]
    /\ Goto(p, "promote_read")
    /\ UNCHANGED <<env, store>>

\* invalid_active_target (a prune took the candidate), incompatible_candidate,
\* invalid_candidate (the notes moved), representative_query_failed.
PromoteRefused(p) ==
    /\ pc[p] = "built"
    /\ lock = None
    /\ ~Validated(job[p].gen, job[p].config, job[p].policy)
    /\ Return(p)
    /\ UNCHANGED <<env, store>>

\* Fault: the outgoing generation is kept unexamined.
RetainableUnexamined(c) == pointer # NoPointer

\* The outgoing generation is kept when its recorded configuration matches;
\* otherwise it and everything older is discarded.
Retainable(c) ==
    /\ pointer # NoPointer
    /\ ConfigMatches(disk[Active(pointer)], c)

\* A pointer whose active file is gone refuses the promotion.
PromoteReadsCurrent(p) ==
    /\ pc[p] = "promote_read"
    /\ IF pointer # NoPointer /\ disk[Active(pointer)] = None
       THEN Return(p)
       ELSE /\ LET keep == Retainable(job[p].config)
               IN job' = [job EXCEPT
                            ![p].current = IF keep THEN pointer ELSE NoPointer,
                            ![p].discarded = pointer # NoPointer /\ ~keep]
            /\ Goto(p, "promote_write")
            /\ UNCHANGED lock
    /\ UNCHANGED <<env, store>>

PromoteWrites(p) ==
    /\ pc[p] = "promote_write"
    /\ pointer' = Promoted(job[p].current, job[p].gen, Retain)
    /\ basis' = job[p].seen
    /\ lock' = None
    /\ Goto(p, "describe")
    /\ UNCHANGED <<env, disk, descriptor, job>>

\* write_text truncates the descriptor, then fills it; no lock is held.
TruncateDescriptor(p) ==
    /\ pc[p] = "describe"
    /\ descriptor' = Torn
    /\ Goto(p, "describing")
    /\ UNCHANGED <<env, disk, pointer, basis, lock, job>>

WriteDescriptor(p) ==
    /\ pc[p] = "describing"
    /\ descriptor' = job[p].config
    /\ Return(p)
    /\ UNCHANGED <<env, disk, pointer, basis>>

--------------------------------------------------------------------------------
(* rollback_active and recover_active, with the caller's config.           *)

StartRollback(p, c) ==
    /\ pc[p] = "idle"
    /\ job' = [job EXCEPT ![p] = [NoJob EXCEPT !.config = c]]
    /\ Goto(p, "rollback")
    /\ UNCHANGED <<env, store, lock>>

\* Fault: the target's metadata is checked, not its manifest.
RollbackTargetStale(c) ==
    /\ Len(pointer) >= 2
    /\ disk[pointer[2]] # None
    /\ ConfigMatches(disk[pointer[2]], c)

\* The newest retained generation must validate against the corpus of now.
RollbackTarget(c) ==
    /\ Len(pointer) >= 2
    /\ Validated(pointer[2], c, policy[c.project])

RollbackValidates(p) ==
    /\ pc[p] = "rollback"
    /\ Acquire(p)
    /\ LET c == job[p].config IN
       /\ RollbackTarget(c)
       /\ job' = [job EXCEPT ![p].current = pointer,
                             ![p].seen = Seen(c, policy[c.project])]
    /\ Goto(p, "rollback_write")
    /\ UNCHANGED <<env, store>>

\* invalid_active_pointer, no_retained_index, or the target does not validate.
RollbackRefused(p) ==
    /\ pc[p] = "rollback"
    /\ lock = None
    /\ ~RollbackTarget(job[p].config)
    /\ Return(p)
    /\ UNCHANGED <<env, store>>

\* The active generation is checked by its metadata only, then both swap.
RollbackWrites(p) ==
    /\ pc[p] = "rollback_write"
    /\ LET j == job[p]
           a == Active(j.current)
       IN IF disk[a] # None /\ ConfigMatches(disk[a], j.config)
          THEN pointer' = RolledBack(j.current) /\ basis' = j.seen
          ELSE UNCHANGED <<pointer, basis>>
    /\ Return(p)
    /\ UNCHANGED <<env, disk, descriptor>>

StartRecover(p, c) ==
    /\ pc[p] = "idle"
    /\ job' = [job EXCEPT ![p] = [NoJob EXCEPT !.config = c]]
    /\ Goto(p, "recover")
    /\ UNCHANGED <<env, store, lock>>

RecoverReads(p) ==
    /\ pc[p] = "recover"
    /\ pointer # NoPointer
    /\ Acquire(p)
    /\ job' = [job EXCEPT ![p].current = pointer]
    /\ Goto(p, "recover_check")
    /\ UNCHANGED <<env, store>>

RecoverRefused(p) ==
    /\ pc[p] = "recover"
    /\ pointer = NoPointer
    /\ lock = None
    /\ Return(p)
    /\ UNCHANGED <<env, store>>

\* One entry after the other; an invalid one is skipped.
RecoverChecks(p) ==
    /\ pc[p] = "recover_check"
    /\ job[p].next <= Len(job[p].current)
    /\ LET j == job[p]
           e == j.current[j.next]
           ok == Validated(e, j.config, policy[j.config.project])
           see == Seen(j.config, policy[j.config.project])
       IN job' = [job EXCEPT
                    ![p].next = @ + 1,
                    ![p].valid = IF ok THEN Append(@, e) ELSE @,
                    ![p].seen = IF ok /\ j.valid = << >> THEN see ELSE @]
    /\ UNCHANGED <<env, store, lock, pc>>

\* no_recoverable_index, or the first valid entry becomes active.
RecoverWrites(p) ==
    /\ pc[p] = "recover_check"
    /\ job[p].next > Len(job[p].current)
    /\ IF job[p].valid = << >>
       THEN UNCHANGED <<pointer, basis>>
       ELSE pointer' = Recovered(job[p].valid) /\ basis' = job[p].seen
    /\ Return(p)
    /\ UNCHANGED <<env, disk, descriptor>>

--------------------------------------------------------------------------------
(* prune_generations.                                                      *)

StartPrune(p) ==
    /\ pc[p] = "idle"
    /\ pointer # NoPointer
    /\ Goto(p, "prune_wait")
    /\ UNCHANGED <<env, store, lock, job>>

\* Fault: the inventory is taken before the lock.
PruneScansUnlocked(p) ==
    /\ pc[p] = "prune_wait"
    /\ job' = [job EXCEPT ![p].victims =
                 {g \in Generation : disk[g] # None} \ Entries(pointer)]
    /\ Goto(p, "prune")
    /\ UNCHANGED <<env, store, lock>>

\* Fault: every generation file is a victim.
PruneScansAll(p) ==
    /\ pc[p] = "prune_wait"
    /\ Acquire(p)
    /\ job' = [job EXCEPT ![p].victims = {g \in Generation : disk[g] # None}]
    /\ Goto(p, "prune")
    /\ UNCHANGED <<env, store>>

\* The inventory: every generation file the pointer does not name.
PruneScans(p) ==
    /\ pc[p] = "prune_wait"
    /\ Acquire(p)
    /\ job' = [job EXCEPT ![p].victims =
                 {g \in Generation : disk[g] # None} \ Entries(pointer)]
    /\ Goto(p, "prune")
    /\ UNCHANGED <<env, store>>

PruneUnlinks(p, g) ==
    /\ pc[p] = "prune"
    /\ g \in job[p].victims
    /\ disk' = [disk EXCEPT ![g] = None]
    /\ job' = [job EXCEPT ![p].victims = @ \ {g}]
    /\ UNCHANGED <<env, pointer, descriptor, basis, lock, pc>>

PruneEnds(p) ==
    /\ pc[p] = "prune"
    /\ job[p].victims = {}
    /\ Return(p)
    /\ UNCHANGED <<env, store>>

--------------------------------------------------------------------------------
(* open_snapshot, then serving from it until the process stops.            *)

\* A server builds its query embedder from the descriptor.  (index_not_built
\* and corrupt_build_descriptor change nothing; a command that embeds no query,
\* such as doctor, takes the steps after this one only.)
LoadDescriptor(p) ==
    /\ pc[p] = "idle"
    /\ descriptor \in Config
    /\ job' = [job EXCEPT ![p] = [NoJob EXCEPT !.embedder = descriptor.model]]
    /\ Goto(p, "load")
    /\ UNCHANGED <<env, store, lock>>

\* open_snapshot reads the descriptor again, to validate the snapshot by it;
\* nothing compares it with the reading the embedder was built from.
OpenDescriptor(p) ==
    /\ pc[p] = "load"
    /\ IF descriptor \in Config
       THEN /\ job' = [job EXCEPT ![p].config = descriptor]
            /\ Goto(p, "open")
            /\ UNCHANGED lock
       ELSE Return(p)
    /\ UNCHANGED <<env, store>>

ReadPointer(p) ==
    /\ pc[p] = "open"
    /\ IF pointer = NoPointer
       THEN Return(p)
       ELSE /\ job' = [job EXCEPT ![p].gen = Active(pointer)]
            /\ Goto(p, "opening")
            /\ UNCHANGED lock
    /\ UNCHANGED <<env, store>>

\* The snapshot is served from the descriptor that was validated, so a later
\* unlink or promotion does not touch it.
OpenTarget(p) ==
    /\ pc[p] = "opening"
    /\ LET j == job[p] IN
       IF Validated(j.gen, j.config, policy[j.config.project])
       THEN /\ job' = [job EXCEPT ![p].served = disk[j.gen], ![p].gen = None]
            /\ Goto(p, "serving")
            /\ UNCHANGED lock
       ELSE Return(p)
    /\ UNCHANGED <<env, store>>

StopServing(p) ==
    /\ pc[p] = "serving"
    /\ Return(p)
    /\ UNCHANGED <<env, store>>

--------------------------------------------------------------------------------
(* The environment: the user's editor, and death.                          *)

Quiet == \A p \in Process : pc[p] \in {"idle", "serving"}

EditCorpus(r) ==
    /\ \E v \in CorpusVersion : corpus' = [corpus EXCEPT ![r] = v]
    /\ UNCHANGED <<policy, store, lock, pc, job>>

EditPolicy(r) ==
    /\ PolicyStable => Quiet
    /\ \E t \in PolicyText : policy' = [policy EXCEPT ![r] = t]
    /\ UNCHANGED <<corpus, store, lock, pc, job>>

Crash(p) ==
    /\ pc[p] \notin {"idle", "serving"}
    /\ Return(p)
    /\ UNCHANGED <<env, store>>

--------------------------------------------------------------------------------
IndexStep(p) ==
    \/ ParseCorpus(p) \/ FinishBuild(p) \/ BuildFails(p)
    \/ PromoteValidates(p) \/ PromoteRefused(p)
    \/ PromoteReadsCurrent(p) \/ PromoteWrites(p)
    \/ TruncateDescriptor(p) \/ WriteDescriptor(p)

RestoreStep(p) ==
    \/ RollbackValidates(p) \/ RollbackRefused(p) \/ RollbackWrites(p)
    \/ RecoverReads(p) \/ RecoverRefused(p) \/ RecoverChecks(p) \/ RecoverWrites(p)

PruneStep(p) ==
    PruneScans(p) \/ (\E g \in Generation : PruneUnlinks(p, g)) \/ PruneEnds(p)

OpenStep(p) == OpenDescriptor(p) \/ ReadPointer(p) \/ OpenTarget(p)

\* What a running command does next on its own.
Advance(p) == IndexStep(p) \/ RestoreStep(p) \/ PruneStep(p) \/ OpenStep(p)

Start(p) ==
    \/ \E c \in Config : StartIndex(p, c) \/ StartRollback(p, c) \/ StartRecover(p, c)
    \/ StartPrune(p)
    \/ LoadDescriptor(p)

Next ==
    \/ \E p \in Process : Start(p) \/ Advance(p) \/ StopServing(p) \/ Crash(p)
    \/ \E r \in Project : EditCorpus(r) \/ EditPolicy(r)

\* A running command keeps running; nobody has to start, edit or crash.
Fairness == \A p \in Process : WF_vars(Advance(p))

Spec == Init /\ [][Next]_vars /\ Fairness

--------------------------------------------------------------------------------
(* Properties.                                                             *)

\* Every variable keeps its shape, and the pointer never grows past the
\* active entry and Retain retained ones, whatever sequence of promotions,
\* rollbacks and recoveries wrote it (index.py:620, 688, 705).
TypeOK ==
    /\ corpus \in [Project -> CorpusVersion]
    /\ policy \in [Project -> PolicyText]
    /\ disk \in [Generation -> Build \union {None}]
    /\ pointer \in Seq(Generation) /\ Len(pointer) <= Retain + 1
    /\ descriptor \in Config \union {None, Torn}
    /\ lock \in Process \union {None}
    /\ pc \in [Process -> Phases]
    /\ job \in [Process -> Job]
    /\ basis \in Basis \union {None}

\* The pointer names every generation at most once, and every generation it
\* names is on disk: no prune, run against any interleaving of builds,
\* promotions, rollbacks, recoveries and deaths, removes a file the pointer
\* names or is about to name (index.py:656-676).
PointerSound ==
    /\ Distinct(pointer)
    /\ \A g \in Entries(pointer) : disk[g] # None

\* All generations the pointer names were built under one configuration: the
\* reason index.py:613-616 may discard the whole history at once when the
\* outgoing generation's configuration does not match.
OneConfiguration ==
    \A g, h \in Entries(pointer) :
        /\ disk[g].model = disk[h].model
        /\ disk[g].policy = disk[h].policy

\* The rows of a generation are all embedded by the model its metadata
\* declares, through any chain of builds that reuse each other's rows
\* (index.py:245-259, 1008-1026).
VectorsOfOneModel ==
    \A g \in Generation : disk[g] # None => disk[g].vectors = {disk[g].model}

\* A server answers from rows embedded by the model of the descriptor it opened
\* the snapshot by, although descriptor, pointer and generation are written and
\* read one by one, without a lock, and any of them may be replaced in between
\* (platform.py:438-448, index_runner.py:159).
ServedMatchesItsDescriptor ==
    \A p \in Process :
        pc[p] = "serving" => job[p].served.vectors = {job[p].config.model}

\* cli.py:388-399: the query embedder comes from "the ACTIVE SNAPSHOT's own
\* recorded build descriptor", "matching by construction, not by luck", and "ANY
\* mismatch raises".
QueriesUseTheIndexedModel ==
    \A p \in Process :
        pc[p] = "serving" => job[p].served.vectors = {job[p].embedder}

\* Nothing has been edited since the active generation was validated, nor
\* between the reading of the policy and that validation.
BasisCurrent ==
    /\ basis # None
    /\ basis.selected = basis.policy
    /\ policy[basis.config.project] = basis.policy
    /\ corpus[basis.config.project] = basis.corpus

\* As long as nothing was edited since the active generation was validated, a
\* reader by the configuration it was validated under opens it, in every state
\* of every command, whatever configurations the others use: no promotion,
\* rollback or recovery installs a generation other than the one it examined,
\* and none is changed or unlinked afterwards (index.py:567-707).
FreshIndexOpens ==
    BasisCurrent /\ descriptor = basis.config =>
        Validated(Active(pointer), descriptor, policy[descriptor.project])

\* Spec "Portable Filesystem, Locking, and Promotion": readers observe one
\* complete compatible generation and recovery selects a validated one, whatever
\* fault comes during publication.  Stated for the moment it is easiest to keep:
\* no command is running and nothing was edited.
ReadersOpenTheFreshIndex ==
    Quiet /\ descriptor \in Config /\ BasisCurrent =>
        Validated(Active(pointer), descriptor, policy[descriptor.project])

\* index.py:607: "keep the invariant that every retained entry is activatable".
\* Stated for the moment it is easiest to keep: nothing was edited since the
\* active generation was validated.
RetainedActivatable ==
    BasisCurrent =>
        \A g \in Entries(Retained(pointer)) :
            Validated(g, basis.config, policy[basis.config.project])

\* A generation that was active leaves the pointer only when the command that
\* wrote it reports the discarded retention (index.py:613-616), or is a
\* recovery that found it invalid.  Two concurrent promotions never lose each
\* other's generation.
NoSilentLoss ==
    [][ pointer # NoPointer /\ pointer' # pointer =>
          \/ Active(pointer) \in Entries(pointer')
          \/ \E p \in Process : /\ pc'[p] # pc[p]
                                /\ job[p].discarded \/ pc[p] = "recover_check" ]_vars

\* The lock is never held for ever: whoever holds it lets go (pointer.py:212).
LockReleased == \A p \in Process : (lock = p) ~> (lock # p)

\* The files of the directory and its pointer behave as a GenerationStore.
Stored == {g \in Generation : disk[g] # None}

Store == INSTANCE GenerationStore WITH stored <- Stored

StoreRefined == Store!Spec
--------------------------------------------------------------------------------
(* The inductive invariant behind TypeOK, PointerSound and StoreRefined.   *)

Unbuilt == {"parse", "embed"}
Building == Unbuilt \union {"built", "promote_read", "promote_write"}

\* A command past its start has the local variables its phase reads.
LocalsSet(phase, j) ==
    /\ phase \notin {"idle", "prune_wait", "prune", "load"} => j.config \in Config
    /\ phase \in Building => j.policy \in PolicyText
    /\ phase \in Building \union {"opening"} => j.gen \in Generation
    /\ phase = "embed" => j.manifest \in Manifest
    /\ phase = "recover" => j.next = 1 /\ j.valid = NoPointer

\* What a locked section has read stays true until it writes.
ReadsHold(phase, j) ==
    /\ phase \in {"promote_read", "promote_write"} => disk[j.gen] # None
    /\ phase = "promote_write" =>
           j.current = pointer \/ (j.current = NoPointer /\ j.discarded)
    /\ phase = "rollback_write" => j.current = pointer /\ Len(pointer) >= 2
    /\ phase = "prune" => j.victims \intersect Entries(pointer) = {}

\* A recovery has kept, in order, some of the entries it has looked at.
SalvageSound(phase, j) ==
    phase = "recover_check" =>
        /\ j.current = pointer
        /\ j.next <= Len(pointer) + 1
        /\ Len(j.valid) < j.next
        /\ Distinct(j.valid)
        /\ Entries(j.valid) \subseteq {pointer[i] : i \in 1..(j.next - 1)}
        /\ \A x, y \in Entries(j.valid) :
               Store!Ahead(j.valid, x, y) => Store!Ahead(pointer, x, y)

ProcessSound ==
    \A p \in Process : /\ LocalsSet(pc[p], job[p])
                       /\ ReadsHold(pc[p], job[p])
                       /\ SalvageSound(pc[p], job[p])

\* The flock is held exactly by the process that is in a locked section.
LockHeld == \A p \in Process : lock = p <=> pc[p] \in LockedPhases

\* A generation being built has a name nothing else mentions.
NamesFresh ==
    \A p \in Process : pc[p] \in Unbuilt =>
        /\ disk[job[p].gen] = None
        /\ job[p].gen \notin Entries(pointer)
        /\ \A q \in Process \ {p} : pc[q] \in Building => job[q].gen # job[p].gen

IInv == TypeOK /\ PointerSound /\ ProcessSound /\ LockHeld /\ NamesFresh

--------------------------------------------------------------------------------
(* What IInv is strengthened with for the properties of the files' contents. *)

\* Behind VectorsOfOneModel and ServedMatchesItsDescriptor: the rows a build has
\* collected, those of every file and those being served are of one model.
RowsOfOneModel ==
    /\ VectorsOfOneModel
    /\ \A p \in Process :
           /\ pc[p] = "embed" => job[p].vectors = {job[p].config.model}
           /\ pc[p] = "serving" => job[p].served.vectors = {job[p].config.model}

\* The file holds what a validation that saw s accepts.
BuiltFrom(b, s) ==
    /\ b.model = s.config.model
    /\ b.policy = s.policy
    /\ b.manifest = Selected[s.selected, s.corpus]
    /\ b.manifest \in Queryable

\* With a policy that is edited between commands only, the policy a promotion
\* has compared is still the policy of the project.
PolicyHolds(phase, j) ==
    /\ phase \in {"promote_read", "promote_write"} =>
           j.seen.policy = policy[j.config.project]
    /\ phase = "promote_write" /\ j.current # NoPointer =>
           ConfigMatches(disk[Active(pointer)], j.config)

\* What a command has validated stays as it saw it until the command writes the
\* pointer.
ChecksHold(phase, j) ==
    /\ phase \in {"promote_read", "promote_write"} =>
           j.seen \in Basis /\ j.seen.config = j.config /\ BuiltFrom(disk[j.gen], j.seen)
    /\ phase = "rollback_write" =>
           j.seen \in Basis /\ BuiltFrom(disk[pointer[2]], j.seen)
    /\ phase = "recover_check" /\ j.valid # NoPointer =>
           j.seen \in Basis /\ BuiltFrom(disk[j.valid[1]], j.seen)
    /\ PolicyStable => PolicyHolds(phase, j)

\* The active generation is the one its validation saw.
BasisSound ==
    basis # None => pointer # NoPointer /\ BuiltFrom(disk[Active(pointer)], basis)

\* Behind OneConfiguration and FreshIndexOpens.
ContentSound ==
    /\ PolicyStable => OneConfiguration
    /\ BasisSound
    /\ \A p \in Process : ChecksHold(pc[p], job[p])
================================================================================
