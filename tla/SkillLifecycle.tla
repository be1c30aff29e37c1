----------------------------- MODULE SkillLifecycle -----------------------------
(***************************************************************************)
(* The user's skill set on disk: candidate packs, the approval records a   *)
(* person granted, generations `skillset-<uuid>.json` that embed whole     *)
(* packs, and their pointer (skillset.py, approvals.py, _cli/skills.py,    *)
(* platform.py load_active_skills).                                        *)
(*                                                                         *)
(* The lifecycle mirrors the index's, with one gate more: every skill of a *)
(* set must be approved at exactly the body digest its pack declares.      *)
(* A command reads the approval records before it takes the pointer's      *)
(* lock, one file after the other, while other commands grant and revoke.  *)
(***************************************************************************)
EXTENDS PointerFile, FiniteSets

CONSTANTS
    Process,      \* concurrent `bruriah` commands on one data directory
    Candidate,    \* paths of candidate packs
    Pack,         \* well-formed contents a candidate can have
    PackId,       \* [Pack -> name]: the pack_id it declares
    Skill,        \* skill ids
    Digest,       \* body digests
    Bodies,       \* [Pack -> [its skills -> body digest]]
    Verifiable,   \* packs that pass the signature, router and version gates
    FirstDay,     \* [Pack -> day]: reviewed_at
    LastDay,      \* [Pack -> day]: the end of its review window
    MaxDay,       \* bound of the calendar
    Bundled,      \* skill ids of the pack that ships with the wheel
    Generation,   \* names of generation files
    Retain,       \* retained entries a promotion keeps
    None

ASSUME SkillLifecycleAssumption ==
    /\ DOMAIN Bodies = Pack
    /\ \A k \in Pack : /\ DOMAIN Bodies[k] \subseteq Skill
                       /\ \A s \in DOMAIN Bodies[k] : Bodies[k][s] \in Digest
    /\ Verifiable \subseteq Pack
    /\ MaxDay \in Nat
    /\ FirstDay \in [Pack -> Nat] /\ LastDay \in [Pack -> Nat]
    /\ Retain \in Nat \ {0}
    /\ None \notin Process \union Generation \union Digest \union Pack

\* What a generation file holds: whole packs, in canonical order.
Bundle == [packs : SUBSET Pack]

ASSUME NoneIsNoFile == None \notin Bundle

VARIABLES
    source,      \* the candidate files
    approval,    \* skills/approvals/<skill_id>.json: the approved body digest
    today,       \* the calendar
    disk,        \* [generation name -> the bundle in the file, or None]
    pointer,     \* skills/active.json (PointerFile)
    lock,        \* who holds the flock beside the pointer
    pc,          \* where each process is
    job,         \* its local variables
    granted      \* history: bodies approved since each command started, until
                 \* it has activated or opened a set

env == <<source, today>>
store == <<disk, pointer>>
vars == <<source, approval, today, disk, pointer, lock, pc, job, granted>>

NoApprovals == [s \in Skill |-> None]

\* `then` is where a command goes once it has the approvals.
NoJob == [then |-> "none", sources |-> {}, gen |-> None, pack |-> None,
          bodies |-> NoApprovals, approved |-> NoApprovals, todo |-> {},
          current |-> NoPointer, valid |-> NoPointer, next |-> 1,
          victims |-> {}, served |-> {}, warning |-> "none"]

Thens == {"none", "compile", "promote", "rollback", "recover", "open"}

\* Why open_skillset serves no user skills although there is a pointer.
Warnings == {"none", "unreadable", "aged", "unapproved"}

Job == [then : Thens, sources : SUBSET Candidate,
        gen : Generation \union {None}, pack : Pack \union {None},
        bodies : [Skill -> Digest \union {None}],
        approved : [Skill -> Digest \union {None}], todo : SUBSET Skill,
        current : Seq(Generation), valid : Seq(Generation), next : Nat \ {0},
        victims : SUBSET Generation, served : SUBSET Pack, warning : Warnings]

LockedPhases ==
    {"promote_read", "promote_write", "rollback_write", "recover_check", "prune"}

Phases == LockedPhases \union Thens \union
    {"idle", "list", "read", "digests", "approving", "prune_wait", "opening",
     "serving"}

\* Where a command still has a set to validate, write or open.
Validating == Thens \union (LockedPhases \ {"prune"}) \union {"list", "read", "opening"}

Init ==
    /\ source \in [Candidate -> Pack]
    /\ approval = NoApprovals
    /\ today = 0
    /\ disk = [g \in Generation |-> None]
    /\ pointer = NoPointer
    /\ lock = None
    /\ pc = [p \in Process |-> "idle"]
    /\ job = [p \in Process |-> NoJob]
    /\ granted = [p \in Process |-> {}]

--------------------------------------------------------------------------------
(* Validation.                                                             *)

BodiesOf(packs) == UNION {{<<s, Bodies[k][s]>> : s \in DOMAIN Bodies[k]} : k \in packs}

\* Fault: an approval of the skill, whatever body it was granted for.
ApprovedByName(packs, approved) ==
    \A b \in BodiesOf(packs) : approved[b[1]] # None

\* _check_approvals: each skill is approved at the digest its pack declares.
Approved(packs, approved) ==
    \A b \in BodiesOf(packs) : approved[b[1]] = b[2]

\* Inside the review window: not dated in the future, expired or stale.
Current(k) == today \in FirstDay[k]..LastDay[k]

\* validate_skillset_bytes, for the packs of a generation that was compiled.
Valid(packs, approved) ==
    /\ \A k \in packs : k \in Verifiable /\ Current(k)
    /\ Approved(packs, approved)

\* A generation file that is there and validates.
Opens(g, approved) == disk[g] # None /\ Valid(disk[g].packs, approved)

\* SkillSet.from_packs: no pack id and no skill id twice.
Compatible(sources) ==
    \A c, d \in sources : c # d =>
        /\ PackId[source[c]] # PackId[source[d]]
        /\ DOMAIN Bodies[source[c]] \intersect DOMAIN Bodies[source[d]] = {}

--------------------------------------------------------------------------------
(* Control.  "Fault" marks a mistake the code does not make.               *)

Goto(p, phase) == pc' = [pc EXCEPT ![p] = phase]

\* The command ends, in success, in a typed error or in death.
Return(p) ==
    /\ Goto(p, "idle")
    /\ job' = [job EXCEPT ![p] = NoJob]
    /\ granted' = [granted EXCEPT ![p] = {}]
    /\ lock' = IF lock = p THEN None ELSE lock

\* Fault: the lock is shared.
AcquireShared(p) == lock' = p

Acquire(p) == lock = None /\ lock' = p

Records == {<<s, approval[s]>> : s \in {s \in Skill : approval[s] # None}}

\* Every command that validates starts by loading the approvals.
Begin(p, j) ==
    /\ pc[p] = "idle"
    /\ Goto(p, "list")
    /\ job' = [job EXCEPT ![p] = j]
    /\ granted' = [granted EXCEPT ![p] = Records]
    /\ UNCHANGED <<env, approval, store, lock>>

--------------------------------------------------------------------------------
(* approve_candidate and revoke_approval.                                  *)

\* The analysis of the candidate; a refused acknowledgment changes nothing.
AnalyzeCandidate(p, c) ==
    /\ pc[p] = "idle"
    /\ job' = [job EXCEPT ![p] = [NoJob EXCEPT !.sources = {c}, !.pack = source[c]]]
    /\ Goto(p, "digests")
    /\ UNCHANGED <<env, approval, store, lock, granted>>

\* _body_digests reads the file again.
BodyDigests(p) ==
    /\ pc[p] = "digests"
    /\ \E c \in job[p].sources :
           LET declared == Bodies[source[c]] IN
           job' = [job EXCEPT
                     ![p].bodies = [s \in Skill |-> IF s \in DOMAIN declared
                                                    THEN declared[s] ELSE None],
                     ![p].todo = DOMAIN declared]
    /\ Goto(p, "approving")
    /\ UNCHANGED <<env, approval, store, lock, granted>>

\* Each record is replaced atomically; the records of one pack are not.
WriteApproval(p, s) ==
    /\ pc[p] = "approving"
    /\ s \in job[p].todo
    /\ LET d == job[p].bodies[s] IN
       /\ approval' = [approval EXCEPT ![s] = d]
       /\ granted' = [q \in Process |->
                         IF pc[q] \in Validating THEN granted[q] \union {<<s, d>>}
                         ELSE granted[q]]
    /\ job' = [job EXCEPT ![p].todo = @ \ {s}]
    /\ UNCHANGED <<env, store, lock, pc>>

ApproveEnds(p) ==
    /\ pc[p] = "approving"
    /\ job[p].todo = {}
    /\ Return(p)
    /\ UNCHANGED <<env, approval, store>>

Revoke(s) ==
    /\ approval[s] # None
    /\ approval' = [approval EXCEPT ![s] = None]
    /\ UNCHANGED <<env, store, lock, pc, job, granted>>

--------------------------------------------------------------------------------
(* load_approvals: list the directory, then read one record after the other. *)

ListApprovals(p) ==
    /\ pc[p] = "list"
    /\ job' = [job EXCEPT ![p].todo = {s \in Skill : approval[s] # None},
                          ![p].approved = NoApprovals]
    /\ Goto(p, "read")
    /\ UNCHANGED <<env, approval, store, lock, granted>>

\* A record that was revoked since the listing is malformed_approval.
ReadApproval(p, s) ==
    /\ pc[p] = "read"
    /\ s \in job[p].todo
    /\ IF approval[s] = None
       THEN Return(p)
       ELSE /\ job' = [job EXCEPT ![p].approved[s] = approval[s],
                                  ![p].todo = @ \ {s}]
            /\ UNCHANGED <<lock, pc, granted>>
    /\ UNCHANGED <<env, approval, store>>

ApprovalsLoaded(p) ==
    /\ pc[p] = "read"
    /\ job[p].todo = {}
    /\ Goto(p, job[p].then)
    /\ job' = [job EXCEPT ![p].then = "none"]
    /\ UNCHANGED <<env, approval, store, lock, granted>>

--------------------------------------------------------------------------------
(* run_skill_activate: compile under the approvals, load them again, promote. *)

\* uuid4: a name that no file, no pointer entry and no process mentions.
Mentioned(g) ==
    \/ disk[g] # None
    \/ g \in Entries(pointer)
    \/ \E p \in Process : \/ g \in {job[p].gen} \union job[p].victims
                          \/ g \in Entries(job[p].current) \union Entries(job[p].valid)

NewNames == {g \in Generation : ~Mentioned(g)}

StartActivate(p, sources) ==
    \E g \in NewNames :
        Begin(p, [NoJob EXCEPT !.then = "compile", !.sources = sources, !.gen = g])

\* Nothing is written unless the whole set validates.
Compile(p) ==
    /\ pc[p] = "compile"
    /\ LET j == job[p]
           packs == {source[c] : c \in j.sources}
       IN IF Compatible(j.sources) /\ Valid(packs, j.approved)
          THEN /\ disk' = [disk EXCEPT ![j.gen] = [packs |-> packs]]
               /\ job' = [job EXCEPT ![p] = [NoJob EXCEPT !.then = "promote", !.gen = j.gen]]
               /\ Goto(p, "list")
               /\ UNCHANGED <<lock, granted>>
          ELSE Return(p) /\ UNCHANGED disk
    /\ UNCHANGED <<env, approval, pointer>>

\* The candidate generation, unless a prune took it.
Promotable(p) == Opens(job[p].gen, job[p].approved)

PromoteValidates(p) ==
    /\ pc[p] = "promote"
    /\ Acquire(p)
    /\ Promotable(p)
    /\ job' = [job EXCEPT ![p].approved = NoApprovals]
    /\ Goto(p, "promote_read")
    /\ UNCHANGED <<env, approval, store, granted>>

PromoteRefused(p) ==
    /\ pc[p] = "promote"
    /\ lock = None
    /\ ~Promotable(p)
    /\ Return(p)
    /\ UNCHANGED <<env, approval, store>>

\* _demote_current: the outgoing generation is only hashed, not validated.
PromoteReadsCurrent(p) ==
    /\ pc[p] = "promote_read"
    /\ IF pointer # NoPointer /\ disk[Active(pointer)] = None
       THEN Return(p)
       ELSE /\ job' = [job EXCEPT ![p].current = pointer]
            /\ Goto(p, "promote_write")
            /\ UNCHANGED <<lock, granted>>
    /\ UNCHANGED <<env, approval, store>>

PromoteWrites(p) ==
    /\ pc[p] = "promote_write"
    /\ pointer' = Promoted(job[p].current, job[p].gen, Retain)
    /\ Return(p)
    /\ UNCHANGED <<env, approval, disk>>

--------------------------------------------------------------------------------
(* rollback_skillset and recover_skillset.                                 *)

StartRollback(p) == Begin(p, [NoJob EXCEPT !.then = "rollback"])

\* Fault: the target is hashed like the outgoing set, not validated.
RollbackTargetUnchecked(approved) == Len(pointer) >= 2 /\ disk[pointer[2]] # None

RollbackTarget(approved) ==
    /\ Len(pointer) >= 2
    /\ Opens(pointer[2], approved)

RollbackValidates(p) ==
    /\ pc[p] = "rollback"
    /\ Acquire(p)
    /\ RollbackTarget(job[p].approved)
    /\ job' = [job EXCEPT ![p].current = pointer, ![p].approved = NoApprovals]
    /\ Goto(p, "rollback_write")
    /\ UNCHANGED <<env, approval, store, granted>>

RollbackRefused(p) ==
    /\ pc[p] = "rollback"
    /\ lock = None
    /\ ~RollbackTarget(job[p].approved)
    /\ Return(p)
    /\ UNCHANGED <<env, approval, store>>

RollbackWrites(p) ==
    /\ pc[p] = "rollback_write"
    /\ IF disk[Active(job[p].current)] # None
       THEN pointer' = RolledBack(job[p].current)
       ELSE UNCHANGED pointer
    /\ Return(p)
    /\ UNCHANGED <<env, approval, disk>>

StartRecover(p) == Begin(p, [NoJob EXCEPT !.then = "recover"])

RecoverReads(p) ==
    /\ pc[p] = "recover"
    /\ pointer # NoPointer
    /\ Acquire(p)
    /\ job' = [job EXCEPT ![p].current = pointer]
    /\ Goto(p, "recover_check")
    /\ UNCHANGED <<env, approval, store, granted>>

RecoverRefused(p) ==
    /\ pc[p] = "recover"
    /\ pointer = NoPointer
    /\ lock = None
    /\ Return(p)
    /\ UNCHANGED <<env, approval, store>>

RecoverChecks(p) ==
    /\ pc[p] = "recover_check"
    /\ job[p].next <= Len(job[p].current)
    /\ LET j == job[p]
           e == j.current[j.next]
           ok == Opens(e, j.approved)
       IN job' = [job EXCEPT ![p].next = @ + 1,
                             ![p].valid = IF ok THEN Append(@, e) ELSE @]
    /\ UNCHANGED <<env, approval, store, lock, pc, granted>>

RecoverWrites(p) ==
    /\ pc[p] = "recover_check"
    /\ job[p].next > Len(job[p].current)
    /\ IF job[p].valid = << >>
       THEN UNCHANGED pointer
       ELSE pointer' = Recovered(job[p].valid)
    /\ Return(p)
    /\ UNCHANGED <<env, approval, disk>>

--------------------------------------------------------------------------------
(* prune_skillset.                                                         *)

StartPrune(p) ==
    /\ pc[p] = "idle"
    /\ pointer # NoPointer
    /\ Goto(p, "prune_wait")
    /\ UNCHANGED <<env, approval, store, lock, job, granted>>

Unreferenced == {g \in Generation : disk[g] # None} \ Entries(pointer)

\* Fault: the retained generations are victims too.
PruneScansRetained(p) ==
    /\ pc[p] = "prune_wait"
    /\ Acquire(p)
    /\ job' = [job EXCEPT ![p].victims =
                  {g \in Generation : disk[g] # None} \ {Active(pointer)}]
    /\ Goto(p, "prune")
    /\ UNCHANGED <<env, approval, store, granted>>

PruneScans(p) ==
    /\ pc[p] = "prune_wait"
    /\ Acquire(p)
    /\ job' = [job EXCEPT ![p].victims = Unreferenced]
    /\ Goto(p, "prune")
    /\ UNCHANGED <<env, approval, store, granted>>

PruneUnlinks(p, g) ==
    /\ pc[p] = "prune"
    /\ g \in job[p].victims
    /\ disk' = [disk EXCEPT ![g] = None]
    /\ job' = [job EXCEPT ![p].victims = @ \ {g}]
    /\ UNCHANGED <<env, approval, pointer, lock, pc, granted>>

PruneEnds(p) ==
    /\ pc[p] = "prune"
    /\ job[p].victims = {}
    /\ Return(p)
    /\ UNCHANGED <<env, approval, store>>

--------------------------------------------------------------------------------
(* load_active_skills: the bundled skills and whatever open_skillset opens. *)

StartServe(p) == Begin(p, [NoJob EXCEPT !.then = "open"])

\* Without a pointer the user's layer is inactive.
ReadPointer(p) ==
    /\ pc[p] = "open"
    /\ IF pointer = NoPointer
       THEN Goto(p, "serving") /\ UNCHANGED job
       ELSE /\ job' = [job EXCEPT ![p].gen = Active(pointer)]
            /\ Goto(p, "opening")
    /\ UNCHANGED <<env, approval, store, lock, granted>>

Collides(packs) == \E b \in BodiesOf(packs) : b[1] \in Bundled

\* The gates in the code's order: the file, the packs, the approvals.
Warning(g, approved) ==
    IF disk[g] = None THEN "unreadable"
    ELSE IF \E k \in disk[g].packs : ~Current(k) THEN "aged"
    ELSE IF ~Approved(disk[g].packs, approved) THEN "unapproved" ELSE "none"

\* A set that does not open degrades to the bundled skills; one that collides
\* with them refuses to start.
OpenActive(p) ==
    /\ pc[p] = "opening"
    /\ LET j == job[p]
           packs == IF Opens(j.gen, j.approved) THEN disk[j.gen].packs ELSE {}
       IN IF Collides(packs)
          THEN Return(p)
          ELSE /\ job' = [job EXCEPT ![p] =
                             [NoJob EXCEPT !.served = packs,
                                           !.warning = Warning(j.gen, j.approved)]]
               /\ Goto(p, "serving")
               /\ UNCHANGED <<lock, granted>>
    /\ UNCHANGED <<env, approval, store>>

StopServing(p) ==
    /\ pc[p] = "serving"
    /\ Return(p)
    /\ UNCHANGED <<env, approval, store>>

--------------------------------------------------------------------------------
(* The environment.                                                        *)

EditCandidate(c) ==
    /\ \E k \in Pack : source' = [source EXCEPT ![c] = k]
    /\ UNCHANGED <<approval, today, store, lock, pc, job, granted>>

Tomorrow ==
    /\ today < MaxDay
    /\ today' = today + 1
    /\ UNCHANGED <<source, approval, store, lock, pc, job, granted>>

Crash(p) ==
    /\ pc[p] \notin {"idle", "serving"}
    /\ Return(p)
    /\ UNCHANGED <<env, approval, store>>

--------------------------------------------------------------------------------
ApproveStep(p) ==
    BodyDigests(p) \/ (\E s \in Skill : WriteApproval(p, s)) \/ ApproveEnds(p)

LoadStep(p) ==
    ListApprovals(p) \/ (\E s \in Skill : ReadApproval(p, s)) \/ ApprovalsLoaded(p)

ActivateStep(p) ==
    \/ Compile(p)
    \/ PromoteValidates(p) \/ PromoteRefused(p)
    \/ PromoteReadsCurrent(p) \/ PromoteWrites(p)

RestoreStep(p) ==
    \/ RollbackValidates(p) \/ RollbackRefused(p) \/ RollbackWrites(p)
    \/ RecoverReads(p) \/ RecoverRefused(p) \/ RecoverChecks(p) \/ RecoverWrites(p)

PruneStep(p) ==
    PruneScans(p) \/ (\E g \in Generation : PruneUnlinks(p, g)) \/ PruneEnds(p)

OpenStep(p) == ReadPointer(p) \/ OpenActive(p)

\* What a running command does next on its own.
Advance(p) ==
    \/ ApproveStep(p) \/ LoadStep(p) \/ ActivateStep(p)
    \/ RestoreStep(p) \/ PruneStep(p) \/ OpenStep(p)

Start(p) ==
    \/ \E c \in Candidate : AnalyzeCandidate(p, c)
    \/ \E sources \in SUBSET Candidate \ {{}} : StartActivate(p, sources)
    \/ StartRollback(p) \/ StartRecover(p) \/ StartPrune(p) \/ StartServe(p)

Next ==
    \/ \E p \in Process : Start(p) \/ Advance(p) \/ StopServing(p) \/ Crash(p)
    \/ \E s \in Skill : Revoke(s)
    \/ \E c \in Candidate : EditCandidate(c)
    \/ Tomorrow

Spec == Init /\ [][Next]_vars

--------------------------------------------------------------------------------
(* Properties.                                                             *)

\* Every variable keeps its shape, and the pointer never grows past the active
\* entry and Retain retained ones (skillset.py:398, 466, 510).
TypeOK ==
    /\ source \in [Candidate -> Pack]
    /\ approval \in [Skill -> Digest \union {None}]
    /\ today \in 0..MaxDay
    /\ disk \in [Generation -> Bundle \union {None}]
    /\ pointer \in Seq(Generation) /\ Len(pointer) <= Retain + 1
    /\ lock \in Process \union {None}
    /\ pc \in [Process -> Phases]
    /\ job \in [Process -> Job]
    /\ granted \in [Process -> SUBSET (Skill \X Digest)]

\* The pointer names every generation at most once and only generations that
\* are on disk, although compiled generations are visible to a prune before
\* they are promoted (skillset.py:601-631).
PointerSound ==
    /\ Distinct(pointer)
    /\ \A g \in Entries(pointer) : disk[g] # None

\* However grants, revocations, edits and deaths fall between the two times a
\* command loads the approvals and the moment it writes the pointer, it only
\* activates bodies that were approved at some moment since it started
\* (skillset.py:271-284, _cli/skills.py:113-129): an approval revoked before
\* a command starts is never acted on by it, whichever way the set becomes
\* active.
ActivatedWasApproved ==
    [][ pointer' # pointer =>
          BodiesOf(disk[Active(pointer')].packs) \subseteq granted[lock] ]_vars

\* A server dispatches only bodies that were approved since it began to start,
\* whatever happened to the candidate files, the records and the pointer
\* meanwhile (platform.py:375-399).
ServedWasApproved ==
    \A p \in Process :
        pc[p] = "serving" => BodiesOf(job[p].served) \subseteq granted[p]

\* Spec "Atomic Skill Set Activation": the Retain most recent generations stay
\* in the pointer across every promotion and rollback, concurrent ones
\* included; only a recovery lets one go.
RetentionKept ==
    [][ pointer' # pointer =>
          \/ Entries(FirstOf(pointer, Retain)) \subseteq Entries(pointer')
          \/ \E p \in Process : pc[p] = "recover_check" /\ pc'[p] = "idle" ]_vars

\* platform.py:359-361: "you only keep serving content
\* that expired WHILE in service" (spec "Expiry demotes without deletion"): an
\* approved set that went into service still reaches the server when its
\* review window has passed.
ExpiryDemotes ==
    \A p \in Process : pc[p] = "serving" => job[p].warning # "aged"

\* approvals.py:69-75: the records bind the body digests of the candidate whose
\* analysis the person acknowledged, and name that candidate by its digest.
ApprovalBindsItsCandidate ==
    [][ \A s \in Skill : approval'[s] \notin {approval[s], None} =>
          \E p \in Process : /\ pc[p] = "approving"
                             /\ <<s, approval'[s]>> \in BodiesOf({job[p].pack}) ]_vars

\* The files of the directory and its pointer behave as a GenerationStore.
Stored == {g \in DOMAIN disk : disk[g] # None}

Store == INSTANCE GenerationStore WITH stored <- Stored

StoreRefined == Store!Spec

--------------------------------------------------------------------------------
(* The inductive invariant behind the properties above.                    *)

\* What a command is about to do: while it loads the approvals, what it loads
\* them for.
Stage(phase, j) == IF phase \in {"list", "read"} THEN j.then ELSE phase

Building == {"compile", "promote", "promote_read", "promote_write"}

\* A command past its start has the local variables its phase reads.
LocalsSet(phase, j) ==
    /\ phase \in {"list", "read"} => j.then # "none"
    /\ phase \in Validating => j.served = {}
    /\ Stage(phase, j) \in Building \union {"opening"} => j.gen \in Generation
    /\ Stage(phase, j) = "recover" => j.next = 1 /\ j.valid = NoPointer
    /\ phase = "approving" => \A s \in j.todo : j.bodies[s] \in Digest

\* What a locked section has read stays true until it writes.
ReadsHold(phase, j) ==
    /\ phase \in {"promote_read", "promote_write"} => disk[j.gen] # None
    /\ phase = "promote_write" => j.current = pointer
    /\ phase = "rollback_write" => j.current = pointer /\ Len(pointer) >= 2
    /\ phase = "prune" => j.victims \intersect Entries(pointer) = {}

\* A recovery has kept, in order, some of the entries it has looked at.
SalvageSound(phase, j) ==
    phase = "recover_check" =>
        /\ j.current = pointer
        /\ j.next <= Len(pointer) + 1
        /\ Len(j.valid) < j.next
        /\ Distinct(j.valid)
        /\ Entries(j.valid) \subseteq {pointer[i] : i \in 1..(j.next - 1)}
        /\ \A x, y \in Entries(j.valid) :
               Store!Ahead(j.valid, x, y) => Store!Ahead(pointer, x, y)

\* Whatever a command has loaded or may still load, and every body of the set
\* it is about to activate or serves, was approved since it started.
OnlyGranted(phase, j, bodies) ==
    /\ phase \in Validating =>
           /\ Records \subseteq bodies
           /\ \A s \in Skill : j.approved[s] # None => <<s, j.approved[s]>> \in bodies
    /\ phase \in {"promote_read", "promote_write"} =>
           BodiesOf(disk[j.gen].packs) \subseteq bodies
    /\ phase = "rollback_write" => BodiesOf(disk[pointer[2]].packs) \subseteq bodies
    /\ phase = "recover_check" /\ j.valid # NoPointer =>
           BodiesOf(disk[j.valid[1]].packs) \subseteq bodies
    /\ phase = "serving" => BodiesOf(j.served) \subseteq bodies

Sound(p) ==
    /\ LocalsSet(pc[p], job[p])
    /\ ReadsHold(pc[p], job[p])
    /\ SalvageSound(pc[p], job[p])
    /\ OnlyGranted(pc[p], job[p], granted[p])

\* The flock is held exactly by the process that is in a locked section.
LockHeld == \A p \in Process : lock = p <=> pc[p] \in LockedPhases

\* A generation being compiled has a name nothing else mentions.
Fresh(p) ==
    Stage(pc[p], job[p]) = "compile" =>
        /\ disk[job[p].gen] = None
        /\ job[p].gen \notin Entries(pointer)
        /\ \A q \in Process \ {p} :
               Stage(pc[q], job[q]) \in Building => job[q].gen # job[p].gen

IInv ==
    /\ TypeOK
    /\ PointerSound
    /\ LockHeld
    /\ \A p \in Process : Sound(p) /\ Fresh(p)
================================================================================
