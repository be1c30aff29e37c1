-------------------------- MODULE SkillLifecycleProofs --------------------------
(***************************************************************************)
(* The skill-set lifecycle for any number of commands, packs, skills,      *)
(* bodies and generations: its type, the soundness of its pointer, the     *)
(* approval gate in front of everything that is activated or served, what  *)
(* a promotion retains, and the abstract store it implements.              *)
(***************************************************************************)
EXTENDS SkillLifecycle, ListProofs, TLAPS

\* What IInv says of one command and of the files it works with.
LEMMA LocalFacts ==
    ASSUME IInv, NEW p \in Process
    PROVE  /\ pc[p] \in Phases /\ job[p] \in Job
           /\ granted[p] \in SUBSET (Skill \X Digest)
           /\ LocalsSet(pc[p], job[p])
           /\ ReadsHold(pc[p], job[p])
           /\ SalvageSound(pc[p], job[p])
           /\ OnlyGranted(pc[p], job[p], granted[p])
           /\ lock = p <=> pc[p] \in LockedPhases
BY DEF IInv, TypeOK, Sound, LockHeld

\* The pointer and the files it names.
LEMMA PointerFacts ==
    ASSUME IInv
    PROVE  /\ pointer \in Seq(Generation) /\ Distinct(pointer)
           /\ Len(pointer) \in Nat /\ DOMAIN pointer = 1..Len(pointer)
           /\ \A g \in Entries(pointer) : g \in Generation /\ disk[g] # None
           /\ pointer # NoPointer => Active(pointer) \in Entries(pointer)
<1>1. TypeOK /\ PointerSound
  BY DEF IInv
<1>2. Len(pointer) \in Nat /\ DOMAIN pointer = 1..Len(pointer)
  BY <1>1, LenProperties DEF TypeOK
<1>3. Entries(pointer) \subseteq Generation
  BY <1>1, LenProperties, ElementOfSeq DEF TypeOK, Entries
<1>4. ASSUME pointer # NoPointer PROVE Active(pointer) \in Entries(pointer)
  <2>1. 1 \in DOMAIN pointer
    BY <1>1, <1>2, <1>4, EmptySeq DEF TypeOK, NoPointer
  <2>2. QED
    BY <2>1 DEF Active, Entries
<1>5. QED
  BY <1>1, <1>2, <1>3, <1>4 DEF TypeOK, PointerSound

\* The entries a recovery has kept are entries of the pointer.
LEMMA SalvagedFacts ==
    ASSUME IInv, NEW p \in Process, pc[p] = "recover_check"
    PROVE  /\ job[p].valid \in Seq(Generation)
           /\ Entries(job[p].valid) \subseteq Entries(pointer)
           /\ job[p].valid # NoPointer => job[p].valid[1] \in Entries(pointer)
<1> DEFINE v == job[p].valid
<1>1. /\ v \in Seq(Generation) /\ job[p].next \in Nat \ {0}
      /\ job[p].next <= Len(pointer) + 1
      /\ Entries(v) \subseteq {pointer[i] : i \in 1..(job[p].next - 1)}
  BY LocalFacts DEF SalvageSound, Job
<1>2. 1..(job[p].next - 1) \subseteq DOMAIN pointer
  BY <1>1, PointerFacts
<1>3. Entries(v) \subseteq Entries(pointer)
  BY <1>1, <1>2 DEF Entries
<1>4. ASSUME v # NoPointer PROVE v[1] \in Entries(v)
  <2>1. 1 \in DOMAIN v
    BY <1>1, <1>4, EmptySeq, LenProperties DEF NoPointer
  <2>2. QED
    BY <2>1 DEF Entries
<1>5. QED
  BY <1>1, <1>3, <1>4

\* A command that does not move stays sound, whatever the others do: nobody
\* writes the pointer or unlinks a file while it holds the lock, and what is
\* approved meanwhile is added to what it was granted.
LEMMA SoundUntouched ==
    ASSUME IInv, NEW q \in Process, pc'[q] = pc[q], job'[q] = job[q],
           granted[q] \subseteq granted'[q],
           pc[q] \in Validating => Records' \subseteq granted'[q],
           pc[q] \in LockedPhases =>
               /\ UNCHANGED pointer
               /\ \A g \in Generation : disk[g] # None => disk'[g] = disk[g]
    PROVE  Sound(q)'
<1> DEFINE j == job[q]
<1>1. /\ j \in Job /\ LocalsSet(pc[q], j) /\ ReadsHold(pc[q], j)
      /\ SalvageSound(pc[q], j) /\ OnlyGranted(pc[q], j, granted[q])
  BY LocalFacts
<1>2. pc[q] \in LockedPhases =>
          pointer' = pointer /\ \A g \in Entries(pointer) : disk'[g] = disk[g]
  BY PointerFacts
<1>3. ASSUME pc[q] \in {"promote_read", "promote_write"}
      PROVE  disk'[j.gen] = disk[j.gen] /\ disk[j.gen] # None
  <2>1. Stage(pc[q], j) \in Building
    BY <1>3 DEF Stage, Building
  <2>2. QED
    BY <2>1, <1>1, <1>3 DEF ReadsHold, LocalsSet, LockedPhases
<1>4. ASSUME pc[q] = "rollback_write"
      PROVE  disk'[pointer[2]] = disk[pointer[2]]
  <2>1. pointer[2] \in Entries(pointer)
    BY <1>1, <1>4, PointerFacts DEF ReadsHold, Entries
  <2>2. QED
    BY <2>1, <1>2, <1>4 DEF LockedPhases
<1>5. ASSUME pc[q] = "recover_check", j.valid # NoPointer
      PROVE  disk'[j.valid[1]] = disk[j.valid[1]]
  BY <1>2, <1>5, SalvagedFacts DEF LockedPhases
<1>6. LocalsSet(pc[q], job[q])'
  BY <1>1 DEF LocalsSet, Stage
<1>7. ReadsHold(pc[q], job[q])'
  BY <1>1, <1>2, <1>3 DEF ReadsHold, LockedPhases
<1>8. SalvageSound(pc[q], job[q])'
  BY <1>1, <1>2 DEF SalvageSound, LockedPhases
<1>9. OnlyGranted(pc[q], job[q], granted[q])'
  <2>1. pc[q] \in Validating =>
            \A s \in Skill : j.approved[s] # None => <<s, j.approved[s]>> \in granted'[q]
    BY <1>1 DEF OnlyGranted
  <2>2. pc[q] \in {"promote_read", "promote_write"} =>
            BodiesOf(disk'[j.gen].packs) \subseteq granted'[q]
    BY <1>1, <1>3 DEF OnlyGranted
  <2>3. pc[q] = "rollback_write" =>
            /\ pointer'[2] = pointer[2]
            /\ BodiesOf(disk'[pointer[2]].packs) \subseteq granted'[q]
    BY <1>1, <1>2, <1>4 DEF OnlyGranted, LockedPhases
  <2>4. pc[q] = "recover_check" /\ j.valid # NoPointer =>
            BodiesOf(disk'[j.valid[1]].packs) \subseteq granted'[q]
    BY <1>1, <1>5 DEF OnlyGranted
  <2>5. pc[q] = "serving" => BodiesOf(j.served) \subseteq granted'[q]
    BY <1>1 DEF OnlyGranted
  <2>6. QED
    BY <2>1, <2>2, <2>3, <2>4, <2>5 DEF OnlyGranted, BodiesOf
<1>10. QED
  BY <1>6, <1>7, <1>8, <1>9 DEF Sound

\* Names stay fresh in a step of p that starts no compilation.
LEMMA FreshKept ==
    ASSUME IInv, NEW p \in Process,
           \A q \in Process \ {p} : pc'[q] = pc[q] /\ job'[q] = job[q],
           Stage(pc'[p], job'[p]) \in Building =>
               Stage(pc[p], job[p]) \in Building /\ job'[p].gen = job[p].gen,
           Stage(pc'[p], job'[p]) = "compile" => Stage(pc[p], job[p]) = "compile",
           \A q \in Process :
               /\ Stage(pc[q], job[q]) = "compile"
               /\ Stage(pc'[q], job'[q]) = "compile"
               => disk'[job[q].gen] = None,
           \A g \in Entries(pointer') : g \in Entries(pointer) \/ disk[g] # None
    PROVE  \A q \in Process : Fresh(q)'
<1> SUFFICES ASSUME NEW q \in Process, Stage(pc'[q], job'[q]) = "compile"
             PROVE  /\ disk'[job'[q].gen] = None
                    /\ job'[q].gen \notin Entries(pointer')
                    /\ \A r \in Process \ {q} :
                           Stage(pc'[r], job'[r]) \in Building => job'[r].gen # job'[q].gen
  BY DEF Fresh, Stage
<1>1. Stage(pc[q], job[q]) = "compile" /\ job'[q].gen = job[q].gen
  BY DEF Building
<1>2. /\ disk[job[q].gen] = None
      /\ job[q].gen \notin Entries(pointer)
      /\ \A r \in Process \ {q} :
             Stage(pc[r], job[r]) \in Building => job[r].gen # job[q].gen
  BY <1>1 DEF IInv, Fresh
<1>3. QED
  BY <1>1, <1>2

\* p moves to `phase` with locals j and grants b; of what is shared nothing
\* changes but the lock.  All that is left to check is about p itself.
LEMMA LocalStep ==
    ASSUME IInv, NEW p \in Process, NEW phase \in Phases, NEW j \in Job,
           NEW b \in SUBSET (Skill \X Digest),
           pc' = [pc EXCEPT ![p] = phase],
           job' = [job EXCEPT ![p] = j],
           granted' = [granted EXCEPT ![p] = b],
           UNCHANGED <<source, today, approval, disk, pointer>>,
           lock' \in Process \union {None},
           \A q \in Process \ {p} : lock' = q <=> lock = q,
           lock' = p <=> phase \in LockedPhases,
           LocalsSet(phase, j), ReadsHold(phase, j), SalvageSound(phase, j),
           OnlyGranted(phase, j, b),
           Stage(phase, j) \in Building =>
               Stage(pc[p], job[p]) \in Building /\ j.gen = job[p].gen,
           Stage(phase, j) = "compile" => Stage(pc[p], job[p]) = "compile"
    PROVE  IInv'
<1>1. TypeOK /\ PointerSound /\ LockHeld
  BY DEF IInv
<1>2. /\ pc'[p] = phase /\ job'[p] = j /\ granted'[p] = b
      /\ \A q \in Process \ {p} :
             pc'[q] = pc[q] /\ job'[q] = job[q] /\ granted'[q] = granted[q]
  BY <1>1 DEF TypeOK
<1>3. TypeOK'
  BY <1>1 DEF TypeOK
<1>4. PointerSound'
  BY <1>1 DEF PointerSound, Distinct, Entries
<1>5. LockHeld'
  BY <1>1, <1>2 DEF LockHeld
<1>6. Records' = Records
  BY DEF Records
<1>7. Sound(p)'
  <2>1. /\ LocalsSet(pc'[p], job'[p]) /\ ReadsHold(pc'[p], job'[p])
        /\ SalvageSound(pc'[p], job'[p]) /\ OnlyGranted(pc'[p], job'[p], granted'[p])
    BY <1>2
  <2>2. LocalsSet(pc[p], job[p])'
    BY <2>1 DEF LocalsSet, Stage
  <2>3. ReadsHold(pc[p], job[p])'
    BY <2>1 DEF ReadsHold
  <2>4. SalvageSound(pc[p], job[p])'
    BY <2>1 DEF SalvageSound
  <2>5. OnlyGranted(pc[p], job[p], granted[p])'
    BY <2>1, <1>6 DEF OnlyGranted, BodiesOf
  <2>6. QED
    BY <2>2, <2>3, <2>4, <2>5 DEF Sound
<1>8. ASSUME NEW q \in Process \ {p} PROVE Sound(q)'
  <2>1. q \in Process /\ (pc[q] \in Validating => Records \subseteq granted[q])
    BY LocalFacts DEF OnlyGranted
  <2>2. QED
    BY <2>1, <1>2, <1>6, SoundUntouched
<1>9. \A q \in Process : Fresh(q)'
  <2>1. \A q \in Process : Stage(pc[q], job[q]) = "compile" => disk'[job[q].gen] = None
    BY DEF IInv, Fresh
  <2>2. QED
    BY <2>1, <1>2, FreshKept
<1>10. QED
  BY <1>3, <1>4, <1>5, <1>7, <1>8, <1>9 DEF IInv

\* A record of no job at all satisfies the local conditions of every phase a
\* command rests in.
LEMMA NoJobSound ==
    /\ NoJob \in Job
    /\ \A b : \A phase \in {"idle"} :
           LocalsSet(phase, NoJob) /\ ReadsHold(phase, NoJob)
           /\ SalvageSound(phase, NoJob) /\ OnlyGranted(phase, NoJob, b)
    /\ Stage("idle", NoJob) = "idle"
<1>1. NoJob \in Job
  <2>1. << >> \in Seq(Generation)
    BY EmptySeq
  <2>2. QED
    BY <2>1 DEF NoJob, Job, NoPointer, NoApprovals, Thens, Warnings
<1>2. Stage("idle", NoJob) = "idle"
  BY DEF Stage
<1>3. QED
  BY <1>1, <1>2 DEF LocalsSet, ReadsHold, SalvageSound, OnlyGranted, Building,
     Validating, Thens, LockedPhases

\* The phases of the lifecycle, and which of them hold the lock or build.
LEMMA PhaseFacts ==
    /\ Phases = {"promote_read", "promote_write", "rollback_write",
                 "recover_check", "prune", "none", "compile", "promote",
                 "rollback", "recover", "open", "idle", "list", "read",
                 "digests", "approving", "prune_wait", "opening", "serving"}
    /\ Validating = Phases \ {"prune", "idle", "digests", "approving",
                              "prune_wait", "serving"}
BY DEF Phases, LockedPhases, Thens, Validating

\* A command that ends, fails or dies leaves the invariant alone.
LEMMA ReturnStep ==
    ASSUME IInv, NEW p \in Process, Return(p),
           UNCHANGED <<source, today, approval, disk, pointer>>
    PROVE  IInv'
<1>1. /\ TypeOK /\ None \notin Process /\ "idle" \in Phases
      /\ "idle" \notin LockedPhases /\ "idle" \notin Building
  BY SkillLifecycleAssumption, PhaseFacts DEF IInv, LockedPhases, Building
<1>2. /\ lock' \in Process \union {None} /\ lock' # p
      /\ \A q \in Process \ {p} : lock' = q <=> lock = q
  BY <1>1 DEF Return, TypeOK
<1>3. /\ pc' = [pc EXCEPT ![p] = "idle"] /\ job' = [job EXCEPT ![p] = NoJob]
      /\ granted' = [granted EXCEPT ![p] = {}]
  BY DEF Return, Goto
<1>4. /\ LocalsSet("idle", NoJob) /\ ReadsHold("idle", NoJob)
      /\ SalvageSound("idle", NoJob) /\ OnlyGranted("idle", NoJob, {})
      /\ Stage("idle", NoJob) \notin Building /\ NoJob \in Job
  BY <1>1, NoJobSound
<1>5. Stage("idle", NoJob) # "compile"
  BY NoJobSound
<1>6. QED
  BY <1>1, <1>2, <1>3, <1>4, <1>5, LocalStep

\* A step of p that neither takes nor holds the lock and changes nothing shared.
LEMMA UnlockedStep ==
    ASSUME IInv, NEW p \in Process, NEW phase \in Phases \ LockedPhases,
           NEW j \in Job, NEW b \in SUBSET (Skill \X Digest),
           pc[p] \notin LockedPhases,
           pc' = [pc EXCEPT ![p] = phase],
           job' = [job EXCEPT ![p] = j],
           granted' = [granted EXCEPT ![p] = b],
           UNCHANGED <<source, today, approval, disk, pointer, lock>>,
           LocalsSet(phase, j), OnlyGranted(phase, j, b),
           Stage(phase, j) \in Building =>
               Stage(pc[p], job[p]) \in Building /\ j.gen = job[p].gen,
           Stage(phase, j) = "compile" => Stage(pc[p], job[p]) = "compile"
    PROVE  IInv'
<1>1. /\ lock' \in Process \union {None} /\ lock' # p
      /\ \A q \in Process \ {p} : lock' = q <=> lock = q
  BY LocalFacts DEF IInv, TypeOK
<1>2. ReadsHold(phase, j) /\ SalvageSound(phase, j)
  BY DEF ReadsHold, SalvageSound, LockedPhases
<1>3. QED
  BY <1>1, <1>2, LocalStep

\* A step of p that takes the lock and changes nothing else that is shared.
LEMMA AcquireStep ==
    ASSUME IInv, NEW p \in Process, NEW phase \in LockedPhases, NEW j \in Job,
           pc' = [pc EXCEPT ![p] = phase],
           job' = [job EXCEPT ![p] = j],
           Acquire(p),
           UNCHANGED <<source, today, approval, disk, pointer, granted>>,
           LocalsSet(phase, j), ReadsHold(phase, j), SalvageSound(phase, j),
           OnlyGranted(phase, j, granted[p]),
           phase \in Building =>
               Stage(pc[p], job[p]) \in Building /\ j.gen = job[p].gen
    PROVE  IInv'
<1>1. TypeOK /\ None \notin Process /\ phase \in Phases
  BY SkillLifecycleAssumption DEF IInv, Phases
<1>2. /\ lock' \in Process \union {None} /\ lock' = p
      /\ \A q \in Process \ {p} : lock' = q <=> lock = q
  BY <1>1 DEF Acquire
<1>3. granted' = [granted EXCEPT ![p] = granted[p]] /\ granted[p] \in SUBSET (Skill \X Digest)
  BY <1>1 DEF TypeOK
<1>4. Stage(phase, j) = phase /\ phase # "compile"
  BY DEF Stage, LockedPhases
<1>5. QED
  BY <1>1, <1>2, <1>3, <1>4, LocalStep

--------------------------------------------------------------------------------
(* Starting a command.                                                     *)

\* The records are approvals, and a command begins with all of them granted.
LEMMA RecordsFacts ==
    ASSUME TypeOK
    PROVE  Records \in SUBSET (Skill \X Digest)
BY DEF TypeOK, Records

\* What a command that begins knows: nothing but what it loads approvals for.
LEMMA BeginFacts ==
    ASSUME IInv, NEW then \in Thens \ {"none"}, NEW j \in Job,
           j.then = then, j.approved = NoApprovals, j.served = {},
           then = "recover" => j.next = 1 /\ j.valid = NoPointer,
           then \in Building => j.gen \in Generation
    PROVE  /\ Stage("list", j) = then
           /\ LocalsSet("list", j) /\ OnlyGranted("list", j, Records)
<1>1. Stage("list", j) = then /\ then # "opening"
  BY DEF Stage, Thens
<1>2. LocalsSet("list", j)
  BY <1>1 DEF LocalsSet
<1>3. \A s \in Skill : j.approved[s] = None
  BY DEF NoApprovals
<1>4. OnlyGranted("list", j, Records)
  BY <1>3 DEF OnlyGranted
<1>5. QED
  BY <1>1, <1>2, <1>4

LEMMA BeginStep ==
    ASSUME IInv, NEW p \in Process, NEW then \in {"rollback", "recover", "open"},
           Begin(p, [NoJob EXCEPT !.then = then])
    PROVE  IInv'
<1> DEFINE j == [NoJob EXCEPT !.then = then]
<1>1. TypeOK /\ then \in Thens \ {"none"} /\ then \notin Building
  BY DEF IInv, Thens, Building
<1>2. /\ j \in Job /\ j.then = then /\ j.approved = NoApprovals
      /\ j.next = 1 /\ j.valid = NoPointer /\ j.served = {}
  BY <1>1, NoJobSound DEF Job, NoJob
<1>3. /\ pc[p] = "idle" /\ pc' = [pc EXCEPT ![p] = "list"]
      /\ job' = [job EXCEPT ![p] = j]
      /\ granted' = [granted EXCEPT ![p] = Records]
      /\ UNCHANGED <<source, today, approval, disk, pointer, lock>>
  BY DEF Begin, Goto, env, store
<1> HIDE DEF j
<1>4. /\ LocalsSet("list", j) /\ OnlyGranted("list", j, Records)
      /\ Stage("list", j) = then
  BY <1>1, <1>2, BeginFacts
<1>5. "list" \in Phases \ LockedPhases /\ "idle" \notin LockedPhases
  BY PhaseFacts DEF LockedPhases
<1>6. Records \in SUBSET (Skill \X Digest) /\ then # "compile"
  BY <1>1, RecordsFacts
<1>7. QED
  BY <1>1, <1>2, <1>3, <1>4, <1>5, <1>6, UnlockedStep

\* The only step that takes a new name; nothing mentions it yet.
LEMMA StartActivateStep ==
    ASSUME IInv, NEW p \in Process, NEW sources \in SUBSET Candidate,
           StartActivate(p, sources)
    PROVE  IInv'
<1>1. TypeOK /\ PointerSound /\ LockHeld
  BY DEF IInv
<1>2. PICK g \in NewNames :
          Begin(p, [NoJob EXCEPT !.then = "compile", !.sources = sources, !.gen = g])
  BY DEF StartActivate
<1> DEFINE j == [NoJob EXCEPT !.then = "compile", !.sources = sources, !.gen = g]
<1>3. /\ g \in Generation /\ disk[g] = None /\ g \notin Entries(pointer)
      /\ \A q \in Process : job[q].gen # g
  BY DEF NewNames, Mentioned
<1>4. /\ j \in Job /\ j.then = "compile" /\ j.approved = NoApprovals /\ j.gen = g
      /\ j.served = {}
  <2>1. j \in Job
    BY <1>3, NoJobSound DEF Job, Thens
  <2>2. j.then = "compile" /\ j.approved = NoApprovals /\ j.gen = g /\ j.served = {}
    BY DEF NoJob
  <2>3. QED
    BY <2>1, <2>2
<1>5. /\ pc[p] = "idle" /\ pc' = [pc EXCEPT ![p] = "list"]
      /\ job' = [job EXCEPT ![p] = j]
      /\ granted' = [granted EXCEPT ![p] = Records]
      /\ UNCHANGED <<source, today, approval, disk, pointer, lock>>
  BY <1>2 DEF Begin, Goto, env, store
<1> HIDE DEF j
<1>6. /\ LocalsSet("list", j) /\ OnlyGranted("list", j, Records)
      /\ Stage("list", j) = "compile"
  BY <1>3, <1>4, BeginFacts DEF Thens
<1>7. Records \in SUBSET (Skill \X Digest) /\ Records' = Records
  BY <1>1, <1>5, RecordsFacts DEF Records
<1>8. /\ pc'[p] = "list" /\ job'[p] = j /\ granted'[p] = Records
      /\ \A q \in Process \ {p} :
             pc'[q] = pc[q] /\ job'[q] = job[q] /\ granted'[q] = granted[q]
  BY <1>1, <1>5 DEF TypeOK
<1>9. TypeOK'
  BY <1>1, <1>4, <1>5, <1>7, PhaseFacts DEF TypeOK
<1>10. PointerSound' /\ LockHeld'
  BY <1>1, <1>5, <1>8 DEF PointerSound, Distinct, Entries, LockHeld, LockedPhases
<1>11. ASSUME NEW q \in Process PROVE Sound(q)'
  <2>1. CASE q = p
    <3>1. LocalsSet(pc'[p], job'[p]) /\ OnlyGranted(pc'[p], job'[p], granted'[p])
      BY <1>6, <1>8
    <3>2. LocalsSet(pc[p], job[p])'
      BY <3>1 DEF LocalsSet, Stage
    <3>3. OnlyGranted(pc[p], job[p], granted[p])'
      BY <3>1, <1>5, <1>7 DEF OnlyGranted, BodiesOf
    <3>4. ReadsHold(pc[p], job[p])' /\ SalvageSound(pc[p], job[p])'
      BY <1>8 DEF ReadsHold, SalvageSound
    <3>5. QED
      BY <2>1, <3>2, <3>3, <3>4 DEF Sound
  <2>2. CASE q # p
    <3>1. pc[q] \in Validating => Records' \subseteq granted'[q]
      BY <1>7, <1>8, <2>2, LocalFacts DEF OnlyGranted
    <3>2. QED
      BY <2>2, <3>1, <1>5, <1>8, SoundUntouched
  <2>3. QED
    BY <2>1, <2>2
<1>12. ASSUME NEW q \in Process PROVE Fresh(q)'
  <2>1. CASE q = p
    <3>1. \A r \in Process \ {p} : job'[r].gen # g
      BY <1>3, <1>8
    <3>2. QED
      BY <2>1, <3>1, <1>3, <1>4, <1>5, <1>8 DEF Fresh
  <2>2. CASE q # p
    <3>1. Stage(pc[q], job[q])' = Stage(pc[q], job[q]) /\ job'[q].gen = job[q].gen
      BY <1>8, <2>2 DEF Stage
    <3>2. Fresh(q) /\ job[q].gen # g
      BY <1>3 DEF IInv
    <3>3. \A r \in Process \ {q} : r # p => Stage(pc[r], job[r])' = Stage(pc[r], job[r])
      BY <1>8 DEF Stage
    <3>4. QED
      BY <3>1, <3>2, <3>3, <1>4, <1>5, <1>8, <2>2 DEF Fresh
  <2>3. QED
    BY <2>1, <2>2
<1>13. QED
  BY <1>9, <1>10, <1>11, <1>12 DEF IInv

\* A prune waits for the lock; it validates nothing.
LEMMA StartPruneStep ==
    ASSUME IInv, NEW p \in Process, StartPrune(p)
    PROVE  IInv'
<1>1. /\ TypeOK /\ pc[p] = "idle" /\ job[p] \in Job
      /\ granted[p] \in SUBSET (Skill \X Digest)
  BY LocalFacts DEF IInv, StartPrune
<1>2. /\ pc' = [pc EXCEPT ![p] = "prune_wait"]
      /\ job' = [job EXCEPT ![p] = job[p]]
      /\ granted' = [granted EXCEPT ![p] = granted[p]]
      /\ UNCHANGED <<source, today, approval, disk, pointer, lock>>
  BY <1>1 DEF StartPrune, Goto, TypeOK, env, store
<1>3. "prune_wait" \in Phases \ LockedPhases /\ "idle" \notin LockedPhases
  BY PhaseFacts DEF LockedPhases
<1>4. /\ Stage("prune_wait", job[p]) = "prune_wait"
      /\ "prune_wait" \notin Building \union {"opening", "recover"}
  BY DEF Stage, Building
<1>5. LocalsSet("prune_wait", job[p]) /\ OnlyGranted("prune_wait", job[p], granted[p])
  BY <1>4, PhaseFacts DEF LocalsSet, OnlyGranted
<1>6. QED
  BY <1>1, <1>2, <1>3, <1>4, <1>5, UnlockedStep DEF Building

--------------------------------------------------------------------------------
(* Granting and revoking, and the environment.                             *)

\* No command moves, no file changes and no approval appears.
LEMMA EnvironmentStep ==
    ASSUME IInv, TypeOK', UNCHANGED <<disk, pointer, lock, pc, job, granted>>,
           Records' \subseteq Records
    PROVE  IInv'
<1>1. PointerSound' /\ LockHeld'
  BY DEF IInv, PointerSound, Distinct, Entries, LockHeld
<1>2. ASSUME NEW q \in Process PROVE Sound(q)'
  <2>1. pc[q] \in Validating => Records \subseteq granted[q]
    BY LocalFacts DEF OnlyGranted
  <2>2. QED
    BY <2>1, SoundUntouched
<1>3. ASSUME NEW q \in Process PROVE Fresh(q)'
  <2>1. \A r \in Process : Stage(pc[r], job[r]) = "compile" => disk'[job[r].gen] = None
    BY DEF IInv, Fresh
  <2>2. QED
    BY <2>1, FreshKept
<1>4. QED
  BY <1>1, <1>2, <1>3 DEF IInv

LEMMA RevokeStep ==
    ASSUME IInv, NEW s \in Skill, Revoke(s)
    PROVE  IInv'
<1>1. TypeOK /\ UNCHANGED <<source, today, disk, pointer, lock, pc, job, granted>>
  BY DEF IInv, Revoke, env, store
<1>2. \A t \in Skill : approval'[t] \in {approval[t], None}
  BY <1>1 DEF Revoke, TypeOK
<1>3. TypeOK'
  BY <1>1 DEF Revoke, TypeOK
<1>4. Records' \subseteq Records
  BY <1>2 DEF Records
<1>5. QED
  BY <1>1, <1>3, <1>4, EnvironmentStep

LEMMA EditStep ==
    ASSUME IInv, (\E c \in Candidate : EditCandidate(c)) \/ Tomorrow \/ UNCHANGED vars
    PROVE  IInv'
<1>1. TypeOK /\ UNCHANGED <<approval, disk, pointer, lock, pc, job, granted>>
  BY DEF IInv, EditCandidate, Tomorrow, vars, store
<1>2. source' \in [Candidate -> Pack] /\ today' \in 0..MaxDay
  BY <1>1, SkillLifecycleAssumption DEF EditCandidate, Tomorrow, vars, TypeOK
<1>3. TypeOK'
  BY <1>1, <1>2 DEF TypeOK
<1>4. Records' = Records
  BY <1>1 DEF Records
<1>5. QED
  BY <1>1, <1>3, <1>4, EnvironmentStep

\* A command that approves validates nothing: its grants do not matter.
LEMMA ApprovingStep ==
    ASSUME IInv, NEW p \in Process, NEW phase \in {"digests", "approving"},
           NEW j \in Job, pc[p] \notin LockedPhases,
           pc' = [pc EXCEPT ![p] = phase],
           job' = [job EXCEPT ![p] = j],
           UNCHANGED <<source, today, approval, disk, pointer, lock, granted>>,
           phase = "approving" => \A s \in j.todo : j.bodies[s] \in Digest
    PROVE  IInv'
<1>1. TypeOK /\ granted[p] \in SUBSET (Skill \X Digest)
  BY LocalFacts DEF IInv
<1>2. phase \in Phases \ LockedPhases /\ phase \notin Validating
  BY PhaseFacts DEF LockedPhases
<1>3. /\ Stage(phase, j) = phase
      /\ phase \notin Building \union {"opening", "recover", "list", "read",
                                       "recover_check", "rollback_write", "serving"}
  BY DEF Stage, Building
<1>4. LocalsSet(phase, j)
  BY <1>2, <1>3 DEF LocalsSet
<1>5. OnlyGranted(phase, j, granted[p])
  BY <1>2, <1>3 DEF OnlyGranted, Building
<1>6. granted' = [granted EXCEPT ![p] = granted[p]]
  BY <1>1 DEF TypeOK
<1>7. QED
  BY <1>1, <1>2, <1>3, <1>4, <1>5, <1>6, UnlockedStep DEF Building

LEMMA AnalyzeCandidateStep ==
    ASSUME IInv, NEW p \in Process, NEW c \in Candidate, AnalyzeCandidate(p, c)
    PROVE  IInv'
<1> DEFINE j == [NoJob EXCEPT !.sources = {c}, !.pack = source[c]]
<1>1. TypeOK /\ pc[p] = "idle" /\ source[c] \in Pack
  BY DEF IInv, AnalyzeCandidate, TypeOK
<1>2. j \in Job
  BY <1>1, NoJobSound DEF Job
<1>3. /\ pc' = [pc EXCEPT ![p] = "digests"] /\ job' = [job EXCEPT ![p] = j]
      /\ UNCHANGED <<source, today, approval, disk, pointer, lock, granted>>
  BY DEF AnalyzeCandidate, Goto, env, store
<1> HIDE DEF j
<1>4. QED
  BY <1>1, <1>2, <1>3, ApprovingStep DEF LockedPhases

LEMMA BodyDigestsStep ==
    ASSUME IInv, NEW p \in Process, BodyDigests(p)
    PROVE  IInv'
<1>1. PICK c \in job[p].sources :
          LET declared == Bodies[source[c]] IN
          job' = [job EXCEPT ![p].bodies = [s \in Skill |-> IF s \in DOMAIN declared
                                                          THEN declared[s] ELSE None],
                             ![p].todo = DOMAIN declared]
  BY DEF BodyDigests
<1> DEFINE declared == Bodies[source[c]]
           bodies == [s \in Skill |-> IF s \in DOMAIN declared THEN declared[s] ELSE None]
           j == [job[p] EXCEPT !.bodies = bodies, !.todo = DOMAIN declared]
<1>2. /\ TypeOK /\ pc[p] = "digests" /\ job[p] \in Job /\ c \in Candidate
      /\ pc' = [pc EXCEPT ![p] = "approving"]
      /\ UNCHANGED <<source, today, approval, disk, pointer, lock, granted>>
  BY LocalFacts DEF IInv, BodyDigests, Job, Goto, env, store
<1>3. /\ DOMAIN declared \subseteq Skill
      /\ \A s \in DOMAIN declared : declared[s] \in Digest
  BY <1>2, SkillLifecycleAssumption DEF TypeOK
<1> HIDE DEF declared
<1>4. /\ bodies \in [Skill -> Digest \union {None}]
      /\ \A s \in DOMAIN declared : bodies[s] \in Digest
  BY <1>3
<1>5. job' = [job EXCEPT ![p] = j]
  BY <1>1 DEF declared
<1> HIDE DEF bodies
<1>6. j \in Job /\ j.todo = DOMAIN declared /\ j.bodies = bodies
  BY <1>2, <1>3, <1>4 DEF Job
<1> HIDE DEF j
<1>7. QED
  BY <1>2, <1>4, <1>5, <1>6, ApprovingStep DEF LockedPhases

\* A record is replaced; every command that still validates is granted it.
LEMMA WriteApprovalStep ==
    ASSUME IInv, NEW p \in Process, NEW s \in Skill, WriteApproval(p, s)
    PROVE  IInv'
<1> DEFINE d == job[p].bodies[s]
<1>1. /\ TypeOK /\ pc[p] = "approving" /\ job[p] \in Job /\ s \in job[p].todo
      /\ d \in Digest
  BY LocalFacts DEF IInv, WriteApproval, LocalsSet
<1>2. /\ UNCHANGED <<source, today, disk, pointer, lock, pc>>
      /\ approval' = [approval EXCEPT ![s] = d]
      /\ job' = [job EXCEPT ![p].todo = @ \ {s}]
      /\ granted' = [q \in Process |-> IF pc[q] \in Validating
                                       THEN granted[q] \union {<<s, d>>}
                                       ELSE granted[q]]
  BY DEF WriteApproval, env, store
<1> HIDE DEF d
<1>3. /\ job'[p] = [job[p] EXCEPT !.todo = @ \ {s}] /\ job'[p] \in Job
      /\ \A q \in Process \ {p} : job'[q] = job[q]
  BY <1>1, <1>2 DEF TypeOK, Job
<1>4. TypeOK'
  <2>1. job' \in [Process -> Job]
    BY <1>2, <1>3 DEF IInv, TypeOK
  <2>2. granted' \in [Process -> SUBSET (Skill \X Digest)]
    BY <1>1, <1>2 DEF TypeOK
  <2>3. approval' \in [Skill -> Digest \union {None}]
    BY <1>1, <1>2 DEF TypeOK
  <2>4. QED
    BY <1>1, <1>2, <2>1, <2>2, <2>3 DEF TypeOK
<1>5. PointerSound' /\ LockHeld'
  BY <1>2 DEF IInv, PointerSound, Distinct, Entries, LockHeld
<1>6. Records' \subseteq Records \union {<<s, d>>}
  BY <1>1, <1>2 DEF Records, TypeOK
<1>7. \A q \in Process : /\ granted[q] \subseteq granted'[q]
                         /\ pc[q] \in Validating => <<s, d>> \in granted'[q]
  BY <1>2
<1>8. ASSUME NEW q \in Process \ {p} PROVE Sound(q)'
  <2>1. q \in Process /\ (pc[q] \in Validating => Records \subseteq granted[q])
    BY LocalFacts DEF OnlyGranted
  <2>2. pc[q] \in Validating => Records' \subseteq granted'[q]
    BY <2>1, <1>6, <1>7
  <2>3. QED
    BY <2>1, <2>2, <1>2, <1>3, <1>7, SoundUntouched
<1>9. Sound(p)'
  <2>1. /\ pc'[p] = "approving"
        /\ \A t \in job'[p].todo : job'[p].bodies[t] \in Digest
    <3>1. /\ job'[p].todo \subseteq job[p].todo /\ job'[p].bodies = job[p].bodies
      BY <1>1, <1>3 DEF Job
    <3>2. QED
      BY <3>1, <1>1, <1>2, LocalFacts DEF LocalsSet
  <2>2. "approving" \notin Validating
    BY PhaseFacts
  <2>3. LocalsSet(pc[p], job[p])'
    BY <2>1, <2>2 DEF LocalsSet, Stage, Building
  <2>4. (ReadsHold(pc[p], job[p]) /\ SalvageSound(pc[p], job[p]))'
    BY <2>1 DEF ReadsHold, SalvageSound
  <2>5. OnlyGranted(pc[p], job[p], granted[p])'
    BY <2>1, <2>2 DEF OnlyGranted
  <2>6. QED
    BY <2>3, <2>4, <2>5 DEF Sound
<1>10. \A q \in Process : Fresh(q)'
  <2>1. Stage(pc'[p], job'[p]) = "approving"
    BY <1>1, <1>2 DEF Stage
  <2>2. \A q \in Process : Stage(pc[q], job[q]) = "compile" => disk'[job[q].gen] = None
    BY <1>2 DEF IInv, Fresh
  <2>3. QED
    BY <2>1, <2>2, <1>2, <1>3, FreshKept DEF Building
<1>11. QED
  BY <1>4, <1>5, <1>8, <1>9, <1>10 DEF IInv

--------------------------------------------------------------------------------
(* Loading the approvals.                                                  *)

\* p goes on with what it began, having loaded only what it was granted.
LEMMA LoadingStep ==
    ASSUME IInv, NEW p \in Process, pc[p] \in {"list", "read"},
           NEW phase \in {"read"} \union (Thens \ {"none"}), NEW j \in Job,
           pc' = [pc EXCEPT ![p] = phase],
           job' = [job EXCEPT ![p] = j],
           UNCHANGED <<source, today, approval, disk, pointer, lock, granted>>,
           Stage(phase, j) = Stage(pc[p], job[p]),
           phase = "read" => j.then # "none",
           j.gen = job[p].gen, j.next = job[p].next, j.valid = job[p].valid,
           j.served = job[p].served,
           \A s \in Skill : j.approved[s] # None => <<s, j.approved[s]>> \in granted[p]
    PROVE  IInv'
<1>1. /\ TypeOK /\ granted[p] \in SUBSET (Skill \X Digest)
      /\ LocalsSet(pc[p], job[p]) /\ OnlyGranted(pc[p], job[p], granted[p])
  BY LocalFacts DEF IInv
<1>2. /\ phase \in Phases \ LockedPhases /\ phase \in Validating
      /\ pc[p] \in Validating /\ pc[p] \notin LockedPhases
  BY PhaseFacts DEF Thens, LockedPhases
<1>3. LocalsSet(phase, j)
  BY <1>1, <1>2 DEF LocalsSet, Thens
<1>4. OnlyGranted(phase, j, granted[p])
  BY <1>1, <1>2 DEF OnlyGranted, LockedPhases, Thens
<1>5. granted' = [granted EXCEPT ![p] = granted[p]]
  BY <1>1 DEF TypeOK
<1>6. QED
  BY <1>1, <1>2, <1>3, <1>4, <1>5, UnlockedStep

LEMMA ListApprovalsStep ==
    ASSUME IInv, NEW p \in Process, ListApprovals(p)
    PROVE  IInv'
<1> DEFINE listed == {s \in Skill : approval[s] # None}
           j == [job[p] EXCEPT !.todo = listed, !.approved = NoApprovals]
<1>1. /\ TypeOK /\ pc[p] = "list" /\ job[p] \in Job /\ LocalsSet(pc[p], job[p])
      /\ pc' = [pc EXCEPT ![p] = "read"]
      /\ UNCHANGED <<source, today, approval, disk, pointer, lock, granted>>
  BY LocalFacts DEF IInv, ListApprovals, Goto, env, store
<1>2. /\ j \in Job /\ j.then = job[p].then /\ j.approved = NoApprovals
      /\ j.gen = job[p].gen /\ j.next = job[p].next /\ j.valid = job[p].valid
      /\ j.served = job[p].served
  BY <1>1 DEF Job, NoApprovals
<1>3. job' = [job EXCEPT ![p] = j]
  BY DEF ListApprovals
<1> HIDE DEF j
<1>4. /\ Stage("read", j) = Stage(pc[p], job[p]) /\ j.then # "none"
      /\ \A s \in Skill : j.approved[s] = None
  BY <1>1, <1>2 DEF Stage, LocalsSet, NoApprovals
<1>5. QED
  BY <1>1, <1>2, <1>3, <1>4, LoadingStep

LEMMA ReadApprovalStep ==
    ASSUME IInv, NEW p \in Process, NEW s \in Skill, ReadApproval(p, s)
    PROVE  IInv'
<1> DEFINE read == [job[p].approved EXCEPT ![s] = approval[s]]
           rest == job[p].todo \ {s}
           j == [job[p] EXCEPT !.approved = read, !.todo = rest]
<1>1. /\ TypeOK /\ pc[p] = "read" /\ job[p] \in Job /\ LocalsSet(pc[p], job[p])
      /\ OnlyGranted(pc[p], job[p], granted[p])
      /\ UNCHANGED <<source, today, approval, disk, pointer>>
  BY LocalFacts DEF IInv, ReadApproval, env, store
<1>2. CASE Return(p)
  BY <1>1, <1>2, ReturnStep
<1>3. CASE ~Return(p)
  <2>1. /\ approval[s] # None /\ UNCHANGED <<lock, pc, granted>>
        /\ job' = [job EXCEPT ![p] = j]
    BY <1>1, <1>3 DEF ReadApproval, TypeOK
  <2>2. read \in [Skill -> Digest \union {None}] /\ rest \in SUBSET Skill
    BY <1>1 DEF TypeOK, Job
  <2>3. \A t \in Skill : read[t] # None => <<t, read[t]>> \in granted[p]
    <3>1. <<s, approval[s]>> \in granted[p]
      BY <1>1, <2>1, PhaseFacts DEF OnlyGranted, Records
    <3>2. \A t \in Skill \ {s} : read[t] = job[p].approved[t]
      BY <1>1 DEF Job
    <3>3. read[s] = approval[s]
      BY <1>1 DEF Job
    <3>4. \A t \in Skill : job[p].approved[t] # None =>
              <<t, job[p].approved[t]>> \in granted[p]
      BY <1>1, PhaseFacts DEF OnlyGranted
    <3>5. QED
      BY <3>1, <3>2, <3>3, <3>4
  <2> HIDE DEF read, rest
  <2>4. /\ j \in Job /\ j.then = job[p].then /\ j.approved = read
        /\ j.gen = job[p].gen /\ j.next = job[p].next /\ j.valid = job[p].valid
      /\ j.served = job[p].served
    BY <1>1, <2>2 DEF Job
  <2> HIDE DEF j
  <2>5. Stage("read", j) = Stage(pc[p], job[p]) /\ j.then # "none"
    BY <1>1, <2>4 DEF Stage, LocalsSet
  <2>6. pc' = [pc EXCEPT ![p] = "read"]
    BY <1>1, <2>1 DEF TypeOK
  <2>7. QED
    BY <1>1, <2>1, <2>3, <2>4, <2>5, <2>6, LoadingStep
<1>4. QED
  BY <1>2, <1>3

LEMMA ApprovalsLoadedStep ==
    ASSUME IInv, NEW p \in Process, ApprovalsLoaded(p)
    PROVE  IInv'
<1> DEFINE j == [job[p] EXCEPT !.then = "none"]
           phase == job[p].then
<1>1. /\ TypeOK /\ pc[p] = "read" /\ job[p] \in Job /\ LocalsSet(pc[p], job[p])
      /\ OnlyGranted(pc[p], job[p], granted[p])
      /\ pc' = [pc EXCEPT ![p] = phase] /\ job' = [job EXCEPT ![p] = j]
      /\ UNCHANGED <<source, today, approval, disk, pointer, lock, granted>>
  BY LocalFacts DEF IInv, ApprovalsLoaded, Goto, env, store
<1>2. phase \in Thens \ {"none"} /\ phase \notin {"list", "read"}
  BY <1>1 DEF LocalsSet, Job, Thens
<1>3. /\ j \in Job /\ j.approved = job[p].approved
      /\ j.gen = job[p].gen /\ j.next = job[p].next /\ j.valid = job[p].valid
      /\ j.served = job[p].served
  BY <1>1 DEF Job, Thens
<1>4. Stage(phase, j) = Stage(pc[p], job[p])
  BY <1>1, <1>2 DEF Stage
<1>5. \A s \in Skill : j.approved[s] # None => <<s, j.approved[s]>> \in granted[p]
  BY <1>1, <1>3, PhaseFacts DEF OnlyGranted
<1> HIDE DEF j, phase
<1>6. QED
  BY <1>1, <1>2, <1>3, <1>4, <1>5, LoadingStep

--------------------------------------------------------------------------------
(* Compiling and promoting.                                                *)

\* What validates under the approvals a command has loaded was granted to it.
LEMMA ApprovedIsGranted ==
    ASSUME IInv, NEW p \in Process, pc[p] \in Validating,
           NEW packs \in SUBSET Pack, Approved(packs, job[p].approved)
    PROVE  BodiesOf(packs) \subseteq granted[p]
<1> SUFFICES ASSUME NEW k \in packs, NEW s \in DOMAIN Bodies[k]
             PROVE  <<s, Bodies[k][s]>> \in granted[p]
  BY DEF BodiesOf
<1>1. s \in Skill /\ Bodies[k][s] \in Digest /\ Bodies[k][s] # None
  BY SkillLifecycleAssumption
<1>2. <<s, Bodies[k][s]>> \in BodiesOf(packs)
  BY DEF BodiesOf
<1>3. job[p].approved[s] = Bodies[k][s]
  BY <1>2 DEF Approved
<1>4. QED
  BY <1>1, <1>3, LocalFacts DEF OnlyGranted

LEMMA OpensIsGranted ==
    ASSUME IInv, NEW p \in Process, pc[p] \in Validating,
           NEW g \in Generation, Opens(g, job[p].approved)
    PROVE  disk[g] # None /\ BodiesOf(disk[g].packs) \subseteq granted[p]
<1>1. disk[g] # None /\ Approved(disk[g].packs, job[p].approved)
  BY DEF Opens, Valid
<1>2. disk[g].packs \in SUBSET Pack
  BY <1>1 DEF IInv, TypeOK, Bundle
<1>3. QED
  BY <1>1, <1>2, ApprovedIsGranted

\* A compiled generation is a new file under a fresh name; the command starts
\* loading the approvals over again.
LEMMA CompileStep ==
    ASSUME IInv, NEW p \in Process, Compile(p)
    PROVE  IInv'
<1> DEFINE g == job[p].gen
           file == [packs |-> {source[c] : c \in job[p].sources}]
           j == [NoJob EXCEPT !.then = "promote", !.gen = g]
<1>1. /\ TypeOK /\ PointerSound /\ LockHeld /\ pc[p] = "compile" /\ job[p] \in Job
      /\ LocalsSet(pc[p], job[p]) /\ OnlyGranted(pc[p], job[p], granted[p])
      /\ UNCHANGED <<source, today, approval, pointer>>
  BY LocalFacts DEF IInv, Compile, env
<1>2. CASE Return(p) /\ UNCHANGED disk
  BY <1>1, <1>2, ReturnStep
<1>3. CASE ~(Return(p) /\ UNCHANGED disk)
  <2>1. /\ disk' = [disk EXCEPT ![g] = file] /\ job' = [job EXCEPT ![p] = j]
        /\ pc' = [pc EXCEPT ![p] = "list"] /\ UNCHANGED <<lock, granted>>
    BY <1>3 DEF Compile, Goto
  <2>2. Stage(pc[p], job[p]) = "compile" /\ "compile" \in Building
    BY <1>1 DEF Stage, Building
  <2>3. /\ g \in Generation /\ disk[g] = None /\ g \notin Entries(pointer)
        /\ \A q \in Process \ {p} : Stage(pc[q], job[q]) \in Building => job[q].gen # g
    BY <1>1, <2>2 DEF IInv, Fresh, LocalsSet
  <2>4. file \in Bundle
    BY <1>1 DEF TypeOK, Job, Bundle
  <2>5. /\ j \in Job /\ j.then = "promote" /\ j.gen = g
        /\ j.approved = NoApprovals /\ j.served = {}
    <3>1. j \in Job
      BY <2>3, NoJobSound DEF Job, Thens
    <3>2. QED
      BY <3>1 DEF NoJob
  <2> HIDE DEF j, file
  <2>6. /\ pc'[p] = "list" /\ job'[p] = j
        /\ \A q \in Process \ {p} : pc'[q] = pc[q] /\ job'[q] = job[q]
        /\ \A h \in Generation \ {g} : disk'[h] = disk[h]
    BY <1>1, <2>1 DEF TypeOK
  <2>7. TypeOK'
    BY <1>1, <2>1, <2>4, <2>5, PhaseFacts DEF TypeOK
  <2>8. PointerSound'
    BY <1>1, <2>3, <2>6, PointerFacts DEF PointerSound
  <2>9. LockHeld'
    BY <1>1, <2>1, <2>6 DEF LockHeld, LockedPhases
  <2>10. Stage("list", j) = "promote" /\ "promote" \in Building
    BY <2>5 DEF Stage, Building
  <2>11. Records' = Records
    BY <1>1 DEF Records
  <2>12. Sound(p)'
    <3>1. LocalsSet("list", j)
      BY <2>3, <2>5, <2>10 DEF LocalsSet
    <3>2. LocalsSet(pc[p], job[p])'
      BY <3>1, <2>6 DEF LocalsSet, Stage
    <3>3. Records \subseteq granted[p] /\ \A s \in Skill : j.approved[s] = None
      BY <1>1, <2>5, PhaseFacts DEF OnlyGranted, NoApprovals
    <3>4. OnlyGranted(pc[p], job[p], granted[p])'
      BY <3>3, <2>1, <2>6, <2>11 DEF OnlyGranted
    <3>5. ReadsHold(pc[p], job[p])' /\ SalvageSound(pc[p], job[p])'
      BY <2>6 DEF ReadsHold, SalvageSound
    <3>6. QED
      BY <3>2, <3>4, <3>5 DEF Sound
  <2>13. ASSUME NEW q \in Process \ {p} PROVE Sound(q)'
    <3>1. \A h \in Generation : disk[h] # None => disk'[h] = disk[h]
      BY <2>3, <2>6
    <3>2. pc[q] \in Validating => Records \subseteq granted[q]
      BY LocalFacts DEF OnlyGranted
    <3>3. QED
      BY <3>1, <3>2, <1>1, <2>1, <2>6, <2>11, SoundUntouched
  <2>14. \A q \in Process : Fresh(q)'
    <3>1. ASSUME NEW q \in Process, Stage(pc[q], job[q]) = "compile",
                 Stage(pc'[q], job'[q]) = "compile"
          PROVE  disk'[job[q].gen] = None
      <4>1. q # p
        BY <3>1, <2>6, <2>10
      <4>2. job[q].gen # g /\ job[q].gen \in Generation /\ disk[job[q].gen] = None
        BY <4>1, <3>1, <2>2, <2>3, LocalFacts DEF IInv, Fresh, LocalsSet
      <4>3. QED
        BY <4>2, <2>6
    <3>2. QED
      BY <3>1, <1>1, <2>2, <2>5, <2>6, <2>10, FreshKept
  <2>15. QED
    BY <2>7, <2>8, <2>9, <2>12, <2>13, <2>14 DEF IInv
<1>4. QED
  BY <1>2, <1>3

\* A promotion takes the lock over a set that has just validated.
LEMMA PromoteValidatesStep ==
    ASSUME IInv, NEW p \in Process, PromoteValidates(p)
    PROVE  IInv'
<1> DEFINE j == [job[p] EXCEPT !.approved = NoApprovals]
<1>1. /\ TypeOK /\ pc[p] = "promote" /\ job[p] \in Job
      /\ LocalsSet(pc[p], job[p]) /\ OnlyGranted(pc[p], job[p], granted[p])
      /\ pc' = [pc EXCEPT ![p] = "promote_read"] /\ job' = [job EXCEPT ![p] = j]
      /\ UNCHANGED <<source, today, approval, disk, pointer, granted>> /\ Acquire(p)
  BY LocalFacts DEF IInv, PromoteValidates, Goto, env, store
<1>2. /\ j \in Job /\ j.gen = job[p].gen /\ j.served = job[p].served
      /\ j.approved = NoApprovals
  BY <1>1 DEF Job, NoApprovals
<1> HIDE DEF j
<1>3. /\ Stage(pc[p], job[p]) = "promote" /\ Stage("promote_read", j) = "promote_read"
      /\ {"promote", "promote_read"} \subseteq Building
      /\ "promote_read" \in LockedPhases
      /\ {"promote", "promote_read"} \subseteq Validating
  BY <1>1, PhaseFacts DEF Stage, Building, LockedPhases
<1>4. /\ job[p].gen \in Generation /\ disk[job[p].gen] # None
      /\ BodiesOf(disk[job[p].gen].packs) \subseteq granted[p]
  BY <1>1, <1>3, OpensIsGranted DEF PromoteValidates, Promotable, LocalsSet
<1>5. LocalsSet("promote_read", j) /\ ReadsHold("promote_read", j)
  BY <1>1, <1>2, <1>3, <1>4 DEF LocalsSet, ReadsHold
<1>6. SalvageSound("promote_read", j) /\ OnlyGranted("promote_read", j, granted[p])
  <2>1. \A s \in Skill : j.approved[s] = None
    BY <1>2 DEF NoApprovals
  <2>2. QED
    BY <2>1, <1>1, <1>2, <1>3, <1>4 DEF SalvageSound, OnlyGranted
<1>7. QED
  BY <1>1, <1>2, <1>3, <1>5, <1>6, AcquireStep

\* The pointer it has read is the one it will replace.
LEMMA PromoteReadsCurrentStep ==
    ASSUME IInv, NEW p \in Process, PromoteReadsCurrent(p)
    PROVE  IInv'
<1> DEFINE j == [job[p] EXCEPT !.current = pointer]
<1>1. /\ TypeOK /\ pc[p] = "promote_read" /\ job[p] \in Job
      /\ granted[p] \in SUBSET (Skill \X Digest)
      /\ LocalsSet(pc[p], job[p]) /\ ReadsHold(pc[p], job[p])
      /\ OnlyGranted(pc[p], job[p], granted[p])
      /\ UNCHANGED <<source, today, approval, disk, pointer>>
  BY LocalFacts DEF IInv, PromoteReadsCurrent, env, store
<1>2. CASE Return(p)
  BY <1>1, <1>2, ReturnStep
<1>3. CASE ~Return(p)
  <2>1. /\ job' = [job EXCEPT ![p] = j] /\ pc' = [pc EXCEPT ![p] = "promote_write"]
        /\ UNCHANGED <<lock, granted>>
    BY <1>3 DEF PromoteReadsCurrent, Goto
  <2>2. /\ j \in Job /\ j.gen = job[p].gen /\ j.served = job[p].served
        /\ j.approved = job[p].approved /\ j.current = pointer
    BY <1>1 DEF Job, TypeOK
  <2> HIDE DEF j
  <2>3. /\ Stage(pc[p], job[p]) = "promote_read"
        /\ Stage("promote_write", j) = "promote_write"
        /\ {"promote_read", "promote_write"} \subseteq Building
        /\ {"promote_read", "promote_write"} \subseteq LockedPhases
        /\ {"promote_read", "promote_write"} \subseteq Validating
        /\ "promote_write" \in Phases
    BY <1>1, PhaseFacts DEF Stage, Building, LockedPhases
  <2>4. /\ LocalsSet("promote_write", j) /\ ReadsHold("promote_write", j)
        /\ SalvageSound("promote_write", j)
        /\ OnlyGranted("promote_write", j, granted[p])
    BY <1>1, <2>2, <2>3 DEF LocalsSet, ReadsHold, SalvageSound, OnlyGranted
  <2>5. lock' = p /\ lock' \in Process \union {None}
        /\ granted' = [granted EXCEPT ![p] = granted[p]]
    BY <1>1, <2>1, <2>3, LocalFacts DEF TypeOK
  <2>6. QED
    BY <1>1, <2>1, <2>2, <2>3, <2>4, <2>5, LocalStep
<1>4. QED
  BY <1>2, <1>3

--------------------------------------------------------------------------------
(* Writing the pointer.                                                    *)

\* The holder of the lock writes the pointer, naming only stored generations,
\* and ends.  Nobody else is in a section that has read the pointer.
LEMMA PointerWriteStep ==
    ASSUME IInv, NEW p \in Process, pc[p] \in LockedPhases, Return(p),
           UNCHANGED <<source, today, approval, disk>>,
           pointer' \in Seq(Generation), Len(pointer') <= Retain + 1,
           Distinct(pointer'),
           \A g \in Entries(pointer') : disk[g] # None
    PROVE  IInv'
<1>1. TypeOK /\ LockHeld /\ lock = p /\ None \notin Process
  BY SkillLifecycleAssumption DEF IInv, LockHeld
<1>2. /\ pc'[p] = "idle" /\ job'[p] = NoJob /\ granted'[p] = {} /\ lock' = None
      /\ \A q \in Process \ {p} :
             pc'[q] = pc[q] /\ job'[q] = job[q] /\ granted'[q] = granted[q]
  BY <1>1 DEF Return, Goto, TypeOK
<1>3. TypeOK'
  <2>1. NoJob \in Job /\ "idle" \in Phases
    BY NoJobSound, PhaseFacts
  <2>2. pc' \in [Process -> Phases] /\ job' \in [Process -> Job]
    BY <1>1, <2>1 DEF Return, Goto, TypeOK
  <2>3. granted' \in [Process -> SUBSET (Skill \X Digest)]
    BY <1>1 DEF Return, TypeOK
  <2>4. QED
    BY <1>1, <1>2, <2>2, <2>3 DEF TypeOK
<1>4. PointerSound'
  BY DEF PointerSound
<1>5. LockHeld'
  BY <1>1, <1>2 DEF LockHeld, LockedPhases
<1>6. Records' = Records
  BY DEF Records
<1>7. Sound(p)'
  <2>1. /\ LocalsSet("idle", NoJob) /\ ReadsHold("idle", NoJob)
        /\ SalvageSound("idle", NoJob) /\ OnlyGranted("idle", NoJob, {})
    BY NoJobSound
  <2>2. LocalsSet(pc[p], job[p])'
    BY <2>1, <1>2 DEF LocalsSet, Stage
  <2>3. ReadsHold(pc[p], job[p])' /\ SalvageSound(pc[p], job[p])'
    BY <1>2 DEF ReadsHold, SalvageSound
  <2>4. OnlyGranted(pc[p], job[p], granted[p])'
    BY <1>2, PhaseFacts DEF OnlyGranted
  <2>5. QED
    BY <2>2, <2>3, <2>4 DEF Sound
<1>8. ASSUME NEW q \in Process \ {p} PROVE Sound(q)'
  <2>1. pc[q] \notin LockedPhases
    BY <1>1 DEF LockHeld
  <2>2. pc[q] \in Validating => Records \subseteq granted[q]
    BY LocalFacts DEF OnlyGranted
  <2>3. QED
    BY <2>1, <2>2, <1>2, <1>6, SoundUntouched
<1>9. \A q \in Process : Fresh(q)'
  <2>1. Stage(pc'[p], job'[p]) \notin Building \union {"compile"}
    BY <1>2 DEF Stage, Building
  <2>2. \A q \in Process : Stage(pc[q], job[q]) = "compile" => disk'[job[q].gen] = None
    BY DEF IInv, Fresh
  <2>3. QED
    BY <2>1, <2>2, <1>2, FreshKept
<1>10. QED
  BY <1>3, <1>4, <1>5, <1>7, <1>8, <1>9 DEF IInv

\* What a promotion is about to write and why it may.
LEMMA PromoteWritesFacts ==
    ASSUME IInv, NEW p \in Process, PromoteWrites(p)
    PROVE  /\ pc[p] = "promote_write" /\ job[p].gen \in Generation
           /\ disk[job[p].gen] # None /\ lock = p
           /\ BodiesOf(disk[job[p].gen].packs) \subseteq granted[p]
           /\ pointer' = Promoted(pointer, job[p].gen, Retain)
<1>1. /\ pc[p] = "promote_write" /\ LocalsSet(pc[p], job[p]) /\ ReadsHold(pc[p], job[p])
      /\ OnlyGranted(pc[p], job[p], granted[p]) /\ lock = p
  BY LocalFacts DEF PromoteWrites, LockedPhases
<1>2. Stage(pc[p], job[p]) \in Building
  BY <1>1 DEF Stage, Building
<1>3. QED
  BY <1>1, <1>2 DEF PromoteWrites, LocalsSet, ReadsHold, OnlyGranted

LEMMA PromoteWritesStep ==
    ASSUME IInv, NEW p \in Process, PromoteWrites(p)
    PROVE  IInv'
<1>1. Retain \in Nat \ {0} /\ pointer \in Seq(Generation) /\ Distinct(pointer)
  BY PointerFacts, SkillLifecycleAssumption
<1>2. PICK g \in Generation : /\ g = job[p].gen /\ disk[g] # None
                              /\ pointer' = Promoted(pointer, g, Retain)
  BY PromoteWritesFacts
<1>3. /\ pointer' \in Seq(Generation) /\ Len(pointer') <= Retain + 1
      /\ Distinct(pointer') /\ Entries(pointer') \subseteq Entries(pointer) \union {g}
  BY <1>1, <1>2, PromotedEntries
<1>4. \A h \in Entries(pointer') : disk[h] # None
  BY <1>2, <1>3, PointerFacts
<1>5. /\ Return(p) /\ pc[p] \in LockedPhases
      /\ UNCHANGED <<source, today, approval, disk>>
  BY DEF PromoteWrites, LockedPhases, env
<1>6. QED
  BY <1>3, <1>4, <1>5, PointerWriteStep

\* A rollback takes the lock over a retained set that has just validated.
LEMMA RollbackValidatesStep ==
    ASSUME IInv, NEW p \in Process, RollbackValidates(p)
    PROVE  IInv'
<1> DEFINE j == [job[p] EXCEPT !.current = pointer, !.approved = NoApprovals]
<1>1. /\ TypeOK /\ pc[p] = "rollback" /\ job[p] \in Job
      /\ LocalsSet(pc[p], job[p]) /\ OnlyGranted(pc[p], job[p], granted[p])
      /\ pc' = [pc EXCEPT ![p] = "rollback_write"] /\ job' = [job EXCEPT ![p] = j]
      /\ UNCHANGED <<source, today, approval, disk, pointer, granted>> /\ Acquire(p)
      /\ Len(pointer) >= 2 /\ Opens(pointer[2], job[p].approved)
  BY LocalFacts DEF IInv, RollbackValidates, RollbackTarget, Goto, env, store
<1>2. /\ j \in Job /\ j.current = pointer /\ j.served = job[p].served
      /\ j.approved = NoApprovals
  BY <1>1 DEF Job, NoApprovals, TypeOK
<1> HIDE DEF j
<1>3. /\ Stage("rollback_write", j) = "rollback_write"
      /\ "rollback_write" \notin Building
      /\ "rollback_write" \in LockedPhases
      /\ {"rollback", "rollback_write"} \subseteq Validating
  BY PhaseFacts DEF Stage, Building, LockedPhases
<1>4. BodiesOf(disk[pointer[2]].packs) \subseteq granted[p]
  <2>1. 2 \in DOMAIN pointer
    BY <1>1, PointerFacts
  <2>2. pointer[2] \in Generation
    BY <2>1, PointerFacts DEF Entries
  <2>3. QED
    BY <2>2, <1>1, <1>3, OpensIsGranted
<1>5. /\ LocalsSet("rollback_write", j) /\ ReadsHold("rollback_write", j)
      /\ SalvageSound("rollback_write", j)
  BY <1>1, <1>2, <1>3 DEF LocalsSet, ReadsHold, SalvageSound
<1>6. OnlyGranted("rollback_write", j, granted[p])
  <2>1. \A s \in Skill : j.approved[s] = None
    BY <1>2 DEF NoApprovals
  <2>2. QED
    BY <2>1, <1>1, <1>2, <1>3, <1>4 DEF OnlyGranted
<1>7. QED
  BY <1>1, <1>2, <1>3, <1>5, <1>6, AcquireStep

\* What a rollback writes, if the outgoing generation is still there.
LEMMA RollbackWritesFacts ==
    ASSUME IInv, NEW p \in Process, RollbackWrites(p)
    PROVE  /\ pc[p] = "rollback_write" /\ lock = p /\ Len(pointer) >= 2
           /\ BodiesOf(disk[pointer[2]].packs) \subseteq granted[p]
           /\ pointer' \in {pointer, RolledBack(pointer)}
           /\ UNCHANGED disk
<1>1. /\ pc[p] = "rollback_write" /\ ReadsHold(pc[p], job[p])
      /\ OnlyGranted(pc[p], job[p], granted[p]) /\ lock = p
  BY LocalFacts DEF RollbackWrites, LockedPhases
<1>2. QED
  BY <1>1 DEF RollbackWrites, ReadsHold, OnlyGranted

LEMMA RollbackWritesStep ==
    ASSUME IInv, NEW p \in Process, RollbackWrites(p)
    PROVE  IInv'
<1>1. /\ TypeOK /\ PointerSound /\ Return(p) /\ pc[p] \in LockedPhases
      /\ UNCHANGED <<source, today, approval, disk>>
  BY DEF IInv, RollbackWrites, LockedPhases, env
<1>2. CASE pointer' = pointer
  BY <1>1, <1>2, ReturnStep
<1>3. CASE pointer' = RolledBack(pointer)
  <2>1. Len(pointer) >= 2 /\ pointer \in Seq(Generation) /\ Distinct(pointer)
    BY RollbackWritesFacts, PointerFacts
  <2>2. /\ pointer' \in Seq(Generation) /\ Len(pointer') = Len(pointer)
        /\ Distinct(pointer') /\ Entries(pointer') = Entries(pointer)
    BY <2>1, <1>3, RolledBackEntries
  <2>3. QED
    BY <1>1, <2>2, PointerFacts, PointerWriteStep DEF TypeOK
<1>4. QED
  BY <1>2, <1>3, RollbackWritesFacts

--------------------------------------------------------------------------------
(* Recovering.                                                             *)

KeepsOrder(v, s) ==
    \A x, y \in Entries(v) : Store!Ahead(v, x, y) => Store!Ahead(s, x, y)

FirstEntries(s, n) == {s[i] : i \in 1..n}

\* The nth entry of a pointer, put behind some of the entries before it that
\* are in the pointer's order.
LEMMA AppendKeepsOrder ==
    ASSUME NEW S, NEW s \in Seq(S), Distinct(s), NEW n \in 1..Len(s),
           NEW v \in Seq(S), Distinct(v),
           Entries(v) \subseteq FirstEntries(s, n - 1), KeepsOrder(v, s),
           NEW w, w = Append(v, s[n])
    PROVE  /\ w \in Seq(S) /\ Len(w) = Len(v) + 1
           /\ w[1] = IF v = << >> THEN s[n] ELSE v[1]
           /\ Distinct(w) /\ Entries(w) \subseteq FirstEntries(s, n) /\ KeepsOrder(w, s)
<1> DEFINE e == s[n]
<1>1. /\ Len(s) \in Nat /\ n \in Nat \ {0} /\ e \in S /\ DOMAIN s = 1..Len(s)
      /\ Len(v) \in Nat /\ DOMAIN v = 1..Len(v)
  BY LenProperties, ElementOfSeq
<1>2. e \notin Entries(v)
  <2>1. \A i \in 1..(n - 1) : s[i] # e
    BY <1>1 DEF Distinct
  <2>2. QED
    BY <2>1 DEF FirstEntries
<1> HIDE DEF e
<1>3. /\ w \in Seq(S) /\ Len(w) = Len(v) + 1 /\ w[Len(v) + 1] = e
      /\ \A i \in 1..Len(v) : w[i] = v[i]
  <2>1. /\ Append(v, e) \in Seq(S) /\ Len(Append(v, e)) = Len(v) + 1
        /\ \A i \in 1..Len(v) : Append(v, e)[i] = v[i]
        /\ Append(v, e)[Len(v) + 1] = e
    BY <1>1, AppendProperties
  <2>2. w = Append(v, e)
    BY DEF e
  <2>3. QED
    BY <2>1, <2>2, Zenon
<1>4. /\ DOMAIN w = 1..(Len(v) + 1) /\ \A i \in 1..Len(v) : w[i] = v[i] /\ v[i] # e
      /\ \A i \in DOMAIN w : i \in 1..Len(v) \/ i = Len(v) + 1
  BY <1>1, <1>2, <1>3, LenProperties DEF Entries
<1>5. Distinct(w)
  BY <1>1, <1>3, <1>4 DEF Distinct
<1>6. Entries(w) = Entries(v) \union {e}
  <2>1. \A i \in DOMAIN w : w[i] \in Entries(v) \union {e}
    BY <1>1, <1>3, <1>4 DEF Entries
  <2>2. Entries(v) \subseteq Entries(w)
    <3>1. \A i \in DOMAIN v : i \in DOMAIN w /\ w[i] = v[i]
      BY <1>1, <1>4
    <3>2. QED
      BY <3>1 DEF Entries
  <2>3. e \in Entries(w)
    <3>1. Len(v) + 1 \in DOMAIN w
      BY <1>1, <1>4
    <3>2. QED
      BY <3>1, <1>3 DEF Entries
  <2>4. QED
    BY <2>1, <2>2, <2>3 DEF Entries
<1>7. Entries(w) \subseteq FirstEntries(s, n)
  <2>1. 1..(n - 1) \subseteq 1..n /\ n \in 1..n
    BY <1>1
  <2>2. QED
    BY <2>1, <1>6 DEF e, FirstEntries
<1>8. ASSUME NEW x \in Entries(w), NEW y \in Entries(w), Store!Ahead(w, x, y)
      PROVE  Store!Ahead(s, x, y)
  <2>1. PICK i \in DOMAIN w, k \in DOMAIN w : i < k /\ w[i] = x /\ w[k] = y
    BY <1>8 DEF Store!Ahead
  <2>2. i \in 1..Len(v) /\ x = v[i] /\ x \in Entries(v)
    BY <2>1, <1>1, <1>4 DEF Entries
  <2>3. CASE k \in 1..Len(v)
    <3>1. y = v[k] /\ y \in Entries(v)
      BY <2>1, <2>3, <1>1, <1>4 DEF Entries
    <3>2. Store!Ahead(v, x, y)
      BY <2>1, <2>2, <2>3, <3>1, <1>1 DEF Store!Ahead
    <3>3. QED
      BY <2>2, <3>1, <3>2 DEF KeepsOrder
  <2>4. CASE k = Len(v) + 1
    <3>1. y = s[n]
      BY <2>1, <2>4, <1>3 DEF e
    <3>2. PICK m \in 1..(n - 1) : s[m] = x
      BY <2>2 DEF FirstEntries
    <3>3. m \in DOMAIN s /\ n \in DOMAIN s /\ m < n
      BY <1>1
    <3>4. QED
      BY <3>1, <3>2, <3>3 DEF Store!Ahead
  <2>5. QED
    BY <2>1, <2>3, <2>4, <1>4
<1>9. w[1] = IF v = << >> THEN e ELSE v[1]
  <2>1. CASE v = << >>
    BY <2>1, <1>3
  <2>2. CASE v # << >>
    BY <2>2, <1>1, <1>3, EmptySeq
  <2>3. QED
    BY <2>1, <2>2
<1>10. QED
  BY <1>3, <1>5, <1>7, <1>8, <1>9 DEF e, KeepsOrder

LEMMA RecoverReadsStep ==
    ASSUME IInv, NEW p \in Process, RecoverReads(p)
    PROVE  IInv'
<1> DEFINE j == [job[p] EXCEPT !.current = pointer]
<1>1. /\ TypeOK /\ pc[p] = "recover" /\ job[p] \in Job
      /\ LocalsSet(pc[p], job[p]) /\ OnlyGranted(pc[p], job[p], granted[p])
      /\ pc' = [pc EXCEPT ![p] = "recover_check"] /\ job' = [job EXCEPT ![p] = j]
      /\ UNCHANGED <<source, today, approval, disk, pointer, granted>> /\ Acquire(p)
  BY LocalFacts DEF IInv, RecoverReads, Goto, env, store
<1>2. /\ j \in Job /\ j.current = pointer /\ j.served = job[p].served
      /\ j.approved = job[p].approved /\ j.next = job[p].next /\ j.valid = job[p].valid
  BY <1>1 DEF Job, TypeOK
<1> HIDE DEF j
<1>3. /\ Stage(pc[p], job[p]) = "recover"
      /\ Stage("recover_check", j) = "recover_check"
      /\ "recover_check" \notin Building
      /\ "recover_check" \in LockedPhases
      /\ {"recover", "recover_check"} \subseteq Validating
  BY <1>1, PhaseFacts DEF Stage, Building, LockedPhases
<1>4. j.next = 1 /\ j.valid = << >>
  BY <1>1, <1>2, <1>3 DEF LocalsSet, NoPointer
<1>5. SalvageSound("recover_check", j)
  <2>1. Len(pointer) \in Nat
    BY PointerFacts
  <2>2. Entries(<< >>) = {} /\ Distinct(<< >>) /\ Len(<< >>) = 0
    BY EmptySeq DEF Entries, Distinct
  <2>3. QED
    BY <1>2, <1>4, <2>1, <2>2 DEF SalvageSound
<1>6. /\ LocalsSet("recover_check", j) /\ ReadsHold("recover_check", j)
      /\ OnlyGranted("recover_check", j, granted[p])
  BY <1>1, <1>2, <1>3, <1>4 DEF LocalsSet, ReadsHold, OnlyGranted, NoPointer
<1>7. QED
  BY <1>1, <1>2, <1>3, <1>5, <1>6, AcquireStep

\* Looking at the next entry keeps it, at the end, or skips it; the first one
\* kept is the one the recovery will activate.
LEMMA RecoverChecksStep ==
    ASSUME IInv, NEW p \in Process, RecoverChecks(p)
    PROVE  IInv'
<1> DEFINE n == job[p].next
           v == job[p].valid
           ok == Opens(pointer[n], job[p].approved)
           v2 == IF ok THEN Append(v, pointer[n]) ELSE v
           n2 == n + 1
           j == [job[p] EXCEPT !.next = n2, !.valid = v2]
<1>1. /\ TypeOK /\ pc[p] = "recover_check" /\ job[p] \in Job
      /\ n <= Len(job[p].current) /\ lock = p
      /\ granted[p] \in SUBSET (Skill \X Digest)
      /\ LocalsSet(pc[p], job[p]) /\ OnlyGranted(pc[p], job[p], granted[p])
      /\ UNCHANGED <<source, today, approval, disk, pointer, granted, lock, pc>>
  BY LocalFacts DEF IInv, RecoverChecks, LockedPhases, env, store
<1>2. /\ job[p].current = pointer /\ Len(v) < n /\ Distinct(v)
      /\ Entries(v) \subseteq FirstEntries(pointer, n - 1) /\ KeepsOrder(v, pointer)
  BY <1>1, LocalFacts DEF SalvageSound, FirstEntries, KeepsOrder
<1>3. /\ n \in Nat \ {0} /\ v \in Seq(Generation) /\ n \in 1..Len(pointer)
      /\ Len(v) \in Nat /\ Len(pointer) \in Nat
  BY <1>1, <1>2, PointerFacts, LenProperties DEF Job
<1>4. job' = [job EXCEPT ![p] = j]
  BY <1>2 DEF RecoverChecks
<1>5. pointer[n] \in Generation
  BY <1>3, PointerFacts DEF Entries
<1>6. /\ v2 \in Seq(Generation) /\ Len(v2) < n2 /\ Distinct(v2)
      /\ Entries(v2) \subseteq FirstEntries(pointer, n) /\ KeepsOrder(v2, pointer)
      /\ v2 # << >> => (v2[1] = v[1] /\ v # << >>) \/ (v2[1] = pointer[n] /\ ok)
  <2> HIDE DEF ok, v, n
  <2>1. CASE ok
    <3>1. PICK w : w = Append(v, pointer[n])
      OBVIOUS
    <3>2. /\ w \in Seq(Generation) /\ Len(w) = Len(v) + 1
          /\ w[1] = IF v = << >> THEN pointer[n] ELSE v[1]
          /\ Distinct(w) /\ Entries(w) \subseteq FirstEntries(pointer, n)
          /\ KeepsOrder(w, pointer)
      <4>1. pointer \in Seq(Generation) /\ Distinct(pointer)
        BY PointerFacts
      <4>2. n \in 1..Len(pointer) /\ v \in Seq(Generation) /\ Distinct(v)
        BY <1>2, <1>3
      <4>3. Entries(v) \subseteq FirstEntries(pointer, n - 1) /\ KeepsOrder(v, pointer)
        BY <1>2
      <4>4. w \in Seq(Generation) /\ Len(w) = Len(v) + 1
        BY <3>1, <4>1, <4>2, <4>3, AppendKeepsOrder
      <4>5. w[1] = IF v = << >> THEN pointer[n] ELSE v[1]
        BY <3>1, <4>1, <4>2, <4>3, AppendKeepsOrder
      <4>6. Distinct(w) /\ Entries(w) \subseteq FirstEntries(pointer, n)
        BY <3>1, <4>1, <4>2, <4>3, AppendKeepsOrder
      <4>7. KeepsOrder(w, pointer)
        BY <3>1, <4>1, <4>2, <4>3, AppendKeepsOrder
      <4>8. QED
        BY <4>4, <4>5, <4>6, <4>7
    <3>3. v2 = w
      BY <2>1, <3>1
    <3> HIDE DEF v2
    <3>4. QED
      BY <2>1, <3>2, <3>3, <1>2, <1>3
  <2>2. CASE ~ok
    <3>1. FirstEntries(pointer, n - 1) \subseteq FirstEntries(pointer, n)
      BY <1>3 DEF FirstEntries
    <3>2. v2 = v /\ Len(v) < n2
      BY <2>2, <1>2, <1>3
    <3>3. QED
      BY <3>1, <3>2, <1>2, <1>3
  <2>3. QED
    BY <2>1, <2>2
<1>7. {"recover_check"} \subseteq LockedPhases /\ "recover_check" \notin Building
      /\ "recover_check" \in Phases /\ "recover_check" \in Validating
  BY PhaseFacts DEF LockedPhases, Building
<1>8. v2 # << >> => BodiesOf(disk[v2[1]].packs) \subseteq granted[p]
  <2>1. v # << >> => BodiesOf(disk[v[1]].packs) \subseteq granted[p]
    BY <1>1 DEF OnlyGranted, NoPointer
  <2>2. ok => BodiesOf(disk[pointer[n]].packs) \subseteq granted[p]
    BY <1>1, <1>5, <1>7, OpensIsGranted
  <2>3. QED
    BY <2>1, <2>2, <1>6
<1> HIDE DEF v2
<1>9. /\ j \in Job /\ j.current = pointer /\ j.next = n + 1 /\ j.valid = v2
      /\ j.served = job[p].served /\ j.approved = job[p].approved
  <2>1. n2 \in Nat \ {0} /\ n2 = n + 1
    BY <1>3
  <2> HIDE DEF n2
  <2>2. /\ j \in Job /\ j.current = job[p].current /\ j.next = n2 /\ j.valid = v2
        /\ j.served = job[p].served /\ j.approved = job[p].approved
    BY <1>1, <1>6, <2>1 DEF Job
  <2>3. QED
    BY <2>1, <2>2, <1>2
<1>10. SalvageSound("recover_check", j)
  <2>1. n + 1 <= Len(pointer) + 1 /\ (n + 1) - 1 = n /\ n2 = n + 1
    BY <1>3
  <2> HIDE DEF n, n2, j
  <2>2. QED
    BY <2>1, <1>6, <1>9 DEF SalvageSound, FirstEntries, KeepsOrder
<1> HIDE DEF j
<1>11. Stage("recover_check", j) = "recover_check"
  BY DEF Stage
<1>12. LocalsSet("recover_check", j) /\ ReadsHold("recover_check", j)
  BY <1>1, <1>7, <1>9, <1>11 DEF LocalsSet, ReadsHold
<1>13. OnlyGranted("recover_check", j, granted[p])
  BY <1>1, <1>7, <1>8, <1>9 DEF OnlyGranted, NoPointer
<1>14. /\ pc' = [pc EXCEPT ![p] = "recover_check"] /\ lock' \in Process \union {None}
       /\ granted' = [granted EXCEPT ![p] = granted[p]] /\ lock' = p
  BY <1>1 DEF TypeOK
<1>15. QED
  BY <1>1, <1>4, <1>7, <1>9, <1>10, <1>11, <1>12, <1>13, <1>14, LocalStep

\* What a recovery writes, if anything opened.
LEMMA RecoverWritesFacts ==
    ASSUME IInv, NEW p \in Process, RecoverWrites(p), pointer' # pointer
    PROVE  LET v == job[p].valid IN
           /\ pc[p] = "recover_check" /\ lock = p /\ v # << >> /\ v \in Seq(Generation)
           /\ Entries(v) \subseteq Entries(pointer) /\ Len(v) <= Len(pointer)
           /\ Distinct(v)
           /\ \A x, y \in Entries(v) : Store!Ahead(v, x, y) => Store!Ahead(pointer, x, y)
           /\ BodiesOf(disk[v[1]].packs) \subseteq granted[p]
           /\ pointer' = FirstOf(v, 3)
           /\ UNCHANGED disk
<1>1. /\ pc[p] = "recover_check" /\ job[p] \in Job
      /\ SalvageSound(pc[p], job[p]) /\ OnlyGranted(pc[p], job[p], granted[p])
      /\ lock = p
  BY LocalFacts DEF RecoverWrites, LockedPhases
<1>2. /\ job[p].valid # << >> /\ pointer' = FirstOf(job[p].valid, 3) /\ UNCHANGED disk
  BY DEF RecoverWrites, Recovered
<1>3. /\ job[p].valid \in Seq(Generation)
      /\ Entries(job[p].valid) \subseteq Entries(pointer)
  BY <1>1, SalvagedFacts
<1>4. Len(job[p].valid) <= Len(pointer)
  <2>1. /\ job[p].next \in Nat /\ job[p].next <= Len(pointer) + 1
        /\ Len(job[p].valid) < job[p].next
    BY <1>1 DEF SalvageSound, Job
  <2>2. QED
    BY <2>1, <1>3, PointerFacts, LenProperties
<1>5. QED
  BY <1>1, <1>2, <1>3, <1>4 DEF SalvageSound, OnlyGranted, NoPointer

LEMMA RecoverWritesStep ==
    ASSUME IInv, NEW p \in Process, RecoverWrites(p)
    PROVE  IInv'
<1>1. /\ TypeOK /\ Return(p) /\ pc[p] \in LockedPhases
      /\ UNCHANGED <<source, today, approval, disk>>
  BY DEF IInv, RecoverWrites, LockedPhases, env
<1>2. CASE pointer' = pointer
  BY <1>1, <1>2, ReturnStep
<1>3. CASE pointer' # pointer
  <2>1. PICK v \in Seq(Generation) :
            /\ Entries(v) \subseteq Entries(pointer) /\ Len(v) <= Len(pointer)
            /\ Distinct(v) /\ pointer' = FirstOf(v, 3)
    BY <1>3, RecoverWritesFacts
  <2>2. /\ pointer' \in Seq(Generation) /\ Len(pointer') <= Len(v)
        /\ Distinct(pointer') /\ Entries(pointer') \subseteq Entries(v)
    BY <2>1, FirstOfPrefix, FirstOfDistinct
  <2>3. Len(pointer') <= Retain + 1
    <3>1. Len(pointer) <= Retain + 1 /\ Retain \in Nat
      BY <1>1, SkillLifecycleAssumption DEF TypeOK
    <3>2. Len(pointer) \in Nat /\ Len(v) \in Nat /\ Len(pointer') \in Nat
      BY <2>1, <2>2, PointerFacts, LenProperties
    <3>3. QED
      BY <3>1, <3>2, <2>1, <2>2
  <2>4. \A g \in Entries(pointer') : disk[g] # None
    BY <2>1, <2>2, PointerFacts
  <2>5. QED
    BY <1>1, <2>2, <2>3, <2>4, PointerWriteStep
<1>4. QED
  BY <1>2, <1>3

--------------------------------------------------------------------------------
(* Pruning.                                                                *)

LEMMA PruneScansStep ==
    ASSUME IInv, NEW p \in Process, PruneScans(p)
    PROVE  IInv'
<1> DEFINE j == [job[p] EXCEPT !.victims = Unreferenced]
<1>1. /\ TypeOK /\ pc[p] = "prune_wait" /\ job[p] \in Job
      /\ pc' = [pc EXCEPT ![p] = "prune"] /\ job' = [job EXCEPT ![p] = j]
      /\ UNCHANGED <<source, today, approval, disk, pointer, granted>> /\ Acquire(p)
  BY LocalFacts DEF IInv, PruneScans, Goto, env, store
<1>2. Unreferenced \subseteq Generation /\ Unreferenced \intersect Entries(pointer) = {}
  BY DEF Unreferenced
<1>3. j \in Job /\ j.victims = Unreferenced
  BY <1>1, <1>2 DEF Job
<1> HIDE DEF j
<1>4. /\ Stage("prune", j) = "prune" /\ "prune" \notin Building
      /\ "prune" \in LockedPhases /\ "prune" \notin Validating
  BY PhaseFacts DEF Stage, Building, LockedPhases
<1>5. /\ LocalsSet("prune", j) /\ ReadsHold("prune", j) /\ SalvageSound("prune", j)
      /\ OnlyGranted("prune", j, granted[p])
  BY <1>2, <1>3, <1>4 DEF LocalsSet, ReadsHold, SalvageSound, OnlyGranted
<1>6. QED
  BY <1>1, <1>3, <1>4, <1>5, AcquireStep

\* An unlink removes a file the pointer does not name, and the pointer cannot
\* change before the lock is released.
LEMMA PruneUnlinksStep ==
    ASSUME IInv, NEW p \in Process, NEW g \in Generation, PruneUnlinks(p, g)
    PROVE  IInv'
<1> DEFINE rest == job[p].victims \ {g}
           j == [job[p] EXCEPT !.victims = rest]
<1>1. /\ TypeOK /\ PointerSound /\ LockHeld /\ pc[p] = "prune" /\ lock = p
      /\ job[p] \in Job /\ g \in job[p].victims
      /\ LocalsSet(pc[p], job[p]) /\ OnlyGranted(pc[p], job[p], granted[p])
  BY LocalFacts DEF IInv, PruneUnlinks, LockedPhases
<1>2. /\ disk' = [disk EXCEPT ![g] = None] /\ job' = [job EXCEPT ![p] = j]
      /\ UNCHANGED <<source, today, approval, pointer, lock, pc, granted>>
  BY DEF PruneUnlinks, env
<1>3. /\ rest \in SUBSET Generation /\ g \notin Entries(pointer)
      /\ rest \intersect Entries(pointer) = {}
  BY <1>1, LocalFacts DEF ReadsHold, Job
<1> HIDE DEF rest
<1>4. /\ j \in Job /\ j.victims = rest /\ j.gen = job[p].gen /\ j.then = job[p].then
  BY <1>1, <1>3 DEF Job
<1> HIDE DEF j
<1>5. /\ job'[p] = j /\ \A q \in Process \ {p} : job'[q] = job[q]
      /\ \A h \in Generation : disk'[h] = IF h = g THEN None ELSE disk[h]
  BY <1>1, <1>2 DEF TypeOK
<1>6. TypeOK'
  BY <1>1, <1>2, <1>4 DEF TypeOK
<1>7. PointerSound'
  BY <1>1, <1>2, <1>3, <1>5, PointerFacts DEF PointerSound
<1>8. LockHeld'
  BY <1>1, <1>2 DEF LockHeld
<1>9. Records' = Records
  BY <1>2 DEF Records
<1>10. Sound(p)'
  <2>1. /\ Stage("prune", j) = "prune" /\ "prune" \notin Building
        /\ "prune" \notin Validating
    BY PhaseFacts DEF Stage, Building
  <2>2. LocalsSet(pc[p], job[p])'
    BY <1>1, <1>2, <1>5, <2>1 DEF LocalsSet
  <2>3. ReadsHold(pc[p], job[p])' /\ SalvageSound(pc[p], job[p])'
    BY <1>1, <1>2, <1>3, <1>4, <1>5 DEF ReadsHold, SalvageSound
  <2>4. OnlyGranted(pc[p], job[p], granted[p])'
    BY <1>1, <1>2, <2>1 DEF OnlyGranted
  <2>5. QED
    BY <2>2, <2>3, <2>4 DEF Sound
<1>11. ASSUME NEW q \in Process \ {p} PROVE Sound(q)'
  <2>1. pc[q] \notin LockedPhases
    BY <1>1 DEF LockHeld
  <2>2. pc[q] \in Validating => Records \subseteq granted[q]
    BY LocalFacts DEF OnlyGranted
  <2>3. QED
    BY <2>1, <2>2, <1>2, <1>5, <1>9, SoundUntouched
<1>12. \A q \in Process : Fresh(q)'
  <2>1. Stage(pc'[p], job'[p]) \notin Building \union {"compile"}
    BY <1>1, <1>2 DEF Stage, Building
  <2>2. ASSUME NEW q \in Process, Stage(pc[q], job[q]) = "compile"
        PROVE  disk'[job[q].gen] = None
    <3>1. disk[job[q].gen] = None /\ job[q].gen \in Generation
      BY <2>2, LocalFacts DEF IInv, Fresh, LocalsSet, Building
    <3>2. QED
      BY <3>1, <1>5
  <2>3. QED
    BY <2>1, <2>2, <1>2, <1>5, FreshKept
<1>13. QED
  BY <1>6, <1>7, <1>8, <1>10, <1>11, <1>12 DEF IInv

--------------------------------------------------------------------------------
(* Opening what is active.                                                 *)

LEMMA ReadPointerStep ==
    ASSUME IInv, NEW p \in Process, ReadPointer(p)
    PROVE  IInv'
<1>1. /\ TypeOK /\ pc[p] = "open" /\ job[p] \in Job
      /\ granted[p] \in SUBSET (Skill \X Digest)
      /\ LocalsSet(pc[p], job[p]) /\ OnlyGranted(pc[p], job[p], granted[p])
      /\ UNCHANGED <<source, today, approval, disk, pointer, lock, granted>>
  BY LocalFacts DEF IInv, ReadPointer, env, store
<1>2. granted' = [granted EXCEPT ![p] = granted[p]]
  BY <1>1 DEF TypeOK
<1>3. /\ {"open", "opening"} \subseteq Validating /\ "serving" \notin Validating
      /\ {"serving", "opening"} \subseteq Phases \ LockedPhases
      /\ {"serving", "opening", "compile"} \intersect Building = {"compile"}
      /\ "open" \notin LockedPhases
  BY PhaseFacts DEF LockedPhases, Building
<1>4. CASE pointer = NoPointer
  <2>1. pc' = [pc EXCEPT ![p] = "serving"] /\ job' = [job EXCEPT ![p] = job[p]]
    BY <1>1, <1>4 DEF ReadPointer, Goto, TypeOK
  <2>2. Stage("serving", job[p]) = "serving"
    BY DEF Stage
  <2>3. LocalsSet("serving", job[p])
    BY <1>3, <2>2 DEF LocalsSet
  <2>4. BodiesOf(job[p].served) = {}
    BY <1>1, <1>3 DEF LocalsSet, BodiesOf
  <2>5. OnlyGranted("serving", job[p], granted[p])
    BY <1>3, <2>4 DEF OnlyGranted
  <2>6. QED
    BY <1>1, <1>2, <1>3, <2>1, <2>2, <2>3, <2>5, UnlockedStep
<1>5. CASE pointer # NoPointer
  <2> DEFINE j == [job[p] EXCEPT !.gen = Active(pointer)]
  <2>1. pc' = [pc EXCEPT ![p] = "opening"] /\ job' = [job EXCEPT ![p] = j]
    BY <1>5 DEF ReadPointer, Goto
  <2>2. Active(pointer) \in Generation
    BY <1>5, PointerFacts
  <2>3. /\ j \in Job /\ j.gen = Active(pointer) /\ j.served = job[p].served
        /\ j.approved = job[p].approved
    BY <1>1, <2>2 DEF Job
  <2> HIDE DEF j
  <2>4. Stage("opening", j) = "opening"
    BY DEF Stage
  <2>5. LocalsSet("opening", j) /\ OnlyGranted("opening", j, granted[p])
    BY <1>1, <1>3, <2>2, <2>3, <2>4 DEF LocalsSet, OnlyGranted
  <2>6. QED
    BY <1>1, <1>2, <1>3, <2>1, <2>3, <2>4, <2>5, UnlockedStep
<1>6. QED
  BY <1>4, <1>5

\* A server starts with a set that has just validated, or without one.
LEMMA OpenActiveStep ==
    ASSUME IInv, NEW p \in Process, OpenActive(p)
    PROVE  IInv'
<1> DEFINE g == job[p].gen
           packs == IF Opens(g, job[p].approved) THEN disk[g].packs ELSE {}
           warning == Warning(g, job[p].approved)
           j == [NoJob EXCEPT !.served = packs, !.warning = warning]
<1>1. /\ TypeOK /\ pc[p] = "opening" /\ job[p] \in Job
      /\ granted[p] \in SUBSET (Skill \X Digest)
      /\ UNCHANGED <<source, today, approval, disk, pointer>>
  BY LocalFacts DEF IInv, OpenActive, env, store
<1>2. CASE Return(p)
  BY <1>1, <1>2, ReturnStep
<1>3. CASE ~Return(p)
  <2>1. /\ job' = [job EXCEPT ![p] = j] /\ pc' = [pc EXCEPT ![p] = "serving"]
        /\ UNCHANGED <<lock, granted>>
    BY <1>3 DEF OpenActive, Goto
  <2>2. /\ "opening" \in Validating \ LockedPhases
        /\ "serving" \notin Validating \union Building
        /\ "serving" \in Phases \ LockedPhases
    BY PhaseFacts DEF LockedPhases, Building
  <2>3. g \in Generation
    BY <1>1, LocalFacts DEF LocalsSet, Stage
  <2>4. packs \in SUBSET Pack /\ BodiesOf(packs) \subseteq granted[p]
    <3>1. CASE Opens(g, job[p].approved)
      <4>1. disk[g] # None /\ BodiesOf(disk[g].packs) \subseteq granted[p]
        BY <3>1, <1>1, <2>2, <2>3, OpensIsGranted
      <4>2. QED
        BY <3>1, <4>1, <2>3, <1>1 DEF TypeOK, Bundle
    <3>2. CASE ~Opens(g, job[p].approved)
      BY <3>2 DEF BodiesOf
    <3>3. QED
      BY <3>1, <3>2
  <2>5. warning \in Warnings
    BY DEF Warning, Warnings
  <2> HIDE DEF packs, warning
  <2>6. j \in Job /\ j.served = packs
    BY <2>4, <2>5, NoJobSound DEF Job, NoJob
  <2> HIDE DEF j
  <2>7. Stage("serving", j) = "serving"
    BY DEF Stage
  <2>8. LocalsSet("serving", j) /\ OnlyGranted("serving", j, granted[p])
    BY <2>2, <2>4, <2>6, <2>7 DEF LocalsSet, OnlyGranted
  <2>9. granted' = [granted EXCEPT ![p] = granted[p]]
    BY <1>1, <2>1 DEF TypeOK
  <2>10. "serving" # "compile" /\ "serving" \notin Building
    BY <2>2
  <2>11. QED
    BY <1>1, <2>1, <2>2, <2>6, <2>7, <2>8, <2>9, <2>10, UnlockedStep
<1>4. QED
  BY <1>2, <1>3

--------------------------------------------------------------------------------
(* Every step.                                                             *)

\* Steps that only end a command.
LEMMA EndingStep ==
    ASSUME IInv, NEW p \in Process,
           \/ ApproveEnds(p) \/ PromoteRefused(p) \/ RollbackRefused(p)
           \/ RecoverRefused(p) \/ PruneEnds(p) \/ StopServing(p) \/ Crash(p)
    PROVE  IInv'
<1>1. Return(p) /\ UNCHANGED <<source, today, approval, disk, pointer>>
  BY DEF ApproveEnds, PromoteRefused, RollbackRefused, RecoverRefused,
     PruneEnds, StopServing, Crash, env, store
<1>2. QED
  BY <1>1, ReturnStep

LEMMA StartStep ==
    ASSUME IInv, NEW p \in Process, Start(p)
    PROVE  IInv'
<1>1. ASSUME StartRollback(p) \/ StartRecover(p) \/ StartServe(p)
      PROVE  IInv'
  <2>1. PICK then \in {"rollback", "recover", "open"} :
            Begin(p, [NoJob EXCEPT !.then = then])
    BY <1>1 DEF StartRollback, StartRecover, StartServe
  <2>2. QED
    BY <2>1, BeginStep
<1>2. ASSUME NEW sources \in SUBSET Candidate \ {{}}, StartActivate(p, sources)
      PROVE  IInv'
  BY <1>2, StartActivateStep
<1>3. QED
  BY <1>1, <1>2, AnalyzeCandidateStep, StartPruneStep DEF Start

LEMMA NextPreserves ==
    ASSUME IInv, [Next]_vars
    PROVE  IInv'
<1>1. ASSUME NEW p \in Process, ApproveStep(p)
      PROVE  IInv'
  BY <1>1, BodyDigestsStep, WriteApprovalStep, EndingStep DEF ApproveStep
<1>2. ASSUME NEW p \in Process, LoadStep(p)
      PROVE  IInv'
  BY <1>2, ListApprovalsStep, ReadApprovalStep, ApprovalsLoadedStep DEF LoadStep
<1>3. ASSUME NEW p \in Process, ActivateStep(p)
      PROVE  IInv'
  BY <1>3, CompileStep, PromoteValidatesStep, PromoteReadsCurrentStep,
     PromoteWritesStep, EndingStep DEF ActivateStep
<1>4. ASSUME NEW p \in Process, RestoreStep(p)
      PROVE  IInv'
  BY <1>4, RollbackValidatesStep, RollbackWritesStep, RecoverReadsStep,
     RecoverChecksStep, RecoverWritesStep, EndingStep DEF RestoreStep
<1>5. ASSUME NEW p \in Process, PruneStep(p)
      PROVE  IInv'
  BY <1>5, PruneScansStep, PruneUnlinksStep, EndingStep DEF PruneStep
<1>6. ASSUME NEW p \in Process, OpenStep(p)
      PROVE  IInv'
  BY <1>6, ReadPointerStep, OpenActiveStep DEF OpenStep
<1>7. ASSUME NEW p \in Process, StopServing(p) \/ Crash(p)
      PROVE  IInv'
  BY <1>7, EndingStep
<1>8. QED
  BY <1>1, <1>2, <1>3, <1>4, <1>5, <1>6, <1>7, StartStep, RevokeStep, EditStep
  DEF Next, Advance

LEMMA InitEstablishes == Init => IInv
<1> SUFFICES ASSUME Init PROVE IInv
  OBVIOUS
<1>1. Retain \in Nat \ {0} /\ None \notin Process /\ MaxDay \in Nat
  BY SkillLifecycleAssumption
<1>2. "idle" \in Phases /\ "idle" \notin LockedPhases
  BY PhaseFacts DEF LockedPhases
<1>3. NoPointer \in Seq(Generation) /\ Len(NoPointer) <= Retain + 1
  BY <1>1, EmptySeq DEF NoPointer
<1>4. TypeOK
  BY <1>1, <1>2, <1>3, NoJobSound DEF Init, TypeOK, NoApprovals
<1>5. PointerSound
  BY DEF Init, PointerSound, Distinct, Entries, NoPointer
<1>6. LockHeld
  BY <1>1, <1>2 DEF Init, LockHeld
<1>7. ASSUME NEW p \in Process PROVE Sound(p) /\ Fresh(p)
  BY NoJobSound DEF Init, Sound, Fresh
<1>8. QED
  BY <1>4, <1>5, <1>6, <1>7 DEF IInv

\* Every reachable state satisfies the inductive invariant.
THEOREM SkillInvariant == Spec => []IInv
BY InitEstablishes, NextPreserves, PTL DEF Spec

\* Every variable keeps its shape and the pointer stays within Retain + 1
\* entries, whatever interleaving of commands, grants, edits and deaths wrote it.
THEOREM SkillTypeCorrect == Spec => []TypeOK
<1>1. IInv => TypeOK
  BY DEF IInv
<1>2. QED
  BY <1>1, SkillInvariant, PTL

\* The pointer never names a generation twice, nor one that is not on disk.
THEOREM SkillPointerIsSound == Spec => []PointerSound
<1>1. IInv => PointerSound
  BY DEF IInv
<1>2. QED
  BY <1>1, SkillInvariant, PTL

\* A server dispatches only bodies that were approved since it began to start.
THEOREM ServedOnlyApproved == Spec => []ServedWasApproved
<1>1. IInv => ServedWasApproved
  BY LocalFacts DEF ServedWasApproved, OnlyGranted
<1>2. QED
  BY <1>1, SkillInvariant, PTL

--------------------------------------------------------------------------------
(* What becomes active, and what stays.                                    *)

\* Only three steps write the pointer.
LEMMA PointerWriters ==
    ASSUME IInv, [Next]_vars, pointer' # pointer
    PROVE  \E p \in Process : PromoteWrites(p) \/ RollbackWrites(p) \/ RecoverWrites(p)
<1>1. ASSUME NEW p \in Process, Start(p)
      PROVE  UNCHANGED pointer
  BY <1>1 DEF Start, AnalyzeCandidate, StartActivate, StartRollback, StartRecover,
     StartPrune, StartServe, Begin, store
<1>2. ASSUME NEW p \in Process, ApproveStep(p) \/ LoadStep(p)
      PROVE  UNCHANGED pointer
  BY <1>2 DEF ApproveStep, LoadStep, BodyDigests, WriteApproval, ApproveEnds,
     ListApprovals, ReadApproval, ApprovalsLoaded, store
<1>3. ASSUME NEW p \in Process, ActivateStep(p)
      PROVE  UNCHANGED pointer \/ PromoteWrites(p)
  BY <1>3 DEF ActivateStep, Compile, PromoteValidates, PromoteRefused,
     PromoteReadsCurrent, store
<1>4. ASSUME NEW p \in Process, RestoreStep(p)
      PROVE  UNCHANGED pointer \/ RollbackWrites(p) \/ RecoverWrites(p)
  BY <1>4 DEF RestoreStep, RollbackValidates, RollbackRefused, RecoverReads,
     RecoverRefused, RecoverChecks, store
<1>5. ASSUME NEW p \in Process,
             PruneStep(p) \/ OpenStep(p) \/ StopServing(p) \/ Crash(p)
      PROVE  UNCHANGED pointer
  BY <1>5 DEF PruneStep, PruneScans, PruneUnlinks, PruneEnds, OpenStep, ReadPointer,
     OpenActive, StopServing, Crash, store
<1>6. ASSUME \/ \E s \in Skill : Revoke(s)
             \/ \E c \in Candidate : EditCandidate(c)
             \/ Tomorrow \/ UNCHANGED vars
      PROVE  UNCHANGED pointer
  BY <1>6 DEF Revoke, EditCandidate, Tomorrow, store, vars
<1>7. QED
  BY <1>1, <1>2, <1>3, <1>4, <1>5, <1>6 DEF Next, Advance

\* Each of them puts a set in front that its command was granted.
LEMMA ActivatesWhatWasGranted ==
    ASSUME IInv, [Next]_vars, pointer' # pointer
    PROVE  BodiesOf(disk[Active(pointer')].packs) \subseteq granted[lock]
<1>1. PICK p \in Process : PromoteWrites(p) \/ RollbackWrites(p) \/ RecoverWrites(p)
  BY PointerWriters
<1>2. Retain \in Nat \ {0} /\ pointer \in Seq(Generation) /\ Distinct(pointer)
  BY PointerFacts, SkillLifecycleAssumption
<1>3. CASE PromoteWrites(p)
  <2>1. PICK g \in Generation : /\ pointer' = Promoted(pointer, g, Retain) /\ lock = p
                                /\ BodiesOf(disk[g].packs) \subseteq granted[p]
    BY <1>3, PromoteWritesFacts
  <2>2. pointer'[1] = g
    BY <2>1, <1>2, PromotedEntries
  <2>3. QED
    BY <2>1, <2>2 DEF Active
<1>4. CASE RollbackWrites(p)
  <2>1. /\ pointer' = RolledBack(pointer) /\ lock = p /\ Len(pointer) >= 2
        /\ BodiesOf(disk[pointer[2]].packs) \subseteq granted[p]
    BY <1>4, RollbackWritesFacts
  <2>2. pointer'[1] = pointer[2]
    BY <2>1, <1>2, RolledBackEntries
  <2>3. QED
    BY <2>1, <2>2 DEF Active
<1>5. CASE RecoverWrites(p)
  <2>1. PICK v \in Seq(Generation) :
            /\ v # << >> /\ pointer' = FirstOf(v, 3) /\ lock = p
            /\ BodiesOf(disk[v[1]].packs) \subseteq granted[p]
    BY <1>5, RecoverWritesFacts
  <2>2. Len(v) \in Nat \ {0}
    BY <2>1, EmptySeq, LenProperties
  <2>3. pointer'[1] = v[1]
    <3>1. 1 \in 1..Len(FirstOf(v, 3))
      BY <2>2, FirstOfPrefix
    <3>2. QED
      BY <3>1, <2>1, FirstOfPrefix
  <2>4. QED
    BY <2>1, <2>3 DEF Active
<1>6. QED
  BY <1>1, <1>3, <1>4, <1>5

\* Whichever way a set becomes active, and whatever is granted, revoked, edited
\* or lost meanwhile, every body in it was approved at some moment since the
\* command that activates it started.
THEOREM ActivatedOnlyApproved == Spec => ActivatedWasApproved
BY SkillInvariant, ActivatesWhatWasGranted, PTL DEF Spec, ActivatedWasApproved

LEMMA KeepsTheRetained ==
    ASSUME IInv, [Next]_vars, pointer' # pointer
    PROVE  \/ Entries(FirstOf(pointer, Retain)) \subseteq Entries(pointer')
           \/ \E p \in Process : pc[p] = "recover_check" /\ pc'[p] = "idle"
<1>1. PICK p \in Process : PromoteWrites(p) \/ RollbackWrites(p) \/ RecoverWrites(p)
  BY PointerWriters
<1>2. Retain \in Nat \ {0} /\ pointer \in Seq(Generation) /\ Distinct(pointer)
  BY PointerFacts, SkillLifecycleAssumption
<1>3. CASE PromoteWrites(p)
  <2>1. PICK g \in Generation : pointer' = Promoted(pointer, g, Retain)
    BY <1>3, PromoteWritesFacts
  <2>2. QED
    BY <2>1, <1>2, PromotedKeeps
<1>4. CASE RollbackWrites(p)
  <2>1. pointer' = RolledBack(pointer) /\ Len(pointer) >= 2
    BY <1>4, RollbackWritesFacts
  <2>2. Entries(pointer') = Entries(pointer)
    BY <2>1, <1>2, RolledBackEntries
  <2>3. Entries(FirstOf(pointer, Retain)) \subseteq Entries(pointer)
    BY <1>2, FirstOfDistinct
  <2>4. QED
    BY <2>2, <2>3
<1>5. CASE RecoverWrites(p)
  <2>1. TypeOK
    BY DEF IInv
  <2>2. QED
    BY <1>5, <2>1 DEF RecoverWrites, Return, Goto, TypeOK
<1>6. QED
  BY <1>1, <1>3, <1>4, <1>5

\* The Retain most recent generations survive every promotion and rollback.
THEOREM RetainedSurvive == Spec => RetentionKept
BY SkillInvariant, KeepsTheRetained, PTL DEF Spec, RetentionKept

--------------------------------------------------------------------------------
(* The directory implements GenerationStore.                               *)

\* The instance has its own copies of PointerFile's operators.
LEMMA SameOperators ==
    /\ Store!NoPointer = NoPointer
    /\ \A s : Store!Entries(s) = Entries(s)
    /\ \A s : Store!Distinct(s) = Distinct(s)
    /\ \A s : Store!RolledBack(s) = RolledBack(s)
    /\ \A s, e, n : Store!Promoted(s, e, n) = Promoted(s, e, n)
<1>1. Store!NoPointer = NoPointer
  BY DEF Store!NoPointer, NoPointer
<1>2. \A s : Store!Entries(s) = Entries(s)
  BY DEF Store!Entries, Entries
<1>3. \A s : Store!Distinct(s) = Distinct(s)
  BY DEF Store!Distinct, Distinct
<1>4. \A s : Store!RolledBack(s) = RolledBack(s)
  BY DEF Store!RolledBack, RolledBack
<1>5. \A s, e : Store!WithoutEntry(s, e) = WithoutEntry(s, e)
  BY <1>2 DEF Store!WithoutEntry, WithoutEntry
<1>6. \A s, n : Store!FirstOf(s, n) = FirstOf(s, n)
  BY DEF Store!FirstOf, FirstOf
<1>7. \A s, e, n : Store!Promoted(s, e, n) = Promoted(s, e, n)
  BY <1>5, <1>6 DEF Store!Promoted, Promoted
<1>8. QED
  BY <1>1, <1>2, <1>3, <1>4, <1>7

\* A prefix of a sequence keeps its order.
LEMMA PrefixKeepsOrder ==
    ASSUME NEW S, NEW s \in Seq(S), NEW n \in Nat,
           NEW x, NEW y, Store!Ahead(FirstOf(s, n), x, y)
    PROVE  Store!Ahead(s, x, y)
<1>1. PICK f \in Seq(S) : /\ f = FirstOf(s, n) /\ Len(f) <= Len(s)
                          /\ \A i \in 1..Len(f) : f[i] = s[i]
  BY FirstOfPrefix
<1>2. PICK i \in DOMAIN f, k \in DOMAIN f : i < k /\ f[i] = x /\ f[k] = y
  BY <1>1 DEF Store!Ahead
<1>3. /\ DOMAIN f = 1..Len(f) /\ DOMAIN s = 1..Len(s)
      /\ Len(f) \in Nat /\ Len(s) \in Nat
  BY LenProperties
<1>4. i \in DOMAIN s /\ k \in DOMAIN s /\ s[i] = x /\ s[k] = y
  BY <1>1, <1>2, <1>3
<1>5. QED
  BY <1>2, <1>4 DEF Store!Ahead

\* A compilation stores a generation, or nothing.
LEMMA CompileStores ==
    ASSUME IInv, NEW p \in Process, Compile(p)
    PROVE  (\E g \in Generation : Store!Store(g)) \/ UNCHANGED <<pointer, Stored>>
<1> DEFINE g == job[p].gen
           file == [packs |-> {source[c] : c \in job[p].sources}]
<1>1. /\ TypeOK /\ pc[p] = "compile" /\ job[p] \in Job /\ UNCHANGED pointer
      /\ LocalsSet(pc[p], job[p])
  BY LocalFacts DEF IInv, Compile
<1>2. Stage(pc[p], job[p]) = "compile" /\ "compile" \in Building
  BY <1>1 DEF Stage, Building
<1>3. g \in Generation /\ disk[g] = None /\ g \notin Entries(pointer)
  BY <1>1, <1>2 DEF IInv, Fresh, LocalsSet
<1>4. CASE UNCHANGED disk
  BY <1>1, <1>4 DEF Stored
<1>5. CASE disk' = [disk EXCEPT ![g] = file]
  <2>1. file \in Bundle
    BY <1>1 DEF TypeOK, Job, Bundle
  <2>2. file # None
    BY <2>1, NoneIsNoFile
  <2> HIDE DEF file, g
  <2>3. Stored' = Stored \union {g} /\ g \notin Stored
    BY <1>1, <1>3, <1>5, <2>2 DEF Stored, TypeOK
  <2>4. Store!Store(g)
    BY <1>1, <1>3, <2>3, SameOperators DEF Store!Store
  <2>5. QED
    BY <1>3, <2>4
<1>6. QED
  BY <1>4, <1>5 DEF Compile

LEMMA PromoteWritesPublishes ==
    ASSUME IInv, NEW p \in Process, PromoteWrites(p)
    PROVE  \E g \in Generation : Store!Publish(g)
<1>1. PICK g \in Generation : disk[g] # None /\ pointer' = Promoted(pointer, g, Retain)
  BY PromoteWritesFacts
<1>2. Stored' = Stored /\ g \in Stored
  BY <1>1 DEF PromoteWrites, Stored, IInv, TypeOK
<1>3. Store!Publish(g)
  BY <1>1, <1>2, SameOperators DEF Store!Publish
<1>4. QED
  BY <1>3

LEMMA RollbackWritesRestores ==
    ASSUME IInv, NEW p \in Process, RollbackWrites(p)
    PROVE  Store!Restore \/ UNCHANGED <<pointer, Stored>>
<1>1. Stored' = Stored
  BY DEF RollbackWrites, Stored
<1>2. QED
  BY <1>1, RollbackWritesFacts, SameOperators DEF Store!Restore

LEMMA RecoverWritesSalvages ==
    ASSUME IInv, NEW p \in Process, RecoverWrites(p), pointer' # pointer
    PROVE  Store!Salvage
<1>1. Stored' = Stored
  BY DEF RecoverWrites, Stored
<1>2. PICK v \in Seq(Generation) :
          /\ v # << >> /\ Entries(v) \subseteq Entries(pointer) /\ Distinct(v)
          /\ \A x, y \in Entries(v) : Store!Ahead(v, x, y) => Store!Ahead(pointer, x, y)
          /\ pointer' = FirstOf(v, 3)
  BY RecoverWritesFacts
<1>3. Distinct(pointer') /\ Entries(pointer') \subseteq Entries(v)
  BY <1>2, FirstOfDistinct
<1>4. pointer' # NoPointer
  <2>1. Len(v) \in Nat \ {0}
    BY <1>2, EmptySeq, LenProperties
  <2>2. Len(FirstOf(v, 3)) # 0
    BY <2>1, FirstOfPrefix
  <2>3. QED
    BY <2>2, <1>2, EmptySeq DEF NoPointer
<1>5. ASSUME NEW x \in Entries(pointer'), NEW y \in Entries(pointer'),
             Store!Ahead(pointer', x, y)
      PROVE  Store!Ahead(pointer, x, y)
  BY <1>2, <1>3, <1>5, PrefixKeepsOrder
<1>6. QED
  BY <1>1, <1>2, <1>3, <1>4, <1>5, SameOperators DEF Store!Salvage

LEMMA PruneUnlinksCollects ==
    ASSUME IInv, NEW p \in Process, NEW g \in Generation, PruneUnlinks(p, g)
    PROVE  Store!Collect(g) \/ UNCHANGED <<pointer, Stored>>
<1>1. TypeOK /\ g \notin Entries(pointer) /\ UNCHANGED pointer
  BY LocalFacts DEF IInv, PruneUnlinks, ReadsHold
<1>2. Stored' = Stored \ {g}
  BY <1>1 DEF PruneUnlinks, Stored, TypeOK
<1>3. QED
  BY <1>1, <1>2, SameOperators DEF Store!Collect

\* Only a compilation and an unlink change the files.
LEMMA DiskWriters ==
    ASSUME IInv, [Next]_vars, disk' # disk
    PROVE  \E p \in Process : Compile(p) \/ \E g \in Generation : PruneUnlinks(p, g)
<1>1. ASSUME NEW p \in Process, Start(p)
      PROVE  UNCHANGED disk
  BY <1>1 DEF Start, AnalyzeCandidate, StartActivate, StartRollback, StartRecover,
     StartPrune, StartServe, Begin, store
<1>2. ASSUME NEW p \in Process, ApproveStep(p) \/ LoadStep(p)
      PROVE  UNCHANGED disk
  BY <1>2 DEF ApproveStep, LoadStep, BodyDigests, WriteApproval, ApproveEnds,
     ListApprovals, ReadApproval, ApprovalsLoaded, store
<1>3. ASSUME NEW p \in Process, ActivateStep(p)
      PROVE  UNCHANGED disk \/ Compile(p)
  BY <1>3 DEF ActivateStep, PromoteValidates, PromoteRefused,
     PromoteReadsCurrent, PromoteWrites, store
<1>4. ASSUME NEW p \in Process, RestoreStep(p)
      PROVE  UNCHANGED disk
  BY <1>4 DEF RestoreStep, RollbackValidates, RollbackRefused, RollbackWrites,
     RecoverReads, RecoverRefused, RecoverChecks, RecoverWrites, store
<1>5. ASSUME NEW p \in Process, PruneStep(p)
      PROVE  UNCHANGED disk \/ \E g \in Generation : PruneUnlinks(p, g)
  BY <1>5 DEF PruneStep, PruneScans, PruneEnds, store
<1>6. ASSUME NEW p \in Process, OpenStep(p) \/ StopServing(p) \/ Crash(p)
      PROVE  UNCHANGED disk
  BY <1>6 DEF OpenStep, ReadPointer, OpenActive, StopServing, Crash, store
<1>7. ASSUME \/ \E s \in Skill : Revoke(s)
             \/ \E c \in Candidate : EditCandidate(c)
             \/ Tomorrow \/ UNCHANGED vars
      PROVE  UNCHANGED disk
  BY <1>7 DEF Revoke, EditCandidate, Tomorrow, store, vars
<1>8. QED
  BY <1>1, <1>2, <1>3, <1>4, <1>5, <1>6, <1>7 DEF Next, Advance

\* Every step of the directory is a step of the abstract store, or none.
LEMMA NextImplements ==
    ASSUME IInv, [Next]_vars
    PROVE  [Store!Next]_(Store!vars)
<1> SUFFICES Store!Next \/ UNCHANGED <<pointer, Stored>>
  BY DEF Store!vars
<1>1. CASE pointer' # pointer
  <2>1. PICK p \in Process : PromoteWrites(p) \/ RollbackWrites(p) \/ RecoverWrites(p)
    BY <1>1, PointerWriters
  <2>2. QED
    BY <1>1, <2>1, PromoteWritesPublishes, RollbackWritesRestores,
       RecoverWritesSalvages DEF Store!Next
<1>2. CASE disk' # disk
  <2>1. PICK p \in Process : Compile(p) \/ \E g \in Generation : PruneUnlinks(p, g)
    BY <1>2, DiskWriters
  <2>2. QED
    BY <2>1, CompileStores, PruneUnlinksCollects DEF Store!Next
<1>3. CASE UNCHANGED <<disk, pointer>>
  BY <1>3 DEF Stored
<1>4. QED
  BY <1>1, <1>2, <1>3

LEMMA InitImplements == Init => Store!Init
<1>1. Init => Stored = {}
  BY DEF Init, Stored
<1>2. QED
  BY <1>1, SameOperators DEF Init, Store!Init

\* The skill directory, its lock and its commands implement the abstract store.
THEOREM SkillRefinement == Spec => StoreRefined
BY SkillInvariant, InitImplements, NextImplements, PTL DEF Spec, StoreRefined, Store!Spec
================================================================================
