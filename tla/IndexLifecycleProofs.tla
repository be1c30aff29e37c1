-------------------------- MODULE IndexLifecycleProofs --------------------------
(***************************************************************************)
(* The type invariant, the soundness of the pointer, the abstract store it *)
(* implements and what the generation files hold, for any number of        *)
(* commands, projects, models, policies and generations.                   *)
(***************************************************************************)
EXTENDS IndexLifecycle, ListProofs, TLAPS

\* The process p moves to `phase` with locals j, and nothing shared but the
\* lock changes.  All that is left to check is about p itself.
LEMMA LocalStep ==
    ASSUME IInv,
           NEW p \in Process, NEW phase \in Phases, NEW j \in Job,
           pc' = [pc EXCEPT ![p] = phase],
           job' = [job EXCEPT ![p] = j],
           UNCHANGED <<corpus, policy, disk, pointer, basis>>,
           descriptor' \in Config \union {None, Torn},
           lock' \in Process \union {None},
           \A q \in Process \ {p} : lock' = q <=> lock = q,
           lock' = p <=> phase \in LockedPhases,
           LocalsSet(phase, j), ReadsHold(phase, j), SalvageSound(phase, j),
           phase \in Unbuilt =>
               disk[j.gen] = None /\ j.gen \notin Entries(pointer),
           phase \in Unbuilt =>
               \A q \in Process \ {p} : pc[q] \in Building => job[q].gen # j.gen,
           phase \in Building =>
               \A q \in Process \ {p} : pc[q] \in Unbuilt => job[q].gen # j.gen
    PROVE  IInv'
<1>1. TypeOK /\ PointerSound /\ ProcessSound /\ LockHeld /\ NamesFresh
  BY DEF IInv
<1>2. /\ pc'[p] = phase /\ job'[p] = j
      /\ \A q \in Process \ {p} : pc'[q] = pc[q] /\ job'[q] = job[q]
  BY <1>1 DEF TypeOK
<1>3. TypeOK'
  BY <1>1 DEF TypeOK
<1>4. PointerSound'
  BY <1>1 DEF PointerSound, Distinct, Entries
<1>5. ProcessSound'
  <2> SUFFICES ASSUME NEW q \in Process
               PROVE  (/\ LocalsSet(pc[q], job[q])
                       /\ ReadsHold(pc[q], job[q])
                       /\ SalvageSound(pc[q], job[q]))'
    BY DEF ProcessSound
  <2>1. /\ LocalsSet(pc'[q], job'[q])
        /\ ReadsHold(pc'[q], job'[q])
        /\ SalvageSound(pc'[q], job'[q])
    BY <1>1, <1>2 DEF ProcessSound
  <2>2. LocalsSet(pc[q], job[q])'
    BY <2>1 DEF LocalsSet
  <2>3. ReadsHold(pc[q], job[q])'
    BY <2>1 DEF ReadsHold
  <2>4. SalvageSound(pc[q], job[q])'
    BY <2>1 DEF SalvageSound
  <2>5. QED
    BY <2>2, <2>3, <2>4
<1>6. LockHeld'
  BY <1>1, <1>2 DEF LockHeld
<1>7. NamesFresh'
  <2> SUFFICES ASSUME NEW q \in Process, pc'[q] \in Unbuilt
               PROVE  /\ disk[job'[q].gen] = None
                      /\ job'[q].gen \notin Entries(pointer)
                      /\ \A r \in Process \ {q} :
                             pc'[r] \in Building => job'[r].gen # job'[q].gen
    BY DEF NamesFresh, Entries
  <2>1. CASE q = p
    BY <2>1, <1>2
  <2>2. CASE q # p
    BY <2>2, <1>1, <1>2 DEF NamesFresh
  <2>3. QED
    BY <2>1, <2>2
<1>8. QED
  BY <1>3, <1>4, <1>5, <1>6, <1>7 DEF IInv

\* A record of no job at all satisfies every local condition of "idle".
LEMMA NoJobSound ==
    NoJob \in Job /\ LocalsSet("idle", NoJob) /\ ReadsHold("idle", NoJob)
                  /\ SalvageSound("idle", NoJob)
<1>1. NoJob \in Job
  BY DEF NoJob, Job, NoPointer
<1>2. QED
  BY <1>1 DEF LocalsSet, ReadsHold, SalvageSound, Building, Unbuilt

\* A command that ends, fails or dies leaves the invariant alone.
LEMMA ReturnStep ==
    ASSUME IInv, NEW p \in Process, Return(p),
           UNCHANGED <<corpus, policy, disk, pointer, basis>>,
           descriptor' \in Config \union {None, Torn}
    PROVE  IInv'
<1>1. TypeOK
  BY DEF IInv
<1>2. /\ "idle" \in Phases
      /\ pc' = [pc EXCEPT ![p] = "idle"]
      /\ job' = [job EXCEPT ![p] = NoJob]
  BY DEF Return, Goto, Phases
<1>3. "idle" \notin Building /\ "idle" \notin Unbuilt /\ "idle" \notin LockedPhases
  BY DEF Building, Unbuilt, LockedPhases
<1>4. None \notin Process
  BY IndexLifecycleAssumption
<1>5. /\ lock' \in Process \union {None}
      /\ \A q \in Process \ {p} : lock' = q <=> lock = q
      /\ lock' # p
  BY <1>1, <1>4 DEF Return, TypeOK
<1>6. QED
  BY <1>2, <1>3, <1>5, NoJobSound, LocalStep

LEMMA StartIndexStep ==
    ASSUME IInv, NEW p \in Process, NEW c \in Config, StartIndex(p, c)
    PROVE  IInv'
<1>1. TypeOK /\ LockHeld
  BY DEF IInv
<1>2. PICK g \in NewNames :
          job' = [job EXCEPT ![p] = [NoJob EXCEPT !.config = c,
                                                  !.policy = policy[c.project],
                                                  !.gen = g,
                                                  !.prior = ActiveDatabase]]
  BY DEF StartIndex
<1> DEFINE j == [NoJob EXCEPT !.config = c, !.policy = policy[c.project],
                              !.gen = g, !.prior = ActiveDatabase]
<1>3. /\ g \in Generation /\ disk[g] = None /\ g \notin Entries(pointer)
      /\ \A q \in Process : job[q].gen # g
  BY DEF NewNames, Mentioned
<1>4. policy[c.project] \in PolicyText
  BY <1>1, IndexLifecycleAssumption DEF TypeOK
<1>5. ActiveDatabase \in Generation \union {None}
  BY <1>1 DEF TypeOK, ActiveDatabase, Active, NoPointer
<1>6. j \in Job /\ j.config = c /\ j.policy = policy[c.project] /\ j.gen = g
  <2> DEFINE k == [NoJob EXCEPT !.config = c, !.policy = policy[c.project]]
  <2>1. k \in Job /\ k.config = c /\ k.policy = policy[c.project]
    BY <1>4, NoJobSound DEF Job
  <2>2. j = [k EXCEPT !.gen = g, !.prior = ActiveDatabase]
    BY NoJobSound DEF Job
  <2>3. ActiveDatabase \in Generation \union {None} /\ g \in Generation \union {None}
    BY <1>3, <1>5
  <2> HIDE DEF j, k
  <2>4. j \in Job
    BY <2>1, <2>2, <2>3 DEF Job
  <2>5. j.config = k.config /\ j.policy = k.policy /\ j.gen = g
    BY <2>1, <2>2 DEF Job
  <2>6. QED
    BY <2>1, <2>4, <2>5
<1>7. /\ pc' = [pc EXCEPT ![p] = "parse"] /\ job' = [job EXCEPT ![p] = j]
      /\ UNCHANGED <<corpus, policy, disk, pointer, basis, descriptor, lock>>
  BY <1>2 DEF StartIndex, Goto, env, store
<1> HIDE DEF j
<1>8. LocalsSet("parse", j) /\ ReadsHold("parse", j) /\ SalvageSound("parse", j)
  BY <1>3, <1>4, <1>6 DEF LocalsSet, ReadsHold, SalvageSound, Building, Unbuilt
<1>9. /\ lock' \in Process \union {None} /\ descriptor' \in Config \union {None, Torn}
      /\ \A q \in Process \ {p} : lock' = q <=> lock = q
      /\ lock' # p /\ "parse" \notin LockedPhases /\ "parse" \in Phases
  BY <1>1, <1>7 DEF TypeOK, LockHeld, LockedPhases, Phases, StartIndex
<1>10. QED
  BY <1>3, <1>6, <1>7, <1>8, <1>9, LocalStep

\* A step that takes no lock and holds none, to a phase that builds nothing.
LEMMA UnlockedStep ==
    ASSUME IInv,
           NEW p \in Process, NEW phase \in Phases, NEW j \in Job,
           pc' = [pc EXCEPT ![p] = phase],
           job' = [job EXCEPT ![p] = j],
           UNCHANGED <<corpus, policy, disk, pointer, basis, lock>>,
           descriptor' \in Config \union {None, Torn},
           pc[p] \notin LockedPhases, phase \notin LockedPhases \union Building,
           LocalsSet(phase, j)
    PROVE  IInv'
<1>1. TypeOK /\ LockHeld
  BY DEF IInv
<1>2. /\ lock' \in Process \union {None} /\ lock' # p
      /\ \A q \in Process \ {p} : lock' = q <=> lock = q
  BY <1>1 DEF TypeOK, LockHeld
<1>3. ReadsHold(phase, j) /\ SalvageSound(phase, j)
  BY DEF ReadsHold, SalvageSound, LockedPhases, Building
<1>4. phase \notin Unbuilt
  BY DEF Building
<1>5. QED
  BY <1>2, <1>3, <1>4, LocalStep

\* A step that takes the lock for a section that does not build.
LEMMA AcquireStep ==
    ASSUME IInv,
           NEW p \in Process, NEW phase \in LockedPhases, NEW j \in Job,
           pc' = [pc EXCEPT ![p] = phase],
           job' = [job EXCEPT ![p] = j],
           UNCHANGED <<corpus, policy, disk, pointer, basis, descriptor>>,
           Acquire(p), phase \notin Building,
           LocalsSet(phase, j), ReadsHold(phase, j), SalvageSound(phase, j)
    PROVE  IInv'
<1>1. TypeOK
  BY DEF IInv
<1>2. None \notin Process
  BY IndexLifecycleAssumption
<1>3. /\ lock' \in Process \union {None} /\ lock' = p
      /\ descriptor' \in Config \union {None, Torn}
      /\ \A q \in Process \ {p} : lock' = q <=> lock = q
  BY <1>1, <1>2 DEF TypeOK, Acquire
<1>4. phase \notin Unbuilt /\ phase \in Phases
  BY DEF Building, Phases
<1>5. QED
  BY <1>3, <1>4, LocalStep

\* A step of a run that keeps building under the name it has.
LEMMA BuildingStep ==
    ASSUME IInv,
           NEW p \in Process, NEW phase \in Building, NEW j \in Job,
           pc' = [pc EXCEPT ![p] = phase],
           job' = [job EXCEPT ![p] = j],
           UNCHANGED <<corpus, policy, disk, pointer, basis, descriptor>>,
           pc[p] \in Building, phase \in Unbuilt => pc[p] \in Unbuilt,
           lock' \in Process \union {None},
           \A q \in Process \ {p} : lock' = q <=> lock = q,
           lock' = p <=> phase \in LockedPhases,
           j.config = job[p].config, j.policy = job[p].policy,
           j.gen = job[p].gen, phase = "embed" => j.manifest \in Manifest,
           ReadsHold(phase, j)
    PROVE  IInv'
<1>1. TypeOK /\ ProcessSound /\ NamesFresh
  BY DEF IInv
<1>2. LocalsSet(phase, j) /\ SalvageSound(phase, j)
  BY <1>1 DEF ProcessSound, LocalsSet, SalvageSound, Building, Unbuilt
<1>3. phase \in Phases /\ descriptor' \in Config \union {None, Torn}
  BY <1>1 DEF TypeOK, Building, Unbuilt, Phases, LockedPhases
<1>4. phase \in Unbuilt =>
          /\ disk[j.gen] = None /\ j.gen \notin Entries(pointer)
          /\ \A q \in Process \ {p} : pc[q] \in Building => job[q].gen # j.gen
  BY <1>1 DEF NamesFresh
<1>5. \A q \in Process \ {p} : pc[q] \in Unbuilt => job[q].gen # j.gen
  BY <1>1 DEF NamesFresh
<1>6. QED
  BY <1>2, <1>3, <1>4, <1>5, LocalStep

LEMMA ParseCorpusStep ==
    ASSUME IInv, NEW p \in Process, ParseCorpus(p)
    PROVE  IInv'
<1> DEFINE c == job[p].config
           m == Selected[job[p].policy, corpus[c.project]]
           v == {c.model} \union Reusable(p)
           j == [job[p] EXCEPT !.manifest = m, !.vectors = v]
<1>1. TypeOK /\ ProcessSound /\ LockHeld /\ pc[p] = "parse"
  BY DEF IInv, ParseCorpus
<1>2. c \in Config /\ job[p].policy \in PolicyText /\ job[p] \in Job
  BY <1>1 DEF TypeOK, ProcessSound, LocalsSet, Building, Unbuilt
<1>3. m \in Manifest /\ c.model \in Model
  BY <1>1, <1>2, IndexLifecycleAssumption DEF TypeOK
<1>4. Reusable(p) \subseteq Model
  BY <1>1, <1>2 DEF Reusable, TypeOK, Job, Build
<1>5. /\ j \in Job /\ j.config = job[p].config /\ j.policy = job[p].policy
      /\ j.gen = job[p].gen /\ j.manifest = m
  BY <1>2, <1>3, <1>4 DEF Job
<1>6. /\ pc' = [pc EXCEPT ![p] = "embed"] /\ job' = [job EXCEPT ![p] = j]
      /\ UNCHANGED <<corpus, policy, disk, pointer, basis, descriptor, lock>>
  BY DEF ParseCorpus, Goto, env, store
<1> HIDE DEF j, m, v, c
<1>7. ReadsHold("embed", j)
  BY DEF ReadsHold
<1>8. /\ "embed" \in Unbuilt /\ pc[p] \in Unbuilt /\ "embed" \in Building
      /\ pc[p] \in Building /\ "embed" \notin LockedPhases /\ pc[p] \notin LockedPhases
  BY <1>1 DEF Building, Unbuilt, LockedPhases
<1>9. /\ lock' \in Process \union {None} /\ lock' # p
      /\ \A q \in Process \ {p} : lock' = q <=> lock = q
  BY <1>1, <1>6, <1>8 DEF TypeOK, LockHeld
<1>10. QED
  BY <1>3, <1>5, <1>6, <1>7, <1>8, <1>9, BuildingStep

LEMMA PromoteValidatesStep ==
    ASSUME IInv, NEW p \in Process, PromoteValidates(p)
    PROVE  IInv'
<1> DEFINE see == Seen(job[p].config, job[p].policy)
           j == [job[p] EXCEPT !.seen = see]
<1>1. TypeOK /\ ProcessSound /\ pc[p] = "built"
  BY DEF IInv, PromoteValidates
<1>2. job[p].config \in Config /\ job[p] \in Job /\ disk[job[p].gen] # None
  BY <1>1 DEF TypeOK, ProcessSound, LocalsSet, Building, Unbuilt,
              PromoteValidates, Validated
<1>3. see \in Basis
  <2>1. job[p].policy \in PolicyText
    BY <1>1 DEF ProcessSound, LocalsSet, Building
  <2>2. QED
    BY <1>1, <1>2, <2>1, IndexLifecycleAssumption DEF TypeOK, Basis, Seen
<1> HIDE DEF see
<1>4. /\ j \in Job /\ j.config = job[p].config /\ j.policy = job[p].policy
      /\ j.gen = job[p].gen
  BY <1>2, <1>3 DEF Job
<1>5. /\ pc' = [pc EXCEPT ![p] = "promote_read"] /\ job' = [job EXCEPT ![p] = j]
      /\ UNCHANGED <<corpus, policy, disk, pointer, basis, descriptor>>
  BY DEF PromoteValidates, Goto, env, store, see
<1> HIDE DEF j
<1>6. ReadsHold("promote_read", j)
  BY <1>2, <1>4 DEF ReadsHold
<1>7. /\ "promote_read" \notin Unbuilt /\ "promote_read" \in Building
      /\ pc[p] \in Building /\ "promote_read" \in LockedPhases
  BY <1>1 DEF Building, Unbuilt, LockedPhases
<1>8. None \notin Process
  BY IndexLifecycleAssumption
<1>9. /\ lock' \in Process \union {None} /\ lock' = p
      /\ \A q \in Process \ {p} : lock' = q <=> lock = q
  BY <1>1, <1>8 DEF TypeOK, PromoteValidates, Acquire
<1>10. QED
  BY <1>4, <1>5, <1>6, <1>7, <1>9, BuildingStep

LEMMA PromoteReadsCurrentStep ==
    ASSUME IInv, NEW p \in Process, PromoteReadsCurrent(p)
    PROVE  IInv'
<1>1. TypeOK /\ ProcessSound /\ LockHeld /\ pc[p] = "promote_read"
  BY DEF IInv, PromoteReadsCurrent
<1>2. UNCHANGED <<corpus, policy, disk, pointer, basis, descriptor>>
  BY DEF PromoteReadsCurrent, env, store
<1>3. CASE Return(p)
  BY <1>1, <1>2, <1>3, ReturnStep DEF TypeOK
<1>4. CASE ~Return(p)
  <2> DEFINE keep == Retainable(job[p].config)
             cur == IF keep THEN pointer ELSE NoPointer
             dis == pointer # NoPointer /\ ~keep
             j == [job[p] EXCEPT !.current = cur, !.discarded = dis]
  <2>1. /\ pc' = [pc EXCEPT ![p] = "promote_write"] /\ job' = [job EXCEPT ![p] = j]
        /\ lock' = lock
    BY <1>4 DEF PromoteReadsCurrent, Goto
  <2>2. /\ cur = pointer \/ (cur = NoPointer /\ dis)
        /\ cur \in Seq(Generation) /\ dis \in BOOLEAN
    BY <1>1 DEF TypeOK, NoPointer
  <2> HIDE DEF cur, dis, keep
  <2>3. job[p] \in Job
    BY <1>1 DEF TypeOK
  <2>4. /\ j \in Job /\ j.config = job[p].config /\ j.policy = job[p].policy
        /\ j.gen = job[p].gen /\ j.current = cur /\ j.discarded = dis
    BY <2>2, <2>3 DEF Job
  <2> HIDE DEF j
  <2>5. disk[job[p].gen] # None
    BY <1>1 DEF ProcessSound, ReadsHold
  <2>6. ReadsHold("promote_write", j)
    BY <2>2, <2>4, <2>5 DEF ReadsHold
  <2>7. /\ "promote_write" \notin Unbuilt /\ "promote_write" \in Building
        /\ pc[p] \in Building /\ "promote_write" \in LockedPhases
        /\ pc[p] \in LockedPhases
    BY <1>1 DEF Building, Unbuilt, LockedPhases
  <2>8. /\ lock' \in Process \union {None} /\ lock' = p
        /\ \A q \in Process \ {p} : lock' = q <=> lock = q
    BY <1>1, <2>1, <2>7 DEF TypeOK, LockHeld
  <2>9. QED
    BY <1>2, <2>1, <2>4, <2>6, <2>7, <2>8, BuildingStep
<1>5. QED
  BY <1>3, <1>4

\* A finished build fills one name, which the pointer does not mention.
LEMMA FinishBuildStep ==
    ASSUME IInv, NEW p \in Process, FinishBuild(p)
    PROVE  IInv'
<1> DEFINE g == job[p].gen
           c == job[p].config
           b == [model |-> c.model, policy |-> policy[c.project],
                 manifest |-> job[p].manifest, vectors |-> job[p].vectors]
<1>1. /\ TypeOK /\ PointerSound /\ ProcessSound /\ LockHeld /\ NamesFresh
      /\ pc[p] = "embed"
  BY DEF IInv, FinishBuild
<1>2. /\ c \in Config /\ job[p].manifest \in Manifest /\ g \in Generation
      /\ job[p].vectors \in SUBSET Model
  BY <1>1 DEF TypeOK, ProcessSound, LocalsSet, Building, Unbuilt, Job
<1>3. b \in Build
  BY <1>1, <1>2, IndexLifecycleAssumption DEF TypeOK, Build
<1>4. disk' = [disk EXCEPT ![g] = b]
  BY DEF FinishBuild
<1> HIDE DEF b
<1>5. /\ pc' = [pc EXCEPT ![p] = "built"]
      /\ UNCHANGED <<corpus, policy, pointer, descriptor, basis, lock, job>>
  BY DEF FinishBuild, Goto, env
<1>6. b # None
  BY <1>3, NoneIsNoBuild
<1>7. /\ disk' \in [Generation -> Build \union {None}] /\ disk'[g] # None
      /\ \A h \in Generation \ {g} : disk'[h] = disk[h]
  BY <1>1, <1>2, <1>3, <1>4, <1>6 DEF TypeOK
<1>8. /\ pc'[p] = "built" /\ "built" \in Phases /\ "built" \notin LockedPhases
      /\ \A q \in Process \ {p} : pc'[q] = pc[q]
  BY <1>1, <1>5 DEF TypeOK, Phases, LockedPhases
<1>9. TypeOK'
  BY <1>1, <1>5, <1>7, <1>8 DEF TypeOK
<1>10. PointerSound'
  <2>1. Entries(pointer) \subseteq Generation
    BY <1>1, LenProperties DEF TypeOK, Entries
  <2>2. QED
    BY <1>1, <1>5, <1>7, <2>1 DEF PointerSound
<1>11. ProcessSound'
  <2> SUFFICES ASSUME NEW q \in Process
               PROVE  (/\ LocalsSet(pc[q], job[q])
                       /\ ReadsHold(pc[q], job[q])
                       /\ SalvageSound(pc[q], job[q]))'
    BY DEF ProcessSound
  <2>1. /\ LocalsSet(pc[q], job[q])
        /\ ReadsHold(pc[q], job[q])
        /\ SalvageSound(pc[q], job[q])
    BY <1>1 DEF ProcessSound
  <2>2. CASE q = p
    <3>1. LocalsSet(pc[q], job[q])'
      BY <2>1, <2>2, <1>1, <1>5, <1>8 DEF LocalsSet, Building, Unbuilt
    <3>2. ReadsHold(pc[q], job[q])' /\ SalvageSound(pc[q], job[q])'
      BY <2>2, <1>8 DEF ReadsHold, SalvageSound
    <3>3. QED
      BY <3>1, <3>2
  <2>3. CASE q # p
    <3>1. pc'[q] = pc[q] /\ job' = job
      BY <2>3, <1>5, <1>8
    <3>2. LocalsSet(pc[q], job[q])' /\ SalvageSound(pc[q], job[q])'
      BY <2>1, <3>1, <1>5 DEF LocalsSet, SalvageSound
    <3>3. pc[q] \in {"promote_read", "promote_write"} => disk'[job[q].gen] # None
      BY <2>1, <1>7 DEF ReadsHold, LocalsSet, Building
    <3>4. ReadsHold(pc[q], job[q])'
      BY <2>1, <3>1, <3>3, <1>5 DEF ReadsHold
    <3>5. QED
      BY <3>2, <3>4
  <2>4. QED
    BY <2>2, <2>3
<1>12. LockHeld'
  BY <1>1, <1>5, <1>8 DEF LockHeld, LockedPhases
<1>13. NamesFresh'
  <2> SUFFICES ASSUME NEW q \in Process, pc'[q] \in Unbuilt
               PROVE  /\ disk'[job[q].gen] = None
                      /\ job[q].gen \notin Entries(pointer)
                      /\ \A r \in Process \ {q} :
                             pc'[r] \in Building => job[r].gen # job[q].gen
    BY <1>5 DEF NamesFresh
  <2>1. q # p /\ pc[q] \in Unbuilt
    BY <1>8 DEF Unbuilt
  <2>2. \A r \in Process : pc'[r] \in Building => pc[r] \in Building
    BY <1>1, <1>8 DEF Building, Unbuilt
  <2>3. job[q].gen # g
    BY <2>1, <1>1 DEF NamesFresh, Building, Unbuilt
  <2>4. job[q].gen \in Generation
    BY <2>1, <1>1 DEF ProcessSound, LocalsSet, Building
  <2>5. disk'[job[q].gen] = disk[job[q].gen]
    BY <2>3, <2>4, <1>7
  <2>6. QED
    BY <2>1, <2>2, <2>5, <1>1 DEF NamesFresh
<1>14. QED
  BY <1>9, <1>10, <1>11, <1>12, <1>13 DEF IInv

\* The holder of the lock writes the pointer, naming only stored generations,
\* and leaves its section.
LEMMA PointerWriteStep ==
    ASSUME IInv,
           NEW p \in Process, pc[p] \in LockedPhases, NEW phase \in {"idle", "describe"},
           pc' = [pc EXCEPT ![p] = phase],
           job' \in [Process -> Job],
           \A q \in Process \ {p} : job'[q] = job[q],
           phase = "describe" => job'[p].config \in Config,
           UNCHANGED <<corpus, policy, disk, descriptor>>,
           lock' = None, basis' \in Basis \union {None},
           pointer' \in Seq(Generation), Len(pointer') <= Retain + 1,
           Distinct(pointer'),
           \A g \in Entries(pointer') :
               g \in Entries(pointer) \/ (disk[g] # None /\ pc[p] \in Building /\ g = job[p].gen)
    PROVE  IInv'
<1>1. TypeOK /\ PointerSound /\ ProcessSound /\ LockHeld /\ NamesFresh
  BY DEF IInv
<1>2. /\ phase \in Phases /\ phase \notin LockedPhases /\ phase \notin Building
      /\ phase \notin Unbuilt /\ phase \notin {"opening", "embed"}
  BY DEF Phases, LockedPhases, Building, Unbuilt
<1>3. pc'[p] = phase /\ \A q \in Process \ {p} : pc'[q] = pc[q]
  BY <1>1 DEF TypeOK
<1>4. lock = p /\ \A q \in Process \ {p} : pc[q] \notin LockedPhases
  BY <1>1 DEF LockHeld
<1>5. None \notin Process
  BY IndexLifecycleAssumption
<1>6. TypeOK'
  BY <1>1, <1>2 DEF TypeOK
<1>7. PointerSound'
  BY <1>1 DEF PointerSound
<1>8. ProcessSound'
  <2> SUFFICES ASSUME NEW q \in Process
               PROVE  (/\ LocalsSet(pc[q], job[q])
                       /\ ReadsHold(pc[q], job[q])
                       /\ SalvageSound(pc[q], job[q]))'
    BY DEF ProcessSound
  <2>1. pc'[q] \notin LockedPhases
    BY <1>2, <1>3, <1>4
  <2>2. ReadsHold(pc[q], job[q])' /\ SalvageSound(pc[q], job[q])'
    BY <2>1 DEF ReadsHold, SalvageSound, LockedPhases
  <2>3. LocalsSet(pc[q], job[q])'
    <3>1. CASE q = p
      BY <3>1, <1>2, <1>3 DEF LocalsSet, Building, Unbuilt
    <3>2. CASE q # p
      BY <3>2, <1>1, <1>3 DEF ProcessSound, LocalsSet
    <3>3. QED
      BY <3>1, <3>2
  <2>4. QED
    BY <2>2, <2>3
<1>9. LockHeld'
  BY <1>2, <1>3, <1>4, <1>5 DEF LockHeld
<1>10. NamesFresh'
  <2> SUFFICES ASSUME NEW q \in Process, pc'[q] \in Unbuilt
               PROVE  /\ disk[job'[q].gen] = None
                      /\ job'[q].gen \notin Entries(pointer')
                      /\ \A r \in Process \ {q} :
                             pc'[r] \in Building => job'[r].gen # job'[q].gen
    BY DEF NamesFresh
  <2>1. q # p /\ pc[q] \in Unbuilt /\ job'[q] = job[q]
    BY <1>2, <1>3
  <2>2. \A r \in Process : pc'[r] \in Building => r # p /\ pc[r] \in Building
    BY <1>2, <1>3
  <2>3. job[q].gen \notin Entries(pointer')
    BY <2>1, <1>1 DEF NamesFresh
  <2>4. QED
    BY <2>1, <2>2, <2>3, <1>1 DEF NamesFresh
<1>11. QED
  BY <1>6, <1>7, <1>8, <1>9, <1>10 DEF IInv

LEMMA PromoteWritesStep ==
    ASSUME IInv, NEW p \in Process, PromoteWrites(p)
    PROVE  IInv'
<1> DEFINE g == job[p].gen
           cur == job[p].current
<1>1. TypeOK /\ PointerSound /\ ProcessSound /\ pc[p] = "promote_write"
  BY DEF IInv, PromoteWrites
<1>2. /\ g \in Generation /\ disk[g] # None /\ cur \in {pointer, NoPointer}
      /\ job[p].config \in Config /\ job[p] \in Job
  BY <1>1 DEF TypeOK, ProcessSound, LocalsSet, ReadsHold, Building
<1>3. /\ cur \in Seq(Generation) /\ Distinct(cur)
      /\ Entries(cur) \subseteq Entries(pointer)
  <2>1. CASE cur = pointer
    BY <2>1, <1>1 DEF TypeOK, PointerSound
  <2>2. CASE cur = << >>
    BY <2>2, EmptySeq DEF Distinct, Entries
  <2>3. QED
    BY <2>1, <2>2, <1>2 DEF NoPointer
<1>4. Retain \in Nat \ {0}
  BY IndexLifecycleAssumption
<1>5. pointer' = Promoted(cur, g, Retain)
  BY DEF PromoteWrites
<1> HIDE DEF g, cur
<1>6. /\ pointer' \in Seq(Generation) /\ Len(pointer') <= Retain + 1
      /\ Distinct(pointer') /\ Entries(pointer') \subseteq Entries(cur) \union {g}
  BY <1>2, <1>3, <1>4, <1>5, PromotedEntries
<1>7. job[p].seen \in Basis \union {None}
  BY <1>2 DEF Job
<1>8. /\ pc' = [pc EXCEPT ![p] = "describe"] /\ job' = job /\ lock' = None
      /\ UNCHANGED <<corpus, policy, disk, descriptor>>
      /\ basis' \in Basis \union {None}
  BY <1>7 DEF PromoteWrites, Goto, env
<1>9. pc[p] \in LockedPhases /\ pc[p] \in Building
  BY <1>1 DEF LockedPhases, Building
<1>10. job' \in [Process -> Job] /\ job'[p].config \in Config
  BY <1>1, <1>2, <1>8 DEF TypeOK
<1>11. \A h \in Entries(pointer') :
           h \in Entries(pointer) \/ (disk[h] # None /\ pc[p] \in Building /\ h = job[p].gen)
  BY <1>2, <1>3, <1>6, <1>9 DEF g
<1>12. QED
  BY <1>6, <1>8, <1>9, <1>10, <1>11, PointerWriteStep

\* The last step of a rollback or a recovery: a pointer made of the entries of
\* the one that was read.
LEMMA RestoreStepSound ==
    ASSUME IInv, NEW p \in Process, pc[p] \in LockedPhases, Return(p),
           UNCHANGED <<corpus, policy, disk, descriptor>>,
           basis' = job[p].seen,
           pointer' \in Seq(Generation), Len(pointer') <= Len(pointer),
           Distinct(pointer'), Entries(pointer') \subseteq Entries(pointer)
    PROVE  IInv'
<1>1. TypeOK /\ LockHeld
  BY DEF IInv
<1>2. lock' = None
  BY <1>1 DEF Return, LockHeld
<1>3. basis' \in Basis \union {None}
  BY <1>1 DEF TypeOK, Job
<1>4. Retain \in Nat /\ Len(pointer) \in Nat /\ Len(pointer') \in Nat
  BY <1>1, IndexLifecycleAssumption, LenProperties DEF TypeOK
<1>5. Len(pointer') <= Retain + 1
  BY <1>1, <1>4 DEF TypeOK
<1>6. /\ pc' = [pc EXCEPT ![p] = "idle"] /\ job' \in [Process -> Job]
      /\ \A q \in Process \ {p} : job'[q] = job[q]
  BY <1>1, NoJobSound DEF Return, Goto, TypeOK
<1>7. QED
  BY <1>2, <1>3, <1>5, <1>6, PointerWriteStep

LEMMA RollbackWritesStep ==
    ASSUME IInv, NEW p \in Process, RollbackWrites(p)
    PROVE  IInv'
<1>1. /\ TypeOK /\ PointerSound /\ ProcessSound /\ pc[p] = "rollback_write"
      /\ Return(p) /\ UNCHANGED <<corpus, policy, disk, descriptor>>
  BY DEF IInv, RollbackWrites, env
<1>2. job[p].current = pointer /\ Len(pointer) >= 2
  BY <1>1 DEF ProcessSound, ReadsHold
<1>3. CASE UNCHANGED <<pointer, basis>>
  BY <1>1, <1>3, ReturnStep DEF TypeOK
<1>4. CASE pointer' = RolledBack(pointer) /\ basis' = job[p].seen
  <2>1. /\ pointer' \in Seq(Generation) /\ Len(pointer') = Len(pointer)
        /\ Distinct(pointer') /\ Entries(pointer') = Entries(pointer)
    BY <1>1, <1>2, <1>4, RolledBackEntries DEF TypeOK, PointerSound
  <2>2. pc[p] \in LockedPhases
    BY <1>1 DEF LockedPhases
  <2>3. Len(pointer') <= Len(pointer)
    BY <1>1, <2>1, LenProperties DEF TypeOK
  <2>4. QED
    BY <1>1, <1>4, <2>1, <2>2, <2>3, RestoreStepSound
<1>5. QED
  BY <1>2, <1>3, <1>4 DEF RollbackWrites

LEMMA RecoverWritesStep ==
    ASSUME IInv, NEW p \in Process, RecoverWrites(p)
    PROVE  IInv'
<1> DEFINE v == job[p].valid
<1>1. /\ TypeOK /\ PointerSound /\ ProcessSound /\ pc[p] = "recover_check"
      /\ Return(p) /\ UNCHANGED <<corpus, policy, disk, descriptor>>
  BY DEF IInv, RecoverWrites, env
<1>2. v \in Seq(Generation) /\ job[p].next \in Nat
  BY <1>1 DEF TypeOK, Job
<1>3. /\ job[p].next <= Len(pointer) + 1 /\ Len(v) < job[p].next
      /\ Distinct(v) /\ Entries(v) \subseteq {pointer[i] : i \in 1..(job[p].next - 1)}
  BY <1>1 DEF ProcessSound, SalvageSound
<1>4. CASE UNCHANGED <<pointer, basis>>
  BY <1>1, <1>4, ReturnStep DEF TypeOK
<1>5. CASE pointer' = Recovered(v) /\ basis' = job[p].seen
  <2>1. DOMAIN pointer = 1..Len(pointer) /\ Len(pointer) \in Nat /\ Len(v) \in Nat
    BY <1>1, <1>2, LenProperties DEF TypeOK
  <2>2. Entries(v) \subseteq Entries(pointer) /\ Len(v) <= Len(pointer)
    <3>1. Len(v) <= Len(pointer)
      BY <2>1, <1>2, <1>3
    <3>2. 1..(job[p].next - 1) \subseteq DOMAIN pointer
      BY <2>1, <1>2, <1>3
    <3>3. QED
      BY <3>1, <3>2, <1>3 DEF Entries
  <2>3. pointer' = FirstOf(v, 3)
    BY <1>5 DEF Recovered
  <2> HIDE DEF v
  <2>4. pointer' \in Seq(Generation) /\ Len(pointer') <= Len(v)
    BY <2>3, <1>2, FirstOfPrefix
  <2>5. Distinct(pointer') /\ Entries(pointer') \subseteq Entries(v)
    BY <2>3, <1>2, <1>3, FirstOfDistinct
  <2>6. Len(pointer') <= Len(pointer)
    BY <2>1, <2>2, <2>4, LenProperties
  <2>7. pc[p] \in LockedPhases
    BY <1>1 DEF LockedPhases
  <2>8. QED
    BY <1>1, <1>5, <2>2, <2>4, <2>5, <2>6, <2>7, RestoreStepSound
<1>6. QED
  BY <1>4, <1>5 DEF RecoverWrites

LEMMA RollbackValidatesStep ==
    ASSUME IInv, NEW p \in Process, RollbackValidates(p)
    PROVE  IInv'
<1> DEFINE see == Seen(job[p].config, policy[job[p].config.project])
           j == [job[p] EXCEPT !.current = pointer, !.seen = see]
<1>1. TypeOK /\ ProcessSound /\ pc[p] = "rollback" /\ Len(pointer) >= 2
  BY DEF IInv, RollbackValidates, RollbackTarget
<1>2. job[p].config \in Config /\ job[p] \in Job
  BY <1>1 DEF TypeOK, ProcessSound, LocalsSet
<1>3. see \in Basis
  BY <1>1, <1>2, IndexLifecycleAssumption DEF TypeOK, Basis, Seen
<1> HIDE DEF see
<1>4. j \in Job /\ j.config = job[p].config /\ j.current = pointer
  BY <1>1, <1>2, <1>3 DEF Job, TypeOK
<1>5. /\ pc' = [pc EXCEPT ![p] = "rollback_write"] /\ job' = [job EXCEPT ![p] = j]
      /\ UNCHANGED <<corpus, policy, disk, pointer, basis, descriptor>>
      /\ Acquire(p)
  BY DEF RollbackValidates, Goto, env, store, see
<1> HIDE DEF j
<1>6. "rollback_write" \in LockedPhases /\ "rollback_write" \notin Building
  BY DEF LockedPhases, Building, Unbuilt
<1>7. /\ LocalsSet("rollback_write", j) /\ ReadsHold("rollback_write", j)
      /\ SalvageSound("rollback_write", j)
  BY <1>1, <1>2, <1>4 DEF LocalsSet, ReadsHold, SalvageSound, Building, Unbuilt
<1>8. QED
  BY <1>4, <1>5, <1>6, <1>7, AcquireStep

LEMMA RecoverReadsStep ==
    ASSUME IInv, NEW p \in Process, RecoverReads(p)
    PROVE  IInv'
<1> DEFINE j == [job[p] EXCEPT !.current = pointer]
<1>1. TypeOK /\ ProcessSound /\ pc[p] = "recover"
  BY DEF IInv, RecoverReads
<1>2. /\ job[p].config \in Config /\ job[p] \in Job
      /\ job[p].next = 1 /\ job[p].valid = << >>
  BY <1>1 DEF TypeOK, ProcessSound, LocalsSet, NoPointer
<1>3. /\ j \in Job /\ j.config = job[p].config /\ j.current = pointer
      /\ j.next = 1 /\ j.valid = << >>
  BY <1>1, <1>2 DEF Job, TypeOK
<1>4. /\ pc' = [pc EXCEPT ![p] = "recover_check"] /\ job' = [job EXCEPT ![p] = j]
      /\ UNCHANGED <<corpus, policy, disk, pointer, basis, descriptor>>
      /\ Acquire(p)
  BY DEF RecoverReads, Goto, env, store
<1> HIDE DEF j
<1>5. "recover_check" \in LockedPhases /\ "recover_check" \notin Building
  BY DEF LockedPhases, Building, Unbuilt
<1>6. LocalsSet("recover_check", j) /\ ReadsHold("recover_check", j)
  BY <1>2, <1>3 DEF LocalsSet, ReadsHold, Building, Unbuilt
<1>7. SalvageSound("recover_check", j)
  <2>1. Len(pointer) \in Nat
    BY <1>1, LenProperties DEF TypeOK
  <2>2. Entries(<< >>) = {} /\ Distinct(<< >>) /\ Len(<< >>) = 0
    BY EmptySeq DEF Entries, Distinct
  <2>3. QED
    BY <1>3, <2>1, <2>2 DEF SalvageSound
<1>8. QED
  BY <1>3, <1>4, <1>5, <1>6, <1>7, AcquireStep

\* Looking at the next entry keeps it, at the end, or skips it.
LEMMA RecoverChecksStep ==
    ASSUME IInv, NEW p \in Process, RecoverChecks(p)
    PROVE  IInv'
<1> DEFINE n == job[p].next
           v == job[p].valid
           e == pointer[n]
           ok == Validated(e, job[p].config, policy[job[p].config.project])
           see == Seen(job[p].config, policy[job[p].config.project])
           v2 == IF ok THEN Append(v, e) ELSE v
           see2 == IF ok /\ v = << >> THEN see ELSE job[p].seen
           n2 == n + 1
           j == [job[p] EXCEPT !.next = n2, !.valid = v2, !.seen = see2]
<1>1. /\ TypeOK /\ PointerSound /\ ProcessSound /\ LockHeld
      /\ pc[p] = "recover_check" /\ n <= Len(job[p].current)
  BY DEF IInv, RecoverChecks
<1>2. /\ job[p].config \in Config /\ job[p] \in Job /\ job[p].current = pointer
      /\ Len(v) < n /\ Distinct(v)
      /\ Entries(v) \subseteq {pointer[i] : i \in 1..(n - 1)}
      /\ \A x, y \in Entries(v) : Store!Ahead(v, x, y) => Store!Ahead(pointer, x, y)
  BY <1>1 DEF TypeOK, ProcessSound, LocalsSet, SalvageSound
<1>3. /\ n \in Nat \ {0} /\ v \in Seq(Generation) /\ job[p].seen \in Basis \union {None}
      /\ pointer \in Seq(Generation) /\ Distinct(pointer)
  BY <1>1, <1>2 DEF Job, TypeOK, PointerSound
<1>4. n \in 1..Len(pointer) /\ DOMAIN pointer = 1..Len(pointer) /\ e \in Generation
  BY <1>1, <1>2, <1>3, LenProperties, ElementOfSeq
<1>5. see \in Basis
  BY <1>1, <1>2, IndexLifecycleAssumption DEF TypeOK, Basis, Seen
<1>6. /\ pc' = pc /\ job' = [job EXCEPT ![p] = j]
      /\ UNCHANGED <<corpus, policy, disk, pointer, basis, descriptor, lock>>
  BY <1>2 DEF RecoverChecks, env, store
<1>7. /\ Append(v, e) \in Seq(Generation) /\ Len(Append(v, e)) = Len(v) + 1
      /\ \A i \in 1..Len(v) : Append(v, e)[i] = v[i]
      /\ Append(v, e)[Len(v) + 1] = e
  BY <1>3, <1>4, AppendProperties
<1>8. see2 \in Basis \union {None} /\ v2 \in Seq(Generation)
  BY <1>3, <1>5, <1>7
<1> HIDE DEF see, see2, ok, v, e
<1>9. Len(v2) < n + 1
  <2>1. Len(v) \in Nat
    BY <1>3, LenProperties
  <2>2. QED
    BY <2>1, <1>2, <1>3, <1>7
<1>10. e \notin Entries(v)
  <2>1. \A i \in 1..(n - 1) : pointer[i] # e
    BY <1>3, <1>4 DEF Distinct, e
  <2>2. QED
    BY <2>1, <1>2
<1>11. PICK w : w = Append(v, e)
  OBVIOUS
<1>12. /\ DOMAIN w = 1..(Len(v) + 1) /\ DOMAIN v = 1..Len(v) /\ Len(v) \in Nat
       /\ w[Len(v) + 1] = e
       /\ \A i \in 1..Len(v) : w[i] = v[i] /\ v[i] # e
  BY <1>3, <1>7, <1>10, <1>11, LenProperties DEF Entries
<1>13. Distinct(w) /\ Entries(w) = Entries(v) \union {e}
  <2>1. \A i \in DOMAIN w : i \in 1..Len(v) \/ i = Len(v) + 1
    BY <1>12
  <2>2. Distinct(w)
    BY <2>1, <1>2, <1>12 DEF Distinct
  <2>3. \A i \in DOMAIN w : w[i] \in Entries(v) \union {e}
    BY <2>1, <1>12 DEF Entries
  <2>4. \A i \in DOMAIN v : i \in DOMAIN w /\ w[i] = v[i]
    BY <1>12
  <2>5. Len(v) + 1 \in DOMAIN w
    BY <1>12
  <2>6. Entries(v) \subseteq Entries(w) /\ e \in Entries(w)
    BY <2>4, <2>5, <1>12 DEF Entries
  <2>7. Entries(w) \subseteq Entries(v) \union {e}
    BY <2>3 DEF Entries
  <2>8. QED
    BY <2>2, <2>6, <2>7
<1>14. ASSUME NEW x \in Entries(w), NEW y \in Entries(w), Store!Ahead(w, x, y)
       PROVE  Store!Ahead(pointer, x, y)
  <2>1. PICK i \in DOMAIN w, k \in DOMAIN w : i < k /\ w[i] = x /\ w[k] = y
    BY <1>14 DEF Store!Ahead
  <2>2. i \in 1..Len(v) /\ x = v[i] /\ x \in Entries(v)
    BY <2>1, <1>12 DEF Entries
  <2>3. CASE k \in 1..Len(v)
    <3>1. y = v[k] /\ y \in Entries(v)
      BY <2>1, <2>3, <1>12 DEF Entries
    <3>2. Store!Ahead(v, x, y)
      BY <2>1, <2>2, <2>3, <3>1, <1>12 DEF Store!Ahead
    <3>3. QED
      BY <2>2, <3>1, <3>2, <1>2
  <2>4. CASE k = Len(v) + 1
    <3>1. y = pointer[n]
      BY <2>1, <2>4, <1>12 DEF e
    <3>2. PICK m \in 1..(n - 1) : pointer[m] = x
      BY <2>2, <1>2
    <3>3. m \in DOMAIN pointer /\ n \in DOMAIN pointer /\ m < n
      BY <1>3, <1>4
    <3>4. QED
      BY <3>1, <3>2, <3>3 DEF Store!Ahead
  <2>5. QED
    BY <2>1, <2>3, <2>4, <1>12
<1>15. Entries(w) \subseteq {pointer[i] : i \in 1..n}
  <2>1. 1..(n - 1) \subseteq 1..n /\ n \in 1..n
    BY <1>3
  <2>2. QED
    BY <2>1, <1>2, <1>13 DEF e
<1>16. /\ Distinct(v2) /\ Entries(v2) \subseteq {pointer[i] : i \in 1..n}
       /\ \A x, y \in Entries(v2) : Store!Ahead(v2, x, y) => Store!Ahead(pointer, x, y)
  <2>1. CASE v2 = w
    BY <2>1, <1>13, <1>14, <1>15
  <2>2. CASE v2 = v
    <3>1. 1..(n - 1) \subseteq 1..n
      BY <1>3
    <3>2. QED
      BY <2>2, <3>1, <1>2
  <2>3. QED
    BY <2>1, <2>2, <1>11
<1> HIDE DEF v2
<1>17. /\ j \in Job /\ j.config = job[p].config /\ j.current = pointer
       /\ j.next = n + 1 /\ j.valid = v2
  <2>1. n2 \in Nat \ {0} /\ n2 = n + 1
    BY <1>3
  <2> HIDE DEF n2
  <2> DEFINE k == [job[p] EXCEPT !.next = n2, !.valid = v2]
  <2>2. k \in Job /\ k.config = job[p].config /\ k.next = n2 /\ k.valid = v2
        /\ k.current = job[p].current
    BY <2>1, <1>2, <1>8 DEF Job
  <2>3. j = [k EXCEPT !.seen = see2]
    BY <1>2 DEF Job
  <2> HIDE DEF k
  <2>4. j \in Job /\ j.config = k.config /\ j.next = n2 /\ j.valid = v2
        /\ j.current = k.current
    BY <2>2, <2>3, <1>8 DEF Job
  <2>5. QED
    BY <2>1, <2>2, <2>4, <1>2
<1> HIDE DEF j
<1>18. LocalsSet("recover_check", j) /\ ReadsHold("recover_check", j)
  BY <1>2, <1>17 DEF LocalsSet, ReadsHold, Building, Unbuilt
<1>19. SalvageSound("recover_check", j)
  <2>1. Len(pointer) \in Nat /\ n + 1 <= Len(pointer) + 1 /\ (n + 1) - 1 = n
    BY <1>3, <1>4, LenProperties
  <2>2. QED
    BY <2>1, <1>9, <1>16, <1>17 DEF SalvageSound
<1>20. /\ "recover_check" \in LockedPhases /\ "recover_check" \notin Building
       /\ "recover_check" \notin Unbuilt /\ "recover_check" \in Phases
  BY DEF LockedPhases, Building, Unbuilt, Phases
<1>21. /\ lock' \in Process \union {None} /\ lock' = p
       /\ descriptor' \in Config \union {None, Torn}
       /\ \A q \in Process \ {p} : lock' = q <=> lock = q
       /\ pc' = [pc EXCEPT ![p] = "recover_check"]
  BY <1>1, <1>6, <1>20 DEF TypeOK, LockHeld
<1>22. QED
  BY <1>6, <1>17, <1>18, <1>19, <1>20, <1>21, LocalStep

LEMMA PruneScansStep ==
    ASSUME IInv, NEW p \in Process, PruneScans(p)
    PROVE  IInv'
<1> DEFINE vic == {g \in Generation : disk[g] # None} \ Entries(pointer)
           j == [job[p] EXCEPT !.victims = vic]
<1>1. TypeOK
  BY DEF IInv
<1>2. /\ vic \subseteq Generation /\ vic \intersect Entries(pointer) = {}
      /\ job[p] \in Job
  BY <1>1 DEF TypeOK
<1>3. /\ pc' = [pc EXCEPT ![p] = "prune"] /\ job' = [job EXCEPT ![p] = j]
      /\ UNCHANGED <<corpus, policy, disk, pointer, basis, descriptor>>
      /\ Acquire(p)
  BY DEF PruneScans, Goto, env, store
<1> HIDE DEF vic
<1>4. j \in Job /\ j.victims = vic
  BY <1>2 DEF Job
<1> HIDE DEF j
<1>5. "prune" \in LockedPhases /\ "prune" \notin Building
  BY DEF LockedPhases, Building, Unbuilt
<1>6. LocalsSet("prune", j) /\ ReadsHold("prune", j) /\ SalvageSound("prune", j)
  BY <1>2, <1>4 DEF LocalsSet, ReadsHold, SalvageSound, Building, Unbuilt
<1>7. QED
  BY <1>3, <1>4, <1>5, <1>6, AcquireStep

\* An unlink removes a file the pointer does not name, and the pointer cannot
\* change before the lock is released.
LEMMA PruneUnlinksStep ==
    ASSUME IInv, NEW p \in Process, NEW g \in Generation, PruneUnlinks(p, g)
    PROVE  IInv'
<1> DEFINE vic == job[p].victims \ {g}
           j == [job[p] EXCEPT !.victims = vic]
<1>1. /\ TypeOK /\ PointerSound /\ ProcessSound /\ LockHeld /\ NamesFresh
      /\ pc[p] = "prune" /\ g \in job[p].victims
  BY DEF IInv, PruneUnlinks
<1>2. /\ job[p] \in Job /\ vic \subseteq Generation
      /\ g \notin Entries(pointer) /\ vic \intersect Entries(pointer) = {}
  BY <1>1 DEF TypeOK, Job, ProcessSound, ReadsHold
<1>3. /\ disk' = [disk EXCEPT ![g] = None] /\ job' = [job EXCEPT ![p] = j]
      /\ UNCHANGED <<corpus, policy, pointer, basis, descriptor, lock, pc>>
  BY DEF PruneUnlinks, env
<1> HIDE DEF vic
<1>4. j \in Job /\ j.victims = vic /\ j.gen = job[p].gen
  BY <1>2 DEF Job
<1> HIDE DEF j
<1>5. job'[p] = j /\ \A q \in Process \ {p} : job'[q] = job[q]
  BY <1>1, <1>3 DEF TypeOK
<1>6. /\ disk' \in [Generation -> Build \union {None}] /\ disk'[g] = None
      /\ \A h \in Generation \ {g} : disk'[h] = disk[h]
  BY <1>1, <1>3 DEF TypeOK
<1>7. TypeOK'
  BY <1>1, <1>3, <1>4, <1>6 DEF TypeOK
<1>8. PointerSound'
  <2>1. Entries(pointer) \subseteq Generation
    BY <1>1, LenProperties DEF TypeOK, Entries
  <2>2. QED
    BY <1>1, <1>2, <1>3, <1>6, <2>1 DEF PointerSound
<1>9. ProcessSound'
  <2> SUFFICES ASSUME NEW q \in Process
               PROVE  (/\ LocalsSet(pc[q], job[q])
                       /\ ReadsHold(pc[q], job[q])
                       /\ SalvageSound(pc[q], job[q]))'
    BY DEF ProcessSound
  <2>1. CASE q = p
    BY <2>1, <1>1, <1>2, <1>3, <1>4, <1>5
    DEF LocalsSet, ReadsHold, SalvageSound, Building, Unbuilt
  <2>2. CASE q # p
    <3>1. pc[q] \notin LockedPhases /\ pc'[q] = pc[q] /\ job'[q] = job[q]
      BY <2>2, <1>1, <1>3, <1>5 DEF LockHeld, LockedPhases
    <3>2. ReadsHold(pc[q], job[q])' /\ SalvageSound(pc[q], job[q])'
      BY <3>1 DEF ReadsHold, SalvageSound, LockedPhases
    <3>3. LocalsSet(pc[q], job[q])'
      BY <3>1, <1>1 DEF ProcessSound, LocalsSet
    <3>4. QED
      BY <3>2, <3>3
  <2>3. QED
    BY <2>1, <2>2
<1>10. LockHeld'
  BY <1>1, <1>3 DEF LockHeld
<1>11. NamesFresh'
  <2> SUFFICES ASSUME NEW q \in Process, pc[q] \in Unbuilt
               PROVE  /\ disk'[job'[q].gen] = None
                      /\ job'[q].gen \notin Entries(pointer)
                      /\ \A r \in Process \ {q} :
                             pc[r] \in Building => job'[r].gen # job'[q].gen
    BY <1>3 DEF NamesFresh
  <2>1. \A r \in Process : job'[r].gen = job[r].gen
    BY <1>4, <1>5
  <2>2. job[q].gen \in Generation
    BY <1>1 DEF ProcessSound, LocalsSet, Building
  <2>3. disk'[job[q].gen] = None
    BY <2>2, <1>1, <1>6 DEF NamesFresh
  <2>4. QED
    BY <2>1, <2>3, <1>1 DEF NamesFresh
<1>12. QED
  BY <1>7, <1>8, <1>9, <1>10, <1>11 DEF IInv

\* Commands that start without building.
LEMMA StartOtherStep ==
    ASSUME IInv, NEW p \in Process, NEW c \in Config,
           StartRollback(p, c) \/ StartRecover(p, c) \/ LoadDescriptor(p)
    PROVE  IInv'
<1>1. TypeOK /\ pc[p] = "idle" /\ pc[p] \notin LockedPhases /\ job[p] \in Job
  BY DEF IInv, TypeOK, StartRollback, StartRecover, LoadDescriptor, LockedPhases
<1>2. /\ UNCHANGED <<corpus, policy, disk, pointer, basis, lock>>
      /\ descriptor' \in Config \union {None, Torn}
  BY <1>1 DEF TypeOK, StartRollback, StartRecover, LoadDescriptor, env, store
<1>3. ASSUME NEW d \in Config, NEW phase \in {"rollback", "recover"},
             pc' = [pc EXCEPT ![p] = phase],
             job' = [job EXCEPT ![p] = [NoJob EXCEPT !.config = d]]
      PROVE  IInv'
  <2> DEFINE j == [NoJob EXCEPT !.config = d]
  <2>1. j \in Job /\ j.config = d
    BY NoJobSound DEF Job
  <2>2. j.next = 1 /\ j.valid = NoPointer
    BY DEF NoJob
  <2>3. job' = [job EXCEPT ![p] = j]
    BY <1>3
  <2> HIDE DEF j
  <2>4. phase \in Phases /\ phase \notin LockedPhases \union Building
    BY DEF Phases, LockedPhases, Building, Unbuilt
  <2>5. LocalsSet(phase, j)
    BY <2>1, <2>2, <2>4 DEF LocalsSet, Building, Unbuilt
  <2>6. QED
    BY <1>1, <1>2, <1>3, <2>1, <2>3, <2>4, <2>5, UnlockedStep
<1>4. CASE StartRollback(p, c)
  BY <1>3, <1>4 DEF StartRollback, Goto
<1>5. CASE StartRecover(p, c)
  BY <1>3, <1>5 DEF StartRecover, Goto
<1>6. CASE LoadDescriptor(p)
  <2> DEFINE j == [NoJob EXCEPT !.embedder = descriptor.model]
  <2>1. descriptor.model \in Model
    BY <1>6, IndexLifecycleAssumption DEF LoadDescriptor
  <2>2. j \in Job
    BY <2>1, NoJobSound DEF Job
  <2>3. pc' = [pc EXCEPT ![p] = "load"] /\ job' = [job EXCEPT ![p] = j]
    BY <1>6 DEF LoadDescriptor, Goto
  <2> HIDE DEF j
  <2>4. "load" \in Phases /\ "load" \notin LockedPhases \union Building
    BY DEF Phases, LockedPhases, Building, Unbuilt
  <2>5. LocalsSet("load", j)
    BY <2>4 DEF LocalsSet, Building, Unbuilt
  <2>6. QED
    BY <1>1, <1>2, <2>2, <2>3, <2>4, <2>5, UnlockedStep
<1>7. QED
  BY <1>4, <1>5, <1>6

LEMMA StartPruneStep ==
    ASSUME IInv, NEW p \in Process, StartPrune(p)
    PROVE  IInv'
<1>1. /\ UNCHANGED <<corpus, policy, disk, pointer, basis, lock, descriptor, job>>
      /\ pc' = [pc EXCEPT ![p] = "prune_wait"] /\ pc[p] = "idle"
  BY DEF StartPrune, Goto, env, store
<1>2. /\ TypeOK /\ pc[p] \notin LockedPhases /\ "prune_wait" \in Phases
      /\ "prune_wait" \notin LockedPhases \union Building
  BY <1>1 DEF IInv, Phases, LockedPhases, Building, Unbuilt
<1>3. /\ job' = [job EXCEPT ![p] = job[p]] /\ job[p] \in Job
      /\ descriptor' \in Config \union {None, Torn}
  BY <1>1, <1>2 DEF TypeOK
<1>4. LocalsSet("prune_wait", job[p])
  BY <1>2 DEF LocalsSet, Building, Unbuilt
<1>5. QED
  BY <1>1, <1>2, <1>3, <1>4, UnlockedStep

LEMMA TruncateDescriptorStep ==
    ASSUME IInv, NEW p \in Process, TruncateDescriptor(p)
    PROVE  IInv'
<1>1. TypeOK /\ ProcessSound /\ pc[p] = "describe"
  BY DEF IInv, TruncateDescriptor
<1>2. /\ pc' = [pc EXCEPT ![p] = "describing"]
      /\ job' = [job EXCEPT ![p] = job[p]] /\ job[p] \in Job
      /\ UNCHANGED <<corpus, policy, disk, pointer, basis, lock>>
      /\ descriptor' \in Config \union {None, Torn}
  BY <1>1 DEF TypeOK, TruncateDescriptor, Goto, env
<1>3. /\ pc[p] \notin LockedPhases /\ "describing" \in Phases
      /\ "describing" \notin LockedPhases \union Building
  BY <1>1 DEF Phases, LockedPhases, Building, Unbuilt
<1>4. LocalsSet("describing", job[p])
  BY <1>1 DEF ProcessSound, LocalsSet, Building, Unbuilt
<1>5. QED
  BY <1>2, <1>3, <1>4, UnlockedStep

LEMMA OpenDescriptorStep ==
    ASSUME IInv, NEW p \in Process, OpenDescriptor(p)
    PROVE  IInv'
<1>1. TypeOK /\ ProcessSound /\ pc[p] = "load" /\ job[p] \in Job
  BY DEF IInv, OpenDescriptor, TypeOK
<1>2. UNCHANGED <<corpus, policy, disk, pointer, basis, descriptor>>
  BY DEF OpenDescriptor, env, store
<1>3. CASE Return(p)
  BY <1>1, <1>2, <1>3, ReturnStep DEF TypeOK
<1>4. CASE ~Return(p)
  <2> DEFINE j == [job[p] EXCEPT !.config = descriptor]
  <2>1. /\ pc' = [pc EXCEPT ![p] = "open"] /\ job' = [job EXCEPT ![p] = j]
        /\ lock' = lock /\ descriptor \in Config
    BY <1>4 DEF OpenDescriptor, Goto
  <2>2. j \in Job /\ j.config \in Config
    BY <1>1, <2>1 DEF Job
  <2> HIDE DEF j
  <2>3. /\ pc[p] \notin LockedPhases /\ "open" \in Phases
        /\ "open" \notin LockedPhases \union Building
    BY <1>1 DEF Phases, LockedPhases, Building, Unbuilt
  <2>4. LocalsSet("open", j)
    BY <2>2 DEF LocalsSet, Building, Unbuilt
  <2>5. descriptor' \in Config \union {None, Torn}
    BY <1>1, <1>2 DEF TypeOK
  <2>6. QED
    BY <1>2, <2>1, <2>2, <2>3, <2>4, <2>5, UnlockedStep
<1>5. QED
  BY <1>3, <1>4

LEMMA ReadPointerStep ==
    ASSUME IInv, NEW p \in Process, ReadPointer(p)
    PROVE  IInv'
<1>1. TypeOK /\ ProcessSound /\ pc[p] = "open"
  BY DEF IInv, ReadPointer
<1>2. UNCHANGED <<corpus, policy, disk, pointer, basis, descriptor>>
  BY DEF ReadPointer, env, store
<1>3. CASE Return(p)
  BY <1>1, <1>2, <1>3, ReturnStep DEF TypeOK
<1>4. CASE ~Return(p)
  <2> DEFINE g == Active(pointer)
             j == [job[p] EXCEPT !.gen = g]
  <2>1. /\ pc' = [pc EXCEPT ![p] = "opening"] /\ job' = [job EXCEPT ![p] = j]
        /\ lock' = lock /\ pointer # NoPointer
    BY <1>4 DEF ReadPointer, Goto
  <2>2. g \in Generation /\ job[p] \in Job
    BY <1>1, <2>1, EmptySeq, ElementOfSeq DEF TypeOK, NoPointer, Active
  <2> HIDE DEF g
  <2>3. j \in Job /\ j.config = job[p].config /\ j.gen = g
    BY <2>2 DEF Job
  <2> HIDE DEF j
  <2>4. /\ pc[p] \notin LockedPhases /\ "opening" \in Phases
        /\ "opening" \notin LockedPhases \union Building
    BY <1>1 DEF Phases, LockedPhases, Building, Unbuilt
  <2>5. LocalsSet("opening", j)
    BY <1>1, <2>2, <2>3 DEF ProcessSound, LocalsSet, Building, Unbuilt
  <2>6. descriptor' \in Config \union {None, Torn}
    BY <1>1, <1>2 DEF TypeOK
  <2>7. QED
    BY <1>2, <2>1, <2>3, <2>4, <2>5, <2>6, UnlockedStep
<1>5. QED
  BY <1>3, <1>4

LEMMA OpenTargetStep ==
    ASSUME IInv, NEW p \in Process, OpenTarget(p)
    PROVE  IInv'
<1>1. TypeOK /\ ProcessSound /\ pc[p] = "opening"
  BY DEF IInv, OpenTarget
<1>2. UNCHANGED <<corpus, policy, disk, pointer, basis, descriptor>>
  BY DEF OpenTarget, env, store
<1>3. CASE Return(p)
  BY <1>1, <1>2, <1>3, ReturnStep DEF TypeOK
<1>4. CASE ~Return(p)
  <2> DEFINE b == disk[job[p].gen]
             j == [job[p] EXCEPT !.served = b, !.gen = None]
  <2>1. /\ pc' = [pc EXCEPT ![p] = "serving"] /\ job' = [job EXCEPT ![p] = j]
        /\ lock' = lock
    BY <1>4 DEF OpenTarget, Goto
  <2>2. b \in Build \union {None} /\ job[p] \in Job
    BY <1>1 DEF TypeOK, ProcessSound, LocalsSet
  <2> HIDE DEF b
  <2>3. j \in Job /\ j.config = job[p].config
    BY <2>2 DEF Job
  <2> HIDE DEF j
  <2>4. /\ pc[p] \notin LockedPhases /\ "serving" \in Phases
        /\ "serving" \notin LockedPhases \union Building
    BY <1>1 DEF Phases, LockedPhases, Building, Unbuilt
  <2>5. LocalsSet("serving", j)
    BY <1>1, <2>2, <2>3 DEF ProcessSound, LocalsSet, Building, Unbuilt
  <2>6. descriptor' \in Config \union {None, Torn}
    BY <1>1, <1>2 DEF TypeOK
  <2>7. QED
    BY <1>2, <2>1, <2>3, <2>4, <2>5, <2>6, UnlockedStep
<1>5. QED
  BY <1>3, <1>4

\* Every step of a command that ends it and writes no shared file but, at most,
\* the descriptor.
LEMMA EndingStep ==
    ASSUME IInv, NEW p \in Process,
           \/ BuildFails(p) \/ PromoteRefused(p) \/ WriteDescriptor(p)
           \/ RollbackRefused(p) \/ RecoverRefused(p) \/ PruneEnds(p)
           \/ StopServing(p) \/ Crash(p)
    PROVE  IInv'
<1>1. TypeOK /\ ProcessSound
  BY DEF IInv
<1>2. Return(p) /\ UNCHANGED <<corpus, policy, disk, pointer, basis>>
  BY DEF BuildFails, PromoteRefused, WriteDescriptor, RollbackRefused,
         RecoverRefused, PruneEnds, StopServing, Crash, env, store
<1>3. descriptor' \in Config \union {None, Torn}
  <2>1. CASE WriteDescriptor(p)
    BY <2>1, <1>1 DEF WriteDescriptor, ProcessSound, LocalsSet
  <2>2. CASE ~WriteDescriptor(p)
    BY <2>2, <1>1 DEF TypeOK, BuildFails, PromoteRefused, RollbackRefused,
                      RecoverRefused, PruneEnds, StopServing, Crash, store
  <2>3. QED
    BY <2>1, <2>2
<1>4. QED
  BY <1>2, <1>3, ReturnStep

\* The invariant says nothing of what the notes and the policy contain.
LEMMA EnvironmentStep ==
    ASSUME IInv, corpus' \in [Project -> CorpusVersion],
           policy' \in [Project -> PolicyText],
           UNCHANGED <<disk, pointer, descriptor, lock, pc, job, basis>>
    PROVE  IInv'
<1>1. TypeOK /\ PointerSound /\ ProcessSound /\ LockHeld /\ NamesFresh
  BY DEF IInv
<1>2. TypeOK'
  BY <1>1 DEF TypeOK
<1>3. PointerSound' /\ LockHeld' /\ NamesFresh'
  BY <1>1 DEF PointerSound, LockHeld, NamesFresh
<1>4. ProcessSound'
  <2> SUFFICES ASSUME NEW q \in Process
               PROVE  (/\ LocalsSet(pc[q], job[q])
                       /\ ReadsHold(pc[q], job[q])
                       /\ SalvageSound(pc[q], job[q]))'
    BY DEF ProcessSound
  <2>1. /\ LocalsSet(pc[q], job[q])
        /\ ReadsHold(pc[q], job[q])
        /\ SalvageSound(pc[q], job[q])
    BY <1>1 DEF ProcessSound
  <2>2. LocalsSet(pc[q], job[q])' /\ ReadsHold(pc[q], job[q])'
    BY <2>1 DEF LocalsSet, ReadsHold
  <2>3. SalvageSound(pc[q], job[q])'
    BY <2>1 DEF SalvageSound
  <2>4. QED
    BY <2>2, <2>3
<1>5. QED
  BY <1>2, <1>3, <1>4 DEF IInv

LEMMA NextPreserves ==
    ASSUME IInv, [Next]_vars
    PROVE  IInv'
<1>1. ASSUME NEW p \in Process, Start(p)
      PROVE  IInv'
  <2>1. CASE \E c \in Config : StartIndex(p, c)
    BY <2>1, StartIndexStep
  <2>2. CASE \E c \in Config : StartRollback(p, c) \/ StartRecover(p, c)
    BY <2>2, StartOtherStep
  <2>3. CASE StartPrune(p)
    BY <2>3, StartPruneStep
  <2>4. CASE LoadDescriptor(p)
    <3>1. descriptor \in Config
      BY <2>4 DEF LoadDescriptor
    <3>2. QED
      BY <2>4, <3>1, StartOtherStep
  <2>5. QED
    BY <1>1, <2>1, <2>2, <2>3, <2>4 DEF Start
<1>2. ASSUME NEW p \in Process, IndexStep(p)
      PROVE  IInv'
  BY <1>2, ParseCorpusStep, FinishBuildStep, PromoteValidatesStep,
     PromoteReadsCurrentStep, PromoteWritesStep, TruncateDescriptorStep, EndingStep
  DEF IndexStep
<1>3. ASSUME NEW p \in Process, RestoreStep(p)
      PROVE  IInv'
  BY <1>3, RollbackValidatesStep, RollbackWritesStep, RecoverReadsStep,
     RecoverChecksStep, RecoverWritesStep, EndingStep
  DEF RestoreStep
<1>4. ASSUME NEW p \in Process, PruneStep(p)
      PROVE  IInv'
  BY <1>4, PruneScansStep, PruneUnlinksStep, EndingStep DEF PruneStep
<1>5. ASSUME NEW p \in Process, OpenStep(p)
      PROVE  IInv'
  BY <1>5, OpenDescriptorStep, ReadPointerStep, OpenTargetStep DEF OpenStep
<1>6. ASSUME NEW p \in Process, StopServing(p) \/ Crash(p)
      PROVE  IInv'
  BY <1>6, EndingStep
<1>7. ASSUME NEW r \in Project, EditCorpus(r) \/ EditPolicy(r)
      PROVE  IInv'
  <2>1. TypeOK
    BY DEF IInv
  <2>2. corpus' \in [Project -> CorpusVersion] /\ policy' \in [Project -> PolicyText]
    BY <2>1, <1>7 DEF TypeOK, EditCorpus, EditPolicy
  <2>3. UNCHANGED <<disk, pointer, descriptor, lock, pc, job, basis>>
    BY <1>7 DEF EditCorpus, EditPolicy, store
  <2>4. QED
    BY <2>2, <2>3, EnvironmentStep
<1>8. CASE UNCHANGED vars
  <2>1. TypeOK
    BY DEF IInv
  <2>2. QED
    BY <1>8, <2>1, EnvironmentStep DEF vars, TypeOK
<1>9. QED
  BY <1>1, <1>2, <1>3, <1>4, <1>5, <1>6, <1>7, <1>8 DEF Next, Advance

LEMMA InitEstablishes == Init => IInv
<1> SUFFICES ASSUME Init PROVE IInv
  OBVIOUS
<1>1. Retain \in Nat \ {0} /\ None \notin Process
  BY IndexLifecycleAssumption
<1>2. "idle" \in Phases /\ "idle" \notin LockedPhases /\ "idle" \notin Unbuilt
  BY DEF Phases, LockedPhases, Unbuilt
<1>3. NoPointer \in Seq(Generation) /\ Len(NoPointer) <= Retain + 1
  BY <1>1, EmptySeq DEF NoPointer
<1>4. TypeOK
  BY <1>2, <1>3, NoJobSound DEF Init, TypeOK
<1>5. PointerSound
  BY DEF Init, PointerSound, Distinct, Entries, NoPointer
<1>6. ProcessSound
  BY NoJobSound DEF Init, ProcessSound
<1>7. LockHeld /\ NamesFresh
  BY <1>1, <1>2 DEF Init, LockHeld, NamesFresh
<1>8. QED
  BY <1>4, <1>5, <1>6, <1>7 DEF IInv

\* Every reachable state satisfies the inductive invariant.
THEOREM Invariant == Spec => []IInv
BY InitEstablishes, NextPreserves, PTL DEF Spec

\* Every variable keeps its shape and the pointer stays within Retain + 1
\* entries, whatever interleaving of commands, edits and deaths wrote it.
THEOREM TypeCorrect == Spec => []TypeOK
<1>1. IInv => TypeOK
  BY DEF IInv
<1>2. QED
  BY <1>1, Invariant, PTL

\* The pointer never names a generation twice, nor one that is not on disk.
THEOREM PointerIsSound == Spec => []PointerSound
<1>1. IInv => PointerSound
  BY DEF IInv
<1>2. QED
  BY <1>1, Invariant, PTL

--------------------------------------------------------------------------------
(* The directory implements GenerationStore.                               *)

\* The instance has its own copies of PointerFile's operators.
LEMMA SameOperators ==
    /\ Store!NoPointer = NoPointer
    /\ \A s : Store!Entries(s) = Entries(s)
    /\ \A s : Store!Distinct(s) = Distinct(s)
    /\ \A s : Store!RolledBack(s) = RolledBack(s)
    /\ \A s, e, n : Store!Promoted(s, e, n) = Promoted(s, e, n)
<1>1. Store!NoPointer = NoPointer
  BY DEF Store!NoPointer, NoPointer
<1>2. \A s : Store!Entries(s) = Entries(s)
  BY DEF Store!Entries, Entries
<1>3. \A s : Store!Distinct(s) = Distinct(s)
  BY DEF Store!Distinct, Distinct
<1>4. \A s : Store!RolledBack(s) = RolledBack(s)
  BY DEF Store!RolledBack, RolledBack
<1>5. \A s, e : Store!WithoutEntry(s, e) = WithoutEntry(s, e)
  BY <1>2 DEF Store!WithoutEntry, WithoutEntry
<1>6. \A s, n : Store!FirstOf(s, n) = FirstOf(s, n)
  BY DEF Store!FirstOf, FirstOf
<1>7. \A s, e, n : Store!Promoted(s, e, n) = Promoted(s, e, n)
  BY <1>5, <1>6 DEF Store!Promoted, Promoted
<1>8. QED
  BY <1>1, <1>2, <1>3, <1>4, <1>7

\* A prefix of a sequence keeps its order.
LEMMA PrefixKeepsOrder ==
    ASSUME NEW S, NEW s \in Seq(S), NEW n \in Nat,
           NEW x, NEW y, Store!Ahead(FirstOf(s, n), x, y)
    PROVE  Store!Ahead(s, x, y)
<1>1. PICK f \in Seq(S) : /\ f = FirstOf(s, n) /\ Len(f) <= Len(s)
                          /\ \A i \in 1..Len(f) : f[i] = s[i]
  BY FirstOfPrefix
<1>2. PICK i \in DOMAIN f, k \in DOMAIN f : i < k /\ f[i] = x /\ f[k] = y
  BY <1>1 DEF Store!Ahead
<1>3. /\ DOMAIN f = 1..Len(f) /\ DOMAIN s = 1..Len(s)
      /\ Len(f) \in Nat /\ Len(s) \in Nat
  BY LenProperties
<1>4. i \in DOMAIN s /\ k \in DOMAIN s /\ s[i] = x /\ s[k] = y
  BY <1>1, <1>2, <1>3
<1>5. QED
  BY <1>2, <1>4 DEF Store!Ahead

LEMMA FinishBuildStores ==
    ASSUME IInv, NEW p \in Process, FinishBuild(p)
    PROVE  \E g \in Generation : Store!Store(g)
<1> DEFINE g == job[p].gen
<1>1. TypeOK /\ NamesFresh /\ pc[p] = "embed" /\ g \in Generation
  BY DEF IInv, FinishBuild, ProcessSound, LocalsSet, Building, Unbuilt
<1>2. disk[g] = None /\ g \notin Entries(pointer)
  BY <1>1 DEF NamesFresh, Unbuilt
<1>3. TypeOK' /\ UNCHANGED pointer
  BY FinishBuildStep DEF IInv, FinishBuild
<1>4. /\ disk'[g] # None
      /\ \A h \in Generation \ {g} : disk'[h] = disk[h]
  <2>1. disk'[g] = [model |-> job[p].config.model,
                    policy |-> policy[job[p].config.project],
                    manifest |-> job[p].manifest, vectors |-> job[p].vectors]
    BY <1>1 DEF FinishBuild, TypeOK
  <2>2. ProcessSound /\ job[p] \in Job
    BY <1>1 DEF IInv, TypeOK
  <2>3. /\ job[p].config \in Config /\ job[p].manifest \in Manifest
        /\ job[p].vectors \in SUBSET Model
    BY <1>1, <2>2 DEF ProcessSound, LocalsSet, Building, Unbuilt, Job
  <2>4. disk'[g] \in Build
    BY <1>1, <2>1, <2>3, IndexLifecycleAssumption DEF TypeOK, Build
  <2>5. QED
    BY <1>1, <2>4, NoneIsNoBuild DEF FinishBuild, TypeOK
<1> HIDE DEF g
<1>5. Stored' = Stored \union {g} /\ g \notin Stored
  BY <1>1, <1>2, <1>4 DEF Stored
<1>6. Store!Store(g)
  BY <1>2, <1>3, <1>5, SameOperators DEF Store!Store
<1>7. QED
  BY <1>1, <1>6

LEMMA PromoteWritesPublishes ==
    ASSUME IInv, NEW p \in Process, PromoteWrites(p)
    PROVE  \E g \in Generation : Store!Publish(g)
<1> DEFINE g == job[p].gen
<1>1. TypeOK /\ ProcessSound /\ pc[p] = "promote_write"
  BY DEF IInv, PromoteWrites
<1>2. /\ g \in Generation /\ disk[g] # None
      /\ job[p].current \in {pointer, NoPointer}
  BY <1>1 DEF ProcessSound, LocalsSet, ReadsHold, Building
<1>3. /\ pointer' = Promoted(job[p].current, g, Retain)
      /\ Stored' = Stored /\ g \in Stored
  BY <1>2 DEF PromoteWrites, Stored
<1>4. Store!Publish(g)
  BY <1>2, <1>3, SameOperators DEF Store!Publish
<1>5. QED
  BY <1>2, <1>4

LEMMA RollbackWritesRestores ==
    ASSUME IInv, NEW p \in Process, RollbackWrites(p)
    PROVE  Store!Restore \/ UNCHANGED <<pointer, Stored>>
<1>1. job[p].current = pointer /\ Len(pointer) >= 2
  BY DEF IInv, RollbackWrites, ProcessSound, ReadsHold
<1>2. Stored' = Stored
  BY DEF RollbackWrites, Stored
<1>3. QED
  BY <1>1, <1>2, SameOperators DEF RollbackWrites, Store!Restore

LEMMA RecoverWritesSalvages ==
    ASSUME IInv, NEW p \in Process, RecoverWrites(p)
    PROVE  Store!Salvage \/ UNCHANGED <<pointer, Stored>>
<1> DEFINE v == job[p].valid
<1>1. TypeOK /\ ProcessSound /\ pc[p] = "recover_check" /\ Stored' = Stored
  BY DEF IInv, RecoverWrites, Stored
<1>2. /\ v \in Seq(Generation) /\ Distinct(v) /\ job[p].next \in Nat
      /\ job[p].next <= Len(pointer) + 1
      /\ Entries(v) \subseteq {pointer[i] : i \in 1..(job[p].next - 1)}
      /\ \A x, y \in Entries(v) : Store!Ahead(v, x, y) => Store!Ahead(pointer, x, y)
  BY <1>1 DEF TypeOK, Job, ProcessSound, SalvageSound
<1>3. CASE v = << >>
  BY <1>1, <1>3 DEF RecoverWrites
<1>4. CASE v # << >> /\ pointer' = FirstOf(v, 3)
  <2>1. Entries(v) \subseteq Entries(pointer)
    <3>1. DOMAIN pointer = 1..Len(pointer) /\ Len(pointer) \in Nat
      BY <1>1, LenProperties DEF TypeOK
    <3>2. 1..(job[p].next - 1) \subseteq DOMAIN pointer
      BY <3>1, <1>2
    <3>3. QED
      BY <3>2, <1>2 DEF Entries
  <2> HIDE DEF v
  <2>2. Distinct(pointer') /\ Entries(pointer') \subseteq Entries(v)
    BY <1>2, <1>4, FirstOfDistinct
  <2>3. pointer' # NoPointer
    <3>1. Len(v) \in Nat \ {0}
      BY <1>2, <1>4, EmptySeq
    <3>2. Len(FirstOf(v, 3)) # 0
      BY <3>1, <1>2, FirstOfPrefix
    <3>3. QED
      BY <3>2, <1>4, EmptySeq DEF NoPointer
  <2>4. ASSUME NEW x \in Entries(pointer'), NEW y \in Entries(pointer'),
               Store!Ahead(pointer', x, y)
        PROVE  Store!Ahead(pointer, x, y)
    BY <2>2, <2>4, <1>2, <1>4, PrefixKeepsOrder
  <2>5. QED
    BY <1>1, <2>1, <2>2, <2>3, <2>4, SameOperators DEF Store!Salvage
<1>5. QED
  BY <1>3, <1>4 DEF RecoverWrites, Recovered

LEMMA PruneUnlinksCollects ==
    ASSUME IInv, NEW p \in Process, NEW g \in Generation, PruneUnlinks(p, g)
    PROVE  Store!Collect(g) \/ UNCHANGED <<pointer, Stored>>
<1>1. TypeOK /\ ProcessSound /\ g \notin Entries(pointer) /\ UNCHANGED pointer
  BY DEF IInv, PruneUnlinks, ProcessSound, ReadsHold
<1>2. Stored' = Stored \ {g}
  BY <1>1 DEF PruneUnlinks, Stored, TypeOK
<1>3. QED
  BY <1>1, <1>2, SameOperators DEF Store!Collect

\* Every step of the directory is a step of the abstract store, or none.
LEMMA NextImplements ==
    ASSUME IInv, [Next]_vars
    PROVE  [Store!Next]_(Store!vars)
<1> SUFFICES Store!Next \/ UNCHANGED <<pointer, Stored>>
  BY DEF Store!vars
<1>1. CASE UNCHANGED <<disk, pointer>>
  BY <1>1 DEF Stored
<1>2. ASSUME NEW p \in Process, IndexStep(p), ~UNCHANGED <<disk, pointer>>
      PROVE  Store!Next
  <2>1. FinishBuild(p) \/ PromoteWrites(p)
    BY <1>2 DEF IndexStep, ParseCorpus, BuildFails, PromoteValidates,
       PromoteRefused, PromoteReadsCurrent, TruncateDescriptor, WriteDescriptor, store
  <2>2. QED
    BY <2>1, FinishBuildStores, PromoteWritesPublishes DEF Store!Next
<1>3. ASSUME NEW p \in Process, RestoreStep(p), ~UNCHANGED <<disk, pointer>>
      PROVE  Store!Next \/ UNCHANGED <<pointer, Stored>>
  <2>1. RollbackWrites(p) \/ RecoverWrites(p)
    BY <1>3 DEF RestoreStep, RollbackValidates, RollbackRefused, RecoverReads,
       RecoverRefused, RecoverChecks, store
  <2>2. QED
    BY <2>1, RollbackWritesRestores, RecoverWritesSalvages DEF Store!Next
<1>4. ASSUME NEW p \in Process, PruneStep(p), ~UNCHANGED <<disk, pointer>>
      PROVE  Store!Next \/ UNCHANGED <<pointer, Stored>>
  <2>1. PICK g \in Generation : PruneUnlinks(p, g)
    BY <1>4 DEF PruneStep, PruneScans, PruneEnds, store
  <2>2. QED
    BY <2>1, PruneUnlinksCollects DEF Store!Next
<1>5. ASSUME NEW p \in Process,
             Start(p) \/ OpenStep(p) \/ StopServing(p) \/ Crash(p)
      PROVE  UNCHANGED <<disk, pointer>>
  BY <1>5 DEF Start, StartIndex, StartRollback, StartRecover, StartPrune,
     LoadDescriptor, OpenStep, OpenDescriptor, ReadPointer, OpenTarget, StopServing,
     Crash, store
<1>6. ASSUME NEW r \in Project, EditCorpus(r) \/ EditPolicy(r)
      PROVE  UNCHANGED <<disk, pointer>>
  BY <1>6 DEF EditCorpus, EditPolicy, store
<1>7. CASE UNCHANGED vars
  BY <1>1, <1>7 DEF vars
<1>8. QED
  BY <1>1, <1>2, <1>3, <1>4, <1>5, <1>6, <1>7 DEF Next, Advance

LEMMA InitImplements == Init => Store!Init
<1>1. Init => Stored = {}
  BY DEF Init, Stored
<1>2. QED
  BY <1>1, SameOperators DEF Init, Store!Init

\* The directory, its lock and its commands implement the abstract store.
THEOREM Refinement == Spec => StoreRefined
BY Invariant, InitImplements, NextImplements, PTL DEF Spec, StoreRefined, Store!Spec

--------------------------------------------------------------------------------
(* No generation leaves the pointer without somebody having said so.       *)

LEMMA NextLosesNothing ==
    ASSUME IInv, [Next]_vars, pointer # NoPointer, pointer' # pointer
    PROVE  \/ Active(pointer) \in Entries(pointer')
           \/ \E p \in Process : /\ pc'[p] # pc[p]
                                 /\ job[p].discarded \/ pc[p] = "recover_check"
<1>1. TypeOK /\ PointerSound /\ ProcessSound
  BY DEF IInv
<1>2. Active(pointer) \in Entries(pointer)
  <2>1. 1 \in DOMAIN pointer
    BY <1>1, EmptySeq, LenProperties DEF TypeOK, NoPointer
  <2>2. QED
    BY <2>1 DEF Active, Entries
<1>3. ASSUME NEW p \in Process, PromoteWrites(p)
      PROVE  Active(pointer) \in Entries(pointer') \/ (pc'[p] # pc[p] /\ job[p].discarded)
  <2>1. /\ pc[p] = "promote_write" /\ pc'[p] # pc[p]
        /\ pointer' = Promoted(job[p].current, job[p].gen, Retain)
    BY <1>1, <1>3 DEF PromoteWrites, Goto, TypeOK
  <2>2. /\ job[p].current = pointer \/ job[p].discarded
        /\ job[p].gen \in Generation
    BY <1>1, <2>1 DEF ProcessSound, ReadsHold, LocalsSet, Building
  <2>3. CASE job[p].current = pointer
    <3>1. Retain \in Nat \ {0} /\ pointer \in Seq(Generation) /\ Distinct(pointer)
      BY <1>1, IndexLifecycleAssumption DEF TypeOK, PointerSound
    <3>2. PICK g \in Generation : pointer' = Promoted(pointer, g, Retain)
      BY <2>1, <2>2, <2>3
    <3>3. pointer[1] \in Entries(Promoted(pointer, g, Retain))
      BY <3>1, PromotedEntries DEF NoPointer
    <3>4. QED
      BY <3>2, <3>3 DEF Active
  <2>4. QED
    BY <2>1, <2>2, <2>3
<1>4. ASSUME NEW p \in Process, RollbackWrites(p)
      PROVE  Active(pointer) \in Entries(pointer')
  <2>1. job[p].current = pointer /\ Len(pointer) >= 2
    BY <1>1, <1>4 DEF RollbackWrites, ProcessSound, ReadsHold
  <2>2. Entries(pointer') = Entries(pointer)
    BY <1>1, <1>4, <2>1, RolledBackEntries
    DEF RollbackWrites, TypeOK, PointerSound
  <2>3. QED
    BY <1>2, <2>2
<1>5. ASSUME NEW p \in Process, RecoverWrites(p)
      PROVE  pc'[p] # pc[p] /\ pc[p] = "recover_check"
  BY <1>1, <1>5 DEF RecoverWrites, Return, Goto, TypeOK
<1>6. ASSUME NEW p \in Process, Start(p)
      PROVE  FALSE
  BY <1>6 DEF Start, StartIndex, StartRollback, StartRecover, StartPrune,
     LoadDescriptor, store
<1>7. ASSUME NEW p \in Process,
             OpenStep(p) \/ PruneStep(p) \/ StopServing(p) \/ Crash(p)
      PROVE  FALSE
  BY <1>7 DEF PruneStep, PruneScans, PruneUnlinks, PruneEnds, OpenStep,
     OpenDescriptor, ReadPointer, OpenTarget, StopServing, Crash, store
<1>8. ASSUME NEW p \in Process, IndexStep(p)
      PROVE  PromoteWrites(p)
  BY <1>8 DEF IndexStep, ParseCorpus, FinishBuild, BuildFails, PromoteValidates,
     PromoteRefused, PromoteReadsCurrent, TruncateDescriptor, WriteDescriptor, store
<1>9. ASSUME NEW p \in Process, RestoreStep(p)
      PROVE  RollbackWrites(p) \/ RecoverWrites(p)
  BY <1>9 DEF RestoreStep, RollbackValidates, RollbackRefused, RecoverReads,
     RecoverRefused, RecoverChecks, store
<1>10. ~(\E r \in Project : EditCorpus(r) \/ EditPolicy(r)) /\ ~UNCHANGED vars
  BY DEF EditCorpus, EditPolicy, store, vars
<1>11. QED
  BY <1>3, <1>4, <1>5, <1>6, <1>7, <1>8, <1>9, <1>10 DEF Next, Advance

\* Whatever the interleaving of promotions, rollbacks and recoveries, the active
\* generation is dropped only by a promotion that reports it or by a recovery.
THEOREM NothingLostSilently == Spec => NoSilentLoss
BY Invariant, NextLosesNothing, PTL DEF Spec, NoSilentLoss

--------------------------------------------------------------------------------
(* What the generation files hold: rows of one model, one configuration behind
   the pointer, and an active generation that still is what its validation saw. *)


\* What IInv says of one command and of the files it works with.
LEMMA LocalFacts ==
    ASSUME IInv, NEW p \in Process
    PROVE  /\ pc[p] \in Phases /\ job[p] \in Job
           /\ LocalsSet(pc[p], job[p])
           /\ ReadsHold(pc[p], job[p])
           /\ SalvageSound(pc[p], job[p])
           /\ lock = p <=> pc[p] \in LockedPhases
           /\ \A g \in Generation : disk[g] = None \/ disk[g] \in Build
           /\ pointer \in Seq(Generation)
           /\ \A g \in Entries(pointer) : g \in Generation /\ disk[g] \in Build
<1>1. TypeOK /\ PointerSound /\ ProcessSound /\ LockHeld
  BY DEF IInv
<1>2. \A g \in Generation : disk[g] = None \/ disk[g] \in Build
  BY <1>1 DEF TypeOK
<1>3. \A g \in Entries(pointer) : g \in Generation /\ disk[g] \in Build
  <2>1. Entries(pointer) \subseteq Generation
    BY <1>1, LenProperties, ElementOfSeq DEF TypeOK, Entries
  <2>2. QED
    BY <2>1, <1>1, <1>2 DEF PointerSound
<1>4. QED
  BY <1>1, <1>2, <1>3 DEF TypeOK, ProcessSound, LockHeld

\* A pointer that exists names its active generation.
LEMMA ActiveIsEntry ==
    ASSUME NEW S, NEW s \in Seq(S), s # NoPointer
    PROVE  Active(s) \in Entries(s)
<1>1. 1 \in DOMAIN s
  BY EmptySeq, LenProperties DEF NoPointer
<1>2. QED
  BY <1>1 DEF Active, Entries

--------------------------------------------------------------------------------
(* The rows of one file, and those a server answers from, are of one model. *)

\* A step of p that leaves p neither embedding nor serving, and unlinks files
\* at most.
LEMMA RowsUntouched ==
    ASSUME IInv, RowsOfOneModel, NEW p \in Process,
           \A q \in Process \ {p} : pc'[q] = pc[q] /\ job'[q] = job[q],
           \/ pc'[p] \notin {"embed", "serving"}
           \/ pc'[p] = pc[p] /\ job'[p] = job[p],
           \A g \in Generation : disk'[g] = disk[g] \/ disk'[g] = None
    PROVE  RowsOfOneModel'
<1>1. VectorsOfOneModel'
  BY DEF RowsOfOneModel, VectorsOfOneModel
<1>2. \A q \in Process :
          /\ pc'[q] = "embed" => job'[q].vectors = {job'[q].config.model}
          /\ pc'[q] = "serving" => job'[q].served.vectors = {job'[q].config.model}
  BY DEF RowsOfOneModel
<1>3. QED
  BY <1>1, <1>2 DEF RowsOfOneModel

LEMMA ParseCorpusRows ==
    ASSUME IInv, RowsOfOneModel, NEW p \in Process, ParseCorpus(p)
    PROVE  RowsOfOneModel'
<1> DEFINE c == job[p].config
<1>1. TypeOK /\ UNCHANGED disk /\ job[p] \in Job
  BY LocalFacts DEF IInv, ParseCorpus, store
<1>2. Reusable(p) \subseteq {c.model}
  BY <1>1 DEF Reusable, RowsOfOneModel, VectorsOfOneModel, Job
<1>3. /\ pc'[p] = "embed" /\ job'[p].vectors = {c.model} /\ job'[p].config = c
      /\ \A q \in Process \ {p} : pc'[q] = pc[q] /\ job'[q] = job[q]
  BY <1>1, <1>2 DEF ParseCorpus, Goto, TypeOK, Job
<1>4. \A q \in Process :
          /\ pc'[q] = "embed" => job'[q].vectors = {job'[q].config.model}
          /\ pc'[q] = "serving" => job'[q].served.vectors = {job'[q].config.model}
  BY <1>3 DEF RowsOfOneModel
<1>5. QED
  BY <1>1, <1>4 DEF RowsOfOneModel, VectorsOfOneModel

LEMMA FinishBuildRows ==
    ASSUME IInv, RowsOfOneModel, NEW p \in Process, FinishBuild(p)
    PROVE  RowsOfOneModel'
<1> DEFINE j == job[p]
<1>1. /\ TypeOK /\ pc[p] = "embed" /\ j.gen \in Generation
      /\ j.vectors = {j.config.model}
  BY LocalFacts DEF IInv, FinishBuild, LocalsSet, Building, Unbuilt, RowsOfOneModel
<1>2. /\ disk'[j.gen].model = j.config.model /\ disk'[j.gen].vectors = j.vectors
      /\ \A g \in Generation \ {j.gen} : disk'[g] = disk[g]
  BY <1>1 DEF FinishBuild, TypeOK
<1>3. VectorsOfOneModel'
  BY <1>1, <1>2 DEF RowsOfOneModel, VectorsOfOneModel
<1>4. /\ job' = job /\ pc'[p] = "built"
      /\ \A q \in Process \ {p} : pc'[q] = pc[q]
  BY <1>1 DEF FinishBuild, Goto, TypeOK
<1>5. \A q \in Process :
          /\ pc'[q] = "embed" => job'[q].vectors = {job'[q].config.model}
          /\ pc'[q] = "serving" => job'[q].served.vectors = {job'[q].config.model}
  BY <1>4 DEF RowsOfOneModel
<1>6. QED
  BY <1>3, <1>5 DEF RowsOfOneModel

LEMMA OpenTargetRows ==
    ASSUME IInv, RowsOfOneModel, NEW p \in Process, OpenTarget(p)
    PROVE  RowsOfOneModel'
<1> DEFINE j == job[p]
<1>1. TypeOK /\ UNCHANGED disk /\ j.gen \in Generation /\ j \in Job
  BY LocalFacts DEF IInv, OpenTarget, LocalsSet, store
<1>2. CASE Return(p)
  <2>1. /\ pc'[p] = "idle"
        /\ \A q \in Process \ {p} : pc'[q] = pc[q] /\ job'[q] = job[q]
    BY <1>1, <1>2 DEF Return, Goto, TypeOK
  <2>2. QED
    BY <1>1, <2>1, RowsUntouched
<1>3. CASE ~Return(p)
  <2>1. /\ disk[j.gen].vectors = {j.config.model}
        /\ pc' = [pc EXCEPT ![p] = "serving"]
        /\ job' = [job EXCEPT ![p].served = disk[j.gen], ![p].gen = None]
    BY <1>1, <1>3 DEF OpenTarget, Validated, ConfigMatches, Goto,
       RowsOfOneModel, VectorsOfOneModel
  <2>2. /\ pc'[p] = "serving"
        /\ job'[p].served = disk[j.gen] /\ job'[p].config = j.config
        /\ \A q \in Process \ {p} : pc'[q] = pc[q] /\ job'[q] = job[q]
    BY <1>1, <2>1 DEF TypeOK, Job
  <2>3. \A q \in Process :
            /\ pc'[q] = "embed" => job'[q].vectors = {job'[q].config.model}
            /\ pc'[q] = "serving" => job'[q].served.vectors = {job'[q].config.model}
    BY <2>1, <2>2 DEF RowsOfOneModel
  <2>4. QED
    BY <1>1, <2>3 DEF RowsOfOneModel, VectorsOfOneModel
<1>4. QED
  BY <1>2, <1>3

LEMMA NextRows ==
    ASSUME IInv, RowsOfOneModel, [Next]_vars
    PROVE  RowsOfOneModel'
<1>1. TypeOK
  BY DEF IInv
<1>2. ASSUME NEW p \in Process, Return(p), UNCHANGED disk
      PROVE  RowsOfOneModel'
  <2>1. /\ pc'[p] = "idle"
        /\ \A q \in Process \ {p} : pc'[q] = pc[q] /\ job'[q] = job[q]
    BY <1>1, <1>2 DEF Return, Goto, TypeOK
  <2>2. QED
    BY <1>2, <2>1, RowsUntouched
<1>3. ASSUME NEW p \in Process, NEW phase \in Phases \ {"embed", "serving"},
             Goto(p, phase), \E j : job' = [job EXCEPT ![p] = j], UNCHANGED disk
      PROVE  RowsOfOneModel'
  <2>1. /\ pc'[p] = phase
        /\ \A q \in Process \ {p} : pc'[q] = pc[q] /\ job'[q] = job[q]
    BY <1>1, <1>3 DEF Goto, TypeOK
  <2>2. QED
    BY <1>3, <2>1, RowsUntouched
<1>4. ASSUME NEW p \in Process, NEW phase \in Phases \ {"embed", "serving"},
             Goto(p, phase), UNCHANGED <<job, disk>>
      PROVE  RowsOfOneModel'
  <2>1. /\ pc'[p] = phase
        /\ \A q \in Process \ {p} : pc'[q] = pc[q] /\ job'[q] = job[q]
    BY <1>1, <1>4 DEF Goto, TypeOK
  <2>2. QED
    BY <1>4, <2>1, RowsUntouched
<1>5. ASSUME NEW p \in Process, Start(p)
      PROVE  RowsOfOneModel'
  <2>1. ASSUME NEW c \in Config, StartIndex(p, c) \/ StartRollback(p, c) \/ StartRecover(p, c)
        PROVE  RowsOfOneModel'
    BY <2>1, <1>3 DEF StartIndex, StartRollback, StartRecover, store, Phases
  <2>2. ASSUME LoadDescriptor(p)
        PROVE  RowsOfOneModel'
    BY <2>2, <1>3 DEF LoadDescriptor, store, Phases
  <2>3. ASSUME StartPrune(p)
        PROVE  RowsOfOneModel'
    BY <2>3, <1>4 DEF StartPrune, store, Phases
  <2>4. QED
    BY <1>5, <2>1, <2>2, <2>3 DEF Start
<1>6. ASSUME NEW p \in Process, IndexStep(p)
      PROVE  RowsOfOneModel'
  <2>1. ASSUME PromoteValidates(p) PROVE RowsOfOneModel'
    BY <2>1, <1>3 DEF PromoteValidates, store, Phases, LockedPhases
  <2>2. ASSUME PromoteReadsCurrent(p) PROVE RowsOfOneModel'
    BY <2>2, <1>2, <1>3 DEF PromoteReadsCurrent, store, Phases, LockedPhases
  <2>3. ASSUME PromoteWrites(p) \/ TruncateDescriptor(p)
        PROVE  RowsOfOneModel'
    BY <2>3, <1>4 DEF PromoteWrites, TruncateDescriptor, Phases
  <2>4. ASSUME BuildFails(p) \/ PromoteRefused(p) \/ WriteDescriptor(p)
        PROVE  RowsOfOneModel'
    BY <2>4, <1>2 DEF BuildFails, PromoteRefused, WriteDescriptor, store
  <2>5. QED
    BY <1>6, <2>1, <2>2, <2>3, <2>4, ParseCorpusRows, FinishBuildRows DEF IndexStep
<1>7. ASSUME NEW p \in Process, RestoreStep(p)
      PROVE  RowsOfOneModel'
  <2>1. ASSUME RollbackValidates(p) \/ RecoverReads(p)
        PROVE  RowsOfOneModel'
    BY <2>1, <1>3 DEF RollbackValidates, RecoverReads, store, Phases, LockedPhases
  <2>2. ASSUME RecoverChecks(p)
        PROVE  RowsOfOneModel'
    <3>1. /\ pc[p] = "recover_check" /\ UNCHANGED <<pc, disk>>
          /\ \A q \in Process \ {p} : job'[q] = job[q]
      BY <1>1, <2>2 DEF RecoverChecks, TypeOK, store
    <3>2. QED
      BY <3>1, RowsUntouched
  <2>3. ASSUME \/ RollbackRefused(p) \/ RollbackWrites(p)
               \/ RecoverRefused(p) \/ RecoverWrites(p)
        PROVE  RowsOfOneModel'
    BY <2>3, <1>2 DEF RollbackRefused, RollbackWrites, RecoverRefused,
       RecoverWrites, store
  <2>4. QED
    BY <1>7, <2>1, <2>2, <2>3 DEF RestoreStep
<1>8. ASSUME NEW p \in Process, PruneStep(p)
      PROVE  RowsOfOneModel'
  <2>1. ASSUME PruneScans(p) PROVE RowsOfOneModel'
    BY <2>1, <1>3 DEF PruneScans, store, Phases, LockedPhases
  <2>2. ASSUME NEW g \in Generation, PruneUnlinks(p, g)
        PROVE  RowsOfOneModel'
    <3>1. /\ pc[p] = "prune" /\ UNCHANGED pc
          /\ \A q \in Process \ {p} : job'[q] = job[q]
          /\ \A h \in Generation : disk'[h] = disk[h] \/ disk'[h] = None
      BY <1>1, <2>2 DEF PruneUnlinks, TypeOK
    <3>2. QED
      BY <3>1, RowsUntouched
  <2>3. ASSUME PruneEnds(p) PROVE RowsOfOneModel'
    BY <2>3, <1>2 DEF PruneEnds, store
  <2>4. QED
    BY <1>8, <2>1, <2>2, <2>3 DEF PruneStep
<1>9. ASSUME NEW p \in Process, OpenDescriptor(p) \/ ReadPointer(p)
      PROVE  RowsOfOneModel'
  BY <1>9, <1>2, <1>3 DEF OpenDescriptor, ReadPointer, store, Phases
<1>10. ASSUME NEW p \in Process, StopServing(p) \/ Crash(p)
       PROVE  RowsOfOneModel'
  BY <1>10, <1>2 DEF StopServing, Crash, store
<1>11. ASSUME UNCHANGED <<disk, pc, job>>
       PROVE  RowsOfOneModel'
  BY <1>11 DEF RowsOfOneModel, VectorsOfOneModel
<1>12. ASSUME NEW r \in Project, EditCorpus(r) \/ EditPolicy(r)
       PROVE  RowsOfOneModel'
  BY <1>11, <1>12 DEF EditCorpus, EditPolicy, store
<1>13. QED
  BY <1>5, <1>6, <1>7, <1>8, <1>9, <1>10, <1>11, <1>12, OpenTargetRows
  DEF Next, Advance, OpenStep, vars

\* A build that reuses rows, from whichever file it found, never mixes models.
LEMMA RowsInvariant == Spec => []RowsOfOneModel
<1>1. Init => RowsOfOneModel
  BY DEF Init, RowsOfOneModel, VectorsOfOneModel
<1>2. QED
  BY <1>1, NextRows, Invariant, PTL DEF Spec

\* The vectors of a generation are all of the model that its metadata declares,
\* through any chain of builds that reuse each other's rows.
THEOREM OneModelPerGeneration == Spec => []VectorsOfOneModel
<1>1. RowsOfOneModel => VectorsOfOneModel
  BY DEF RowsOfOneModel
<1>2. QED
  BY <1>1, RowsInvariant, PTL

\* Whatever is written between the reading of the descriptor a snapshot is
\* opened by, of the pointer and of the file, the rows served are of the model
\* that descriptor names.  (Of the descriptor read before it, for the embedder,
\* this does not hold: see IndexEmbedderClaim.)
THEOREM ServedModelMatches == Spec => []ServedMatchesItsDescriptor
<1>1. RowsOfOneModel => ServedMatchesItsDescriptor
  BY DEF RowsOfOneModel, ServedMatchesItsDescriptor
<1>2. QED
  BY <1>1, RowsInvariant, PTL

--------------------------------------------------------------------------------
(* One configuration behind the pointer, and a basis that stays true, when *)
(* policies are edited between commands only.                              *)

\* What a command has checked does not depend on what the others do: while it
\* holds the lock nobody writes the pointer or unlinks a file.
LEMMA ChecksUntouched ==
    ASSUME IInv, NEW q \in Process, ChecksHold(pc[q], job[q]),
           pc'[q] = pc[q], job'[q] = job[q], UNCHANGED policy,
           pc[q] \in LockedPhases =>
               /\ UNCHANGED pointer
               /\ \A g \in Generation : disk[g] # None => disk'[g] = disk[g]
    PROVE  ChecksHold(pc[q], job[q])'
<1> DEFINE j == job[q]
<1>1. /\ pointer \in Seq(Generation) /\ j \in Job
      /\ ReadsHold(pc[q], j) /\ SalvageSound(pc[q], j) /\ LocalsSet(pc[q], j)
  BY LocalFacts
<1>2. pc[q] \in LockedPhases =>
          /\ pointer' = pointer
          /\ \A g \in Entries(pointer) : disk'[g] = disk[g]
  BY LocalFacts, NoneIsNoBuild
<1>3. ASSUME pc[q] \in {"promote_read", "promote_write"}
      PROVE  disk'[j.gen] = disk[j.gen]
  BY <1>1, <1>3 DEF ReadsHold, LocalsSet, Building, LockedPhases
<1>4. ASSUME pc[q] = "promote_write", j.current # NoPointer
      PROVE  disk'[Active(pointer)] = disk[Active(pointer)]
  <2>1. pointer # NoPointer
    BY <1>1, <1>4 DEF ReadsHold
  <2>2. QED
    BY <2>1, <1>1, <1>2, <1>4, ActiveIsEntry DEF LockedPhases
<1>5. ASSUME pc[q] = "rollback_write"
      PROVE  disk'[pointer[2]] = disk[pointer[2]]
  <2>1. pointer[2] \in Entries(pointer)
    BY <1>1, <1>5, LenProperties DEF ReadsHold, Entries
  <2>2. QED
    BY <2>1, <1>2, <1>5 DEF LockedPhases
<1>6. ASSUME pc[q] = "recover_check", j.valid # NoPointer
      PROVE  disk'[j.valid[1]] = disk[j.valid[1]]
  <2>1. j.valid[1] \in Entries(j.valid)
    BY <1>1, <1>6, ActiveIsEntry DEF Job, Active
  <2>2. j.valid[1] \in Entries(pointer)
    <3>1. /\ Entries(j.valid) \subseteq {pointer[i] : i \in 1..(j.next - 1)}
          /\ j.next <= Len(pointer) + 1 /\ j.next \in Nat
      BY <1>1, <1>6 DEF SalvageSound, Job
    <3>2. 1..(j.next - 1) \subseteq DOMAIN pointer
      BY <3>1, <1>1, LenProperties
    <3>3. QED
      BY <2>1, <3>1, <3>2 DEF Entries
  <2>3. QED
    BY <2>2, <1>2, <1>6 DEF LockedPhases
<1>7. ASSUME pc[q] \in {"promote_read", "promote_write"}
      PROVE  BuiltFrom(disk[job[q].gen], job[q].seen)'
  BY <1>3, <1>7 DEF ChecksHold, BuiltFrom
<1>8. ASSUME PolicyStable, pc[q] = "promote_write", j.current # NoPointer
      PROVE  ConfigMatches(disk[Active(pointer)], job[q].config)'
  <2>1. pointer' = pointer
    BY <1>2, <1>8 DEF LockedPhases
  <2>2. QED
    BY <2>1, <1>4, <1>8 DEF ChecksHold, PolicyHolds, ConfigMatches
<1>9. ASSUME pc[q] = "rollback_write"
      PROVE  BuiltFrom(disk[pointer[2]], job[q].seen)'
  <2>1. pointer' = pointer
    BY <1>2, <1>9 DEF LockedPhases
  <2>2. QED
    BY <2>1, <1>5, <1>9 DEF ChecksHold, BuiltFrom
<1>10. ASSUME pc[q] = "recover_check", j.valid # NoPointer
       PROVE  BuiltFrom(disk[job[q].valid[1]], job[q].seen)'
  BY <1>6, <1>10 DEF ChecksHold, BuiltFrom
<1>11. PolicyStable => PolicyHolds(pc[q], job[q])'
  <2> SUFFICES ASSUME PolicyStable PROVE PolicyHolds(pc[q], job[q])'
    OBVIOUS
  <2>1. PolicyHolds(pc[q], job[q])
    BY DEF ChecksHold
  <2>2. QED
    BY <2>1, <1>8 DEF PolicyHolds
<1>12. QED
  BY <1>7, <1>9, <1>10, <1>11 DEF ChecksHold

\* OneConfiguration and BasisSound speak of the files the pointer names only.
LEMMA NamedFilesKept ==
    ASSUME IInv, PolicyStable => OneConfiguration, BasisSound,
           UNCHANGED <<pointer, basis>>,
           \A g \in Entries(pointer) : disk'[g] = disk[g]
    PROVE  (PolicyStable => OneConfiguration') /\ BasisSound'
<1>1. Entries(pointer') = Entries(pointer)
  OBVIOUS
<1>2. PolicyStable => OneConfiguration'
  BY <1>1 DEF OneConfiguration
<1>3. pointer # NoPointer => Active(pointer) \in Entries(pointer)
  BY ActiveIsEntry DEF IInv, TypeOK
<1>4. Active(pointer') = Active(pointer)
  OBVIOUS
<1>5. BasisSound'
  BY <1>3, <1>4 DEF BasisSound, BuiltFrom
<1>6. QED
  BY <1>2, <1>5

\* A step of p that leaves the files and the pointer as they are.
LEMMA LocalContent ==
    ASSUME IInv, ContentSound, NEW p \in Process,
           \A q \in Process \ {p} : pc'[q] = pc[q] /\ job'[q] = job[q],
           UNCHANGED <<policy, disk, pointer, basis>>,
           ChecksHold(pc[p], job[p])'
    PROVE  ContentSound'
<1>1. \A q \in Process : ChecksHold(pc[q], job[q])'
  <2> SUFFICES ASSUME NEW q \in Process \ {p} PROVE ChecksHold(pc[q], job[q])'
    OBVIOUS
  <2>1. ChecksHold(pc[q], job[q]) /\ q \in Process
    BY DEF ContentSound
  <2>2. QED
    BY <2>1, ChecksUntouched
<1>2. (PolicyStable => OneConfiguration') /\ BasisSound'
  BY NamedFilesKept DEF ContentSound
<1>3. QED
  BY <1>1, <1>2 DEF ContentSound

\* The phases in which a command has checked nothing it still has to act on.
Unchecked == Phases \ (Building \union {"rollback_write", "recover_check"})

LEMMA UncheckedHolds ==
    ASSUME NEW p \in Process, pc'[p] \in Unchecked
    PROVE  ChecksHold(pc[p], job[p])'
BY DEF ChecksHold, PolicyHolds, Unchecked, Building

LEMMA UncheckedContent ==
    ASSUME IInv, ContentSound, NEW p \in Process, NEW phase \in Unchecked,
           Goto(p, phase), UNCHANGED job \/ \E j : job' = [job EXCEPT ![p] = j],
           UNCHANGED <<policy, disk, pointer, basis>>
    PROVE  ContentSound'
<1>1. TypeOK
  BY DEF IInv
<1>2. /\ pc'[p] = phase
      /\ \A q \in Process \ {p} : pc'[q] = pc[q] /\ job'[q] = job[q]
  BY <1>1 DEF Goto, TypeOK
<1>3. QED
  BY <1>2, UncheckedHolds, LocalContent

LEMMA ReturnContent ==
    ASSUME IInv, ContentSound, NEW p \in Process, Return(p),
           UNCHANGED <<policy, disk, pointer, basis>>
    PROVE  ContentSound'
BY UncheckedContent DEF Return, Unchecked, Phases, Building, Unbuilt

--------------------------------------------------------------------------------
(* Building and promoting.                                                 *)

LEMMA StartIndexContent ==
    ASSUME IInv, ContentSound, NEW p \in Process, NEW c \in Config, StartIndex(p, c)
    PROVE  ContentSound'
<1>1. TypeOK
  BY DEF IInv
<1>2. /\ pc'[p] = "parse" /\ UNCHANGED <<policy, disk, pointer, basis>>
      /\ \A q \in Process \ {p} : pc'[q] = pc[q] /\ job'[q] = job[q]
  <2>1. PICK g \in NewNames :
            job' = [job EXCEPT ![p] = [NoJob EXCEPT !.config = c,
                                                    !.policy = policy[c.project],
                                                    !.gen = g,
                                                    !.prior = ActiveDatabase]]
    BY DEF StartIndex
  <2>2. QED
    BY <1>1, <2>1 DEF StartIndex, Goto, TypeOK, NoJob, env, store
<1>3. ChecksHold(pc[p], job[p])'
  BY <1>2 DEF ChecksHold, PolicyHolds
<1>4. QED
  BY <1>2, <1>3, LocalContent

LEMMA ParseCorpusContent ==
    ASSUME IInv, ContentSound, NEW p \in Process, ParseCorpus(p)
    PROVE  ContentSound'
<1>1. TypeOK /\ job[p] \in Job
  BY LocalFacts DEF IInv
<1>2. /\ pc'[p] = "embed" /\ UNCHANGED <<policy, disk, pointer, basis>>
      /\ \A q \in Process \ {p} : pc'[q] = pc[q] /\ job'[q] = job[q]
  BY <1>1 DEF ParseCorpus, Goto, TypeOK, Job, env, store
<1>3. ChecksHold(pc[p], job[p])'
  BY <1>1, <1>2 DEF ChecksHold, PolicyHolds
<1>4. QED
  BY <1>2, <1>3, LocalContent

LEMMA FinishBuildContent ==
    ASSUME IInv, ContentSound, NEW p \in Process, FinishBuild(p)
    PROVE  ContentSound'
<1> DEFINE g == job[p].gen
<1>1. /\ TypeOK /\ PointerSound /\ pc[p] = "embed"
      /\ disk[g] = None /\ g \notin Entries(pointer)
  BY DEF IInv, FinishBuild, NamesFresh, Unbuilt
<1>2. /\ UNCHANGED <<policy, pointer, basis, job>> /\ pc'[p] = "built"
      /\ \A q \in Process \ {p} : pc'[q] = pc[q]
      /\ \A h \in Generation \ {g} : disk'[h] = disk[h]
  BY <1>1 DEF FinishBuild, Goto, TypeOK, env
<1>3. \A h \in Generation : disk[h] # None => disk'[h] = disk[h]
  BY <1>1, <1>2
<1>4. \A q \in Process : ChecksHold(pc[q], job[q])'
  <2>1. ChecksHold(pc[p], job[p])'
    BY <1>1, <1>2 DEF ChecksHold, PolicyHolds
  <2>2. ASSUME NEW q \in Process \ {p} PROVE ChecksHold(pc[q], job[q])'
    <3>1. ChecksHold(pc[q], job[q]) /\ q \in Process
      BY DEF ContentSound
    <3>2. QED
      BY <3>1, <1>2, <1>3, ChecksUntouched
  <2>3. QED
    BY <2>1, <2>2
<1>5. \A h \in Entries(pointer) : disk'[h] = disk[h]
  BY <1>3, LocalFacts, NoneIsNoBuild
<1>6. QED
  BY <1>2, <1>4, <1>5, NamedFilesKept DEF ContentSound

\* What a validation saw, and that the validated file holds it.
LEMMA SeenFacts ==
    ASSUME IInv, NEW c \in Config, NEW text \in PolicyText
    PROVE  LET s == Seen(c, text) IN
           /\ s \in Basis /\ s.config = c /\ s.policy = policy[c.project]
           /\ \A g : Validated(g, c, text) => BuiltFrom(disk[g], s)
<1> DEFINE s == Seen(c, text)
<1>1. c.project \in Project /\ TypeOK
  BY IndexLifecycleAssumption DEF IInv
<1>2. /\ s.config = c /\ s.policy = policy[c.project] /\ s.corpus = corpus[c.project]
      /\ s.selected = text /\ s \in Basis
  BY <1>1 DEF Seen, Basis, TypeOK
<1> HIDE DEF s
<1>3. \A g : Validated(g, c, text) => BuiltFrom(disk[g], s)
  BY <1>2 DEF Validated, ConfigMatches, BuiltFrom
<1>4. QED
  BY <1>2, <1>3 DEF s

\* The same for a command that validates by the policy of the moment.
LEMMA SeenNow ==
    ASSUME IInv, NEW c \in Config
    PROVE  LET s == Seen(c, policy[c.project]) IN
           /\ s \in Basis
           /\ \A g : Validated(g, c, policy[c.project]) => BuiltFrom(disk[g], s)
<1>1. policy[c.project] \in PolicyText
  BY IndexLifecycleAssumption DEF IInv, TypeOK
<1>2. QED
  BY <1>1, SeenFacts

LEMMA PromoteValidatesContent ==
    ASSUME IInv, ContentSound, NEW p \in Process, PromoteValidates(p)
    PROVE  ContentSound'
<1> DEFINE j == job[p]
           c == j.config
<1>1. /\ TypeOK /\ j \in Job /\ c \in Config /\ j.policy \in PolicyText
      /\ Validated(j.gen, c, j.policy)
  BY LocalFacts DEF IInv, PromoteValidates, Building, LocalsSet
<1>2. /\ pc'[p] = "promote_read" /\ UNCHANGED <<policy, disk, pointer, basis>>
      /\ job' = [job EXCEPT ![p].seen = Seen(c, j.policy)]
      /\ \A q \in Process \ {p} : pc'[q] = pc[q] /\ job'[q] = job[q]
  BY <1>1 DEF PromoteValidates, Goto, TypeOK, env, store
<1>3. /\ job'[p].config = c /\ job'[p].gen = j.gen
      /\ job'[p].seen = Seen(c, j.policy)
  BY <1>1, <1>2 DEF TypeOK, Job
<1>4. PICK s \in Basis : /\ s = Seen(c, j.policy)
                         /\ s.config = c /\ s.policy = policy[c.project]
                         /\ BuiltFrom(disk[j.gen], s)
  BY <1>1, SeenFacts
<1>5. ChecksHold(pc[p], job[p])'
  BY <1>1, <1>2, <1>3, <1>4 DEF ChecksHold, PolicyHolds, BuiltFrom
<1>6. QED
  BY <1>2, <1>5, LocalContent

LEMMA PromoteReadsCurrentContent ==
    ASSUME IInv, ContentSound, NEW p \in Process, PromoteReadsCurrent(p)
    PROVE  ContentSound'
<1> DEFINE j == job[p]
           keep == Retainable(j.config)
<1>1. TypeOK /\ j \in Job /\ ChecksHold("promote_read", j)
  BY LocalFacts DEF IInv, PromoteReadsCurrent, ContentSound
<1>2. UNCHANGED <<policy, disk, pointer, basis>>
  BY DEF PromoteReadsCurrent, env, store
<1>3. CASE Return(p)
  BY <1>2, <1>3, ReturnContent
<1>4. CASE ~Return(p)
  <2>1. /\ pc' = [pc EXCEPT ![p] = "promote_write"]
        /\ job' = [job EXCEPT ![p].current = IF keep THEN pointer ELSE NoPointer,
                              ![p].discarded = pointer # NoPointer /\ ~keep]
    BY <1>4 DEF PromoteReadsCurrent, Goto
  <2>2. /\ pc'[p] = "promote_write"
        /\ job'[p].config = j.config /\ job'[p].gen = j.gen
        /\ job'[p].seen = j.seen
        /\ job'[p].current = IF keep THEN pointer ELSE NoPointer
        /\ \A q \in Process \ {p} : pc'[q] = pc[q] /\ job'[q] = job[q]
    BY <1>1, <2>1 DEF TypeOK, Job
  <2>3. job'[p].current # NoPointer => ConfigMatches(disk[Active(pointer)], j.config)
    BY <2>2 DEF Retainable
  <2>4. ChecksHold(pc[p], job[p])'
    BY <1>1, <1>2, <2>2, <2>3
    DEF ChecksHold, PolicyHolds, BuiltFrom, ConfigMatches
  <2>5. QED
    BY <1>2, <2>2, <2>4, LocalContent
<1>5. QED
  BY <1>3, <1>4

\* The holder of the lock writes the pointer and has nothing left to act on.
LEMMA PointerWriteContent ==
    ASSUME IInv, ContentSound, NEW p \in Process, pc[p] \in LockedPhases,
           NEW phase \in Unchecked, Goto(p, phase),
           UNCHANGED job \/ \E j : job' = [job EXCEPT ![p] = j],
           UNCHANGED <<policy, disk>>,
           PolicyStable => OneConfiguration', BasisSound'
    PROVE  ContentSound'
<1>1. TypeOK /\ lock = p
  BY LocalFacts DEF IInv
<1>2. /\ pc'[p] = phase
      /\ \A q \in Process \ {p} : pc'[q] = pc[q] /\ job'[q] = job[q]
  BY <1>1 DEF Goto, TypeOK
<1>3. ASSUME NEW q \in Process \ {p} PROVE ChecksHold(pc[q], job[q])'
  <2>1. q \in Process /\ ChecksHold(pc[q], job[q])
    BY DEF ContentSound
  <2>2. pc[q] \notin LockedPhases
    BY <1>1, <2>1, LocalFacts
  <2>3. QED
    BY <1>2, <2>1, <2>2, ChecksUntouched
<1>4. ChecksHold(pc[p], job[p])'
  BY <1>2, UncheckedHolds
<1>5. QED
  BY <1>3, <1>4 DEF ContentSound

LEMMA PromoteWritesContent ==
    ASSUME IInv, ContentSound, NEW p \in Process, PromoteWrites(p)
    PROVE  ContentSound'
<1> DEFINE j == job[p]
           g == j.gen
           cur == j.current
<1>1. /\ TypeOK /\ PointerSound /\ pc[p] = "promote_write" /\ j \in Job
      /\ g \in Generation /\ cur \in {pointer, NoPointer}
  BY LocalFacts DEF IInv, PromoteWrites, LocalsSet, ReadsHold, Building
<1>2. /\ j.seen \in Basis /\ BuiltFrom(disk[g], j.seen)
      /\ PolicyStable => /\ ConfigMatches(disk[g], j.config)
                         /\ cur # NoPointer => ConfigMatches(disk[Active(pointer)], j.config)
  BY <1>1 DEF ContentSound, ChecksHold, PolicyHolds, BuiltFrom, ConfigMatches
<1>3. cur \in Seq(Generation) /\ Distinct(cur)
  <2>1. CASE cur = pointer
    BY <2>1, <1>1 DEF TypeOK, PointerSound
  <2>2. CASE cur = << >>
    BY <2>2, EmptySeq DEF Distinct
  <2>3. QED
    BY <2>1, <2>2, <1>1 DEF NoPointer
<1>4. /\ pointer' = Promoted(cur, g, Retain) /\ basis' = j.seen
      /\ UNCHANGED <<policy, disk, job>> /\ Goto(p, "describe")
  BY DEF PromoteWrites, env
<1>5. ASSUME PolicyStable
      PROVE  \A h \in Entries(cur) : ConfigMatches(disk[h], j.config)
  <2>1. CASE cur = NoPointer
    BY <2>1 DEF Entries, NoPointer
  <2>2. CASE cur # NoPointer
    <3>1. Active(pointer) \in Entries(pointer) /\ cur = pointer
      BY <1>1, <2>2, ActiveIsEntry DEF TypeOK
    <3>2. QED
      BY <3>1, <2>2, <1>2, <1>5 DEF ContentSound, OneConfiguration, ConfigMatches
  <2>3. QED
    BY <2>1, <2>2
<1> HIDE DEF cur, g
<1>6. /\ Entries(pointer') \subseteq Entries(cur) \union {g}
      /\ pointer' # NoPointer /\ pointer'[1] = g
  BY <1>1, <1>3, <1>4, PromotedEntries, IndexLifecycleAssumption
<1>7. ASSUME PolicyStable PROVE OneConfiguration'
  <2>1. \A h \in Entries(pointer') : ConfigMatches(disk[h], j.config)
    BY <1>2, <1>5, <1>6, <1>7
  <2>2. QED
    BY <2>1, <1>4 DEF OneConfiguration, ConfigMatches
<1>8. BasisSound'
  BY <1>2, <1>4, <1>6 DEF BasisSound, BuiltFrom, Active
<1>9. "describe" \in Unchecked /\ pc[p] \in LockedPhases
  BY <1>1 DEF Unchecked, Phases, Building, Unbuilt, LockedPhases
<1>10. QED
  BY <1>4, <1>7, <1>8, <1>9, PointerWriteContent

--------------------------------------------------------------------------------
(* Rolling back and recovering.                                            *)

LEMMA RollbackValidatesContent ==
    ASSUME IInv, ContentSound, NEW p \in Process, RollbackValidates(p)
    PROVE  ContentSound'
<1> DEFINE c == job[p].config
<1>1. /\ TypeOK /\ job[p] \in Job /\ c \in Config
      /\ Validated(pointer[2], c, policy[c.project])
  BY LocalFacts DEF IInv, RollbackValidates, RollbackTarget, LocalsSet
<1>2. PICK s \in Basis : /\ s = Seen(c, policy[c.project])
                         /\ BuiltFrom(disk[pointer[2]], s)
  BY <1>1, SeenNow
<1>3. /\ pc'[p] = "rollback_write" /\ UNCHANGED <<policy, disk, pointer, basis>>
      /\ \A q \in Process \ {p} : pc'[q] = pc[q] /\ job'[q] = job[q]
      /\ job'[p].seen = s
  <2>1. job' = [job EXCEPT ![p].current = pointer, ![p].seen = s]
    BY <1>2 DEF RollbackValidates
  <2>2. QED
    BY <1>1, <2>1 DEF RollbackValidates, Goto, TypeOK, Job, env, store
<1>4. ChecksHold(pc[p], job[p])'
  BY <1>2, <1>3 DEF ChecksHold, PolicyHolds, BuiltFrom
<1>5. QED
  BY <1>3, <1>4, LocalContent

LEMMA RollbackWritesContent ==
    ASSUME IInv, ContentSound, NEW p \in Process, RollbackWrites(p)
    PROVE  ContentSound'
<1>1. /\ TypeOK /\ PointerSound /\ pc[p] = "rollback_write"
      /\ job[p].current = pointer /\ Len(pointer) >= 2
      /\ job[p].seen \in Basis /\ BuiltFrom(disk[pointer[2]], job[p].seen)
      /\ Return(p) /\ UNCHANGED <<policy, disk>>
  BY LocalFacts DEF IInv, RollbackWrites, ReadsHold, ContentSound, ChecksHold, env
<1>2. CASE UNCHANGED <<pointer, basis>>
  BY <1>1, <1>2, ReturnContent
<1>3. CASE pointer' = RolledBack(pointer) /\ basis' = job[p].seen
  <2>1. /\ Entries(pointer') = Entries(pointer) /\ pointer'[1] = pointer[2]
        /\ pointer' \in Seq(Generation) /\ Len(pointer') = Len(pointer)
    BY <1>1, <1>3, RolledBackEntries DEF TypeOK, PointerSound
  <2>2. PolicyStable => OneConfiguration'
    BY <1>1, <2>1 DEF ContentSound, OneConfiguration
  <2>3. pointer' # NoPointer
    BY <1>1, <2>1, EmptySeq DEF NoPointer
  <2>4. BasisSound'
    BY <1>1, <1>3, <2>1, <2>3 DEF BasisSound, BuiltFrom, Active
  <2>5. "idle" \in Unchecked /\ pc[p] \in LockedPhases
    BY <1>1 DEF Unchecked, Phases, Building, Unbuilt, LockedPhases
  <2>6. QED
    BY <1>1, <2>2, <2>4, <2>5, PointerWriteContent DEF Return
<1>4. QED
  BY <1>1, <1>2, <1>3 DEF RollbackWrites

LEMMA RecoverReadsContent ==
    ASSUME IInv, ContentSound, NEW p \in Process, RecoverReads(p)
    PROVE  ContentSound'
<1>1. TypeOK /\ job[p] \in Job /\ job[p].valid = NoPointer
  BY LocalFacts DEF IInv, RecoverReads, LocalsSet
<1>2. /\ pc'[p] = "recover_check" /\ UNCHANGED <<policy, disk, pointer, basis>>
      /\ \A q \in Process \ {p} : pc'[q] = pc[q] /\ job'[q] = job[q]
      /\ job'[p].valid = NoPointer
  BY <1>1 DEF RecoverReads, Goto, TypeOK, Job, env, store
<1>3. ChecksHold(pc[p], job[p])'
  BY <1>2 DEF ChecksHold, PolicyHolds
<1>4. QED
  BY <1>2, <1>3, LocalContent

LEMMA RecoverChecksContent ==
    ASSUME IInv, ContentSound, NEW p \in Process, RecoverChecks(p)
    PROVE  ContentSound'
<1> DEFINE j == job[p]
           c == j.config
           e == pointer[j.next]
           ok == Validated(e, c, policy[c.project])
           v2 == IF ok THEN Append(j.valid, e) ELSE j.valid
           seen2 == IF ok /\ j.valid = << >> THEN Seen(c, policy[c.project]) ELSE j.seen
<1>1. /\ TypeOK /\ j \in Job /\ c \in Config /\ pc[p] = "recover_check"
      /\ j.current = pointer /\ j.next \in 1..Len(pointer)
      /\ j.valid # NoPointer =>
             j.seen \in Basis /\ BuiltFrom(disk[j.valid[1]], j.seen)
  BY LocalFacts, LenProperties
  DEF IInv, RecoverChecks, LocalsSet, SalvageSound, ContentSound, ChecksHold, Job
<1>2. e \in Generation /\ j.valid \in Seq(Generation)
  BY <1>1, ElementOfSeq DEF TypeOK, Job
<1>3. job' = [job EXCEPT ![p].next = @ + 1, ![p].valid = v2, ![p].seen = seen2]
  BY <1>1 DEF RecoverChecks
<1>4. v2 # NoPointer => seen2 \in Basis /\ BuiltFrom(disk[v2[1]], seen2)
  <2>1. CASE ok /\ j.valid = << >>
    <3>1. v2[1] = e
      BY <2>1, <1>2, AppendProperties
    <3>2. Seen(c, policy[c.project]) \in Basis /\ BuiltFrom(disk[e], Seen(c, policy[c.project]))
      BY <2>1, <1>1, SeenNow
    <3>3. QED
      BY <2>1, <3>1, <3>2, Zenon
  <2>2. CASE ok /\ j.valid # << >>
    <3>1. v2[1] = j.valid[1]
      BY <2>2, <1>2, AppendProperties, EmptySeq
    <3>2. QED
      BY <2>2, <3>1, <1>1 DEF NoPointer
  <2>3. CASE ~ok
    BY <2>3, <1>1
  <2>4. QED
    BY <2>1, <2>2, <2>3
<1> HIDE DEF v2, seen2
<1>5. /\ pc'[p] = "recover_check" /\ UNCHANGED <<policy, disk, pointer, basis>>
      /\ \A q \in Process \ {p} : pc'[q] = pc[q] /\ job'[q] = job[q]
      /\ job'[p].valid = v2 /\ job'[p].seen = seen2
  BY <1>1, <1>3 DEF RecoverChecks, TypeOK, Job, env, store
<1>6. ChecksHold(pc[p], job[p])'
  BY <1>4, <1>5 DEF ChecksHold, PolicyHolds, BuiltFrom
<1>7. QED
  BY <1>5, <1>6, LocalContent

LEMMA RecoverWritesContent ==
    ASSUME IInv, ContentSound, NEW p \in Process, RecoverWrites(p)
    PROVE  ContentSound'
<1> DEFINE j == job[p]
           v == j.valid
<1>1. /\ TypeOK /\ pc[p] = "recover_check" /\ v \in Seq(Generation)
      /\ Entries(v) \subseteq {pointer[i] : i \in 1..(j.next - 1)}
      /\ j.next <= Len(pointer) + 1 /\ j.next \in Nat /\ Distinct(v)
      /\ Return(p) /\ UNCHANGED <<policy, disk>>
      /\ v # NoPointer => j.seen \in Basis /\ BuiltFrom(disk[v[1]], j.seen)
  BY LocalFacts DEF IInv, RecoverWrites, SalvageSound, ContentSound, ChecksHold,
     Job, env
<1>2. CASE UNCHANGED <<pointer, basis>>
  BY <1>1, <1>2, ReturnContent
<1>3. CASE v # NoPointer /\ pointer' = Recovered(v) /\ basis' = j.seen
  <2>1. Entries(v) \subseteq Entries(pointer)
    <3>1. 1..(j.next - 1) \subseteq DOMAIN pointer
      BY <1>1, LenProperties DEF TypeOK
    <3>2. QED
      BY <3>1, <1>1 DEF Entries
  <2> HIDE DEF v
  <2>2. pointer' = FirstOf(v, 3)
    BY <1>3 DEF Recovered
  <2>3. Entries(pointer') \subseteq Entries(pointer)
    BY <2>1, <2>2, <1>1, FirstOfDistinct
  <2>4. pointer' # NoPointer /\ pointer'[1] = v[1]
    <3>1. Len(v) \in Nat \ {0}
      BY <1>1, <1>3, EmptySeq DEF NoPointer
    <3>2. Len(FirstOf(v, 3)) \in Nat \ {0} /\ \A i \in 1..Len(FirstOf(v, 3)) : FirstOf(v, 3)[i] = v[i]
      BY <1>1, <3>1, FirstOfPrefix, LenProperties
    <3>3. 1 \in 1..Len(FirstOf(v, 3))
      BY <3>2
    <3>4. QED
      BY <3>2, <3>3, <2>2, EmptySeq DEF NoPointer
  <2>5. PolicyStable => OneConfiguration'
    BY <1>1, <2>3 DEF ContentSound, OneConfiguration
  <2>6. BasisSound'
    BY <1>1, <1>3, <2>4 DEF BasisSound, BuiltFrom, Active
  <2>7. "idle" \in Unchecked /\ pc[p] \in LockedPhases
    BY <1>1 DEF Unchecked, Phases, Building, Unbuilt, LockedPhases
  <2>8. QED
    BY <1>1, <2>5, <2>6, <2>7, PointerWriteContent DEF Return
<1>4. QED
  BY <1>2, <1>3 DEF RecoverWrites, NoPointer

LEMMA PruneUnlinksContent ==
    ASSUME IInv, ContentSound, NEW p \in Process, NEW g \in Generation, PruneUnlinks(p, g)
    PROVE  ContentSound'
<1>1. /\ TypeOK /\ pc[p] = "prune" /\ lock = p /\ g \notin Entries(pointer)
  BY LocalFacts DEF IInv, PruneUnlinks, LockedPhases, ReadsHold
<1>2. /\ UNCHANGED <<pc, policy, pointer, basis>>
      /\ \A q \in Process \ {p} : job'[q] = job[q]
      /\ \A h \in Generation \ {g} : disk'[h] = disk[h]
  BY <1>1 DEF PruneUnlinks, TypeOK, env
<1>3. (PolicyStable => OneConfiguration') /\ BasisSound'
  <2>1. \A h \in Entries(pointer) : disk'[h] = disk[h]
    BY <1>1, <1>2, LocalFacts
  <2>2. QED
    BY <1>2, <2>1, NamedFilesKept DEF ContentSound
<1>4. ASSUME NEW q \in Process \ {p} PROVE ChecksHold(pc[q], job[q])'
  <2>1. q \in Process /\ ChecksHold(pc[q], job[q])
    BY DEF ContentSound
  <2>2. pc[q] \notin LockedPhases
    BY <1>1, <2>1, LocalFacts
  <2>3. QED
    BY <1>2, <2>1, <2>2, ChecksUntouched
<1>5. ChecksHold(pc[p], job[p])'
  <2>1. pc'[p] \in Unchecked
    BY <1>1, <1>2 DEF Unchecked, Phases, LockedPhases, Building, Unbuilt
  <2>2. QED
    BY <2>1, UncheckedHolds
<1>6. QED
  BY <1>3, <1>4, <1>5 DEF ContentSound

--------------------------------------------------------------------------------
(* Every step.                                                             *)

LEMMA NextContent ==
    ASSUME IInv, ContentSound, [Next]_vars
    PROVE  ContentSound'
<1> USE DEF env, store
<1>1. "describing" \in Unchecked /\ \A phase \in {"rollback", "recover", "load",
         "open", "opening", "serving", "prune_wait", "prune"} : phase \in Unchecked
  BY DEF Unchecked, Phases, LockedPhases, Building, Unbuilt
<1>2. ASSUME NEW p \in Process, Start(p)
      PROVE  ContentSound'
  <2>1. ASSUME NEW c \in Config, StartRollback(p, c) \/ StartRecover(p, c)
        PROVE  ContentSound'
    BY <2>1, <1>1, UncheckedContent DEF StartRollback, StartRecover
  <2>2. ASSUME LoadDescriptor(p) PROVE ContentSound'
    BY <2>2, <1>1, UncheckedContent DEF LoadDescriptor
  <2>3. ASSUME StartPrune(p) PROVE ContentSound'
    BY <2>3, <1>1, UncheckedContent DEF StartPrune
  <2>4. QED
    BY <1>2, <2>1, <2>2, <2>3, StartIndexContent DEF Start
<1>3. ASSUME NEW p \in Process, IndexStep(p)
      PROVE  ContentSound'
  <2>1. ASSUME TruncateDescriptor(p) PROVE ContentSound'
    BY <2>1, <1>1, UncheckedContent DEF TruncateDescriptor
  <2>2. ASSUME BuildFails(p) \/ PromoteRefused(p) \/ WriteDescriptor(p)
        PROVE  ContentSound'
    BY <2>2, ReturnContent DEF BuildFails, PromoteRefused, WriteDescriptor
  <2>3. QED
    BY <1>3, <2>1, <2>2, ParseCorpusContent, FinishBuildContent,
       PromoteValidatesContent, PromoteReadsCurrentContent, PromoteWritesContent
    DEF IndexStep
<1>4. ASSUME NEW p \in Process, RestoreStep(p)
      PROVE  ContentSound'
  <2>1. ASSUME RollbackRefused(p) \/ RecoverRefused(p) PROVE ContentSound'
    BY <2>1, ReturnContent DEF RollbackRefused, RecoverRefused
  <2>2. QED
    BY <1>4, <2>1, RollbackValidatesContent, RollbackWritesContent,
       RecoverReadsContent, RecoverChecksContent, RecoverWritesContent DEF RestoreStep
<1>5. ASSUME NEW p \in Process, PruneStep(p)
      PROVE  ContentSound'
  <2>1. ASSUME PruneScans(p) PROVE ContentSound'
    BY <2>1, <1>1, UncheckedContent DEF PruneScans
  <2>2. ASSUME PruneEnds(p) PROVE ContentSound'
    BY <2>2, ReturnContent DEF PruneEnds
  <2>3. QED
    BY <1>5, <2>1, <2>2, PruneUnlinksContent DEF PruneStep
<1>6. ASSUME NEW p \in Process, OpenStep(p)
      PROVE  ContentSound'
  <2>1. ASSUME OpenDescriptor(p) \/ ReadPointer(p) PROVE ContentSound'
    BY <2>1, <1>1, UncheckedContent, ReturnContent DEF OpenDescriptor, ReadPointer
  <2>2. ASSUME OpenTarget(p) PROVE ContentSound'
    <3>1. CASE Return(p)
      BY <2>2, <3>1, ReturnContent DEF OpenTarget
    <3>2. CASE ~Return(p)
      <4>1. /\ job' = [job EXCEPT ![p].served = disk[job[p].gen], ![p].gen = None]
            /\ Goto(p, "serving") /\ UNCHANGED <<policy, disk, pointer, basis>>
        BY <2>2, <3>2 DEF OpenTarget
      <4>2. QED
        BY <4>1, <1>1, UncheckedContent
    <3>3. QED
      BY <3>1, <3>2
  <2>3. QED
    BY <1>6, <2>1, <2>2 DEF OpenStep
<1>7. ASSUME NEW p \in Process, StopServing(p) \/ Crash(p)
      PROVE  ContentSound'
  BY <1>7, ReturnContent DEF StopServing, Crash
<1>8. ASSUME UNCHANGED <<disk, pointer, basis, pc, job>>,
             PolicyStable => UNCHANGED policy \/ Quiet
      PROVE  ContentSound'
  <2>1. (PolicyStable => OneConfiguration') /\ BasisSound'
    BY <1>8, NamedFilesKept DEF ContentSound
  <2>2. ASSUME NEW p \in Process PROVE ChecksHold(pc[p], job[p])'
    <3>1. ChecksHold(pc[p], job[p])
      BY DEF ContentSound
    <3>2. ASSUME PolicyStable PROVE PolicyHolds(pc[p], job[p])'
      <4>1. CASE UNCHANGED policy
        <5>1. PolicyHolds(pc[p], job[p])
          BY <3>1, <3>2 DEF ChecksHold
        <5>2. QED
          BY <1>8, <4>1, <5>1 DEF PolicyHolds, ConfigMatches
      <4>2. CASE Quiet
        BY <1>8, <4>2 DEF Quiet, PolicyHolds
      <4>3. QED
        BY <1>8, <3>2, <4>1, <4>2
    <3>3. QED
      BY <1>8, <3>1, <3>2 DEF ChecksHold, BuiltFrom
  <2>3. QED
    BY <2>1, <2>2 DEF ContentSound
<1>9. ASSUME NEW r \in Project, EditCorpus(r) \/ EditPolicy(r)
      PROVE  ContentSound'
  BY <1>8, <1>9 DEF EditCorpus, EditPolicy
<1>10. CASE UNCHANGED vars
  BY <1>8, <1>10 DEF vars
<1>11. QED
  BY <1>2, <1>3, <1>4, <1>5, <1>6, <1>7, <1>9, <1>10 DEF Next, Advance

LEMMA InitContent == Init => ContentSound
BY DEF Init, ContentSound, OneConfiguration, BasisSound, ChecksHold, PolicyHolds,
   Entries, NoPointer

LEMMA ContentInvariant == Spec => []ContentSound
<1>1. IInv /\ ContentSound /\ [Next]_vars => ContentSound'
  BY NextContent
<1>2. QED
  BY <1>1, InitContent, Invariant, PTL DEF Spec

\* As long as policies are edited between commands only, the generations the
\* pointer names, kept by however many promotions, rollbacks and recoveries,
\* were all built under one configuration, so that dropping them together when
\* the newest no longer matches loses nothing that would still match.
THEOREM ConfigurationIsOne ==
    ASSUME PolicyStable
    PROVE  Spec => []OneConfiguration
<1>1. ContentSound => OneConfiguration
  BY DEF ContentSound
<1>2. QED
  BY <1>1, ContentInvariant, PTL

\* The active generation validates, under the configuration that activated it,
\* until the notes or the policy it was validated against are edited.
LEMMA ActiveValidates ==
    ASSUME IInv, ContentSound, BasisCurrent
    PROVE  Validated(Active(pointer), basis.config, policy[basis.config.project])
<1>1. /\ basis # None /\ pointer # NoPointer
      /\ BuiltFrom(disk[Active(pointer)], basis)
  BY DEF ContentSound, BasisSound, BasisCurrent
<1>2. disk[Active(pointer)] # None
  BY <1>1, ActiveIsEntry DEF IInv, TypeOK, PointerSound
<1>3. QED
  BY <1>1, <1>2 DEF BuiltFrom, Validated, ConfigMatches, BasisCurrent

\* For any configurations in use and edits at any time: no interleaving of
\* commands, edits and deaths leaves a pointer whose active generation the
\* configuration it was validated under refuses, until the notes or the policy
\* are edited.  (The descriptor may name another configuration, see
\* IndexDescriptorRace; a policy edited within a run is an edit too.)
THEOREM FreshIndexAlwaysOpens == Spec => []FreshIndexOpens
<1>1. IInv /\ ContentSound => FreshIndexOpens
  BY ActiveValidates DEF FreshIndexOpens
<1>2. QED
  BY <1>1, Invariant, ContentInvariant, PTL
================================================================================
