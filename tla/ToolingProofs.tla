------------------------------ MODULE ToolingProofs -----------------------------
(***************************************************************************)
(* Theorems about the small state machines around the server: the gate of  *)
(* the benchmark, setup's merge into the clients' files, the homes of a    *)
(* project and the trail of its decisions, each for every value of its     *)
(* constants.                                                              *)
(***************************************************************************)
EXTENDS Tooling, Integers, SequenceTheorems, FiniteSetTheorems, TLAPS

--------------------------------------------------------------------------------
(* The gate *)

LEMMA SameCardinality ==
    ASSUME NEW S
    PROVE  Gate!Cardinality(S) = Cardinality(S)
BY DEF Gate!Cardinality, Cardinality

LEMMA GateStarts ==
    ASSUME Edits \subseteq Call
    PROVE  Gate!Init => Gate!IInv
<1> SUFFICES ASSUME Gate!Init PROVE Gate!IInv
  OBVIOUS
<1>1. Gate!Shape
  BY DEF Gate!Init, Gate!Shape
<1>2. Gate!OneLink /\ Gate!DeniedHasLink
  BY DEF Gate!Init, Gate!OneLink, Gate!DeniedHasLink
<1>3. Gate!AllowedAfterLink
  BY DEF Gate!Init, Gate!AllowedAfterLink
<1>4. Gate!RecordHasLink
  BY DEF Gate!Init, Gate!RecordHasLink
<1>5. QED
  BY <1>1, <1>2, <1>3, <1>4 DEF Gate!IInv

\* Of a set nobody is in, none are counted.
LEMMA CountedSome ==
    ASSUME NEW r, Gate!Counted(r) > 0
    PROVE  \E c \in Call : handed[c] = r
<1>1. CASE {c \in Call : handed[c] = r} = {}
  BY <1>1, SameCardinality, FS_EmptySet DEF Gate!Counted
<1>2. CASE {c \in Call : handed[c] = r} # {}
  BY <1>2
<1>3. QED
  BY <1>1, <1>2

LEMMA GateSteps ==
    ASSUME Edits \subseteq Call, Gate!IInv, [Gate!Next]_Gate!gateVars
    PROVE  Gate!IInv'
<1> USE DEF Gate!Shape, Gate!OneLink, Gate!DeniedHasLink, Gate!AllowedAfterLink, Gate!Becomes
<1>1. ASSUME NEW c \in Call, Gate!Ask(c)
      PROVE  Gate!IInv'
  BY <1>1 DEF Gate!IInv, Gate!RecordHasLink, Gate!Ask
<1>2. ASSUME NEW c \in Call, Gate!Break(c) \/ Gate!Prepare(c)
      PROVE  Gate!IInv'
  BY <1>2 DEF Gate!IInv, Gate!RecordHasLink, Gate!Break, Gate!Prepare
<1>3. ASSUME NEW c \in Call, Gate!Claim(c)
      PROVE  Gate!IInv'
  <2>1. CASE state = {}
    BY <1>3, <2>1 DEF Gate!IInv, Gate!RecordHasLink, Gate!Claim
  <2>2. CASE state # {}
    BY <1>3, <2>2 DEF Gate!IInv, Gate!RecordHasLink, Gate!Claim
  <2> QED
    BY <2>1, <2>2
<1>4. ASSUME NEW c \in Call, Gate!HandBack(c)
      PROVE  Gate!IInv'
  <2>1. CASE hook[c] = "denying"
    BY <1>4, <2>1 DEF Gate!IInv, Gate!RecordHasLink, Gate!HandBack, Gate!Answer
  <2>2. CASE hook[c] = "breaking"
    BY <1>4, <2>2 DEF Gate!IInv, Gate!RecordHasLink, Gate!HandBack, Gate!Answer
  <2>3. CASE hook[c] = "allowing"
    BY <1>4, <2>3 DEF Gate!IInv, Gate!RecordHasLink, Gate!HandBack, Gate!Answer
  <2> QED
    BY <1>4, <2>1, <2>2, <2>3 DEF Gate!HandBack
<1>5. CASE Gate!EndRun
  <2>1. Gate!RecordHasLink'
    <3>1. ASSUME Gate!Counted("denied") > 0
          PROVE  state # {}
      BY <3>1, CountedSome DEF Gate!IInv
    <3> QED
      BY <1>5, <3>1 DEF Gate!RecordHasLink, Gate!EndRun
  <2> QED
    BY <1>5, <2>1 DEF Gate!IInv, Gate!EndRun
<1>6. CASE UNCHANGED Gate!gateVars
  BY <1>6 DEF Gate!IInv, Gate!RecordHasLink, Gate!gateVars
<1>7. QED
  BY <1>1, <1>2, <1>3, <1>4, <1>5, <1>6 DEF Gate!Next

LEMMA OneIsDenied ==
    ASSUME Gate!IInv
    PROVE  Gate!DeniedOnce
<1> DEFINE D == {c \in Call : hook[c] = "denying" \/ handed[c] = "denied"}
<1>1. D = {} \/ \E c : D = {c}
  BY DEF Gate!IInv, Gate!DeniedHasLink, Gate!OneLink
<1> HIDE DEF D
<1>2. Cardinality(D) = 0 \/ Cardinality(D) = 1
  BY <1>1, FS_EmptySet, FS_Singleton
<1>3. QED
  BY <1>2, SameCardinality DEF D, Gate!DeniedOnce, Gate!IInv, Gate!AllowedAfterLink, Gate!RecordHasLink

\* However many calls a run makes, and however their hooks race and fail, one is
\* denied at most, and no edit goes through before it.
THEOREM OneDenial == Gate!Spec => []DeniedOnce
<1> USE GateAssumption
<1>1. Gate!IInv /\ [Gate!Next]_Gate!gateVars => Gate!IInv'
  BY GateSteps
<1>2. Gate!IInv => DeniedOnce
  BY OneIsDenied DEF DeniedOnce
<1>3. QED
  BY <1>1, <1>2, GateStarts, PTL DEF Gate!Spec

--------------------------------------------------------------------------------
(* The homes of a project *)

\* What a build and a resolution can be.
HomeFacts ==
    /\ Homes!Home \in {"scoped", "local", Homes!Nowhere}
    /\ Homes!Config \in Homes!ConfigHome
    /\ Homes!Data \in Homes!DataHome

LEMMA HomesExist ==
    ASSUME Homes!Shape
    PROVE  HomeFacts
BY DEF HomeFacts, Homes!Shape, Homes!Home, Homes!Config, Homes!Data, Homes!ConfigHome,
       Homes!DataHome, Homes!Nowhere

\* A policy that is written is never taken for a missing build.
LEMMA PolicyWritten ==
    ASSUME Homes!Shape, NEW c \in Homes!ConfigHome
    PROVE  /\ Homes!WithPolicy(c) \in [Homes!ConfigHome -> Homes!PolicyFile]
           /\ Homes!WithPolicy(c)[c] \in {"default", "edited"}
BY DEF Homes!Shape, Homes!WithPolicy, Homes!PolicyFile

\* A build where commands already resolve to, or outside the project, moves none of them.
LEMMA DataStays ==
    ASSUME Homes!Shape, NEW d \in Homes!DataHome, NEW b \in {"default", "edited"},
           store' = [store EXCEPT ![d] = b], pointer' = pointer,
           pointer # Homes!Nowhere \/ d \in {Homes!Data, "private"}
    PROVE  Homes!Data' = Homes!Data
BY DEF Homes!Shape, Homes!Home, Homes!Data, Homes!DataHome, Homes!Nowhere, Homes!NoBuild

LEMMA StoreKeepsShape ==
    ASSUME Homes!Shape, NEW d \in Homes!DataHome, NEW b \in {"default", "edited"},
           store' = [store EXCEPT ![d] = b]
    PROVE  /\ store' \in [Homes!DataHome -> Homes!PolicyFile \cup {Homes!NoBuild}]
           /\ \A e \in Homes!DataHome : store[e] # Homes!NoBuild => store'[e] # Homes!NoBuild
           /\ store'[d] # Homes!NoBuild
BY DEF Homes!Shape, Homes!PolicyFile, Homes!NoBuild

\* What builds into a home and leaves the pointer: what was told stays true.
LEMMA BuildKeeps ==
    ASSUME Homes!IInv, NEW d \in Homes!DataHome, NEW b \in {"default", "edited"},
           store' = [store EXCEPT ![d] = b], pointer' = pointer, made' = made,
           launch' = launch, policies' \in [Homes!ConfigHome -> Homes!PolicyFile],
           told' => told /\ (pointer # Homes!Nowhere \/ d \in {Homes!Data, "private"})
    PROVE  Homes!IInv'
<1>1. Homes!Shape /\ Homes!MadeIsThere /\ Homes!ServerFollowsCommands
  BY DEF Homes!IInv
<1>2. /\ store' \in [Homes!DataHome -> Homes!PolicyFile \cup {Homes!NoBuild}]
      /\ \A e \in Homes!DataHome : store[e] # Homes!NoBuild => store'[e] # Homes!NoBuild
  BY <1>1, StoreKeepsShape
<1>3. Homes!Shape'
  BY <1>1, <1>2 DEF Homes!Shape, Homes!DataHome, Homes!ConfigHome, Homes!Nowhere,
     Homes!PolicyFile, Homes!NoBuild
<1>4. Homes!MadeIsThere'
  BY <1>1, <1>2 DEF Homes!MadeIsThere, Homes!DataHome, Homes!NoBuild
<1>5. told' => Homes!Data' = Homes!Data
  BY <1>1, DataStays
<1>6. Homes!ServerFollowsCommands'
  BY <1>1, <1>5 DEF Homes!ServerFollowsCommands
<1>7. QED
  BY <1>3, <1>4, <1>6 DEF Homes!IInv

LEMMA HomesSteps ==
    ASSUME Homes!IInv, [Homes!Next]_Homes!homeVars
    PROVE  Homes!IInv'
<1>1. Homes!Shape /\ Homes!MadeIsThere /\ Homes!ServerFollowsCommands
  BY DEF Homes!IInv
<1>2. HomeFacts
  BY <1>1, HomesExist
<1>3. ASSUME NEW kind \in Homes!Kind
      PROVE  /\ Homes!Target(kind).data = kind /\ kind \in Homes!DataHome
             /\ Homes!Target(kind).config \in Homes!ConfigHome
             /\ kind # "given" => Homes!Target(kind).config = kind
             /\ Homes!Target(kind) = [data |-> kind, config |-> Homes!Target(kind).config]
  BY <1>2, <1>3 DEF HomeFacts, Homes!Kind, Homes!Target, Homes!DataHome, Homes!ConfigHome
<1>4. ASSUME NEW kind \in Homes!Kind, Homes!InitRepo(kind)
      PROVE  Homes!IInv'
  <2> DEFINE to == Homes!Target(kind)
             b == policies'[to.config]
  <2>1. /\ policies' = Homes!WithPolicy(to.config) /\ store' = [store EXCEPT ![kind] = b]
        /\ pointer' = kind /\ made' = to
        /\ launch' = to \/ told' = FALSE
    BY <1>3, <1>4 DEF Homes!InitRepo
  <2>2. /\ to.data = kind /\ kind \in Homes!DataHome /\ to.config \in Homes!ConfigHome
        /\ kind # "given" => to.config = kind
        /\ to = [data |-> kind, config |-> to.config]
    BY <1>3
  <2>3. policies' \in [Homes!ConfigHome -> Homes!PolicyFile] /\ b \in {"default", "edited"}
    BY <1>1, <2>1, <2>2, PolicyWritten
  <2> HIDE DEF to, b
  <2>4. /\ store' \in [Homes!DataHome -> Homes!PolicyFile \cup {Homes!NoBuild}]
        /\ store'[kind] # Homes!NoBuild
    BY <1>1, <2>1, <2>2, <2>3, StoreKeepsShape
  <2>5. Homes!Shape'
    BY <2>1, <2>2, <2>3, <2>4 DEF Homes!Shape, Homes!DataHome, Homes!ConfigHome, Homes!Nowhere,
       Homes!PolicyFile, Homes!NoBuild
  <2>6. Homes!MadeIsThere'
    BY <2>1, <2>2, <2>4 DEF Homes!MadeIsThere, Homes!NoBuild
  <2>7. Homes!ServerFollowsCommands'
    BY <2>1, <2>2 DEF Homes!ServerFollowsCommands, Homes!Data, Homes!DataHome, Homes!Nowhere
  <2> QED
    BY <2>5, <2>6, <2>7 DEF Homes!IInv
<1>5. ASSUME NEW kind \in Homes!Kind, Homes!InitFindsNothing(kind)
      PROVE  Homes!IInv'
  <2>1. policies' \in [Homes!ConfigHome -> Homes!PolicyFile]
    BY <1>1, <1>3, <1>5, PolicyWritten DEF Homes!InitFindsNothing
  <2>2. UNCHANGED <<store, pointer, made, launch, told>>
    BY <1>5 DEF Homes!InitFindsNothing
  <2> QED
    BY <1>1, <2>1, <2>2 DEF Homes!IInv, Homes!Shape, Homes!MadeIsThere,
       Homes!ServerFollowsCommands, Homes!Data, Homes!Home
<1>6. ASSUME NEW kind \in Homes!Kind, Homes!InitDies(kind)
      PROVE  Homes!IInv'
  <2> DEFINE to == Homes!Target(kind)
             b == policies'[to.config]
  <2>1. /\ policies' = Homes!WithPolicy(to.config) /\ store' = [store EXCEPT ![kind] = b]
        /\ pointer' = pointer /\ made' = made /\ launch' = launch
        /\ told' => told /\ pointer # Homes!Nowhere
    BY <1>3, <1>6 DEF Homes!InitDies
  <2>2. kind \in Homes!DataHome /\ to.config \in Homes!ConfigHome
    BY <1>3
  <2>3. policies' \in [Homes!ConfigHome -> Homes!PolicyFile] /\ b \in {"default", "edited"}
    BY <1>1, <2>1, <2>2, PolicyWritten
  <2> HIDE DEF to, b
  <2> QED
    BY <2>1, <2>2, <2>3, BuildKeeps
<1>7. CASE Homes!InitOrSetup
  <2>1. PICK inside \in BOOLEAN :
          \/ launch' = Homes!Resolved(inside) /\ told' = inside
          \/ UNCHANGED <<launch, told>>
    BY <1>7 DEF Homes!InitOrSetup, Homes!Told
  <2>2. UNCHANGED <<store, policies, pointer, made>>
    BY <1>7 DEF Homes!InitOrSetup
  <2>3. Homes!Data' = Homes!Data
    BY <2>2 DEF Homes!Data, Homes!Home
  <2>4. ASSUME told' PROVE launch'.data = Homes!Data'
    <3>1. CASE inside /\ launch' = Homes!Resolved(inside)
      BY <2>3, <3>1 DEF Homes!Resolved
    <3>2. CASE UNCHANGED <<launch, told>>
      BY <1>1, <2>3, <2>4, <3>2 DEF Homes!ServerFollowsCommands
    <3> QED
      BY <2>1, <2>4, <3>1, <3>2
  <2> QED
    BY <1>1, <2>2, <2>4 DEF Homes!IInv, Homes!Shape, Homes!MadeIsThere,
       Homes!ServerFollowsCommands
<1>8. CASE Homes!Index
  <2>1. PICK inside \in BOOLEAN, b \in {"default", "edited"} :
          store' = [store EXCEPT ![Homes!Resolved(inside).data] = b]
    BY <1>8 DEF Homes!Index
  <2> DEFINE d == Homes!Resolved(inside).data
  <2>2. d \in {Homes!Data, "private"} /\ d \in Homes!DataHome
    BY <1>2 DEF HomeFacts, Homes!Resolved, Homes!DataHome
  <2>3. UNCHANGED <<policies, pointer, made, launch, told>>
    BY <1>8 DEF Homes!Index
  <2>4. policies' \in [Homes!ConfigHome -> Homes!PolicyFile]
    BY <1>1, <2>3 DEF Homes!Shape
  <2> HIDE DEF d
  <2>5. store' = [store EXCEPT ![d] = b]
    BY <2>1 DEF d
  <2> QED
    BY <2>2, <2>3, <2>4, <2>5, BuildKeeps
<1>9. CASE Homes!Watch
  <2> DEFINE b == policies'[Homes!Config]
  <2>1. /\ policies' = Homes!WithPolicy(Homes!Config) /\ store' = [store EXCEPT ![Homes!Data] = b]
        /\ UNCHANGED <<pointer, made, launch, told>>
    BY <1>9 DEF Homes!Watch
  <2>2. policies' \in [Homes!ConfigHome -> Homes!PolicyFile] /\ b \in {"default", "edited"}
    BY <1>1, <1>2, <2>1, PolicyWritten DEF HomeFacts
  <2>3. Homes!Data \in Homes!DataHome
    BY <1>2 DEF HomeFacts
  <2> HIDE DEF b
  <2> QED
    BY <2>1, <2>2, <2>3, BuildKeeps
<1>10. CASE Homes!EditPolicy
  <2>1. policies' \in [Homes!ConfigHome -> Homes!PolicyFile]
    BY <1>1, <1>10 DEF Homes!Shape, Homes!EditPolicy, Homes!PolicyFile
  <2>2. UNCHANGED <<store, pointer, made, launch, told>>
    BY <1>10 DEF Homes!EditPolicy
  <2> QED
    BY <1>1, <2>1, <2>2 DEF Homes!IInv, Homes!Shape, Homes!MadeIsThere,
       Homes!ServerFollowsCommands, Homes!Data, Homes!Home
<1>11. CASE Homes!Clean
  BY <1>1, <1>11 DEF Homes!IInv, Homes!Shape, Homes!MadeIsThere, Homes!ServerFollowsCommands,
     Homes!Clean, Homes!NoHomes, Homes!Nowhere, Homes!NoBuild, Homes!PolicyFile
<1>12. CASE UNCHANGED Homes!homeVars
  BY <1>1, <1>12 DEF Homes!IInv, Homes!Shape, Homes!MadeIsThere, Homes!ServerFollowsCommands,
     Homes!Data, Homes!Home, Homes!homeVars
<1>13. QED
  BY <1>4, <1>5, <1>6, <1>7, <1>8, <1>9, <1>10, <1>11, <1>12 DEF Homes!Next

LEMMA HomesStart == Homes!Init => Homes!IInv
<1> SUFFICES ASSUME Homes!Init PROVE Homes!IInv
  OBVIOUS
<1>1. Homes!Shape
  BY DEF Homes!Init, Homes!Shape, Homes!NoHomes, Homes!PolicyFile
<1>2. Homes!MadeIsThere
  BY DEF Homes!Init, Homes!MadeIsThere, Homes!NoHomes, Homes!Nowhere
<1>3. Homes!ServerFollowsCommands
  BY DEF Homes!Init, Homes!ServerFollowsCommands
<1>4. QED
  BY <1>1, <1>2, <1>3 DEF Homes!IInv

\* Whatever inits, setups, builds, edits and cleanings follow each other, a client
\* that was told since the last init is served from where commands build, and under
\* the policy its operator edited.
THEOREM HomesAgree == Homes!Spec => []OneHome
<1>1. Homes!IInv => OneHome
  <2> SUFFICES ASSUME Homes!IInv PROVE Homes!PolicyFollows
    BY DEF OneHome, Homes!OneHome, Homes!IInv
  <2>1. /\ made = [data |-> made.data, config |-> made.config]
        /\ pointer = made.data
        /\ made.data \in {"scoped", "local"} =>
              made.config = made.data /\ store[made.data] # Homes!NoBuild
    BY DEF Homes!IInv, Homes!Shape, Homes!MadeIsThere
  <2> SUFFICES ASSUME made.data \in {"scoped", "local"},
                      store["scoped"] = Homes!NoBuild \/ store["local"] = Homes!NoBuild
               PROVE  Homes!Data = made.data /\ Homes!Config = made.config
    BY <2>1 DEF Homes!PolicyFollows
  <2> QED
    BY <2>1 DEF Homes!Data, Homes!Config, Homes!Home, Homes!Nowhere
<1>2. QED
  BY <1>1, HomesStart, HomesSteps, PTL DEF Homes!Spec

--------------------------------------------------------------------------------
(* Setup and the clients *)

\* Where the configurations that are left can be.
Targets == Setup!Place \cup {"refused"}

\* A command in progress, or none.
Commands ==
    {s \in [step : {"idle", "merge", "copy", "replace"}, todo : Seq(Targets),
            manifest : {0} \cup Manifest, dry : BOOLEAN, merged : Setup!Files] :
        s.step # "idle" => s.todo # <<>>}

LEMMA CommandShape ==
    Setup!Shape <=>
        /\ file \in [Setup!Place -> Setup!Files] /\ bak \in [Setup!Place -> Setup!Files]
        /\ setup \in Commands
        /\ sinceRead \in BOOLEAN /\ sinceCopy \in BOOLEAN
BY DEF Setup!Shape, Commands, Targets

LEMMA IdleCommand ==
    /\ Setup!NoFile \in Setup!Files
    /\ Setup!Idle \in Commands /\ Setup!Idle.step = "idle"
<1>1. Setup!NoFile \in Setup!Files
  BY DEF Setup!NoFile, Setup!Files
<1>2. <<>> \in Seq(Targets)
  OBVIOUS
<1>3. QED
  BY <1>1, <1>2 DEF Setup!Idle, Commands

\* The clients that are left after one.
LEMMA EndedCommand ==
    ASSUME setup \in Commands, setup.step # "idle"
    PROVE  Setup!Ended \in Commands /\ Setup!Ended.step \in {"idle", "merge"}
<1>1. CASE Len(setup.todo) = 1
  BY <1>1, IdleCommand DEF Setup!Ended
<1>2. CASE Len(setup.todo) # 1
  <2>1. setup.todo \in Seq(Targets) /\ setup.todo # <<>>
    BY DEF Commands
  <2>2. Len(setup.todo) \in Nat /\ Len(setup.todo) > 1
    <3> DEFINE n == Len(setup.todo)
    <3>1. n \in Nat /\ n # 0 /\ n # 1
      BY <1>2, <2>1, EmptySeq
    <3> HIDE DEF n
    <3>2. n \in Nat /\ n > 1
      BY <3>1
    <3> QED
      BY <3>2 DEF n
  <2>3. Tail(setup.todo) \in Seq(Targets) /\ Len(Tail(setup.todo)) >= 1
    BY <2>1, <2>2
  <2>4. Tail(setup.todo) # <<>>
    BY <2>3
  <2>5. Setup!Ended = [setup EXCEPT !.step = "merge", !.todo = Tail(setup.todo),
                                    !.merged = Setup!NoFile]
    BY <1>2 DEF Setup!Ended
  <2> QED
    BY <2>3, <2>4, <2>5, IdleCommand DEF Commands
<1>3. QED
  BY <1>1, <1>2

\* What a command is asked to do.
LEMMA TargetsListed ==
    ASSUME NEW todo \in {<<Setup!Editor>>, <<Desktop>>, <<Setup!Editor, Desktop>>,
                         <<Desktop, Setup!Editor>>},
           NEW scope, NEW inside
    PROVE  LET list == [i \in DOMAIN todo |-> Setup!Target(todo[i], scope, inside)]
           IN  list \in Seq(Targets) /\ list # <<>>
<1> DEFINE list == [i \in DOMAIN todo |-> Setup!Target(todo[i], scope, inside)]
<1>1. PICK n \in {1, 2} : DOMAIN todo = 1..n
  OBVIOUS
<1>2. \A c : Setup!Target(c, scope, inside) \in Targets
  BY DEF Setup!Target, Targets, Setup!Place
<1>3. list \in [1..n -> Targets]
  BY <1>1, <1>2
<1>4. list \in Seq(Targets)
  BY <1>3, SeqDef
<1>5. DOMAIN list = 1..n /\ 1 \in 1..n
  BY <1>1
<1> HIDE DEF list
<1>6. list # <<>>
  BY <1>5
<1> QED
  BY <1>4, <1>6 DEF list

\* What a client leaves while it writes, or when it has written.
LEMMA WrittenFiles ==
    /\ Setup!Emptied \in Setup!Files /\ Setup!BrokenFile \in Setup!Files
    /\ \A others \in SUBSET Theirs, ours \in {0} \cup Manifest :
          /\ Setup!Whole(others, ours) \in Setup!Files
          /\ Setup!Whole(others, ours).kind = "whole"
          /\ Setup!Whole(others, ours).others = others
    /\ Setup!Emptied.kind = "empty" /\ Setup!BrokenFile.kind = "broken"
    /\ \A f \in Setup!Files :
          /\ f.kind # "whole" => f.others = {}
          /\ f.others \in SUBSET Theirs
BY DEF Setup!Emptied, Setup!BrokenFile, Setup!NoFile, Setup!Files, Setup!Whole

\* A command that goes on, or ends, with nothing merged.
LEMMA UnmergedKeeps ==
    ASSUME Setup!IInv, setup' \in Commands, setup'.step \in {"idle", "merge"},
           file' \in [Setup!Place -> Setup!Files], bak' \in [Setup!Place -> Setup!Files],
           sinceRead' \in BOOLEAN, sinceCopy' \in BOOLEAN
    PROVE  Setup!IInv'
<1>1. Setup!Shape'
  BY CommandShape' DEF Commands, Targets, Setup!Shape, Setup!Place, Setup!Files
<1>2. QED
  BY <1>1 DEF Setup!IInv, Setup!MergedKeeps, Setup!CopyKeeps

\* What is read is merged: the others are kept.
LEMMA MergeKeeps ==
    ASSUME Setup!IInv, Setup!Merge
    PROVE  Setup!IInv'
<1> DEFINE p == Head(setup.todo)
           f == IF p = "refused" THEN Setup!BrokenFile ELSE file[p]
<1>1. /\ file \in [Setup!Place -> Setup!Files] /\ bak \in [Setup!Place -> Setup!Files]
      /\ setup \in Commands /\ setup.step = "merge" /\ setup.todo # <<>>
      /\ setup.manifest \in {0} \cup Manifest /\ setup.todo \in Seq(Targets)
      /\ UNCHANGED <<file, bak>> /\ sinceRead' = FALSE /\ sinceCopy' = FALSE
  BY CommandShape DEF Setup!IInv, Setup!Merge, Commands
<1>2. p \in Targets
  BY <1>1
<1>3. CASE setup' \in {Setup!Idle, Setup!Ended}
  BY <1>1, <1>3, IdleCommand, EndedCommand, UnmergedKeeps
<1>4. CASE f.kind # "broken" /\ setup' = [setup EXCEPT !.step = "copy", !.merged = Setup!Merged(f)]
  <2>1. p \in Setup!Place /\ f = file[p]
    BY <1>2, <1>4, WrittenFiles DEF Targets
  <2> DEFINE m == Setup!Merged(f)
  <2>2. m \in Setup!Files /\ m.kind = "whole" /\ m.others = file[p].others
    <3>1. m = Setup!Whole(f.others, setup.manifest)
      BY DEF Setup!Merged
    <3>2. file[p] \in Setup!Files /\ f.others \in SUBSET Theirs
      BY <1>1, <2>1, WrittenFiles
    <3> HIDE DEF m, f
    <3> QED
      BY <1>1, <2>1, <3>1, <3>2, WrittenFiles
  <2> HIDE DEF m
  <2>3. /\ setup' \in Commands /\ setup'.step = "copy" /\ setup'.todo = setup.todo
        /\ setup'.merged = m
    BY <1>1, <1>4, <2>2 DEF Commands, m
  <2>4. Setup!Shape'
    BY <1>1, <2>3, CommandShape' DEF Commands, Targets, Setup!Shape, Setup!Place, Setup!Files
  <2>5. Setup!MergedKeeps'
    BY <1>1, <2>1, <2>2, <2>3 DEF Setup!MergedKeeps, Setup!Place
  <2>6. Setup!CopyKeeps'
    BY <2>3 DEF Setup!CopyKeeps
  <2> QED
    BY <2>4, <2>5, <2>6 DEF Setup!IInv
<1>5. QED
  BY <1>3, <1>4 DEF Setup!Merge

\* The copy is of the file as it is.
LEMMA CopyStepKeeps ==
    ASSUME Setup!IInv, Setup!Copy
    PROVE  Setup!IInv'
<1> DEFINE p == Head(setup.todo)
<1>1. /\ file \in [Setup!Place -> Setup!Files] /\ bak \in [Setup!Place -> Setup!Files]
      /\ setup \in Commands /\ setup.step = "copy"
      /\ sinceRead \in BOOLEAN /\ sinceCopy' = FALSE /\ UNCHANGED <<file, sinceRead>>
      /\ setup' = [setup EXCEPT !.step = "replace"]
      /\ bak' = IF file[p].kind = "absent" THEN bak ELSE [bak EXCEPT ![p] = file[p]]
  BY CommandShape DEF Setup!IInv, Setup!Copy
<1>2. /\ p \in Setup!Place /\ setup.merged.kind = "whole"
      /\ ~sinceRead => setup.merged.others = file[p].others
  BY <1>1 DEF Setup!IInv, Setup!MergedKeeps
<1>3. /\ setup' \in Commands /\ setup'.step = "replace" /\ setup'.todo = setup.todo
      /\ setup'.merged = setup.merged
  BY <1>1 DEF Commands
<1>4. bak' \in [Setup!Place -> Setup!Files] /\ file[p].others \subseteq bak'[p].others
  BY <1>1, <1>2, WrittenFiles
<1>5. Setup!Shape'
  BY <1>1, <1>3, <1>4, CommandShape' DEF Commands, Targets, Setup!Shape, Setup!Place, Setup!Files
<1>6. Setup!MergedKeeps'
  BY <1>1, <1>2, <1>3 DEF Setup!MergedKeeps, Setup!Place
<1>7. Setup!CopyKeeps'
  BY <1>1, <1>3, <1>4 DEF Setup!CopyKeeps
<1>8. QED
  BY <1>5, <1>6, <1>7 DEF Setup!IInv

\* A client that writes is noticed where it matters.
LEMMA ClientKeeps ==
    ASSUME Setup!IInv, NEW p \in Setup!Place, NEW f \in Setup!Files,
           file' = [file EXCEPT ![p] = f], Setup!WrittenTo(p), UNCHANGED <<bak, setup>>
    PROVE  Setup!IInv'
<1> DEFINE q == Head(setup.todo)
<1>1. /\ file \in [Setup!Place -> Setup!Files] /\ bak \in [Setup!Place -> Setup!Files]
      /\ setup \in Commands /\ sinceRead \in BOOLEAN /\ sinceCopy \in BOOLEAN
  BY CommandShape DEF Setup!IInv
<1>2. /\ sinceRead' \in BOOLEAN /\ sinceCopy' \in BOOLEAN
      /\ sinceRead => sinceRead'
      /\ sinceCopy => sinceCopy'
      /\ setup.step \in {"copy", "replace"} /\ p = q => sinceRead' /\ sinceCopy'
  BY DEF Setup!WrittenTo
<1>3. Setup!Shape'
  BY <1>1, <1>2, CommandShape' DEF Commands, Targets, Setup!Shape, Setup!Place, Setup!Files
<1>4. Setup!MergedKeeps'
  BY <1>1, <1>2 DEF Setup!IInv, Setup!MergedKeeps, Setup!Place
<1>5. Setup!CopyKeeps'
  <2>1. SUFFICES ASSUME setup.step = "replace", ~sinceCopy'
                 PROVE  file'[q].others \subseteq bak[q].others
    BY DEF Setup!CopyKeeps
  <2>2. ~sinceCopy /\ p # q
    BY <1>2, <2>1
  <2>3. q \in Setup!Place /\ file[q].others \subseteq bak[q].others
    BY <2>1, <2>2 DEF Setup!IInv, Setup!CopyKeeps, Setup!MergedKeeps
  <2>4. file'[q] = file[q]
    BY <1>1, <2>2, <2>3
  <2> QED
    BY <2>3, <2>4
<1>6. QED
  BY <1>3, <1>4, <1>5 DEF Setup!IInv

\* Every step of the command and of the clients keeps the invariant.
LEMMA SetupSteps ==
    ASSUME Setup!IInv, [Setup!Next]_(Setup!setupVars)
    PROVE  Setup!IInv'
<1>1. /\ file \in [Setup!Place -> Setup!Files] /\ bak \in [Setup!Place -> Setup!Files]
      /\ setup \in Commands /\ sinceRead \in BOOLEAN /\ sinceCopy \in BOOLEAN
      /\ setup.step # "idle" => setup.todo # <<>>
  BY CommandShape DEF Setup!IInv, Commands
<1>2. CASE Setup!Begin
  <2>1. PICK todo \in {<<Setup!Editor>>, <<Desktop>>, <<Setup!Editor, Desktop>>,
                       <<Desktop, Setup!Editor>>},
             scope \in {"auto", "project", "global"}, inside \in BOOLEAN, m \in Manifest,
             dry \in BOOLEAN :
          setup' = [Setup!Idle EXCEPT !.step = "merge", !.manifest = m, !.dry = dry,
                      !.todo = [i \in DOMAIN todo |-> Setup!Target(todo[i], scope, inside)]]
    BY <1>2 DEF Setup!Begin
  <2> DEFINE list == [i \in DOMAIN todo |-> Setup!Target(todo[i], scope, inside)]
  <2>2. list \in Seq(Targets) /\ list # <<>>
    BY TargetsListed
  <2> HIDE DEF list
  <2>3. setup' = [Setup!Idle EXCEPT !.step = "merge", !.manifest = m, !.dry = dry, !.todo = list]
    BY <2>1 DEF list
  <2>4. setup' \in Commands /\ setup'.step = "merge"
    BY <2>2, <2>3, IdleCommand DEF Commands
  <2>5. UNCHANGED <<file, bak, sinceRead, sinceCopy>>
    BY <1>2 DEF Setup!Begin
  <2> QED
    BY <1>1, <2>4, <2>5, UnmergedKeeps
<1>3. CASE Setup!Merge
  BY <1>3, MergeKeeps
<1>4. CASE Setup!Copy
  BY <1>4, CopyStepKeeps
<1>5. CASE Setup!Replace
  <2>1. setup.step = "replace" /\ file' = [file EXCEPT ![Head(setup.todo)] = setup.merged]
    BY <1>5 DEF Setup!Replace
  <2>2. file' \in [Setup!Place -> Setup!Files]
    BY <1>1, <2>1 DEF Commands
  <2>3. setup' = Setup!Ended /\ sinceRead' = FALSE /\ sinceCopy' = FALSE /\ bak' = bak
    BY <1>5 DEF Setup!Replace
  <2>4. setup' \in Commands /\ setup'.step \in {"idle", "merge"}
    BY <1>1, <2>1, <2>3, EndedCommand
  <2> QED
    BY <1>1, <2>2, <2>3, <2>4, UnmergedKeeps
<1>6. CASE Setup!Dies
  <2>1. /\ setup' = Setup!Idle /\ sinceRead' = FALSE /\ sinceCopy' = FALSE
        /\ UNCHANGED <<file, bak>>
    BY <1>6 DEF Setup!Dies
  <2> QED
    BY <1>1, <2>1, IdleCommand, UnmergedKeeps
<1>7. ASSUME NEW p \in Setup!Place, Setup!ClientEmpties(p)
      PROVE  Setup!IInv'
  <2>1. PICK piece \in {Setup!Emptied, Setup!BrokenFile} : file' = [file EXCEPT ![p] = piece]
    BY <1>7 DEF Setup!ClientEmpties
  <2>2. piece \in Setup!Files
    BY WrittenFiles
  <2>3. Setup!WrittenTo(p) /\ UNCHANGED <<bak, setup>>
    BY <1>7 DEF Setup!ClientEmpties
  <2> QED
    BY <2>1, <2>2, <2>3, ClientKeeps
<1>8. ASSUME NEW p \in Setup!Place, Setup!ClientWrites(p)
      PROVE  Setup!IInv'
  <2>1. PICK others \in SUBSET Theirs, ours \in {0} \cup Manifest :
          file' = [file EXCEPT ![p] = Setup!Whole(others, ours)]
    BY <1>8 DEF Setup!ClientWrites
  <2>2. Setup!Whole(others, ours) \in Setup!Files
    BY WrittenFiles
  <2>3. Setup!WrittenTo(p) /\ UNCHANGED <<bak, setup>>
    BY <1>8 DEF Setup!ClientWrites
  <2> QED
    BY <2>1, <2>2, <2>3, ClientKeeps
<1>9. CASE UNCHANGED Setup!setupVars
  BY <1>9 DEF Setup!setupVars, Setup!IInv, Setup!Shape, Setup!MergedKeeps, Setup!CopyKeeps
<1>10. QED
  BY <1>2, <1>3, <1>4, <1>5, <1>6, <1>7, <1>8, <1>9 DEF Setup!Next

\* No command runs yet.
LEMMA SetupStarts ==
    ASSUME Setup!Init
    PROVE  Setup!IInv
<1>1. Setup!NoFile \in Setup!Files
  BY DEF Setup!NoFile, Setup!Files
<1>2. setup \in Commands /\ setup.step = "idle"
  BY IdleCommand DEF Setup!Init
<1>3. Setup!Shape
  BY <1>1, <1>2, CommandShape DEF Setup!Init, Commands, Targets, Setup!Shape, Setup!Place, Setup!Files
<1>4. QED
  BY <1>2, <1>3 DEF Setup!IInv, Setup!MergedKeeps, Setup!CopyKeeps

\* One step: what the new file does not have is in .bak.
LEMMA KeepsStep ==
    ASSUME Setup!IInv, [Setup!Next]_(Setup!setupVars)
    PROVE  Setup!KeepsOthers
<1> SUFFICES ASSUME NEW p \in Setup!Place,
                    setup.step = "replace", p = Head(setup.todo), setup.merged = file'[p]
             PROVE  /\ ~sinceRead => file[p].others \subseteq file'[p].others
                    /\ ~sinceCopy => file[p].others \subseteq file'[p].others \cup bak'[p].others
  BY DEF Setup!KeepsOthers
<1>1. /\ ~sinceRead => setup.merged.others = file[p].others
      /\ ~sinceCopy => file[p].others \subseteq bak[p].others
      /\ setup.merged.kind = "whole"
      /\ file \in [Setup!Place -> Setup!Files]
  BY DEF Setup!IInv, Setup!Shape, Setup!MergedKeeps, Setup!CopyKeeps
<1>2. CASE UNCHANGED file
  BY <1>2
<1>3. CASE UNCHANGED bak
  BY <1>1, <1>3
<1>4. UNCHANGED file \/ UNCHANGED bak
  BY DEF Setup!Next, Setup!Begin, Setup!Merge, Setup!Copy, Setup!Replace, Setup!Dies,
         Setup!ClientEmpties, Setup!ClientWrites, Setup!setupVars
<1>5. QED
  BY <1>2, <1>3, <1>4

\* Whatever the clients write while a setup merges, the entries of others that it moves its
\* file over are in the new file or in .bak (setup.py:155-216, 246-272): of every client, in every order.
THEOREM OthersAreKept == Setup!Spec => OthersKept
<1>1. Setup!Init => Setup!IInv
  BY SetupStarts
<1>2. Setup!IInv /\ [Setup!Next]_(Setup!setupVars) => Setup!IInv'
  BY SetupSteps
<1>3. Setup!IInv /\ [Setup!Next]_(Setup!setupVars) => Setup!KeepsOthers
  BY KeepsStep
<1>4. QED
  BY <1>1, <1>2, <1>3, PTL DEF Setup!Spec, OthersKept, Setup!OthersKept

--------------------------------------------------------------------------------
(* The trail of decisions *)

Commits == Seq([subject : {"fix", "refactor", "decided"}, files : SUBSET File,
                links : SUBSET [relation : Relation, pred : Nat]])

\* A commit is added at the end: what was there stays.
LEMMA HistoryGrows ==
    ASSUME history \in Commits, NEW f \in File, NEW i, NEW subject \in {"fix", "refactor", "decided"},
           NEW links \in SUBSET [relation : Relation, pred : Nat],
           Trail!AddsCommit(f, i, subject, links)
    PROVE  /\ history' \in Commits /\ UNCHANGED <<mined, index, review>>
           /\ \A c \in DOMAIN history : c \in DOMAIN history' /\ history'[c] = history[c]
<1> DEFINE e == [subject |-> subject, files |-> {f}, links |-> links]
<1>1. /\ e \in [subject : {"fix", "refactor", "decided"}, files : SUBSET File,
                links : SUBSET [relation : Relation, pred : Nat]]
      /\ history' = Append(history, e) /\ UNCHANGED <<mined, index, review>>
  BY DEF Trail!AddsCommit
<1> HIDE DEF e
<1>2. QED
  BY <1>1 DEF Commits

\* The notes that bootstrap writes of a commit have what the commit states.
LEMMA InferredStates ==
    ASSUME NEW c
    PROVE  \A l \in history[c].links : l.relation = "supersedes" => l \in Trail!Inferred(c)
BY DEF Trail!Inferred

LEMMA TrailSteps ==
    ASSUME Trail!IInv, [Trail!Next]_(Trail!trailVars)
    PROVE  Trail!IInv'
<1>1. /\ history \in Commits
      /\ review \in [step : {review.step}, files : {review.files}, base : {review.base},
                   report : {review.report}, changed : {review.changed},
                   comments : {review.comments}, strict : {review.strict},
                   event : {review.event}]
      /\ Trail!NotesTrue /\ Trail!OneVerdict
  BY DEF Trail!IInv, Trail!Shape, Commits
<1>2. ASSUME NEW f \in File, NEW i, NEW subject \in {"fix", "refactor", "decided"},
             NEW links \in SUBSET [relation : Relation, pred : Nat],
             Trail!AddsCommit(f, i, subject, links)
      PROVE  Trail!IInv'
  <2>1. /\ history' \in Commits /\ UNCHANGED <<mined, index, review>>
        /\ \A c \in DOMAIN history : c \in DOMAIN history' /\ history'[c] = history[c]
    BY <1>1, <1>2, HistoryGrows
  <2>2. Trail!Shape' /\ Trail!OneVerdict'
    BY <1>1, <2>1 DEF Trail!Shape, Commits, Trail!OneVerdict, Trail!Stale
  <2>3. Trail!NotesTrue'
    BY <1>1, <2>1 DEF Trail!NotesTrue, Trail!Mined
  <2> QED
    BY <2>2, <2>3 DEF Trail!IInv
<1>3. ASSUME NEW f \in File, NEW i, NEW subject \in {"fix", "refactor"},
             Trail!GitCommit(f, i, subject)
      PROVE  Trail!IInv'
  BY <1>2, <1>3 DEF Trail!GitCommit
<1>4. ASSUME NEW f \in File, NEW i, NEW r \in Relation, NEW p \in DOMAIN history,
             Trail!Decide(f, i, r, p)
      PROVE  Trail!IInv'
  <2>1. {[relation |-> r, pred |-> p]} \in SUBSET [relation : Relation, pred : Nat]
    BY <1>1 DEF Commits
  <2> QED
    BY <1>2, <1>4, <2>1 DEF Trail!Decide
<1>5. CASE Trail!MineCorpus
  <2>1. /\ index' = [by |-> "corpus", notes |-> Trail!Reasoned]
        /\ UNCHANGED <<history, mined, review>>
    BY <1>5 DEF Trail!MineCorpus
  <2>2. Trail!NotesTrue'
    BY <1>1, <2>1 DEF Trail!NotesTrue, Trail!Mined, Trail!Reasoned
  <2>3. Trail!Shape' /\ Trail!OneVerdict'
    BY <1>1, <2>1 DEF Trail!Shape, Commits, Trail!OneVerdict, Trail!Stale
  <2> QED
    BY <2>2, <2>3 DEF Trail!IInv
<1>6. CASE Trail!Bootstrap
  <2> DEFINE notes == [c \in Trail!Kept \cup DOMAIN mined |->
                          IF c \in Trail!Kept THEN Trail!Inferred(c) ELSE mined[c]]
  <2>1. /\ mined' = notes /\ index' = [by |-> "bootstrap", notes |-> notes]
        /\ UNCHANGED <<history, review>>
    BY <1>6 DEF Trail!Bootstrap
  <2>2. Trail!Kept \subseteq DOMAIN history
    <3>1. \A c \in Trail!Candidates : <<Trail!Score(c), c>>[2] = c
      OBVIOUS
    <3>2. Trail!Kept \subseteq Trail!Candidates
      BY <3>1, Zenon DEF Trail!Kept
    <3>3. Trail!Candidates \subseteq DOMAIN history
      BY DEF Trail!Candidates
    <3> QED
      BY <3>2, <3>3
  <2>3. \A c \in DOMAIN notes : c \in DOMAIN history /\
           \A l \in history[c].links : l.relation = "supersedes" => l \in notes[c]
    BY <1>1, <2>2, InferredStates DEF Trail!NotesTrue, Trail!Mined
  <2> HIDE DEF notes
  <2>4. index'.notes = notes /\ index'.by # "corpus"
    BY <2>1
  <2>5. Trail!NotesTrue'
    BY <2>1, <2>3, <2>4 DEF Trail!NotesTrue, Trail!Mined
  <2>6. Trail!Shape' /\ Trail!OneVerdict'
    BY <1>1, <2>1 DEF Trail!Shape, Commits, Trail!OneVerdict, Trail!Stale
  <2> QED
    BY <2>5, <2>6 DEF Trail!IInv
<1>7. ASSUME NEW r, Trail!Goes(r),
             r \in [step : {r.step}, files : {r.files}, base : {r.base}, report : {r.report},
                    changed : {r.changed}, comments : {r.comments}, strict : {r.strict},
                    event : {r.event}],
             r.step # "post"
      PROVE  Trail!IInv'
  <2>1. review' = r /\ UNCHANGED <<history, mined, index>>
    BY <1>7 DEF Trail!Goes
  <2>2. Trail!Shape' /\ Trail!OneVerdict'
    BY <1>1, <1>7, <2>1 DEF Trail!Shape, Commits, Trail!OneVerdict
  <2>3. Trail!NotesTrue'
    BY <1>1, <2>1 DEF Trail!NotesTrue, Trail!Mined
  <2> QED
    BY <2>2, <2>3 DEF Trail!IInv
<1>8. CASE \E base \in 0..MaxCommits : Trail!StartReview(base)
  <2>1. PICK base \in 0..MaxCommits : Trail!StartReview(base)
    BY <1>8
  <2> DEFINE files == UNION {history[c].files : c \in (base + 1)..Len(history)}
             r == [Trail!NoReview EXCEPT !.step = "report", !.base = base, !.files = files]
  <2>2. Trail!Goes(r)
    BY <2>1 DEF Trail!StartReview
  <2> HIDE DEF files
  <2>3. r \in [step : {r.step}, files : {r.files}, base : {r.base}, report : {r.report},
               changed : {r.changed}, comments : {r.comments}, strict : {r.strict},
               event : {r.event}] /\ r.step = "report"
    BY DEF Trail!NoReview
  <2> HIDE DEF r
  <2> QED
    BY <1>7, <2>2, <2>3
<1>9. CASE Trail!Report
  <2> DEFINE report == [f \in review.files |-> Trail!Judged(f, <<>>)]
             r == [review EXCEPT !.step = "lines", !.report = report]
  <2>1. Trail!Goes(r)
    BY <1>9 DEF Trail!Report
  <2> HIDE DEF report
  <2>2. r \in [step : {r.step}, files : {r.files}, base : {r.base}, report : {r.report},
               changed : {r.changed}, comments : {r.comments}, strict : {r.strict},
               event : {r.event}] /\ r.step = "lines"
    BY <1>1
  <2> HIDE DEF r
  <2> QED
    BY <1>7, <2>1, <2>2
<1>10. CASE Trail!Refuse \/ Trail!Post
  <2>1. Trail!Goes(Trail!NoReview)
    BY <1>10 DEF Trail!Refuse, Trail!Post
  <2> DEFINE r == Trail!NoReview
  <2>2. r \in [step : {r.step}, files : {r.files}, base : {r.base}, report : {r.report},
               changed : {r.changed}, comments : {r.comments}, strict : {r.strict},
               event : {r.event}] /\ r.step = "idle"
    BY DEF Trail!NoReview
  <2> QED
    BY <1>7, <2>1, <2>2
<1>11. CASE Trail!ReadLines \/ Trail!SkipLines
  <2>1. PICK changed : Trail!Goes([review EXCEPT !.step = "comments", !.base = 0,
                                                 !.changed = changed])
    BY <1>11 DEF Trail!ReadLines, Trail!SkipLines
  <2> DEFINE r == [review EXCEPT !.step = "comments", !.base = 0, !.changed = changed]
  <2>2. r \in [step : {r.step}, files : {r.files}, base : {r.base}, report : {r.report},
               changed : {r.changed}, comments : {r.comments}, strict : {r.strict},
               event : {r.event}] /\ r.step = "comments"
    BY <1>1
  <2>3. Trail!Goes(r)
    BY <2>1
  <2> HIDE DEF r
  <2> QED
    BY <1>7, <2>2, <2>3
<1>12. ASSUME NEW strict \in BOOLEAN, Trail!Comment(strict)
       PROVE  Trail!IInv'
  <2> DEFINE remarks == UNION {{<<f, i>> : i \in Trail!Remarked(f)} : f \in Trail!Stale}
             comments == {<<f, 0>> : f \in Trail!Stale} \cup remarks
             event == IF strict /\ Trail!Stale # {} THEN "REQUEST_CHANGES" ELSE "COMMENT"
             changed == Trail!NoReview.changed
  <2>1. /\ review' = [review EXCEPT !.step = "post", !.changed = changed, !.strict = strict,
                                    !.comments = comments, !.event = event]
        /\ UNCHANGED <<history, mined, index>>
    BY <1>12 DEF Trail!Comment, Trail!Goes
  <2>2. {c[1] : c \in comments} = Trail!Stale /\ Trail!Stale \X {0} \subseteq comments
    <3>1. \A c \in comments : c[1] \in Trail!Stale
      <4>1. \A f \in Trail!Stale : \A i : <<f, i>>[1] \in Trail!Stale
        OBVIOUS
      <4>2. \A c \in remarks : \E f \in Trail!Stale : \E i : c = <<f, i>>
        OBVIOUS
      <4> HIDE DEF remarks
      <4>3. \A c \in comments : \E f \in Trail!Stale : \E i : c = <<f, i>>
        BY <4>2
      <4> HIDE DEF comments
      <4> QED
        BY <4>1, <4>3
    <3>2. \A f \in Trail!Stale : <<f, 0>> \in comments /\ <<f, 0>>[1] = f
      OBVIOUS
    <3> HIDE DEF comments
    <3>3. {c[1] : c \in comments} \subseteq Trail!Stale
      BY <3>1
    <3>4. \A f \in Trail!Stale : f \in {c[1] : c \in comments}
      BY <3>2
    <3>5. \A x \in Trail!Stale \X {0} : x = <<x[1], 0>> /\ x[1] \in Trail!Stale
      OBVIOUS
    <3>6. Trail!Stale \X {0} \subseteq comments
      BY <3>2, <3>5
    <3> QED
      BY <3>3, <3>4, <3>6
  <2>3. (event = "REQUEST_CHANGES") = (strict /\ Trail!Stale # {})
    OBVIOUS
  <2>4. comments # {} <=> Trail!Stale # {}
    BY <2>2
  <2> HIDE DEF comments, event, changed
  <2>5. /\ review' \in [step : {review'.step}, files : {review'.files}, base : {review'.base},
                   report : {review'.report}, changed : {review'.changed},
                   comments : {review'.comments}, strict : {review'.strict},
                   event : {review'.event}]
        /\ review'.files = review.files /\ review'.report = review.report
        /\ review'.comments = comments /\ review'.event = event /\ review'.strict = strict
    BY <1>1, <2>1
  <2>6. Trail!Stale' = Trail!Stale
    BY <2>5 DEF Trail!Stale
  <2>7. Trail!OneVerdict'
    BY <2>2, <2>3, <2>4, <2>5, <2>6 DEF Trail!OneVerdict
  <2>8. Trail!Shape' /\ Trail!NotesTrue'
    BY <1>1, <2>1, <2>5 DEF Trail!Shape, Commits, Trail!NotesTrue, Trail!Mined
  <2> QED
    BY <2>7, <2>8 DEF Trail!IInv
<1>13. CASE UNCHANGED Trail!trailVars
  BY <1>13 DEF Trail!trailVars, Trail!IInv, Trail!Shape, Trail!NotesTrue, Trail!Mined,
               Trail!OneVerdict, Trail!Stale
<1> QED
  BY <1>3, <1>4, <1>5, <1>6, <1>8, <1>9, <1>10, <1>11, <1>12, <1>13 DEF Trail!Next

LEMMA TrailStarts == Trail!Init => Trail!IInv
<1> SUFFICES ASSUME Trail!Init PROVE Trail!IInv
  OBVIOUS
<1>1. history = <<>> /\ <<>> \in Commits
  BY DEF Trail!Init, Commits
<1>2. Trail!Shape
  BY <1>1 DEF Trail!Init, Trail!Shape, Commits, Trail!NoReview
<1>3. Trail!NotesTrue
  BY DEF Trail!Init, Trail!NotesTrue, Trail!Mined, Trail!NoNotes
<1>4. Trail!OneVerdict
  BY DEF Trail!Init, Trail!OneVerdict, Trail!NoReview
<1> QED
  BY <1>2, <1>3, <1>4 DEF Trail!IInv

\* Notes that are true to the history enforce it.
LEMMA TrueNotesEnforce ==
    ASSUME Trail!Shape, Trail!NotesTrue
    PROVE  Trail!TrailEnforced
<1> SUFFICES ASSUME NEW d \in DOMAIN index.notes,
                    NEW e \in DOMAIN index.notes, NEW l \in history[e].links,
                    l.pred = d, index.by = "corpus" \/ l.relation = "supersedes",
                    NEW f \in File
             PROVE  /\ Trail!Governing(f, <<>>) = d => Trail!Judged(f, <<>>) = "stale"
                    /\ \A g \in Trail!Lens(f) : g.commit = d => g.status = "replaced"
  BY DEF Trail!TrailEnforced
<1>1. l \in index.notes[e]
  BY DEF Trail!NotesTrue, Trail!Mined
<1>2. Trail!Replaced(d)
  BY <1>1 DEF Trail!Replaced
<1>3. d # Trail!NoCommit
  <2>1. history \in Commits /\ d \in DOMAIN history
    BY DEF Trail!Shape, Commits, Trail!NotesTrue, Trail!Mined
  <2> QED
    BY <2>1 DEF Commits, Trail!NoCommit
<1>4. Trail!Governing(f, <<>>) = d => Trail!Judged(f, <<>>) = "stale"
  BY <1>2, <1>3 DEF Trail!Judged
<1>5. ASSUME NEW g \in Trail!Lens(f), g.commit = d
      PROVE  g.status = "replaced"
  <2>1. PICK r : g = [first |-> r[1], last |-> r[2], commit |-> text[f][r[1]][1],
                      status |-> IF text[f][r[1]][1] \notin DOMAIN index.notes THEN "unindexed"
                                 ELSE IF Trail!Replaced(text[f][r[1]][1]) THEN "replaced"
                                 ELSE "active"]
    BY <1>5 DEF Trail!Lens
  <2>2. text[f][r[1]][1] = d
    BY <1>5, <2>1
  <2> QED
    BY <1>2, <2>1, <2>2
<1> QED
  BY <1>4, <1>5

\* Whatever is committed, mined and promoted in whatever order: what a commit of the index was
\* made to replace is replaced for everyone who reads the index, drift and lens alike
\* (gitcorpus.py, bootstrap.py, drift.py, lens.py).
THEOREM TrailAlwaysEnforced == Trail!Spec => []TrailEnforced
<1>1. Trail!Init => Trail!IInv
  BY TrailStarts
<1>2. Trail!IInv /\ [Trail!Next]_(Trail!trailVars) => Trail!IInv'
  BY TrailSteps
<1>3. Trail!IInv => TrailEnforced
  BY TrueNotesEnforce DEF Trail!IInv, TrailEnforced
<1>4. QED
  BY <1>1, <1>2, <1>3, PTL DEF Trail!Spec

\* A review does not contradict itself, though commits and promotions come between its steps
\* (review.py, github.py).
THEOREM ReviewIsOneVerdict == Trail!Spec => []OneVerdict
<1>1. Trail!Init => Trail!IInv
  BY TrailStarts
<1>2. Trail!IInv /\ [Trail!Next]_(Trail!trailVars) => Trail!IInv'
  BY TrailSteps
<1>3. Trail!IInv => OneVerdict
  BY DEF Trail!IInv, OneVerdict
<1>4. QED
  BY <1>1, <1>2, <1>3, PTL DEF Trail!Spec

--------------------------------------------------------------------------------
(* The driver of the benchmark *)

\* The machine, the log and the process have their fields.
LEMMA BenchmarkShape ==
    ASSUME Benchmark!Shape
    PROVE  /\ log.lines \in Seq(Benchmark!Lines) /\ log.ended \in BOOLEAN
           /\ harness.left \in Seq(Benchmark!Keys)
           /\ harness.next \in Benchmark!Lines
BY DEF Benchmark!Shape

\* A line that is a run has its fields.
LEMMA LinesAre ==
    ASSUME NEW r \in Benchmark!Lines
    PROVE  r = Benchmark!Malformed \/
           r \in [set : Benchmark!Sets, key : Benchmark!Keys, client : Release,
                  commit : Checkout, model : Model \cup {Alias}]
BY DEF Benchmark!Lines

LEMMA NoMalformedSet ==
    /\ 0 \notin Benchmark!Sets /\ Benchmark!Malformed.set = 0
    /\ Benchmark!Malformed \in Benchmark!Lines
BY BenchmarkAssumption DEF Benchmark!Sets, Benchmark!Malformed, Benchmark!Lines

LEMMA BenchmarkStarts == Benchmark!Init => Benchmark!IInv
<1> SUFFICES ASSUME Benchmark!Init PROVE Benchmark!IInv
  OBVIOUS
<1>1. log.lines = <<>> /\ log.ended = TRUE /\ harness = Benchmark!Off /\ harness.step = "off"
  BY DEF Benchmark!Init, Benchmark!Off
<1>2. Benchmark!Shape
  <2>1. installed \in [client : Release \cup {0}, commit : Checkout \cup {0}, model : Model]
    BY DEF Benchmark!Init
  <2>2. log \in [lines : Seq(Benchmark!Lines), ended : BOOLEAN]
    BY DEF Benchmark!Init
  <2>3. harness \in [step : {"off", "setup", "running", "recording", "reporting"},
                set : Benchmark!Sets \cup {0}, left : Seq(Benchmark!Keys),
                skip : SUBSET Benchmark!Keys,
                runs : SUBSET Benchmark!Lines, client : Release \cup {0}, commit : Checkout \cup {0},
                pinned : [Benchmark!Pinned -> SUBSET (Release \cup Checkout \cup Model \cup {Alias})],
                next : Benchmark!Lines]
    BY <1>1, NoMalformedSet DEF Benchmark!Off
  <2> QED
    BY <1>1, <2>1, <2>2, <2>3 DEF Benchmark!Init, Benchmark!Shape
<1>3. Benchmark!LogSound
  BY <1>1 DEF Benchmark!Init, Benchmark!LogSound, Benchmark!Readable, Benchmark!OneProvenance,
              Benchmark!Runs, Benchmark!ToSet
<1> QED
  BY <1>1, <1>2, <1>3 DEF Benchmark!IInv, Benchmark!WholeLines, Benchmark!KnowsTheLog,
     Benchmark!LeftIsNew, Benchmark!NextIsFirst

\* What an invocation is of, at most once; and what the runs of one trap set share.
Once(lines) ==
    \A i, j \in DOMAIN lines :
        lines[i] # Benchmark!Malformed /\ lines[i].set = lines[j].set /\ lines[i].key = lines[j].key
            => i = j
Shared(runs) ==
    \A r, s \in runs : r.set = s.set => \A f \in Benchmark!Pinned : r[f] = s[f]

LEMMA LogSoundIs ==
    Benchmark!LogSound <=>
        /\ Benchmark!Readable
        /\ Once(log.lines)
        /\ Shared(Benchmark!Runs(log.lines))
        /\ published.json \cup published.markdown \subseteq Benchmark!Runs(log.lines)
BY DEF Benchmark!LogSound, Benchmark!OneProvenance, Once, Shared

\* The repair cuts what no parser takes, and no run.
LEMMA RepairedIs ==
    ASSUME Benchmark!Shape, Benchmark!Readable, NEW lines, lines = Benchmark!Repaired.lines
    PROVE  /\ Benchmark!Repaired.ended = TRUE
           /\ lines \in Seq(Benchmark!Lines)
           /\ Benchmark!Malformed \notin Benchmark!ToSet(lines)
           /\ Benchmark!Runs(lines) = Benchmark!Runs(log.lines)
           /\ DOMAIN lines \subseteq DOMAIN log.lines
           /\ \A i \in DOMAIN lines : lines[i] = log.lines[i]
<1> DEFINE all == log.lines
           n == Len(all)
           cut == n > 0 /\ all[n] = Benchmark!Malformed
<1>1. all \in Seq(Benchmark!Lines) /\ n \in Nat /\ DOMAIN all = 1..n
  BY BenchmarkShape
<1>2. lines = IF cut THEN SubSeq(all, 1, n - 1) ELSE all
  BY DEF Benchmark!Repaired
<1>3. Benchmark!Repaired.ended = TRUE
  BY DEF Benchmark!Repaired
<1>4. \A i \in 1..n : all[i] = Benchmark!Malformed => i = n
  BY DEF Benchmark!Readable
<1> HIDE DEF all, n
<1>5. CASE cut
  <2>1. lines \in Seq(Benchmark!Lines) /\ DOMAIN lines = 1..(n - 1) /\ \A i \in 1..(n - 1) : lines[i] = all[i]
    BY <1>1, <1>2, <1>5
  <2>2. 1..n = (1..(n - 1)) \cup {n}
    BY <1>1, <1>5
  <2>3. Benchmark!Malformed \notin Benchmark!ToSet(lines)
    BY <1>1, <1>4, <2>1 DEF Benchmark!ToSet
  <2>4. Benchmark!Runs(lines) = Benchmark!Runs(all)
    BY <1>1, <1>5, <2>1, <2>2 DEF Benchmark!Runs, Benchmark!ToSet
  <2> QED
    BY <1>1, <1>3, <2>1, <2>2, <2>3, <2>4 DEF all
<1>6. CASE ~cut
  <2>1. lines = all
    BY <1>2, <1>6
  <2>2. Benchmark!Malformed \notin Benchmark!ToSet(lines)
    BY <1>1, <1>4, <1>6, <2>1 DEF Benchmark!ToSet
  <2> QED
    BY <1>1, <1>3, <2>1, <2>2 DEF all
<1> QED
  BY <1>5, <1>6

LEMMA PlansAre ==
    ASSUME NEW plan \in Plans
    PROVE  /\ plan.set \in Benchmark!Sets /\ plan.set # 0
           /\ plan.keys \in Seq(Benchmark!Keys)
           /\ \A i, j \in DOMAIN plan.keys : plan.keys[i] = plan.keys[j] => i = j
<1>1. Benchmark!ToSet(plan.keys) \subseteq Benchmark!Keys
  BY DEF Benchmark!Keys
<1>2. plan.keys \in Seq(Benchmark!ToSet(plan.keys))
  BY BenchmarkAssumption DEF Benchmark!ToSet
<1>3. plan.keys \in Seq(Benchmark!Keys)
  <2> DEFINE S == Benchmark!ToSet(plan.keys)
             T == Benchmark!Keys
             s == plan.keys
  <2> HIDE DEF S, T, s
  <2>1. S \subseteq T /\ s \in Seq(S) => s \in Seq(T)
    OBVIOUS
  <2> QED
    BY <1>1, <1>2, <2>1 DEF S, T, s
<1> QED
  BY <1>3, BenchmarkAssumption DEF Benchmark!Sets

LEMMA StartKeeps ==
    ASSUME Benchmark!IInv, NEW plan \in Plans, Benchmark!Start(plan)
    PROVE  Benchmark!IInv'
<1> DEFINE lines == Benchmark!Repaired.lines
           known == Benchmark!Recorded(lines, plan.set)
<1>1. /\ Benchmark!Shape /\ Benchmark!LogSound /\ Benchmark!Readable
      /\ log' = Benchmark!Repaired /\ log'.lines = lines
      /\ installed' = installed /\ published' = published
  BY DEF Benchmark!IInv, Benchmark!LogSound, Benchmark!Start
<1>2. /\ log'.ended = TRUE
      /\ lines \in Seq(Benchmark!Lines)
      /\ Benchmark!Malformed \notin Benchmark!ToSet(lines)
      /\ Benchmark!Runs(lines) = Benchmark!Runs(log.lines)
      /\ DOMAIN lines \subseteq DOMAIN log.lines
      /\ \A i \in DOMAIN lines : lines[i] = log.lines[i]
  BY <1>1, RepairedIs
<1>3. harness' = [Benchmark!Off EXCEPT
                !.step = "setup", !.set = plan.set, !.left = plan.keys,
                !.skip = {run.key : run \in known},
                !.runs = {run \in known : run.key \in Benchmark!ToSet(plan.keys)},
                !.pinned = [f \in Benchmark!Pinned |-> {run[f] : run \in known}]]
  BY <1>1 DEF Benchmark!Start
<1>4. /\ harness'.step = "setup" /\ harness'.set = plan.set /\ harness'.left = plan.keys
      /\ harness'.skip = {run.key : run \in known}
      /\ harness'.runs = {run \in known : run.key \in Benchmark!ToSet(plan.keys)}
      /\ harness'.pinned = [f \in Benchmark!Pinned |-> {run[f] : run \in known}]
      /\ harness'.client = 0 /\ harness'.commit = 0 /\ harness'.next = Benchmark!Malformed
  BY <1>3 DEF Benchmark!Off
<1>5. harness' \in [step : {harness'.step}, set : {harness'.set}, left : {harness'.left},
                    skip : {harness'.skip}, runs : {harness'.runs}, client : {harness'.client},
                    commit : {harness'.commit}, pinned : {harness'.pinned},
                    next : {harness'.next}]
  BY <1>3 DEF Benchmark!Off
<1>6. \A run \in known :
        run \in [set : Benchmark!Sets, key : Benchmark!Keys, client : Release,
                 commit : Checkout, model : Model \cup {Alias}]
  <2>1. known \subseteq Benchmark!Lines \ {Benchmark!Malformed}
    BY <1>2 DEF Benchmark!Recorded, Benchmark!Runs, Benchmark!ToSet
  <2> QED
    BY <2>1, LinesAre
<1> HIDE DEF lines, known
<1>7. known \subseteq Benchmark!Lines /\ {run.key : run \in known} \subseteq Benchmark!Keys
  BY <1>6 DEF Benchmark!Lines
<1>8. \A f \in Benchmark!Pinned :
        {run[f] : run \in known} \subseteq Release \cup Checkout \cup Model \cup {Alias}
  BY <1>6 DEF Benchmark!Pinned
<1>9. Benchmark!Shape'
  <2>1. log' \in [lines : Seq(Benchmark!Lines), ended : BOOLEAN]
    BY <1>1, <1>2 DEF Benchmark!Repaired
  <2>2. /\ harness'.set \in Benchmark!Sets \cup {0}
        /\ harness'.left \in Seq(Benchmark!Keys)
        /\ harness'.skip \subseteq Benchmark!Keys /\ harness'.runs \subseteq Benchmark!Lines
        /\ harness'.next \in Benchmark!Lines
    BY <1>4, <1>7, PlansAre, NoMalformedSet
  <2>3. harness'.pinned \in [Benchmark!Pinned -> SUBSET (Release \cup Checkout \cup Model \cup {Alias})]
    BY <1>4, <1>8
  <2> QED
    BY <1>1, <1>4, <1>5, <2>1, <2>2, <2>3 DEF Benchmark!Shape
<1>10. known = Benchmark!Recorded(log'.lines, harness'.set)
  BY <1>1, <1>4 DEF known
<1>11. Benchmark!WholeLines' /\ Benchmark!NextIsFirst'
  BY <1>1, <1>2, <1>4 DEF Benchmark!WholeLines, Benchmark!NextIsFirst
<1>12. Benchmark!KnowsTheLog'
  BY <1>4, <1>10, PlansAre DEF Benchmark!KnowsTheLog
<1>13. Benchmark!LeftIsNew'
  BY <1>4, <1>10, PlansAre DEF Benchmark!LeftIsNew
<1>14. Benchmark!LogSound'
  <2>1. Benchmark!Readable'
    BY <1>1, <1>2 DEF Benchmark!Readable, Benchmark!ToSet
  <2>2. Once(lines)
    BY <1>1, <1>2, LogSoundIs DEF Once
  <2>3. Shared(Benchmark!Runs(lines)) /\ published.json \cup published.markdown \subseteq Benchmark!Runs(lines)
    BY <1>1, <1>2, LogSoundIs
  <2> QED
    BY <1>1, <2>1, <2>2, <2>3 DEF Benchmark!LogSound, Benchmark!OneProvenance, Once, Shared
<1> QED
  BY <1>9, <1>11, <1>12, <1>13, <1>14 DEF Benchmark!IInv

\* What is left after the first: later invocations, each where it was.
LEMMA TailLeft ==
    ASSUME NEW S, NEW s \in Seq(S), s # <<>>
    PROVE  /\ Tail(s) \in Seq(S)
           /\ \A i \in DOMAIN Tail(s) : i \in Nat /\ i + 1 \in DOMAIN s /\ Tail(s)[i] = s[i + 1]
           /\ 1 \in DOMAIN s
OBVIOUS

\* A step that leaves the log alone, and goes on with the invocations that are left or ends.
LEMMA LogStays ==
    ASSUME Benchmark!IInv, log' = log, Benchmark!Shape', Benchmark!NextIsFirst',
           published'.json \cup published'.markdown \subseteq Benchmark!Runs(log.lines),
           harness'.step # "off" =>
               /\ harness.step # "off"
               /\ harness'.set = harness.set /\ harness'.skip = harness.skip
               /\ harness'.pinned = harness.pinned /\ harness'.runs = harness.runs
               /\ \/ harness'.left = harness.left
                  \/ harness.left # <<>> /\ harness'.left = Tail(harness.left)
    PROVE  Benchmark!IInv'
<1>1. Benchmark!LogSound'
  BY LogSoundIs DEF Benchmark!IInv, Benchmark!LogSound, Benchmark!Readable,
     Benchmark!OneProvenance, Once, Shared
<1>2. Benchmark!WholeLines' /\ Benchmark!KnowsTheLog'
  BY DEF Benchmark!IInv, Benchmark!WholeLines, Benchmark!KnowsTheLog
<1>3. Benchmark!LeftIsNew'
  <2> SUFFICES ASSUME harness'.step # "off" PROVE Benchmark!LeftIsNew'
    BY DEF Benchmark!LeftIsNew
  <2>1. CASE harness'.left = harness.left
    BY <2>1 DEF Benchmark!IInv, Benchmark!LeftIsNew
  <2>2. CASE harness.left # <<>> /\ harness'.left = Tail(harness.left)
    <3>1. \A i \in DOMAIN harness'.left :
            i \in Nat /\ i + 1 \in DOMAIN harness.left /\ harness'.left[i] = harness.left[i + 1]
      BY <2>2, TailLeft, BenchmarkShape DEF Benchmark!IInv
    <3>2. /\ \A i, j \in DOMAIN harness.left : harness.left[i] = harness.left[j] => i = j
          /\ \A i \in DOMAIN harness.left, run \in Benchmark!Recorded(log.lines, harness.set) :
               run.key = harness.left[i] => run.key \in harness.skip
      BY DEF Benchmark!IInv, Benchmark!LeftIsNew
    <3>3. \A i, j \in DOMAIN harness'.left : harness'.left[i] = harness'.left[j] => i = j
      <4> SUFFICES ASSUME NEW i \in DOMAIN harness'.left, NEW j \in DOMAIN harness'.left,
                          harness'.left[i] = harness'.left[j]
                   PROVE  i = j
        OBVIOUS
      <4>1. i + 1 = j + 1
        BY <3>1, <3>2
      <4> QED
        BY <3>1, <4>1
    <3>4. \A i \in DOMAIN harness'.left, run \in Benchmark!Recorded(log.lines, harness.set) :
            run.key = harness'.left[i] => run.key \in harness'.skip
      BY <3>1, <3>2
    <3> QED
      BY <3>3, <3>4 DEF Benchmark!LeftIsNew
  <2> QED
    BY <2>1, <2>2
<1> QED
  BY <1>1, <1>2, <1>3 DEF Benchmark!IInv

\* A process that ends leaves its log and its reports.
LEMMA EndKeeps ==
    ASSUME Benchmark!IInv, harness' = Benchmark!Off, UNCHANGED <<installed, log, published>>
    PROVE  Benchmark!IInv'
<1>1. harness'.step = "off"
  BY DEF Benchmark!Off
<1>2. Benchmark!Shape'
  <2>1. harness' \in [step : {"off"}, set : {0}, left : {<<>>}, skip : {{}}, runs : {{}},
                      client : {0}, commit : {0}, pinned : {[f \in Benchmark!Pinned |-> {}]},
                      next : {Benchmark!Malformed}]
    BY DEF Benchmark!Off
  <2>2. /\ <<>> \in Seq(Benchmark!Keys)
        /\ [f \in Benchmark!Pinned |-> {}] \in
             [Benchmark!Pinned -> SUBSET (Release \cup Checkout \cup Model \cup {Alias})]
    OBVIOUS
  <2> QED
    BY <2>1, <2>2, NoMalformedSet DEF Benchmark!IInv, Benchmark!Shape
<1>3. published'.json \cup published'.markdown \subseteq Benchmark!Runs(log.lines)
  BY LogSoundIs DEF Benchmark!IInv
<1> QED
  BY <1>1, <1>2, <1>3, LogStays DEF Benchmark!NextIsFirst

LEMMA QuietKeeps ==
    ASSUME Benchmark!IInv,
           Benchmark!Upgrade \/ Benchmark!SetUp \/ Benchmark!Skip \/ Benchmark!RunFails
             \/ Benchmark!RunEnds
    PROVE  Benchmark!IInv'
<1> USE DEF Benchmark!IInv
<1>1. published.json \cup published.markdown \subseteq Benchmark!Runs(log.lines)
  BY LogSoundIs
<1>2. CASE Benchmark!Upgrade
  <2>1. Benchmark!Shape' /\ Benchmark!NextIsFirst'
    BY <1>2 DEF Benchmark!Upgrade, Benchmark!Shape, Benchmark!NextIsFirst
  <2> QED
    BY <1>1, <1>2, <2>1, LogStays DEF Benchmark!Upgrade
<1>3. CASE Benchmark!SetUp
  <2>1. CASE harness' = Benchmark!Off
    BY <1>3, <2>1, EndKeeps DEF Benchmark!SetUp
  <2>2. CASE harness' # Benchmark!Off
    <3>1. PICK client \in {0, installed.client} :
            /\ harness' = [harness EXCEPT !.step = "running", !.commit = installed.commit,
                                          !.client = client]
            /\ installed.commit # 0 /\ harness.step = "setup"
            /\ UNCHANGED <<installed, log, published>>
      BY <1>3, <2>2 DEF Benchmark!SetUp, Benchmark!OneCommit
    <3>2. Benchmark!Shape'
      BY <3>1 DEF Benchmark!Shape
    <3>3. /\ harness'.step = "running" /\ harness'.set = harness.set /\ harness'.skip = harness.skip
          /\ harness'.pinned = harness.pinned /\ harness'.runs = harness.runs
          /\ harness'.left = harness.left
      BY <3>1 DEF Benchmark!Shape
    <3> QED
      BY <1>1, <3>1, <3>2, <3>3, LogStays DEF Benchmark!NextIsFirst
  <2> QED
    BY <2>1, <2>2
<1>4. CASE Benchmark!Skip \/ Benchmark!RunFails
  <2>1. PICK client \in Release \cup {0} :
            /\ harness' = [harness EXCEPT !.left = Tail(harness.left), !.client = client]
            /\ harness.step = "running" /\ harness.left # <<>>
            /\ UNCHANGED <<installed, log, published>>
    <3>1. CASE Benchmark!Skip
      <4>1. harness.client \in Release \cup {0}
        BY DEF Benchmark!Shape
      <4>2. harness' = [harness EXCEPT !.left = Tail(harness.left), !.client = harness.client]
        BY <3>1 DEF Benchmark!Skip, Benchmark!Shape
      <4> QED
        BY <3>1, <4>1, <4>2 DEF Benchmark!Skip
    <3>2. CASE Benchmark!RunFails
      <4>1. Benchmark!ClientVersion \in Release \cup {0}
        BY DEF Benchmark!Shape, Benchmark!ClientVersion
      <4> QED
        BY <3>2, <4>1 DEF Benchmark!RunFails, Benchmark!Invoking
    <3> QED
      BY <1>4, <3>1, <3>2
  <2>2. Tail(harness.left) \in Seq(Benchmark!Keys)
    BY <2>1, TailLeft, BenchmarkShape
  <2>3. Benchmark!Shape'
    BY <2>1, <2>2 DEF Benchmark!Shape
  <2>4. /\ harness'.step = "running" /\ harness'.set = harness.set /\ harness'.skip = harness.skip
        /\ harness'.pinned = harness.pinned /\ harness'.runs = harness.runs
        /\ harness'.left = Tail(harness.left)
    BY <2>1 DEF Benchmark!Shape
  <2> QED
    BY <1>1, <2>1, <2>3, <2>4, LogStays DEF Benchmark!NextIsFirst
<1>5. CASE Benchmark!RunEnds
  <2>1. PICK model \in Model \cup {Alias} :
            harness' = [harness EXCEPT
                !.step = "recording", !.client = Benchmark!ClientVersion,
                !.next = [set |-> harness.set, key |-> Head(harness.left),
                          client |-> Benchmark!ClientVersion, commit |-> harness.commit,
                          model |-> model]]
    BY <1>5 DEF Benchmark!RunEnds, Benchmark!Answering, Benchmark!Shape
  <2> DEFINE next == [set |-> harness.set, key |-> Head(harness.left),
                      client |-> Benchmark!ClientVersion, commit |-> harness.commit,
                      model |-> model]
  <2>2. /\ harness.step = "running" /\ harness.left # <<>>
        /\ Head(harness.left) \notin harness.skip /\ Benchmark!ClientVersion # 0
        /\ UNCHANGED <<installed, log, published>>
    BY <1>5 DEF Benchmark!RunEnds, Benchmark!Invoking
  <2>3. Head(harness.left) = harness.left[1] /\ harness.left[1] \in Benchmark!Keys
    BY <2>2, BenchmarkShape
  <2>4. harness.set \in Benchmark!Sets /\ harness.set # 0
    BY <2>2, NoMalformedSet DEF Benchmark!KnowsTheLog
  <2>5. Benchmark!ClientVersion \in Release /\ harness.commit \in Checkout
    BY <2>2 DEF Benchmark!Shape, Benchmark!ClientVersion
  <2>6. /\ next \in Benchmark!Lines \ {Benchmark!Malformed}
        /\ next.set = harness.set /\ next.key = harness.left[1]
    BY <2>1, <2>3, <2>4, <2>5, NoMalformedSet DEF Benchmark!Lines
  <2>7. harness' = [harness EXCEPT !.step = "recording", !.client = Benchmark!ClientVersion,
                                   !.next = next]
    BY <2>1
  <2> HIDE DEF next
  <2>8. Benchmark!Shape'
    BY <2>2, <2>5, <2>6, <2>7 DEF Benchmark!Shape
  <2>9. /\ harness'.step = "recording" /\ harness'.set = harness.set /\ harness'.skip = harness.skip
        /\ harness'.pinned = harness.pinned /\ harness'.runs = harness.runs
        /\ harness'.left = harness.left /\ harness'.next = next
    BY <2>7 DEF Benchmark!Shape
  <2>10. Benchmark!NextIsFirst'
    BY <2>2, <2>3, <2>6, <2>9 DEF Benchmark!NextIsFirst
  <2> QED
    BY <1>1, <2>2, <2>8, <2>9, <2>10, LogStays
<1> QED
  BY <1>2, <1>3, <1>4, <1>5

\* One line more.
LEMMA AppendIs ==
    ASSUME NEW S, NEW s \in Seq(S), NEW x \in S
    PROVE  /\ Append(s, x) \in Seq(S) /\ Len(s) \in Nat
           /\ DOMAIN s = 1..Len(s) /\ DOMAIN Append(s, x) = (1..Len(s)) \cup {Len(s) + 1}
           /\ Len(Append(s, x)) = Len(s) + 1
           /\ \A i \in 1..Len(s) : Append(s, x)[i] = s[i]
           /\ Append(s, x)[Len(s) + 1] = x
OBVIOUS

\* A run that agrees with the recorded ones, and is not among them, is added to a sound log.
LEMMA RunIsAdded ==
    ASSUME Benchmark!IInv, harness.step = "recording", ~Benchmark!Refused,
           NEW ended \in BOOLEAN, log' = Benchmark!Appended(harness.next, ended),
           published' = published
    PROVE  /\ log' \in [lines : Seq(Benchmark!Lines), ended : {ended}]
           /\ Benchmark!LogSound'
           /\ Benchmark!Malformed \notin Benchmark!ToSet(log'.lines)
           /\ Benchmark!Recorded(log'.lines, harness.set)
                = Benchmark!Recorded(log.lines, harness.set) \cup {harness.next}
<1> DEFINE s == log.lines
           x == harness.next
           n == Len(s)
           t == Append(s, x)
<1>1. log.ended = TRUE /\ Benchmark!Malformed \notin Benchmark!ToSet(s)
  BY DEF Benchmark!IInv, Benchmark!WholeLines
<1>2. log' = [lines |-> t, ended |-> ended] /\ log'.lines = t /\ log'.ended = ended
  BY <1>1 DEF Benchmark!Appended
<1>3. s \in Seq(Benchmark!Lines) /\ x \in Benchmark!Lines /\ x # Benchmark!Malformed
  BY BenchmarkShape DEF Benchmark!IInv, Benchmark!NextIsFirst
<1>4. /\ t \in Seq(Benchmark!Lines) /\ n \in Nat
      /\ DOMAIN s = 1..n /\ DOMAIN t = (1..n) \cup {n + 1}
      /\ \A i \in 1..n : t[i] = s[i]
      /\ t[n + 1] = x
  BY <1>3, AppendIs
<1>5. x.set = harness.set /\ harness.set \in Benchmark!Sets
  BY DEF Benchmark!IInv, Benchmark!NextIsFirst, Benchmark!KnowsTheLog
<1>6. \A r \in Benchmark!Recorded(s, x.set) : r.key # x.key
  <2>1. harness.left # <<>> /\ x.key = harness.left[1] /\ harness.left[1] \notin harness.skip
    BY DEF Benchmark!IInv, Benchmark!NextIsFirst
  <2>2. 1 \in DOMAIN harness.left
    BY <2>1, TailLeft, BenchmarkShape DEF Benchmark!IInv
  <2> QED
    BY <1>5, <2>1, <2>2 DEF Benchmark!IInv, Benchmark!LeftIsNew
<1>7. \A r \in Benchmark!Recorded(s, x.set), f \in Benchmark!Pinned : r[f] = x[f]
  BY <1>5 DEF Benchmark!IInv, Benchmark!KnowsTheLog, Benchmark!Refused, Benchmark!Mismatch
<1>8. /\ Once(s) /\ Shared(Benchmark!Runs(s))
      /\ published.json \cup published.markdown \subseteq Benchmark!Runs(s)
  BY LogSoundIs DEF Benchmark!IInv
<1> HIDE DEF s, x, n, t
<1>9. Benchmark!ToSet(t) = Benchmark!ToSet(s) \cup {x}
  BY <1>4 DEF Benchmark!ToSet
<1>10. Benchmark!Runs(t) = Benchmark!Runs(s) \cup {x}
  BY <1>3, <1>9 DEF Benchmark!Runs
<1>11. Benchmark!Recorded(t, x.set) = Benchmark!Recorded(s, x.set) \cup {x}
  BY <1>10 DEF Benchmark!Recorded
<1>12. Benchmark!Malformed \notin Benchmark!ToSet(t)
  BY <1>1, <1>3, <1>9 DEF s
<1>13. Once(t)
  <2>1. \A i \in 1..n : s[i] # Benchmark!Malformed /\ s[i] \in Benchmark!Runs(s)
    BY <1>1, <1>4 DEF s, Benchmark!Runs, Benchmark!ToSet
  <2>2. \A i \in 1..n : ~(s[i].set = x.set /\ s[i].key = x.key)
    BY <1>6, <2>1 DEF Benchmark!Recorded
  <2> QED
    BY <1>4, <1>8, <2>2 DEF Once
<1>14. Shared(Benchmark!Runs(t))
  <2>1. \A r \in Benchmark!Runs(s) : r.set = x.set => \A f \in Benchmark!Pinned : r[f] = x[f]
    BY <1>7 DEF Benchmark!Recorded
  <2> QED
    BY <1>8, <1>10, <2>1 DEF Shared
<1>15. Benchmark!Readable'
  BY <1>2, <1>12 DEF Benchmark!Readable, Benchmark!ToSet
<1>16. Benchmark!LogSound'
  BY <1>2, <1>8, <1>10, <1>13, <1>14, <1>15
     DEF Benchmark!LogSound, Benchmark!OneProvenance, Once, Shared
<1> QED
  BY <1>2, <1>4, <1>5, <1>11, <1>12, <1>16 DEF s, x

\* A piece of a line leaves the runs there are.
LEMMA PieceIsAdded ==
    ASSUME Benchmark!IInv, harness.step = "recording",
           log' = Benchmark!Appended(Benchmark!Malformed, FALSE), published' = published
    PROVE  log' \in [lines : Seq(Benchmark!Lines), ended : {FALSE}] /\ Benchmark!LogSound'
<1> DEFINE s == log.lines
           n == Len(s)
           t == Append(s, Benchmark!Malformed)
<1>1. log.ended = TRUE /\ Benchmark!Malformed \notin Benchmark!ToSet(s)
  BY DEF Benchmark!IInv, Benchmark!WholeLines
<1>2. log' = [lines |-> t, ended |-> FALSE] /\ log'.lines = t /\ log'.ended = FALSE
  BY <1>1 DEF Benchmark!Appended
<1>3. s \in Seq(Benchmark!Lines)
  BY BenchmarkShape DEF Benchmark!IInv
<1>4. /\ t \in Seq(Benchmark!Lines) /\ n \in Nat /\ Len(t) = n + 1
      /\ DOMAIN s = 1..n /\ DOMAIN t = (1..n) \cup {n + 1}
      /\ \A i \in 1..n : t[i] = s[i]
      /\ t[n + 1] = Benchmark!Malformed
  BY <1>3, NoMalformedSet, AppendIs
<1>5. /\ Once(s) /\ Shared(Benchmark!Runs(s))
      /\ published.json \cup published.markdown \subseteq Benchmark!Runs(s)
  BY LogSoundIs DEF Benchmark!IInv
<1> HIDE DEF s, n, t
<1>6. \A i \in 1..n : s[i] # Benchmark!Malformed /\ s[i].set # 0
  <2>1. \A i \in 1..n : s[i] # Benchmark!Malformed /\ s[i] \in Benchmark!Lines
    BY <1>1, <1>3, <1>4 DEF s, Benchmark!ToSet
  <2>2. \A r \in Benchmark!Lines : r # Benchmark!Malformed => r.set \in Benchmark!Sets
    BY LinesAre
  <2> QED
    BY <2>1, <2>2, NoMalformedSet
<1>7. Benchmark!Runs(t) = Benchmark!Runs(s)
  BY <1>4 DEF Benchmark!Runs, Benchmark!ToSet
<1>8. Once(t)
  BY <1>4, <1>5, <1>6, NoMalformedSet DEF Once
<1>9. Benchmark!Readable'
  <2>1. \A i \in DOMAIN t : t[i] = Benchmark!Malformed => i = Len(t)
    BY <1>4, <1>6
  <2> QED
    BY <1>2, <2>1 DEF Benchmark!Readable
<1>10. Benchmark!LogSound'
  BY <1>2, <1>5, <1>7, <1>8, <1>9 DEF Benchmark!LogSound, Benchmark!OneProvenance, Once, Shared
<1> QED
  BY <1>2, <1>4, <1>10

\* After a process has died in an append.
LEMMA DeadKeeps ==
    ASSUME Benchmark!IInv, harness' = Benchmark!Off, NEW ended \in BOOLEAN,
           log' \in [lines : Seq(Benchmark!Lines), ended : {ended}], Benchmark!LogSound',
           UNCHANGED <<installed, published>>
    PROVE  Benchmark!IInv'
<1>1. harness'.step = "off"
  BY DEF Benchmark!Off
<1>2. harness' \in [step : {"off"}, set : {0}, left : {<<>>}, skip : {{}}, runs : {{}},
                    client : {0}, commit : {0}, pinned : {[f \in Benchmark!Pinned |-> {}]},
                    next : {Benchmark!Malformed}]
  BY DEF Benchmark!Off
<1>3. /\ <<>> \in Seq(Benchmark!Keys)
      /\ [f \in Benchmark!Pinned |-> {}] \in
           [Benchmark!Pinned -> SUBSET (Release \cup Checkout \cup Model \cup {Alias})]
  OBVIOUS
<1>4. Benchmark!Shape'
  BY <1>1, <1>2, <1>3, NoMalformedSet DEF Benchmark!IInv, Benchmark!Shape
<1> QED
  BY <1>1, <1>4 DEF Benchmark!IInv, Benchmark!WholeLines, Benchmark!KnowsTheLog,
     Benchmark!LeftIsNew, Benchmark!NextIsFirst

LEMMA DieKeeps ==
    ASSUME Benchmark!IInv, Benchmark!Die
    PROVE  Benchmark!IInv'
<1>1. harness' = Benchmark!Off /\ UNCHANGED <<installed, published>>
  BY DEF Benchmark!Die
<1>2. CASE UNCHANGED log
  BY <1>1, <1>2, EndKeeps
<1>3. CASE harness.step = "recording" /\ log' = Benchmark!Appended(Benchmark!Malformed, FALSE)
  BY <1>1, <1>3, PieceIsAdded, DeadKeeps
<1>4. ASSUME NEW ended \in BOOLEAN, harness.step = "recording", ~Benchmark!Refused,
             log' = Benchmark!Appended(harness.next, ended)
      PROVE  Benchmark!IInv'
  BY <1>1, <1>4, RunIsAdded, DeadKeeps
<1> QED
  BY <1>2, <1>3, <1>4 DEF Benchmark!Die

LEMMA RecordKeeps ==
    ASSUME Benchmark!IInv, Benchmark!Record
    PROVE  Benchmark!IInv'
<1>1. CASE Benchmark!Refused
  BY <1>1, EndKeeps DEF Benchmark!Record
<1>2. CASE ~Benchmark!Refused
  <2> DEFINE x == harness.next
             old == Benchmark!Recorded(log.lines, harness.set)
  <2>1. /\ harness.step = "recording" /\ UNCHANGED <<installed, published>>
        /\ log' = Benchmark!Appended(x, TRUE)
        /\ harness' = [harness EXCEPT
                 !.step = "running", !.left = Tail(harness.left), !.next = Benchmark!Malformed,
                 !.runs = harness.runs \cup {x},
                 !.pinned = [f \in Benchmark!Pinned |-> harness.pinned[f] \cup {x[f]}]]
    BY <1>2 DEF Benchmark!Record, Benchmark!IInv, Benchmark!Shape
  <2>2. /\ log' \in [lines : Seq(Benchmark!Lines), ended : {TRUE}]
        /\ Benchmark!LogSound'
        /\ Benchmark!Malformed \notin Benchmark!ToSet(log'.lines)
        /\ Benchmark!Recorded(log'.lines, harness.set) = old \cup {x}
    BY <1>2, <2>1, RunIsAdded
  <2>3. /\ x \in Benchmark!Lines \ {Benchmark!Malformed} /\ harness.left # <<>>
        /\ x.key = harness.left[1] /\ x.set = harness.set
    BY <2>1 DEF Benchmark!IInv, Benchmark!NextIsFirst
  <2>4. x \in [set : Benchmark!Sets, key : Benchmark!Keys, client : Release,
               commit : Checkout, model : Model \cup {Alias}]
    BY <2>3, LinesAre
  <2>5. \A f \in Benchmark!Pinned : x[f] \in Release \cup Checkout \cup Model \cup {Alias}
    BY <2>4 DEF Benchmark!Pinned
  <2>6. /\ Tail(harness.left) \in Seq(Benchmark!Keys)
        /\ \A i \in DOMAIN Tail(harness.left) :
             i \in Nat /\ i + 1 \in DOMAIN harness.left /\ Tail(harness.left)[i] = harness.left[i + 1]
        /\ 1 \in DOMAIN harness.left
    BY <2>3, TailLeft, BenchmarkShape DEF Benchmark!IInv
  <2>7. /\ harness'.step = "running" /\ harness'.left = Tail(harness.left)
        /\ harness'.next = Benchmark!Malformed /\ harness'.runs = harness.runs \cup {x}
        /\ harness'.pinned = [f \in Benchmark!Pinned |-> harness.pinned[f] \cup {x[f]}]
        /\ harness'.set = harness.set /\ harness'.skip = harness.skip
    BY <2>1 DEF Benchmark!IInv, Benchmark!Shape
  <2> HIDE DEF x, old
  <2>8. Benchmark!Shape'
    <3>1. harness'.pinned \in [Benchmark!Pinned -> SUBSET (Release \cup Checkout \cup Model \cup {Alias})]
      BY <2>5, <2>7 DEF Benchmark!IInv, Benchmark!Shape
    <3>2. harness'.runs \subseteq Benchmark!Lines
      BY <2>3, <2>7 DEF Benchmark!IInv, Benchmark!Shape
    <3>3. harness' \in [step : {"running"}, set : {harness.set}, left : {harness'.left},
                        skip : {harness.skip}, runs : {harness'.runs}, client : {harness.client},
                        commit : {harness.commit}, pinned : {harness'.pinned},
                        next : {Benchmark!Malformed}]
      BY <2>1, <2>7 DEF Benchmark!IInv, Benchmark!Shape
    <3>4. log' \in [lines : Seq(Benchmark!Lines), ended : BOOLEAN]
      BY <2>2
    <3> QED
      BY <2>1, <2>6, <2>7, <3>1, <3>2, <3>3, <3>4, NoMalformedSet
         DEF Benchmark!IInv, Benchmark!Shape
  <2>9. Benchmark!WholeLines' /\ Benchmark!NextIsFirst'
    BY <2>2, <2>7 DEF Benchmark!WholeLines, Benchmark!NextIsFirst
  <2>10. Benchmark!KnowsTheLog'
    <3>1. /\ harness.set \in Benchmark!Sets
          /\ \A f \in Benchmark!Pinned : harness.pinned[f] = {run[f] : run \in old}
          /\ harness.runs \subseteq old
      BY <2>1 DEF Benchmark!IInv, Benchmark!KnowsTheLog, old
    <3>2. \A f \in Benchmark!Pinned : harness'.pinned[f] = {run[f] : run \in old \cup {x}}
      BY <2>7, <3>1
    <3>3. harness'.runs \subseteq old \cup {x}
      BY <2>7, <3>1
    <3> QED
      BY <2>2, <2>7, <3>1, <3>2, <3>3 DEF Benchmark!KnowsTheLog
  <2>11. Benchmark!LeftIsNew'
    <3>1. /\ \A i, j \in DOMAIN harness.left : harness.left[i] = harness.left[j] => i = j
          /\ \A i \in DOMAIN harness.left, run \in old :
               run.key = harness.left[i] => run.key \in harness.skip
      BY <2>1 DEF Benchmark!IInv, Benchmark!LeftIsNew, old
    <3>2. \A i, j \in DOMAIN harness'.left : harness'.left[i] = harness'.left[j] => i = j
      <4> SUFFICES ASSUME NEW i \in DOMAIN harness'.left, NEW j \in DOMAIN harness'.left,
                          harness'.left[i] = harness'.left[j]
                   PROVE  i = j
        OBVIOUS
      <4>1. i + 1 = j + 1
        BY <2>6, <2>7, <3>1
      <4> QED
        BY <2>6, <2>7, <4>1
    <3>3. \A i \in DOMAIN harness'.left : harness'.left[i] # x.key
      <4> SUFFICES ASSUME NEW i \in DOMAIN harness'.left, harness'.left[i] = x.key PROVE FALSE
        OBVIOUS
      <4>1. i + 1 = 1 /\ i \in Nat /\ i # 0
        <5>1. i \in Nat /\ i + 1 \in DOMAIN harness.left /\ harness.left[i + 1] = harness.left[1]
          BY <2>3, <2>6, <2>7
        <5>2. i \in 1..Len(harness'.left)
          BY <2>6, <2>7
        <5> QED
          BY <2>6, <3>1, <5>1, <5>2
      <4> QED
        BY <4>1
    <3>4. \A i \in DOMAIN harness'.left, run \in old \cup {x} :
            run.key = harness'.left[i] => run.key \in harness.skip
      BY <2>6, <2>7, <3>1, <3>3
    <3> QED
      BY <2>2, <2>7, <3>2, <3>4 DEF Benchmark!LeftIsNew
  <2> QED
    BY <2>2, <2>8, <2>9, <2>10, <2>11 DEF Benchmark!IInv
<1> QED
  BY <1>1, <1>2

LEMMA PublishKeeps ==
    ASSUME Benchmark!IInv, Benchmark!PublishJson \/ Benchmark!PublishMarkdown
    PROVE  Benchmark!IInv'
<1> USE DEF Benchmark!IInv
<1>1. CASE harness' = Benchmark!Off /\ UNCHANGED published
  BY <1>1, EndKeeps DEF Benchmark!PublishJson, Benchmark!PublishMarkdown
<1>2. CASE ~(harness' = Benchmark!Off /\ UNCHANGED published)
  <2>1. /\ harness.step # "off" /\ UNCHANGED <<installed, log>>
        /\ \/ published' = [published EXCEPT !.json = harness.runs]
           \/ published' = [published EXCEPT !.markdown = harness.runs]
        /\ \/ harness' = [harness EXCEPT !.step = "reporting"] /\ harness.step = "running"
           \/ harness' = Benchmark!Off
    BY <1>2 DEF Benchmark!PublishJson, Benchmark!PublishMarkdown, Benchmark!Planned
  <2>2. harness.runs \subseteq Benchmark!Runs(log.lines) /\ harness.runs \subseteq Benchmark!Lines
    BY <2>1 DEF Benchmark!KnowsTheLog, Benchmark!Recorded, Benchmark!Shape
  <2>3. published.json \cup published.markdown \subseteq Benchmark!Runs(log.lines)
    BY LogSoundIs
  <2>4. /\ published' \in [json : SUBSET Benchmark!Lines, markdown : SUBSET Benchmark!Lines]
        /\ published'.json \cup published'.markdown \subseteq Benchmark!Runs(log.lines)
    BY <2>1, <2>2, <2>3 DEF Benchmark!Shape
  <2>5. CASE harness' = [harness EXCEPT !.step = "reporting"] /\ harness.step = "running"
    <3>1. /\ harness'.step = "reporting" /\ harness'.set = harness.set
          /\ harness'.skip = harness.skip /\ harness'.pinned = harness.pinned
          /\ harness'.runs = harness.runs /\ harness'.left = harness.left
      BY <2>5 DEF Benchmark!Shape
    <3>2. Benchmark!Shape'
      BY <2>1, <2>4, <2>5 DEF Benchmark!Shape
    <3> QED
      BY <2>1, <2>4, <2>5, <3>1, <3>2, LogStays DEF Benchmark!NextIsFirst
  <2>6. CASE harness' = Benchmark!Off
    <3>1. harness'.step = "off"
      BY <2>6 DEF Benchmark!Off
    <3>2. harness' \in [step : {"off"}, set : {0}, left : {<<>>}, skip : {{}}, runs : {{}},
                    client : {0}, commit : {0}, pinned : {[f \in Benchmark!Pinned |-> {}]},
                    next : {Benchmark!Malformed}]
      BY <2>6 DEF Benchmark!Off
    <3>3. /\ <<>> \in Seq(Benchmark!Keys)
          /\ [f \in Benchmark!Pinned |-> {}] \in
               [Benchmark!Pinned -> SUBSET (Release \cup Checkout \cup Model \cup {Alias})]
      OBVIOUS
    <3>4. Benchmark!Shape'
      BY <2>1, <2>4, <3>1, <3>2, <3>3, NoMalformedSet DEF Benchmark!Shape
    <3> QED
      BY <2>1, <2>4, <3>1, <3>4, LogStays DEF Benchmark!NextIsFirst
  <2> QED
    BY <2>1, <2>5, <2>6
<1> QED
  BY <1>1, <1>2

\* Wherever the driver dies, its log can be read again, holds an invocation once, under one
\* client, commit and model for a trap set, and still holds every run that a report was made
\* of, for any plans and any upgrades (run.py, _append_jsonl and _recorded_runs).
THEOREM LogStaysSound == Benchmark!Spec => []LogSound
<1>1. Benchmark!IInv /\ [Benchmark!Next]_(Benchmark!benchVars) => Benchmark!IInv'
  <2> SUFFICES ASSUME Benchmark!IInv, [Benchmark!Next]_(Benchmark!benchVars)
               PROVE  Benchmark!IInv'
    OBVIOUS
  <2>1. CASE UNCHANGED Benchmark!benchVars
    <3>1. UNCHANGED <<installed, log, harness, published>>
      BY <2>1 DEF Benchmark!benchVars
    <3>2. published.json \cup published.markdown \subseteq Benchmark!Runs(log.lines)
      BY LogSoundIs DEF Benchmark!IInv
    <3>3. Benchmark!Shape' /\ Benchmark!NextIsFirst'
      BY <3>1 DEF Benchmark!IInv, Benchmark!Shape, Benchmark!NextIsFirst
    <3> QED
      BY <3>1, <3>2, <3>3, LogStays
  <2>2. CASE Benchmark!Next
    BY <2>2, StartKeeps, QuietKeeps, RecordKeeps, PublishKeeps, DieKeeps DEF Benchmark!Next
  <2> QED
    BY <2>1, <2>2
<1>2. Benchmark!IInv => LogSound
  BY DEF Benchmark!IInv, LogSound
<1> QED
  BY <1>1, <1>2, BenchmarkStarts, PTL DEF Benchmark!Spec

--------------------------------------------------------------------------------
(* The hook *)

\* Lines of a hook.
HookLine == UserLine \cup {"#!", "# >>>", "drift", "# <<<"}

\* Line by line, a hook without a block, and one with a block after k lines of the user's.
PlainIs(s, lines) ==
    /\ s \in Seq(HookLine) /\ Len(s) = Len(lines) + 1
    /\ s[1] = "#!"
    /\ \A i \in 1..Len(lines) : s[i + 1] = lines[i]
HookedIs(s, lines, k) ==
    /\ s \in Seq(HookLine) /\ Len(s) = Len(lines) + 4
    /\ s[1] = "#!"
    /\ \A i \in 1..k : s[i + 1] = lines[i]
    /\ s[k + 2] = "# >>>" /\ s[k + 3] = "drift" /\ s[k + 4] = "# <<<"
    /\ \A i \in (k + 1)..Len(lines) : s[i + 4] = lines[i]

\* Two sequences put together.
LEMMA Joined ==
    ASSUME NEW S, NEW s \in Seq(S), NEW t \in Seq(S)
    PROVE  /\ s \o t \in Seq(S) /\ Len(s \o t) = Len(s) + Len(t)
           /\ \A i \in 1..Len(s) : (s \o t)[i] = s[i]
           /\ \A i \in 1..Len(t) : (s \o t)[Len(s) + i] = t[i]
OBVIOUS

\* What bruriah writes.
LEMMA WrittenLines ==
    /\ <<"#!">> \in Seq(HookLine) /\ Len(<<"#!">>) = 1 /\ <<"#!">>[1] = "#!"
    /\ Hooks!Payload \in Seq(HookLine) /\ Len(Hooks!Payload) = 3
    /\ Hooks!Payload[1] = "# >>>" /\ Hooks!Payload[2] = "drift" /\ Hooks!Payload[3] = "# <<<"
<1>1. ASSUME NEW S, NEW x \in S
      PROVE  <<x>> \in Seq(S) /\ Len(<<x>>) = 1 /\ <<x>>[1] = x
  OBVIOUS
<1>2. ASSUME NEW S, NEW x \in S, NEW y \in S, NEW z \in S
      PROVE  /\ <<x, y, z>> \in Seq(S) /\ Len(<<x, y, z>>) = 3
             /\ <<x, y, z>>[1] = x /\ <<x, y, z>>[2] = y /\ <<x, y, z>>[3] = z
  OBVIOUS
<1>3. "#!" \in HookLine /\ "# >>>" \in HookLine /\ "drift" \in HookLine /\ "# <<<" \in HookLine
  BY DEF HookLine
<1>4. Hooks!Payload = <<"# >>>", "drift", "# <<<">>
  BY DEF Hooks!Payload, Hooks!Start, Hooks!End
<1>5. <<"#!">> \in Seq(HookLine) /\ Len(<<"#!">>) = 1 /\ <<"#!">>[1] = "#!"
  BY <1>1, <1>3
<1>6. /\ <<"# >>>", "drift", "# <<<">> \in Seq(HookLine) /\ Len(<<"# >>>", "drift", "# <<<">>) = 3
      /\ <<"# >>>", "drift", "# <<<">>[1] = "# >>>" /\ <<"# >>>", "drift", "# <<<">>[2] = "drift"
      /\ <<"# >>>", "drift", "# <<<">>[3] = "# <<<"
  BY <1>2, <1>3
<1> QED
  BY <1>4, <1>5, <1>6

LEMMA UsersLines ==
    ASSUME NEW lines \in Seq(UserLine)
    PROVE  lines \in Seq(HookLine) /\ Len(lines) \in Nat
<1>1. UserLine \subseteq HookLine
  BY DEF HookLine
<1> HIDE DEF HookLine
<1> QED
  BY <1>1

\* A part of a sequence.
LEMMA Parted ==
    ASSUME NEW S, NEW s \in Seq(S), NEW m \in Int, NEW n \in Int, 1 <= m, m <= n + 1, n <= Len(s)
    PROVE  /\ SubSeq(s, m, n) \in Seq(S) /\ Len(SubSeq(s, m, n)) = n + 1 - m
           /\ \A i \in 1..(n + 1 - m) : SubSeq(s, m, n)[i] = s[m - 1 + i]
<1>1. Len(SubSeq(s, m, n)) = n + 1 - m /\ SubSeq(s, m, n) \in Seq(S)
  OBVIOUS
<1>2. \A i \in 1..(n + 1 - m) : SubSeq(s, m, n)[i] = s[m - 1 + i]
  OBVIOUS
<1> QED
  BY <1>1, <1>2

LEMMA SameLines ==
    ASSUME NEW S, NEW s \in Seq(S), NEW t \in Seq(S), Len(s) = Len(t),
           \A i \in 1..Len(s) : s[i] = t[i]
    PROVE  s = t
OBVIOUS

LEMMA PlainLines ==
    ASSUME NEW lines \in Seq(UserLine)
    PROVE  PlainIs(Hooks!Plain(lines), lines)
<1> DEFINE head == <<"#!">>
<1>1. head \in Seq(HookLine) /\ Len(head) = 1 /\ head[1] = "#!"
  BY WrittenLines
<1>2. lines \in Seq(HookLine) /\ Len(lines) \in Nat
  BY UsersLines
<1>3. Hooks!Plain(lines) = head \o lines
  BY DEF Hooks!Plain, Hooks!Shebang
<1> HIDE DEF head
<1>6. head \in Seq(HookLine) /\ lines \in Seq(HookLine)
  BY <1>1, <1>2
<1>4. /\ head \o lines \in Seq(HookLine)
      /\ Len(head \o lines) = Len(head) + Len(lines)
      /\ \A i \in 1..Len(head) : (head \o lines)[i] = head[i]
      /\ \A i \in 1..Len(lines) : (head \o lines)[Len(head) + i] = lines[i]
  BY <1>6, Joined
<1>5. 1 \in 1..Len(head) /\ Len(head) + Len(lines) = Len(lines) + 1
      /\ \A i \in 1..Len(lines) : Len(head) + i = i + 1
  BY <1>1, <1>2
<1> QED
  BY <1>1, <1>3, <1>4, <1>5 DEF PlainIs

\* What is above a block, and what is below it.
TopIs(a, lines, k) ==
    /\ a \in Seq(HookLine) /\ Len(a) = k + 1 /\ a[1] = "#!"
    /\ \A i \in 1..k : a[i + 1] = lines[i]
RestIs(b, lines, k) ==
    /\ b \in Seq(HookLine) /\ Len(b) = Len(lines) - k
    /\ \A i \in 1..(Len(lines) - k) : b[i] = lines[k + i]

LEMMA WithoutBlock ==
    ASSUME NEW lines \in Seq(UserLine), NEW k \in 0..Len(lines), NEW a, NEW b,
           TopIs(a, lines, k), RestIs(b, lines, k)
    PROVE  PlainIs(a \o b, lines)
<1> DEFINE n == Len(lines)
           s == a \o b
<1>1. n \in Nat
  BY UsersLines
<1>2. k \in Nat /\ k <= n /\ n - k \in Nat
  BY <1>1
<1> HIDE DEF n
<1>3. a \in Seq(HookLine) /\ b \in Seq(HookLine) /\ Len(a) = k + 1 /\ Len(b) = n - k
  BY DEF TopIs, RestIs, n
<1>8. a \in Seq(HookLine) /\ b \in Seq(HookLine)
  BY <1>3
<1>4. /\ s \in Seq(HookLine) /\ Len(s) = Len(a) + Len(b)
      /\ \A i \in 1..Len(a) : s[i] = a[i]
      /\ \A i \in 1..Len(b) : s[Len(a) + i] = b[i]
  BY <1>8, Joined
<1> HIDE DEF s
<1>5. Len(s) = n + 1
  BY <1>1, <1>2, <1>3, <1>4
<1>6. s[1] = "#!"
  <2>1. 1 \in 1..Len(a)
    BY <1>2, <1>3
  <2> QED
    BY <1>4, <2>1 DEF TopIs
<1>7. \A i \in 1..n : s[i + 1] = lines[i]
  <2> SUFFICES ASSUME NEW i \in 1..n PROVE s[i + 1] = lines[i]
    OBVIOUS
  <2>1. CASE i <= k
    <3>1. i + 1 \in 1..Len(a) /\ i \in 1..k
      BY <1>1, <1>2, <1>3, <2>1
    <3> QED
      BY <1>4, <3>1 DEF TopIs
  <2>2. CASE i > k
    <3>1. i - k \in 1..Len(b) /\ Len(a) + (i - k) = i + 1 /\ k + (i - k) = i
          /\ i - k \in 1..(n - k)
      BY <1>1, <1>2, <1>3, <2>2
    <3>2. s[Len(a) + (i - k)] = b[i - k]
      BY <1>4, <3>1
    <3>3. b[i - k] = lines[k + (i - k)]
      BY <3>1 DEF RestIs, n
    <3> QED
      BY <3>1, <3>2, <3>3
  <2> QED
    BY <1>1, <1>2, <2>1, <2>2
<1> QED
  BY <1>4, <1>5, <1>6, <1>7 DEF PlainIs, n, s

LEMMA WithBlock ==
    ASSUME NEW lines \in Seq(UserLine), NEW k \in 0..Len(lines), NEW p, NEW b,
           TopIs(p, lines, k), RestIs(b, lines, k)
    PROVE  HookedIs(p \o Hooks!Payload \o b, lines, k)
<1> DEFINE n == Len(lines)
           q == p \o Hooks!Payload
           s == q \o b
<1>1. /\ Hooks!Payload \in Seq(HookLine) /\ Len(Hooks!Payload) = 3
      /\ Hooks!Payload[1] = "# >>>" /\ Hooks!Payload[2] = "drift" /\ Hooks!Payload[3] = "# <<<"
  BY WrittenLines
<1>2. lines \in Seq(HookLine) /\ n \in Nat
  BY UsersLines
<1>5. b \in Seq(HookLine) /\ Len(b) = n - k /\ \A i \in 1..(n - k) : b[i] = lines[k + i]
  BY DEF RestIs
<1>9. k \in Nat /\ k <= n /\ n - k \in Nat
  BY <1>2 DEF n
<1>6. /\ p \in Seq(HookLine) /\ Len(p) = k + 1 /\ p[1] = "#!"
      /\ \A i \in 1..k : p[i + 1] = lines[i]
  BY DEF TopIs
<1> HIDE DEF n
<1>7. /\ q \in Seq(HookLine) /\ Len(q) = k + 4
      /\ \A i \in 1..(k + 1) : q[i] = p[i]
      /\ q[k + 2] = "# >>>" /\ q[k + 3] = "drift" /\ q[k + 4] = "# <<<"
  <2>1. /\ q \in Seq(HookLine) /\ Len(q) = (k + 1) + 3
        /\ \A i \in 1..(k + 1) : q[i] = p[i]
        /\ \A i \in 1..3 : q[(k + 1) + i] = Hooks!Payload[i]
    <3>1. p \in Seq(HookLine) /\ Hooks!Payload \in Seq(HookLine)
      BY <1>1, <1>6
    <3>2. /\ p \o Hooks!Payload \in Seq(HookLine) /\ Len(p \o Hooks!Payload) = Len(p) + Len(Hooks!Payload)
          /\ \A i \in 1..Len(p) : (p \o Hooks!Payload)[i] = p[i]
          /\ \A i \in 1..Len(Hooks!Payload) : (p \o Hooks!Payload)[Len(p) + i] = Hooks!Payload[i]
      BY <3>1, Joined
    <3>3. Len(p) = k + 1 /\ Len(Hooks!Payload) = 3
      BY <1>1, <1>6
    <3> QED
      BY <3>2, <3>3 DEF q
  <2>2. /\ 1 \in 1..3 /\ 2 \in 1..3 /\ 3 \in 1..3
        /\ (k + 1) + 1 = k + 2 /\ (k + 1) + 2 = k + 3 /\ (k + 1) + 3 = k + 4
    BY <1>9
  <2>3. q[(k + 1) + 1] = "# >>>" /\ q[(k + 1) + 2] = "drift" /\ q[(k + 1) + 3] = "# <<<"
    BY <1>1, <2>1, <2>2
  <2> QED
    BY <2>1, <2>2, <2>3
<1> HIDE DEF q
<1>8. /\ s \in Seq(HookLine) /\ Len(s) = n + 4
      /\ \A i \in 1..(k + 4) : s[i] = q[i]
      /\ \A i \in 1..(n - k) : s[(k + 4) + i] = b[i]
  <2>1. /\ s \in Seq(HookLine) /\ Len(s) = (k + 4) + (n - k)
        /\ \A i \in 1..(k + 4) : s[i] = q[i]
        /\ \A i \in 1..(n - k) : s[(k + 4) + i] = b[i]
    <3>1. q \in Seq(HookLine) /\ b \in Seq(HookLine)
      BY <1>5, <1>7
    <3>2. /\ q \o b \in Seq(HookLine) /\ Len(q \o b) = Len(q) + Len(b)
          /\ \A i \in 1..Len(q) : (q \o b)[i] = q[i]
          /\ \A i \in 1..Len(b) : (q \o b)[Len(q) + i] = b[i]
      BY <3>1, Joined
    <3>3. Len(q) = k + 4 /\ Len(b) = n - k
      BY <1>5, <1>7
    <3> QED
      BY <3>2, <3>3 DEF s
  <2>2. (k + 4) + (n - k) = n + 4
    BY <1>2, <1>9
  <2> QED
    BY <2>1, <2>2
<1> HIDE DEF s
<1>10. \A i \in 1..k : s[i + 1] = lines[i]
  <2> SUFFICES ASSUME NEW i \in 1..k PROVE s[i + 1] = lines[i]
    OBVIOUS
  <2>1. i + 1 \in 1..(k + 1) /\ i + 1 \in 1..(k + 4)
    BY <1>9
  <2> QED
    BY <1>6, <1>7, <1>8, <2>1
<1>11. \A i \in (k + 1)..n : s[i + 4] = lines[i]
  <2> SUFFICES ASSUME NEW i \in (k + 1)..n PROVE s[i + 4] = lines[i]
    OBVIOUS
  <2>1. i - k \in 1..(n - k) /\ (k + 4) + (i - k) = i + 4 /\ k + (i - k) = i
    BY <1>2, <1>9
  <2>2. s[(k + 4) + (i - k)] = b[i - k] /\ b[i - k] = lines[k + (i - k)]
    BY <1>5, <1>8, <2>1
  <2> QED
    BY <2>1, <2>2
<1>12. s[1] = "#!" /\ s[k + 2] = "# >>>" /\ s[k + 3] = "drift" /\ s[k + 4] = "# <<<"
  <2>1. 1 \in 1..(k + 4) /\ 1 \in 1..(k + 1) /\ k + 2 \in 1..(k + 4) /\ k + 3 \in 1..(k + 4)
        /\ k + 4 \in 1..(k + 4)
    BY <1>9
  <2> QED
    BY <1>6, <1>7, <1>8, <2>1
<1> QED
  BY <1>8, <1>10, <1>11, <1>12 DEF HookedIs, n, s, q

\* The lines of a hook with a block, above the block and below it.
LEMMA HookedLines ==
    ASSUME NEW lines \in Seq(UserLine), NEW k \in 0..Len(lines)
    PROVE  HookedIs(Hooks!Hooked(lines, k), lines, k)
<1> DEFINE n == Len(lines)
           head == <<"#!">>
           a == SubSeq(lines, 1, k)
           b == SubSeq(lines, k + 1, n)
           p == head \o a
<1>1. head \in Seq(HookLine) /\ Len(head) = 1 /\ head[1] = "#!"
  BY WrittenLines
<1>2. lines \in Seq(HookLine) /\ n \in Nat
  BY UsersLines
<1>3. p \o Hooks!Payload \o b = Hooks!Hooked(lines, k)
  BY DEF Hooks!Hooked, Hooks!Shebang
<1>4. a \in Seq(HookLine) /\ Len(a) = k /\ \A i \in 1..k : a[i] = lines[i]
  <2>1. /\ a \in Seq(HookLine) /\ Len(a) = k + 1 - 1
        /\ \A i \in 1..(k + 1 - 1) : a[i] = lines[1 - 1 + i]
    BY <1>2, Parted
  <2> QED
    BY <1>2, <2>1
<1>5. b \in Seq(HookLine) /\ Len(b) = n - k /\ \A i \in 1..(n - k) : b[i] = lines[k + i]
  <2>1. /\ b \in Seq(HookLine) /\ Len(b) = n + 1 - (k + 1)
        /\ \A i \in 1..(n + 1 - (k + 1)) : b[i] = lines[(k + 1) - 1 + i]
    BY <1>2, Parted
  <2> QED
    BY <1>2, <2>1
<1>9. k \in Nat /\ k <= n /\ n - k \in Nat
  BY <1>2 DEF n
<1> HIDE DEF head, a, b, n
<1>6. /\ p \in Seq(HookLine) /\ Len(p) = k + 1 /\ p[1] = "#!"
      /\ \A i \in 1..k : p[i + 1] = lines[i]
  <2>1. /\ p \in Seq(HookLine) /\ Len(p) = 1 + k
        /\ \A i \in 1..1 : p[i] = head[i]
        /\ \A i \in 1..k : p[1 + i] = a[i]
    <3>1. head \in Seq(HookLine) /\ a \in Seq(HookLine)
      BY <1>1, <1>4
    <3>2. /\ head \o a \in Seq(HookLine) /\ Len(head \o a) = Len(head) + Len(a)
          /\ \A i \in 1..Len(head) : (head \o a)[i] = head[i]
          /\ \A i \in 1..Len(a) : (head \o a)[Len(head) + i] = a[i]
      BY <3>1, Joined
    <3>3. Len(head) = 1 /\ Len(a) = k
      BY <1>1, <1>4
    <3> QED
      BY <3>2, <3>3 DEF p
  <2>2. 1 \in 1..1 /\ 1 + k = k + 1 /\ \A i \in 1..k : 1 + i = i + 1
    BY <1>9
  <2>3. p[1] = "#!"
    BY <1>1, <2>1, <2>2
  <2>4. \A i \in 1..k : p[i + 1] = lines[i]
    <3> SUFFICES ASSUME NEW i \in 1..k PROVE p[i + 1] = lines[i]
      OBVIOUS
    <3> QED
      BY <1>4, <2>1, <2>2
  <2> QED
    BY <2>1, <2>2, <2>3, <2>4
<1>7. TopIs(p, lines, k)
  BY <1>6 DEF TopIs
<1>8. RestIs(b, lines, k)
  BY <1>5 DEF RestIs, n
<1> QED
  BY <1>3, <1>7, <1>8, WithBlock

\* Its lines are all there is to a hook.
LEMMA PlainOnly ==
    ASSUME NEW lines \in Seq(UserLine), NEW s, PlainIs(s, lines)
    PROVE  s = Hooks!Plain(lines)
<1> DEFINE t == Hooks!Plain(lines)
<1>1. PlainIs(t, lines)
  BY PlainLines
<1> HIDE DEF t
<1>2. s \in Seq(HookLine) /\ t \in Seq(HookLine) /\ Len(s) = Len(t) /\ Len(lines) \in Nat
  BY <1>1, UsersLines DEF PlainIs
<1>3. \A i \in 1..Len(s) : s[i] = t[i]
  <2> SUFFICES ASSUME NEW i \in 1..(Len(lines) + 1) PROVE s[i] = t[i]
    BY DEF PlainIs
  <2>1. CASE i = 1
    BY <1>1, <2>1 DEF PlainIs
  <2>2. CASE i # 1
    <3>1. i - 1 \in 1..Len(lines) /\ (i - 1) + 1 = i
      BY <1>2, <2>2
    <3> QED
      BY <1>1, <3>1 DEF PlainIs
  <2> QED
    BY <2>1, <2>2
<1> QED
  BY <1>2, <1>3, SameLines DEF t

LEMMA HookedOnly ==
    ASSUME NEW lines \in Seq(UserLine), NEW k \in 0..Len(lines), NEW s, HookedIs(s, lines, k)
    PROVE  s = Hooks!Hooked(lines, k)
<1> DEFINE t == Hooks!Hooked(lines, k)
           n == Len(lines)
<1>1. HookedIs(t, lines, k)
  BY HookedLines
<1> HIDE DEF t
<1>4. n \in Nat
  BY UsersLines
<1>5. k \in Nat /\ k <= n
  BY <1>4
<1>6. /\ s \in Seq(HookLine) /\ t \in Seq(HookLine)
      /\ Len(s) = n + 4 /\ Len(t) = n + 4
  BY <1>1 DEF HookedIs, n
<1>2. /\ s \in Seq(HookLine) /\ t \in Seq(HookLine) /\ Len(s) = Len(t) /\ n \in Nat
      /\ Len(s) = n + 4 /\ k \in Nat /\ k <= n
  BY <1>4, <1>5, <1>6
<1>3. \A i \in 1..Len(s) : s[i] = t[i]
  <2> SUFFICES ASSUME NEW i \in 1..(n + 4) PROVE s[i] = t[i]
    BY <1>2
  <2>1. CASE i \in {1, k + 2, k + 3, k + 4}
    BY <1>1, <2>1 DEF HookedIs
  <2>2. CASE i \in 2..(k + 1)
    <3>1. i - 1 \in 1..k /\ (i - 1) + 1 = i
      BY <1>2, <2>2
    <3>2. s[(i - 1) + 1] = lines[i - 1] /\ t[(i - 1) + 1] = lines[i - 1]
      BY <1>1, <3>1 DEF HookedIs
    <3> QED
      BY <3>1, <3>2
  <2>3. CASE i \in (k + 5)..(n + 4)
    <3>1. i - 4 \in (k + 1)..n /\ (i - 4) + 4 = i
      BY <1>2, <2>3
    <3>2. s[(i - 4) + 4] = lines[i - 4] /\ t[(i - 4) + 4] = lines[i - 4]
      BY <1>1, <3>1 DEF HookedIs, n
    <3> QED
      BY <3>1, <3>2
  <2> QED
    BY <1>2, <2>1, <2>2, <2>3
<1> QED
  BY <1>2, <1>3, SameLines DEF t

\* No line of the user's is one of a block's.
LEMMA UsersAreNot ==
    ASSUME NEW x \in UserLine
    PROVE  x # "#!" /\ x # "# >>>" /\ x # "drift" /\ x # "# <<<"
BY HooksAssumption DEF HooksAssumption

\* The first of a line is where it is for the first time.
LEMMA FirstIs ==
    ASSUME NEW s \in Seq(HookLine), NEW line, NEW m \in 1..Len(s), s[m] = line,
           \A j \in 1..(m - 1) : s[j] # line
    PROVE  Hooks!Has(s, line) /\ Hooks!First(s, line) = m
<1>1. m \in DOMAIN s /\ DOMAIN s = 1..Len(s) /\ Len(s) \in Nat
  OBVIOUS
<1>2. \A i \in DOMAIN s : s[i] = line /\ (\A j \in 1..i - 1 : s[j] # line) => i = m
  <2> SUFFICES ASSUME NEW i \in 1..Len(s), s[i] = line, \A j \in 1..i - 1 : s[j] # line
               PROVE  i = m
    BY <1>1
  <2>1. ~(i < m)
    BY <1>1
  <2>2. ~(m < i)
    BY <1>1
  <2> QED
    BY <1>1, <2>1, <2>2
<1>3. Hooks!Has(s, line)
  BY <1>1 DEF Hooks!Has
<1>4. m \in DOMAIN s /\ s[m] = line /\ (\A j \in 1..m - 1 : s[j] # line)
  BY <1>1
<1>5. Hooks!First(s, line) = m
  BY <1>2, <1>4 DEF Hooks!First
<1> QED
  BY <1>3, <1>5

\* A hook without a block has no line that starts one.
LEMMA PlainHasNone ==
    ASSUME NEW lines \in Seq(UserLine), NEW s, PlainIs(s, lines)
    PROVE  ~Hooks!Has(s, "# >>>")
<1>1. Len(lines) \in Nat /\ s \in Seq(HookLine) /\ Len(s) = Len(lines) + 1
  BY UsersLines DEF PlainIs
<1>2. DOMAIN s = 1..(Len(lines) + 1)
  BY <1>1
<1>3. ASSUME NEW i \in 1..(Len(lines) + 1), s[i] = "# >>>"
      PROVE  FALSE
  <2>1. i # 1
    BY <1>3 DEF PlainIs
  <2>2. i - 1 \in 1..Len(lines) /\ (i - 1) + 1 = i
    BY <1>1, <2>1
  <2>3. s[(i - 1) + 1] = lines[i - 1]
    BY <2>2 DEF PlainIs
  <2>4. lines[i - 1] \in UserLine
    BY <2>2
  <2> QED
    BY <1>3, <2>2, <2>3, <2>4, UsersAreNot
<1> QED
  BY <1>2, <1>3 DEF Hooks!Has

\* The block of a hook is found where it is, and what is around it is kept.
LEMMA BlockIsFound ==
    ASSUME NEW lines \in Seq(UserLine), NEW k \in 0..Len(lines), NEW s, HookedIs(s, lines, k)
    PROVE  /\ Hooks!Has(s, "# >>>")
           /\ TopIs(Hooks!Above(s), lines, k) /\ RestIs(Hooks!Below(s), lines, k)
<1> DEFINE n == Len(lines)
<1>1. n \in Nat
  BY UsersLines
<1>2. k \in Nat /\ k <= n
  BY <1>1
<1>3. s \in Seq(HookLine) /\ Len(s) = n + 4
  BY DEF HookedIs
<1>4. \A j \in 1..(k + 1) : s[j] # "# >>>" /\ s[j] # "# <<<"
  <2> SUFFICES ASSUME NEW j \in 1..(k + 1) PROVE s[j] # "# >>>" /\ s[j] # "# <<<"
    OBVIOUS
  <2>1. CASE j = 1
    BY <2>1 DEF HookedIs
  <2>2. CASE j # 1
    <3>1. j - 1 \in 1..k /\ (j - 1) + 1 = j /\ j - 1 \in 1..n
      BY <1>1, <1>2, <2>2
    <3>2. s[(j - 1) + 1] = lines[j - 1]
      BY <3>1 DEF HookedIs
    <3>3. lines[j - 1] \in UserLine
      BY <3>1
    <3> QED
      BY <3>1, <3>2, <3>3, UsersAreNot
  <2> QED
    BY <2>1, <2>2
<1>5. s[k + 2] = "# >>>" /\ s[k + 3] = "drift" /\ s[k + 4] = "# <<<"
  BY DEF HookedIs
<1>6. Hooks!Has(s, "# >>>") /\ Hooks!First(s, "# >>>") = k + 2
  <2>1. k + 2 \in 1..Len(s)
    BY <1>1, <1>2, <1>3
  <2>2. (k + 2) - 1 = k + 1
    BY <1>2
  <2>3. \A j \in 1..((k + 2) - 1) : s[j] # "# >>>"
    BY <1>4, <2>2
  <2> QED
    BY <1>3, <1>5, <2>1, <2>3, FirstIs
<1>7. Hooks!Has(s, "# <<<") /\ Hooks!First(s, "# <<<") = k + 4
  <2>1. k + 4 \in 1..Len(s)
    BY <1>1, <1>2, <1>3
  <2>2. \A j \in 1..((k + 4) - 1) : s[j] # "# <<<"
    <3> SUFFICES ASSUME NEW j \in 1..((k + 4) - 1) PROVE s[j] # "# <<<"
      OBVIOUS
    <3>1. j \in 1..(k + 1) \/ j = k + 2 \/ j = k + 3
      BY <1>2
    <3> QED
      BY <1>4, <1>5, <3>1
  <2> QED
    BY <1>3, <1>5, <2>1, <2>2, FirstIs
<1> DEFINE a == SubSeq(s, 1, k + 1)
           b == SubSeq(s, k + 5, n + 4)
<1>8. Hooks!Above(s) = a
  <2>1. (k + 2) - 1 = k + 1
    BY <1>2
  <2> QED
    BY <1>6, <2>1 DEF Hooks!Above, Hooks!Before, Hooks!Start
<1>9. Hooks!Below(s) = b
  <2>1. (k + 4) + 1 = k + 5
    BY <1>2
  <2> QED
    BY <1>3, <1>7, <2>1 DEF Hooks!Below, Hooks!After, Hooks!End
<1> HIDE DEF n
<1>10. TopIs(a, lines, k)
  <2>1. k + 1 \in Int /\ 1 \in Int /\ 1 <= k + 1 + 1 /\ k + 1 <= Len(s) /\ 1 <= 1
    BY <1>1, <1>2, <1>3
  <2>2. /\ a \in Seq(HookLine) /\ Len(a) = (k + 1) + 1 - 1
        /\ \A i \in 1..((k + 1) + 1 - 1) : a[i] = s[1 - 1 + i]
    BY <1>3, <2>1, Parted
  <2> HIDE DEF a
  <2>3. a \in Seq(HookLine) /\ Len(a) = k + 1 /\ \A i \in 1..(k + 1) : a[i] = s[i]
    BY <1>2, <2>2
  <2>4. 1 \in 1..(k + 1) /\ \A i \in 1..k : i + 1 \in 1..(k + 1)
    BY <1>2
  <2> QED
    BY <2>3, <2>4 DEF TopIs, HookedIs
<1>11. RestIs(b, lines, k)
  <2>1. k + 5 \in Int /\ n + 4 \in Int /\ 1 <= k + 5 /\ k + 5 <= (n + 4) + 1 /\ n + 4 <= Len(s)
    BY <1>1, <1>2, <1>3
  <2>2. /\ b \in Seq(HookLine) /\ Len(b) = (n + 4) + 1 - (k + 5)
        /\ \A i \in 1..((n + 4) + 1 - (k + 5)) : b[i] = s[(k + 5) - 1 + i]
    BY <1>3, <2>1, Parted
  <2> HIDE DEF b
  <2>3. (n + 4) + 1 - (k + 5) = n - k
    BY <1>1, <1>2
  <2>4. ASSUME NEW i \in 1..(n - k) PROVE b[i] = lines[k + i]
    <3>1. (k + 5) - 1 + i = (k + i) + 4 /\ k + i \in (k + 1)..n
      BY <1>1, <1>2
    <3>2. s[(k + i) + 4] = lines[k + i]
      BY <3>1 DEF HookedIs, n
    <3> QED
      BY <2>2, <2>3, <3>1, <3>2
  <2> QED
    BY <2>2, <2>3, <2>4 DEF RestIs, n
<1> QED
  BY <1>6, <1>8, <1>9, <1>10, <1>11

LEMMA Appended ==
    ASSUME NEW S, NEW s \in Seq(S), NEW x \in S
    PROVE  /\ Append(s, x) \in Seq(S) /\ Len(Append(s, x)) = Len(s) + 1
           /\ \A i \in 1..Len(s) : Append(s, x)[i] = s[i]
           /\ Append(s, x)[Len(s) + 1] = x
OBVIOUS

\* A line of the user's at the end of a hook.
LEMMA AddedBelow ==
    ASSUME NEW lines \in Seq(UserLine), NEW s, NEW line \in UserLine
    PROVE  /\ Append(lines, line) \in Seq(UserLine)
           /\ PlainIs(s, lines) => PlainIs(Append(s, line), Append(lines, line))
           /\ \A k \in 0..Len(lines) :
                /\ k \in 0..Len(Append(lines, line))
                /\ HookedIs(s, lines, k) => HookedIs(Append(s, line), Append(lines, line), k)
<1> DEFINE n == Len(lines)
           t == Append(s, line)
           u == Append(lines, line)
<1>1. n \in Nat /\ line \in HookLine
  BY UsersLines DEF HookLine
<1>2. /\ u \in Seq(UserLine) /\ Len(u) = n + 1 /\ u[n + 1] = line
      /\ \A i \in 1..n : u[i] = lines[i]
  BY Appended
<1> HIDE DEF n, u
<1>3. ASSUME PlainIs(s, lines)
      PROVE  PlainIs(t, u)
  <2>1. s \in Seq(HookLine) /\ Len(s) = n + 1
    BY <1>3 DEF PlainIs, n
  <2>2. /\ t \in Seq(HookLine) /\ Len(t) = Len(s) + 1 /\ t[Len(s) + 1] = line
        /\ \A i \in 1..Len(s) : t[i] = s[i]
    <3>1. s \in Seq(HookLine) /\ line \in HookLine
      BY <1>1, <2>1
    <3> QED
      BY <3>1, Appended
  <2> HIDE DEF t
  <2>3. t[1] = "#!"
    <3>1. 1 \in 1..Len(s)
      BY <1>1, <2>1
    <3> QED
      BY <1>3, <2>2, <3>1 DEF PlainIs
  <2>4. ASSUME NEW i \in 1..(n + 1) PROVE t[i + 1] = u[i]
    <3>1. CASE i = n + 1
      BY <1>2, <2>1, <2>2, <3>1
    <3>2. CASE i # n + 1
      <4>1. i \in 1..n /\ i + 1 \in 1..Len(s)
        BY <1>1, <2>1, <3>2
      <4>2. s[i + 1] = lines[i]
        BY <1>3, <4>1 DEF PlainIs, n
      <4> QED
        BY <1>2, <2>2, <4>1, <4>2
    <3> QED
      BY <3>1, <3>2
  <2>5. Len(t) = Len(u) + 1
    BY <1>1, <1>2, <2>1, <2>2
  <2> QED
    BY <1>2, <2>2, <2>3, <2>4, <2>5 DEF PlainIs
<1>4. ASSUME NEW k \in 0..n, HookedIs(s, lines, k)
      PROVE  HookedIs(t, u, k)
  <2>1. s \in Seq(HookLine) /\ Len(s) = n + 4
    BY <1>4 DEF HookedIs, n
  <2>2. /\ t \in Seq(HookLine) /\ Len(t) = Len(s) + 1 /\ t[Len(s) + 1] = line
        /\ \A i \in 1..Len(s) : t[i] = s[i]
    <3>1. s \in Seq(HookLine) /\ line \in HookLine
      BY <1>1, <2>1
    <3> QED
      BY <3>1, Appended
  <2> HIDE DEF t
  <2>3. t[1] = "#!" /\ t[k + 2] = "# >>>" /\ t[k + 3] = "drift" /\ t[k + 4] = "# <<<"
    <3>1. 1 \in 1..Len(s) /\ k + 2 \in 1..Len(s) /\ k + 3 \in 1..Len(s) /\ k + 4 \in 1..Len(s)
      BY <1>1, <2>1
    <3> QED
      BY <1>4, <2>2, <3>1 DEF HookedIs
  <2>4. ASSUME NEW i \in 1..k PROVE t[i + 1] = u[i]
    <3>1. i \in 1..n /\ i + 1 \in 1..Len(s)
      BY <1>1, <2>1
    <3>2. s[i + 1] = lines[i]
      BY <1>4 DEF HookedIs
    <3> QED
      BY <1>2, <2>2, <3>1, <3>2
  <2>5. ASSUME NEW i \in (k + 1)..(n + 1) PROVE t[i + 4] = u[i]
    <3>1. CASE i = n + 1
      <4>1. i + 4 = Len(s) + 1
        BY <1>1, <2>1, <3>1
      <4> QED
        BY <1>2, <2>2, <3>1, <4>1
    <3>2. CASE i # n + 1
      <4>1. i \in 1..n /\ i \in (k + 1)..n /\ i + 4 \in 1..Len(s)
        BY <1>1, <2>1, <3>2
      <4>2. s[i + 4] = lines[i]
        BY <1>4, <4>1 DEF HookedIs, n
      <4> QED
        BY <1>2, <2>2, <4>1, <4>2
    <3> QED
      BY <3>1, <3>2
  <2>6. Len(t) = Len(u) + 4
    BY <1>1, <1>2, <2>1, <2>2
  <2> QED
    BY <1>2, <2>2, <2>3, <2>4, <2>5, <2>6 DEF HookedIs
<1>5. \A k \in 0..n : k \in 0..Len(u)
  BY <1>1, <1>2
<1> QED
  BY <1>2, <1>3, <1>4, <1>5 DEF n, t, u

\* A line of the user's at the top of a hook.
LEMMA AddedOnTop ==
    ASSUME NEW lines \in Seq(UserLine), NEW s \in Seq(HookLine), NEW line \in UserLine,
           1 <= Len(s)
    PROVE  LET t == <<"#!", line>> \o SubSeq(s, 2, Len(s))
               u == <<line>> \o lines
           IN  /\ u \in Seq(UserLine)
               /\ PlainIs(s, lines) => PlainIs(t, u)
               /\ \A k \in 0..Len(lines) :
                    /\ k + 1 \in 0..Len(u)
                    /\ HookedIs(s, lines, k) => HookedIs(t, u, k + 1)
<1> DEFINE n == Len(lines)
           head == <<"#!", line>>
           one == <<line>>
           rest == SubSeq(s, 2, Len(s))
           t == head \o rest
           u == one \o lines
<1>14. line \in HookLine /\ "#!" \in HookLine
  BY DEF HookLine
<1>15. n \in Nat /\ Len(s) \in Nat
  BY UsersLines
<1>1. n \in Nat /\ line \in HookLine /\ "#!" \in HookLine /\ Len(s) \in Nat
  BY <1>14, <1>15
<1>2. ASSUME NEW S, NEW x \in S
      PROVE  <<x>> \in Seq(S) /\ Len(<<x>>) = 1 /\ <<x>>[1] = x
  OBVIOUS
<1>3. ASSUME NEW S, NEW x \in S, NEW y \in S
      PROVE  <<x, y>> \in Seq(S) /\ Len(<<x, y>>) = 2 /\ <<x, y>>[1] = x /\ <<x, y>>[2] = y
  OBVIOUS
<1>4. one \in Seq(UserLine) /\ Len(one) = 1 /\ one[1] = line
  BY <1>2
<1>5. head \in Seq(HookLine) /\ Len(head) = 2 /\ head[1] = "#!" /\ head[2] = line
  BY <1>1, <1>3
<1>6. /\ rest \in Seq(HookLine) /\ Len(rest) = Len(s) + 1 - 2
      /\ \A i \in 1..(Len(s) + 1 - 2) : rest[i] = s[2 - 1 + i]
  <2>1. 2 \in Int /\ Len(s) \in Int /\ 1 <= 2 /\ 2 <= Len(s) + 1 /\ Len(s) <= Len(s)
    BY <1>1
  <2> QED
    BY <2>1, Parted
<1> HIDE DEF one, head, rest, n
<1>7. /\ u \in Seq(UserLine) /\ Len(u) = Len(one) + Len(lines)
      /\ \A i \in 1..Len(one) : u[i] = one[i]
      /\ \A i \in 1..Len(lines) : u[Len(one) + i] = lines[i]
  <2>1. one \in Seq(UserLine) /\ lines \in Seq(UserLine)
    BY <1>4
  <2> QED
    BY <2>1, Joined
<1>8. /\ t \in Seq(HookLine) /\ Len(t) = Len(head) + Len(rest)
      /\ \A i \in 1..Len(head) : t[i] = head[i]
      /\ \A i \in 1..Len(rest) : t[Len(head) + i] = rest[i]
  <2>1. head \in Seq(HookLine) /\ rest \in Seq(HookLine)
    BY <1>5, <1>6
  <2> QED
    BY <2>1, Joined
<1> HIDE DEF t, u
<1>9. /\ u \in Seq(UserLine) /\ Len(u) = n + 1 /\ u[1] = line
      /\ \A i \in 1..n : u[i + 1] = lines[i]
  <2>1. 1 \in 1..Len(one) /\ \A i \in 1..n : Len(one) + i = i + 1
    BY <1>1, <1>4
  <2>2. Len(one) + Len(lines) = n + 1
    BY <1>1, <1>4 DEF n
  <2> QED
    BY <1>4, <1>7, <2>1, <2>2 DEF n
<1>10. /\ t \in Seq(HookLine) /\ Len(t) = Len(s) + 1 /\ t[1] = "#!" /\ t[2] = line
       /\ \A i \in 2..Len(s) : t[i + 1] = s[i]
  <2>1. 1 \in 1..Len(head) /\ 2 \in 1..Len(head)
    BY <1>5
  <2>2. Len(head) + Len(rest) = Len(s) + 1
    BY <1>1, <1>5, <1>6
  <2>3. ASSUME NEW i \in 2..Len(s) PROVE t[i + 1] = s[i]
    <3>1. i - 1 \in 1..Len(rest) /\ i - 1 \in 1..(Len(s) + 1 - 2)
          /\ Len(head) + (i - 1) = i + 1 /\ 2 - 1 + (i - 1) = i
      BY <1>1, <1>5, <1>6
    <3>2. t[Len(head) + (i - 1)] = rest[i - 1] /\ rest[i - 1] = s[2 - 1 + (i - 1)]
      BY <1>6, <1>8, <3>1
    <3> QED
      BY <3>1, <3>2
  <2> QED
    BY <1>5, <1>8, <2>1, <2>2, <2>3
<1>11. ASSUME PlainIs(s, lines)
       PROVE  PlainIs(t, u)
  <2>1. Len(s) = n + 1
    BY <1>11 DEF PlainIs, n
  <2>2. ASSUME NEW i \in 1..(n + 1) PROVE t[i + 1] = u[i]
    <3>1. CASE i = 1
      BY <1>9, <1>10, <3>1
    <3>2. CASE i # 1
      <4>1. i - 1 \in 1..n /\ (i - 1) + 1 = i /\ i \in 2..Len(s)
        BY <1>1, <2>1, <3>2
      <4>2. s[(i - 1) + 1] = lines[i - 1]
        BY <1>11, <4>1 DEF PlainIs, n
      <4>3. u[(i - 1) + 1] = lines[i - 1] /\ t[i + 1] = s[i]
        BY <1>9, <1>10, <4>1
      <4> QED
        BY <4>1, <4>2, <4>3
    <3> QED
      BY <3>1, <3>2
  <2>3. Len(t) = Len(u) + 1
    BY <1>1, <1>9, <1>10, <2>1
  <2> QED
    BY <1>9, <1>10, <2>2, <2>3 DEF PlainIs
<1>12. ASSUME NEW k \in 0..n, HookedIs(s, lines, k)
       PROVE  HookedIs(t, u, k + 1)
  <2>6. k \in Nat /\ k <= n
    BY <1>1
  <2>7. Len(s) = n + 4
    BY <1>12 DEF HookedIs, n
  <2>1. Len(s) = n + 4 /\ k \in Nat /\ k <= n
    BY <2>6, <2>7
  <2>2. ASSUME NEW i \in 1..(k + 1) PROVE t[i + 1] = u[i]
    <3>1. CASE i = 1
      BY <1>9, <1>10, <3>1
    <3>2. CASE i # 1
      <4>1. i - 1 \in 1..k /\ i - 1 \in 1..n /\ (i - 1) + 1 = i /\ i \in 2..Len(s)
        BY <1>1, <2>1, <3>2
      <4>2. s[(i - 1) + 1] = lines[i - 1]
        BY <1>12, <4>1 DEF HookedIs, n
      <4>3. u[(i - 1) + 1] = lines[i - 1] /\ t[i + 1] = s[i]
        BY <1>9, <1>10, <4>1
      <4> QED
        BY <4>1, <4>2, <4>3
    <3> QED
      BY <3>1, <3>2
  <2>3. t[(k + 1) + 2] = "# >>>" /\ t[(k + 1) + 3] = "drift" /\ t[(k + 1) + 4] = "# <<<"
    <3>1. k + 2 \in 2..Len(s) /\ k + 3 \in 2..Len(s) /\ k + 4 \in 2..Len(s)
      BY <1>1, <2>1
    <3>2. /\ t[(k + 2) + 1] = s[k + 2] /\ t[(k + 3) + 1] = s[k + 3]
          /\ t[(k + 4) + 1] = s[k + 4]
      BY <1>10, <3>1
    <3>3. (k + 1) + 2 = (k + 2) + 1 /\ (k + 1) + 3 = (k + 3) + 1 /\ (k + 1) + 4 = (k + 4) + 1
      BY <2>1
    <3> QED
      BY <1>12, <3>2, <3>3 DEF HookedIs
  <2>4. ASSUME NEW i \in ((k + 1) + 1)..(n + 1) PROVE t[i + 4] = u[i]
    <3>1. /\ i - 1 \in (k + 1)..n /\ i - 1 \in 1..n /\ (i - 1) + 1 = i
          /\ i + 3 \in 2..Len(s) /\ (i - 1) + 4 = i + 3 /\ (i + 3) + 1 = i + 4
      BY <1>1, <2>1
    <3>2. s[(i - 1) + 4] = lines[i - 1]
      BY <1>12, <3>1 DEF HookedIs, n
    <3>3. u[(i - 1) + 1] = lines[i - 1] /\ t[(i + 3) + 1] = s[i + 3]
      BY <1>9, <1>10, <3>1
    <3> QED
      BY <3>1, <3>2, <3>3
  <2>5. Len(t) = Len(u) + 4
    BY <1>1, <1>9, <1>10, <2>1
  <2> QED
    BY <1>9, <1>10, <2>2, <2>3, <2>4, <2>5 DEF HookedIs
<1>13. \A k \in 0..n : k + 1 \in 0..Len(u)
  BY <1>1, <1>9
<1> QED
  BY <1>9, <1>11, <1>12, <1>13 DEF n, t, u, one, head, rest

\* The shape a hook has, as long as no line of its block is removed.
HookOf(s, lines) ==
    IF s = <<>> THEN lines = <<>>
    ELSE PlainIs(s, lines) \/ \E k \in 0..Len(lines) : HookedIs(s, lines, k)

LEMMA ShapeIs ==
    ASSUME NEW lines \in Seq(UserLine), NEW s
    PROVE  HookOf(s, lines)
             <=> IF s = <<>> THEN lines = <<>>
                 ELSE \/ s = Hooks!Plain(lines)
                      \/ \E k \in 0..Len(lines) : s = Hooks!Hooked(lines, k)
<1>1. PlainIs(s, lines) <=> s = Hooks!Plain(lines)
  BY PlainLines, PlainOnly
<1>2. \A k \in 0..Len(lines) : HookedIs(s, lines, k) <=> s = Hooks!Hooked(lines, k)
  BY HookedLines, HookedOnly
<1> QED
  BY <1>1, <1>2 DEF HookOf

\* A hook that is not there has no line.
LEMMA NotEmpty ==
    ASSUME NEW lines \in Seq(UserLine), NEW s
    PROVE  /\ PlainIs(s, lines) => s # <<>> /\ 1 <= Len(s) /\ s \in Seq(HookLine)
           /\ \A k \in 0..Len(lines) :
                HookedIs(s, lines, k) => s # <<>> /\ 1 <= Len(s) /\ s \in Seq(HookLine)
<1>1. Len(lines) \in Nat
  BY UsersLines
<1>2. ASSUME s \in Seq(HookLine), 1 <= Len(s)
      PROVE  s # <<>>
  BY <1>2
<1>3. PlainIs(s, lines) => s \in Seq(HookLine) /\ 1 <= Len(s)
  BY <1>1 DEF PlainIs
<1>5. \A k : HookedIs(s, lines, k) => s \in Seq(HookLine) /\ Len(s) = Len(lines) + 4
  BY DEF HookedIs
<1>4. \A k \in 0..Len(lines) : HookedIs(s, lines, k) => s \in Seq(HookLine) /\ 1 <= Len(s)
  BY <1>1, <1>5
<1> QED
  BY <1>2, <1>3, <1>4

LEMMA HookedShape ==
    ASSUME NEW lines \in Seq(UserLine), NEW s, NEW k \in 0..Len(lines), HookedIs(s, lines, k)
    PROVE  HookOf(s, lines)
BY NotEmpty DEF HookOf

LEMMA PlainShape ==
    ASSUME NEW lines \in Seq(UserLine), NEW s, PlainIs(s, lines)
    PROVE  HookOf(s, lines)
BY NotEmpty DEF HookOf

\* A block after the last line of a hook.
LEMMA BlockAdded ==
    ASSUME NEW lines \in Seq(UserLine), NEW s, PlainIs(s, lines)
    PROVE  HookOf(s \o Hooks!Payload, lines)
<1> DEFINE n == Len(lines)
           t == s \o Hooks!Payload
<1>1. n \in Nat
  BY UsersLines
<1>2. /\ Hooks!Payload \in Seq(HookLine) /\ Len(Hooks!Payload) = 3
      /\ Hooks!Payload[1] = "# >>>" /\ Hooks!Payload[2] = "drift" /\ Hooks!Payload[3] = "# <<<"
  BY WrittenLines
<1>3. s \in Seq(HookLine) /\ Len(s) = n + 1 /\ s[1] = "#!"
      /\ \A i \in 1..n : s[i + 1] = lines[i]
  BY DEF PlainIs
<1> HIDE DEF n
<1>4. /\ t \in Seq(HookLine) /\ Len(t) = Len(s) + Len(Hooks!Payload)
      /\ \A i \in 1..Len(s) : t[i] = s[i]
      /\ \A i \in 1..Len(Hooks!Payload) : t[Len(s) + i] = Hooks!Payload[i]
  <2>1. s \in Seq(HookLine) /\ Hooks!Payload \in Seq(HookLine)
    BY <1>2, <1>3
  <2> QED
    BY <2>1, Joined
<1> HIDE DEF t
<1>12. Len(Hooks!Payload) = 3
  BY <1>2
<1>13. Len(t) = Len(s) + Len(Hooks!Payload) /\ Len(s) = n + 1
  BY <1>3, <1>4
<1>5. Len(t) = n + 4
  BY <1>1, <1>12, <1>13
<1>6. /\ t[1] = "#!" /\ \A i \in 1..n : t[i + 1] = lines[i]
  <2>1. 1 \in 1..Len(s) /\ \A i \in 1..n : i + 1 \in 1..Len(s)
    BY <1>1, <1>3
  <2> QED
    BY <1>3, <1>4, <2>1
<1>7. t[n + 2] = "# >>>" /\ t[n + 3] = "drift" /\ t[n + 4] = "# <<<"
  <2>1. 1 \in 1..Len(Hooks!Payload) /\ 2 \in 1..Len(Hooks!Payload) /\ 3 \in 1..Len(Hooks!Payload)
    BY <1>12
  <2>2. Len(s) + 1 = n + 2 /\ Len(s) + 2 = n + 3 /\ Len(s) + 3 = n + 4
    BY <1>1, <1>3
  <2>3. t[Len(s) + 1] = Hooks!Payload[1] /\ t[Len(s) + 2] = Hooks!Payload[2] /\ t[Len(s) + 3] = Hooks!Payload[3]
    BY <1>4, <2>1
  <2> QED
    BY <1>2, <2>2, <2>3
<1>8. \A i \in (n + 1)..n : t[i + 4] = lines[i]
  BY <1>1
<1>9. n \in 0..Len(lines)
  BY <1>1 DEF n
<1>10. HookedIs(t, lines, n)
  BY <1>4, <1>5, <1>6, <1>7, <1>8 DEF HookedIs, n
<1>11. HookOf(t, lines)
  BY <1>9, <1>10, HookedShape
<1> QED
  BY <1>11 DEF t

LEMMA ShebangIs == PlainIs(<<"#!">>, <<>>)
<1> DEFINE e == <<>>
           h == <<"#!">>
<1>1. h \in Seq(HookLine) /\ Len(h) = 1 /\ h[1] = "#!"
  BY WrittenLines
<1>2. Len(e) = 0
  OBVIOUS
<1> HIDE DEF e, h
<1>3. Len(h) = Len(e) + 1 /\ \A i \in 1..Len(e) : h[i + 1] = e[i]
  BY <1>1, <1>2
<1>4. PlainIs(h, e)
  BY <1>1, <1>3 DEF PlainIs
<1> QED
  BY <1>4 DEF h, e

\* The first hook of the user's own.
LEMMA FirstHook ==
    ASSUME NEW line \in UserLine
    PROVE  /\ PlainIs(<<"#!", line>>, Append(<<>>, line)) /\ Append(<<>>, line) \in Seq(UserLine)
<1>1. <<>> \in Seq(UserLine) /\ Len(<<>>) = 0
  OBVIOUS
<1>2. PlainIs(<<"#!">>, <<>>)
  BY ShebangIs
<1>3. PlainIs(Append(<<"#!">>, line), Append(<<>>, line)) /\ Append(<<>>, line) \in Seq(UserLine)
  BY <1>1, <1>2, AddedBelow
<1>4. ASSUME NEW S, NEW x \in S, NEW y \in S
      PROVE  Append(<<x>>, y) = <<x, y>>
  <2>1. <<x>> \in Seq(S) /\ Len(<<x>>) = 1 /\ <<x>>[1] = x
    OBVIOUS
  <2>2. <<x, y>> \in Seq(S) /\ Len(<<x, y>>) = 2 /\ <<x, y>>[1] = x /\ <<x, y>>[2] = y
    OBVIOUS
  <2> DEFINE u == Append(<<x>>, y)
  <2>3. u \in Seq(S) /\ Len(u) = 2 /\ u[1] = x /\ u[2] = y
    BY <2>1, Appended
  <2> HIDE DEF u
  <2>4. u = <<x, y>>
    BY <2>2, <2>3, SameLines
  <2> QED
    BY <2>4 DEF u
<1>5. "#!" \in HookLine /\ line \in HookLine
  BY DEF HookLine
<1>6. Append(<<"#!">>, line) = <<"#!", line>>
  BY <1>4, <1>5
<1> QED
  BY <1>1, <1>2, <1>3, <1>6

\* Installing puts the one block into a hook, or puts it where it is.
LEMMA InstallKeeps ==
    ASSUME NEW lines \in Seq(UserLine), NEW s, HookOf(s, lines)
    PROVE  /\ s = <<>> => HookOf(<<"#!">> \o Hooks!Payload, lines)
           /\ s # <<>> /\ ~Hooks!Has(s, "# >>>") => HookOf(s \o Hooks!Payload, lines)
           /\ s # <<>> /\ Hooks!Has(s, "# >>>") =>
                HookOf(Hooks!Above(s) \o Hooks!Payload \o Hooks!Below(s), lines)
<1>1. ASSUME s = <<>>
      PROVE  HookOf(<<"#!">> \o Hooks!Payload, lines)
  <2>1. lines = <<>>
    BY <1>1 DEF HookOf
  <2>2. <<>> \in Seq(UserLine)
    OBVIOUS
  <2>3. PlainIs(<<"#!">>, <<>>)
    BY ShebangIs
  <2> QED
    BY <2>1, <2>2, <2>3, BlockAdded
<1>2. ASSUME s # <<>>, ~Hooks!Has(s, "# >>>")
      PROVE  HookOf(s \o Hooks!Payload, lines)
  <2>1. \A k \in 0..Len(lines) : ~HookedIs(s, lines, k)
    BY <1>2, BlockIsFound
  <2>2. PlainIs(s, lines)
    BY <1>2, <2>1 DEF HookOf
  <2> QED
    BY <2>2, BlockAdded
<1>3. ASSUME s # <<>>, Hooks!Has(s, "# >>>")
      PROVE  HookOf(Hooks!Above(s) \o Hooks!Payload \o Hooks!Below(s), lines)
  <2>1. PICK k \in 0..Len(lines) : HookedIs(s, lines, k)
    BY <1>3, PlainHasNone DEF HookOf
  <2>2. TopIs(Hooks!Above(s), lines, k) /\ RestIs(Hooks!Below(s), lines, k)
    BY <2>1, BlockIsFound
  <2>3. HookedIs(Hooks!Above(s) \o Hooks!Payload \o Hooks!Below(s), lines, k)
    BY <2>2, WithBlock
  <2> QED
    BY <2>3, HookedShape
<1> QED
  BY <1>1, <1>2, <1>3

LEMMA OnlyOne == \A n \in Nat : n + 1 = 1 => n = 0
OBVIOUS

\* Uninstalling leaves the user's lines, and the hook goes only when there is none.
LEMMA UninstallKeeps ==
    ASSUME NEW lines \in Seq(UserLine), NEW s, HookOf(s, lines), s # <<>>,
           Hooks!Has(s, "# >>>")
    PROVE  LET rest == Hooks!Above(s) \o Hooks!Below(s)
           IN  HookOf(IF rest \in {<<>>, <<"#!">>} THEN <<>> ELSE rest, lines)
<1> DEFINE rest == Hooks!Above(s) \o Hooks!Below(s)
<1>1. PICK k \in 0..Len(lines) : HookedIs(s, lines, k)
  BY PlainHasNone DEF HookOf
<1>2. TopIs(Hooks!Above(s), lines, k) /\ RestIs(Hooks!Below(s), lines, k)
  BY <1>1, BlockIsFound
<1>3. PlainIs(rest, lines)
  BY <1>2, WithoutBlock
<1> HIDE DEF rest
<1>4. rest # <<>> /\ HookOf(rest, lines)
  BY <1>3, NotEmpty, PlainShape
<1>5. ASSUME rest = <<"#!">>
      PROVE  lines = <<>>
  <2>1. Len(<<"#!">>) = 1
    BY WrittenLines
  <2>2. Len(rest) = Len(lines) + 1
    BY <1>3 DEF PlainIs
  <2>3. Len(rest) = 1
    BY <1>5, <2>1
  <2>4. Len(lines) \in Nat
    BY UsersLines
  <2>5. Len(lines) + 1 = 1
    BY <2>2, <2>3
  <2>6. Len(lines) = 0
    BY <2>4, <2>5, OnlyOne, Zenon
  <2> QED
    BY <2>6, EmptySeq
<1>6. rest = <<"#!">> => HookOf(<<>>, lines)
  BY <1>5 DEF HookOf
<1> QED
  BY <1>4, <1>6 DEF rest

\* An edit of the user's is seen in the lines and in the hook alike.
LEMMA WriteKeeps ==
    ASSUME NEW lines \in Seq(UserLine), NEW s, HookOf(s, lines), NEW line \in UserLine
    PROVE  /\ Append(lines, line) \in Seq(UserLine) /\ <<line>> \o lines \in Seq(UserLine)
           /\ s = <<>> => HookOf(<<"#!", line>>, Append(lines, line))
           /\ s # <<>> => HookOf(Append(s, line), Append(lines, line))
           /\ s # <<>> =>
                HookOf(<<"#!", line>> \o SubSeq(s, 2, Len(s)), <<line>> \o lines)
<1>1. Append(lines, line) \in Seq(UserLine)
  BY AddedBelow
<1>2. <<line>> \o lines \in Seq(UserLine)
  <2>1. ASSUME NEW S, NEW x \in S PROVE <<x>> \in Seq(S)
    OBVIOUS
  <2>2. <<line>> \in Seq(UserLine)
    BY <2>1
  <2> QED
    BY <2>2, Joined
<1>3. ASSUME s = <<>>
      PROVE  HookOf(<<"#!", line>>, Append(lines, line))
  <2>1. lines = <<>>
    BY <1>3 DEF HookOf
  <2>2. PlainIs(<<"#!", line>>, Append(<<>>, line)) /\ Append(<<>>, line) \in Seq(UserLine)
    BY FirstHook
  <2> QED
    BY <2>1, <2>2, PlainShape
<1>4. ASSUME s # <<>>
      PROVE  HookOf(Append(s, line), Append(lines, line))
  <2>1. CASE PlainIs(s, lines)
    BY <1>1, <2>1, AddedBelow, PlainShape
  <2>2. CASE \E k \in 0..Len(lines) : HookedIs(s, lines, k)
    <3>1. PICK k \in 0..Len(lines) : HookedIs(s, lines, k)
      BY <2>2
    <3>2. k \in 0..Len(Append(lines, line)) /\ HookedIs(Append(s, line), Append(lines, line), k)
      BY <3>1, AddedBelow
    <3> QED
      BY <1>1, <3>2, HookedShape
  <2> QED
    BY <1>4, <2>1, <2>2 DEF HookOf
<1>5. ASSUME s # <<>>
      PROVE  HookOf(<<"#!", line>> \o SubSeq(s, 2, Len(s)), <<line>> \o lines)
  <2> DEFINE t == <<"#!", line>> \o SubSeq(s, 2, Len(s))
             u == <<line>> \o lines
  <2>1. 1 <= Len(s) /\ s \in Seq(HookLine)
    BY <1>5, NotEmpty DEF HookOf
  <2>2. /\ PlainIs(s, lines) => PlainIs(t, u)
        /\ \A k \in 0..Len(lines) :
             k + 1 \in 0..Len(u) /\ (HookedIs(s, lines, k) => HookedIs(t, u, k + 1))
    BY <2>1, AddedOnTop
  <2>3. u \in Seq(UserLine)
    BY <1>2
  <2> HIDE DEF t, u
  <2>4. ASSUME PlainIs(s, lines) PROVE HookOf(t, u)
    <3>1. PlainIs(t, u)
      BY <2>2, <2>4
    <3> QED
      BY <2>3, <3>1, PlainShape
  <2>5. ASSUME NEW k \in 0..Len(lines), HookedIs(s, lines, k) PROVE HookOf(t, u)
    <3>2. \E m \in 0..Len(u) : HookedIs(t, u, m)
      BY <2>2, <2>5
    <3>3. PICK m \in 0..Len(u) : HookedIs(t, u, m)
      BY <3>2
    <3> QED
      BY <2>3, <3>3, HookedShape
  <2>6. HookOf(t, u)
    BY <1>5, <2>4, <2>5 DEF HookOf
  <2> QED
    BY <2>6 DEF t, u
<1> QED
  BY <1>1, <1>2, <1>3, <1>4, <1>5

LEMMA HookInvariantIs ==
    Hooks!IInv <=> own \in Seq(UserLine) /\ (~meddled => HookOf(script, own))
BY ShapeIs DEF Hooks!IInv, Hooks!HookKeepsTheUsers, Hooks!NoHook

LEMMA HookInvariantIsNext ==
    Hooks!IInv' <=> own' \in Seq(UserLine) /\ (~meddled' => HookOf(script', own'))
BY ShapeIs DEF Hooks!IInv, Hooks!HookKeepsTheUsers, Hooks!NoHook

LEMMA HookSteps ==
    ASSUME Hooks!IInv, [Hooks!Next]_(Hooks!hookVars)
    PROVE  Hooks!IInv'
<1>1. own \in Seq(UserLine) /\ (~meddled => HookOf(script, own))
  BY HookInvariantIs
<1> SUFFICES own' \in Seq(UserLine) /\ (~meddled' => HookOf(script', own'))
  BY HookInvariantIsNext
<1>2. ASSUME NEW force \in BOOLEAN, Hooks!Install(force)
      PROVE  own' \in Seq(UserLine) /\ (~meddled' => HookOf(script', own'))
  <2>1. own' = own /\ meddled' = meddled
    BY <1>2 DEF Hooks!Install
  <2>2. ASSUME ~meddled PROVE HookOf(script', own)
    <3>1. HookOf(script, own)
      BY <1>1, <2>2
    <3>2. CASE script = <<>>
      <4>1. script' = <<"#!">> \o Hooks!Payload
        BY <1>2, <3>2 DEF Hooks!Install, Hooks!NoHook, Hooks!Shebang
      <4> QED
        BY <1>1, <3>1, <3>2, <4>1, InstallKeeps
    <3>3. CASE script # <<>> /\ ~Hooks!Has(script, "# >>>")
      <4>1. script' = script \o Hooks!Payload
        BY <1>2, <3>3 DEF Hooks!Install, Hooks!NoHook, Hooks!Start
      <4> QED
        BY <1>1, <3>1, <3>3, <4>1, InstallKeeps
    <3>4. CASE script # <<>> /\ Hooks!Has(script, "# >>>")
      <4>1. \/ script' = Hooks!Above(script) \o Hooks!Payload \o Hooks!Below(script)
            \/ script' = script
        BY <1>2, <3>4 DEF Hooks!Install, Hooks!NoHook, Hooks!Start
      <4> QED
        BY <1>1, <3>1, <3>4, <4>1, InstallKeeps
    <3> QED
      BY <3>2, <3>3, <3>4
  <2> QED
    BY <1>1, <2>1, <2>2
<1>3. ASSUME Hooks!Uninstall
      PROVE  own' \in Seq(UserLine) /\ (~meddled' => HookOf(script', own'))
  <2> DEFINE rest == Hooks!Above(script) \o Hooks!Below(script)
  <2>1. /\ script # <<>> /\ Hooks!Has(script, "# >>>")
        /\ script' = IF rest \in {<<>>, <<"#!">>} THEN <<>> ELSE rest
        /\ meddled' = (meddled /\ script' # <<>>)
        /\ own' = IF meddled /\ script' = <<>> THEN <<>> ELSE own
    BY <1>3 DEF Hooks!Uninstall, Hooks!NoHook, Hooks!Start, Hooks!Shebang
  <2> HIDE DEF rest
  <2>2. CASE meddled
    <3>3. <<>> \in Seq(UserLine)
      OBVIOUS
    <3>1. own' \in Seq(UserLine)
      BY <1>1, <2>1, <3>3
    <3>2. ~meddled' => script' = <<>> /\ own' = <<>>
      BY <2>1, <2>2
    <3> QED
      BY <3>1, <3>2 DEF HookOf
  <2>3. CASE ~meddled
    <3>1. own' = own /\ HookOf(script, own)
      BY <1>1, <2>1, <2>3
    <3>2. HookOf(IF rest \in {<<>>, <<"#!">>} THEN <<>> ELSE rest, own)
      BY <1>1, <2>1, <3>1, UninstallKeeps DEF rest
    <3>3. HookOf(script', own)
      BY <2>1, <3>2
    <3> QED
      BY <1>1, <3>1, <3>3
  <2> QED
    BY <2>2, <2>3
<1>4. ASSUME NEW line \in UserLine, Hooks!Write(line)
      PROVE  own' \in Seq(UserLine) /\ (~meddled' => HookOf(script', own'))
  <2>1. HookOf(script, own)
    BY <1>1, <1>4 DEF Hooks!Write
  <2>2. \/ /\ script = <<>>
           /\ script' = <<"#!", line>> /\ own' = Append(own, line)
        \/ /\ script # <<>>
           /\ script' = Append(script, line) /\ own' = Append(own, line)
        \/ /\ script # <<>>
           /\ script' = <<"#!", line>> \o SubSeq(script, 2, Len(script))
           /\ own' = <<line>> \o own
    <3>1. 1 + 1 = 2
      OBVIOUS
    <3> QED
      BY <1>4, <3>1 DEF Hooks!Write, Hooks!NoHook, Hooks!Shebang, Hooks!After
  <2> QED
    BY <1>1, <2>1, <2>2, WriteKeeps
<1>5. ASSUME Hooks!Meddle
      PROVE  own' \in Seq(UserLine) /\ (~meddled' => HookOf(script', own'))
  BY <1>1, <1>5 DEF Hooks!Meddle
<1>6. ASSUME \/ Hooks!Disable \/ Hooks!InstallAliases \/ Hooks!UninstallAliases
             \/ Hooks!OwnAlias \/ UNCHANGED Hooks!hookVars
      PROVE  own' \in Seq(UserLine) /\ (~meddled' => HookOf(script', own'))
  <2>1. UNCHANGED <<script, own, meddled>>
    BY <1>6 DEF Hooks!Disable, Hooks!InstallAliases, Hooks!UninstallAliases, Hooks!OwnAlias,
                Hooks!hookVars
  <2> QED
    BY <1>1, <2>1
<1> QED
  BY <1>2, <1>3, <1>4, <1>5, <1>6 DEF Hooks!Next

LEMMA HookStarts == Hooks!Init => Hooks!IInv
<1> SUFFICES ASSUME Hooks!Init PROVE Hooks!IInv
  OBVIOUS
<1>1. script = <<>> /\ own = <<>>
  BY DEF Hooks!Init, Hooks!NoHook
<1>2. HookOf(script, own) /\ own \in Seq(UserLine)
  BY <1>1 DEF HookOf
<1> QED
  BY <1>2, HookInvariantIs

\* Whatever order installs, forced installs, uninstalls and the user's edits come in, the hook
\* (hooks.py) keeps every line of the user's, in order, beside at most one block, as long as
\* the user leaves the block's own lines alone.
THEOREM HookStaysTheUsers == Hooks!Spec => []HookKeepsTheUsers
<1>1. Hooks!IInv => HookKeepsTheUsers
  BY DEF Hooks!IInv, HookKeepsTheUsers
<1> QED
  BY <1>1, HookStarts, HookSteps, PTL DEF Hooks!Spec
================================================================================
