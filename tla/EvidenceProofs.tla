----------------------------- MODULE EvidenceProofs -----------------------------
(***************************************************************************)
(* Theorems about the components that evidence passes through, each for    *)
(* every value of its constants: the corpus that the watcher and `init`    *)
(* make of a repository, the pages a client reads, the route and the       *)
(* skills a request is given, and the documents made from GitHub.          *)
(***************************************************************************)
EXTENDS Evidence, ListProofs, Integers, SequenceTheorems, FiniteSetTheorems, TLAPS

--------------------------------------------------------------------------------
(* The corpus *)

\* What one command does leaves the other where it is.
LEMMA JobMoves ==
    ASSUME Watch!Shape, NEW p \in Watch!Process, NEW k, Watch!Shaped(k), Watch!Goes(p, k)
    PROVE  /\ job' = [q \in Watch!Process |-> job'[q]]
           /\ job'[p] = k
           /\ \A q \in Watch!Process \ {p} : job'[q] = job[q]
           /\ \A q \in Watch!Process : Watch!Shaped(job'[q])
BY DEF Watch!Shape, Watch!Goes

\* What a command becomes at each step still is one.
LEMMA StepShaped ==
    ASSUME NEW k, Watch!Shaped(k), NEW step
    PROVE  LET m == [k EXCEPT !.step = step]
           IN  /\ Watch!Shaped(m) /\ m.step = step /\ m.todo = k.todo
               /\ m.staged = k.staged /\ m.print = k.print /\ m.read = k.read
BY DEF Watch!Shaped

LEMMA WroteShaped ==
    ASSUME NEW k, Watch!Shaped(k), NEW c
    PROVE  LET m == [k EXCEPT !.todo = @ \ {c}, !.read.notes = @ \cup {c}]
           IN  /\ Watch!Shaped(m) /\ m.step = k.step /\ m.todo = k.todo \ {c}
               /\ m.staged = k.staged /\ m.print = k.print
               /\ m.read.notes = k.read.notes \cup {c} /\ m.read.adrs = k.read.adrs
BY DEF Watch!Shaped

LEMMA IdleShaped ==
    /\ Watch!Shaped(Watch!Idle) /\ Watch!Idle.step = "idle"
    /\ Watch!Idle.print = Watch!NoPrint /\ Watch!Idle.todo = {} /\ Watch!Idle.staged = {}
    /\ Watch!Idle.read = Watch!NoIndex
    /\ Watch!NoPrint.head = {0} /\ Watch!NoPrint.moves = 0
    /\ Watch!NoIndex.notes = {} /\ Watch!NoIndex.adrs = {}
BY DEF Watch!Shaped, Watch!Idle, Watch!NoPrint, Watch!NoIndex

\* Init, and everything the repository does.
LEMMA WatchStarts == Watch!Init => Watch!IInv
<1> SUFFICES ASSUME Watch!Init PROVE Watch!IInv
  OBVIOUS
<1>1. Watch!Shape
  BY IdleShaped DEF Watch!Init, Watch!Shape
<1>2. \A p \in Watch!Process : job[p] = Watch!Idle
  BY DEF Watch!Init
<1>3. Watch!OnePublishes /\ Watch!NotesGrow
  BY <1>2, IdleShaped DEF Watch!Init, Watch!OnePublishes, Watch!NotesGrow, Watch!At, Watch!Process
<1>4. Watch!SyncCovers /\ Watch!OneTree
  BY <1>2, IdleShaped DEF Watch!SyncCovers, Watch!OneTree, Watch!Process
<1>5. Watch!DealtWith
  BY IdleShaped DEF Watch!Init, Watch!DealtWith
<1> QED
  BY <1>1, <1>3, <1>4, <1>5 DEF Watch!IInv

LEMMA MoveKeeps ==
    ASSUME Watch!IInv, NEW S \in SUBSET Commit \ {{}}, Watch!Move(S)
    PROVE  Watch!IInv'
<1>1. moves' = moves + 1 /\ moves \in Nat /\ UNCHANGED <<notes, adrs, active, job, last>>
  BY DEF Watch!Move, Watch!IInv, Watch!Shape
<1>2. Watch!Shape'
  BY <1>1 DEF Watch!IInv, Watch!Shape, Watch!Shaped
<1>3. Watch!OnePublishes' /\ Watch!NotesGrow' /\ Watch!OneTree'
  BY <1>1 DEF Watch!IInv, Watch!OnePublishes, Watch!NotesGrow, Watch!OneTree, Watch!At
<1>4. Watch!SyncCovers'
  BY <1>1 DEF Watch!IInv, Watch!SyncCovers
<1>5. Watch!DealtWith'
  BY <1>1 DEF Watch!IInv, Watch!DealtWith
<1> QED
  BY <1>2, <1>3, <1>4, <1>5 DEF Watch!IInv

\* How a command ends.
LEMMA EndsIdle ==
    ASSUME Watch!Shape, NEW p \in Watch!Process, NEW ok \in BOOLEAN, Watch!Ends(p, ok),
           UNCHANGED moves, moves = 0 => head' = {}
    PROVE  /\ Watch!Shape'
           /\ job'[p].step = IF p = "init" /\ ok THEN "done" ELSE "idle"
           /\ job'[p].staged = job[p].staged
           /\ \A q \in Watch!Process \ {p} : job'[q] = job[q]
<1> DEFINE step == IF p = "init" /\ ok THEN "done" ELSE "idle"
           staged == job[p].staged
           k == [Watch!Idle EXCEPT !.step = step, !.staged = staged]
<1>1. Watch!Goes(p, k)
  BY DEF Watch!Ends
<1> HIDE DEF step, staged
<1>2. Watch!Shaped(k) /\ k.step = step /\ k.staged = staged
  BY IdleShaped DEF Watch!Shaped
<1> HIDE DEF k
<1>3. Watch!Shape' /\ job'[p] = k /\ \A q \in Watch!Process \ {p} : job'[q] = job[q]
  BY <1>1, <1>2, JobMoves DEF Watch!Shape
<1>4. QED
  BY <1>2, <1>3 DEF step, staged

\* A command that fails leaves the index as it was.
LEMMA FailsKeeps ==
    ASSUME Watch!IInv, NEW p \in Watch!Process, Watch!Fails(p)
    PROVE  Watch!IInv'
<1>1. /\ UNCHANGED <<head, moves, notes, adrs, active>> /\ Watch!Ends(p, FALSE)
      /\ job[p].step \in {"write", "stage", "remove", "index", "promote", "publish"}
  BY DEF Watch!Fails
<1>2. /\ Watch!Shape' /\ job'[p].step = "idle"
      /\ \A q \in Watch!Process \ {p} : job'[q] = job[q]
  BY <1>1, EndsIdle DEF Watch!IInv, Watch!Shape
<1>3. Watch!OnePublishes' /\ Watch!NotesGrow'
  BY <1>1, <1>2 DEF Watch!IInv, Watch!OnePublishes, Watch!NotesGrow, Watch!At, Watch!Process
<1>4. Watch!SyncCovers'
  BY <1>1, <1>2 DEF Watch!IInv, Watch!SyncCovers, Watch!Process
<1>5. Watch!OneTree'
  BY <1>1, <1>2 DEF Watch!IInv, Watch!OneTree, Watch!At, Watch!Process
<1>6. Watch!DealtWith'
  <2>1. CASE p = "watch"
    BY <1>1, <2>1 DEF Watch!IInv, Watch!DealtWith, Watch!SyncCovers, Watch!Ends, Watch!Process
  <2>2. CASE p = "init"
    BY <1>1, <2>2 DEF Watch!IInv, Watch!DealtWith, Watch!Ends
  <2> QED
    BY <2>1, <2>2 DEF Watch!Process
<1> QED
  BY <1>2, <1>3, <1>4, <1>5, <1>6 DEF Watch!IInv

\* What is published covers what the watcher has dealt with, and has the ADRs of the tree.
LEMMA PublishKeeps ==
    ASSUME Watch!IInv, NEW p \in Watch!Process, Watch!Publish(p)
    PROVE  Watch!IInv'
<1>1. /\ UNCHANGED <<head, moves, notes, adrs>> /\ Watch!Ends(p, TRUE)
      /\ job[p].step = "publish" /\ active' = job[p].read
  BY DEF Watch!Publish, Watch!At
<1>2. /\ Watch!Shape' /\ job'[p].step = (IF p = "init" THEN "done" ELSE "idle")
      /\ job'[p].staged = job[p].staged
      /\ \A q \in Watch!Process \ {p} : job'[q] = job[q]
  BY <1>1, EndsIdle DEF Watch!IInv, Watch!Shape
<1>3. Watch!OnePublishes'
  BY <1>1, <1>2 DEF Watch!OnePublishes, Watch!At, Watch!Process
<1>4. /\ \A q \in Watch!Process : job'[q].step # "publish"
      /\ active.notes \subseteq active'.notes /\ active'.notes \subseteq notes
  BY <1>1, <1>2 DEF Watch!IInv, Watch!OnePublishes, Watch!NotesGrow, Watch!At, Watch!Process
<1>5. Watch!NotesGrow'
  BY <1>1, <1>4 DEF Watch!NotesGrow, Watch!At
<1>6. Watch!SyncCovers'
  BY <1>1, <1>2 DEF Watch!IInv, Watch!SyncCovers, Watch!Process
<1>7. Watch!OneTree'
  <2>1. CASE p = "watch"
    BY <1>1, <1>2, <1>4, <2>1 DEF Watch!IInv, Watch!OneTree, Watch!At, Watch!Process
  <2>2. CASE p = "init"
    BY <1>1, <1>2, <1>4, <2>2 DEF Watch!IInv, Watch!OneTree, Watch!At, Watch!Process
  <2> QED
    BY <2>1, <2>2 DEF Watch!Process
<1>8. Watch!DealtWith'
  <2>1. CASE p = "watch"
    BY <1>1, <2>1 DEF Watch!IInv, Watch!DealtWith, Watch!SyncCovers, Watch!Ends, Watch!Process
  <2>2. CASE p = "init"
    BY <1>1, <1>4, <2>2 DEF Watch!IInv, Watch!DealtWith, Watch!Ends
  <2> QED
    BY <2>1, <2>2 DEF Watch!Process
<1> QED
  BY <1>2, <1>3, <1>5, <1>6, <1>7, <1>8 DEF Watch!IInv

\* The documents of the commits that were read, one by one.
LEMMA WritesKeep ==
    ASSUME Watch!IInv, NEW p \in Watch!Process,
           Watch!ReadLog(p) \/ Watch!Exits(p) \/ Watch!Written(p)
             \/ \E c \in Commit : Watch!WriteNote(p, c)
    PROVE  Watch!IInv'
<1>1. Watch!Shape /\ Watch!Shaped(job[p])
  BY DEF Watch!IInv, Watch!Shape
<1>2. CASE Watch!ReadLog(p)
  <2> DEFINE k == [job[p] EXCEPT !.step = "write", !.todo = head \cap Bodied]
  <2>1. /\ Watch!Goes(p, k) /\ job[p].step = "log"
        /\ UNCHANGED <<head, moves, notes, adrs, active, last>>
    BY <1>2 DEF Watch!ReadLog, Watch!At
  <2>2. /\ Watch!Shaped(k) /\ k.step = "write" /\ k.todo = head \cap Bodied
        /\ k.print = job[p].print /\ k.read = job[p].read
    BY <1>1 DEF Watch!Shaped
  <2> HIDE DEF k
  <2>3. job'[p] = k /\ (\A q \in Watch!Process \ {p} : job'[q] = job[q]) /\ Watch!Shape'
    BY <1>1, <2>1, <2>2, JobMoves DEF Watch!Shape
  <2>4. Watch!OnePublishes' /\ Watch!NotesGrow' /\ Watch!OneTree'
    BY <2>1, <2>2, <2>3
       DEF Watch!IInv, Watch!OnePublishes, Watch!NotesGrow, Watch!OneTree, Watch!At, Watch!Process
  <2>5. Watch!SyncCovers'
    BY <2>1, <2>2, <2>3 DEF Watch!IInv, Watch!SyncCovers, Watch!Process
  <2>6. Watch!DealtWith'
    BY <2>1 DEF Watch!IInv, Watch!DealtWith
  <2> QED
    BY <2>3, <2>4, <2>5, <2>6 DEF Watch!IInv
<1>3. CASE Watch!Exits(p)
  <2>1. /\ Watch!Goes(p, Watch!Idle) /\ job[p].step = "log"
        /\ UNCHANGED <<head, moves, notes, adrs, active, last>>
    BY <1>3 DEF Watch!Exits, Watch!At
  <2>2. /\ job'[p] = Watch!Idle /\ (\A q \in Watch!Process \ {p} : job'[q] = job[q])
        /\ Watch!Shape'
    BY <1>1, <2>1, IdleShaped, JobMoves DEF Watch!Shape
  <2>3. Watch!OnePublishes' /\ Watch!NotesGrow' /\ Watch!OneTree'
    BY <2>1, <2>2, IdleShaped
       DEF Watch!IInv, Watch!OnePublishes, Watch!NotesGrow, Watch!OneTree, Watch!At, Watch!Process
  <2>4. Watch!SyncCovers'
    BY <2>1, <2>2, IdleShaped DEF Watch!IInv, Watch!SyncCovers, Watch!Process
  <2>5. Watch!DealtWith'
    BY <2>1 DEF Watch!IInv, Watch!DealtWith
  <2> QED
    BY <2>2, <2>3, <2>4, <2>5 DEF Watch!IInv
<1>4. ASSUME NEW c \in Commit, Watch!WriteNote(p, c)
      PROVE  Watch!IInv'
  <2> DEFINE k == [job[p] EXCEPT !.todo = @ \ {c}, !.read.notes = @ \cup {c}]
  <2>1. /\ Watch!Goes(p, k) /\ job[p].step = "write" /\ notes' = notes \cup {c}
        /\ UNCHANGED <<head, moves, adrs, active, last>>
    BY <1>4 DEF Watch!WriteNote, Watch!At
  <2>2. /\ Watch!Shaped(k) /\ k.step = job[p].step /\ k.todo = job[p].todo \ {c}
        /\ k.print = job[p].print /\ k.read.notes = job[p].read.notes \cup {c}
    BY <1>1, WroteShaped
  <2> HIDE DEF k
  <2>3. job'[p] = k /\ (\A q \in Watch!Process \ {p} : job'[q] = job[q]) /\ Watch!Shape'
    BY <1>1, <2>1, <2>2, JobMoves DEF Watch!Shape
  <2>4. Watch!OnePublishes' /\ Watch!NotesGrow' /\ Watch!OneTree'
    BY <2>1, <2>2, <2>3
       DEF Watch!IInv, Watch!OnePublishes, Watch!NotesGrow, Watch!OneTree, Watch!At, Watch!Process
  <2>5. Watch!SyncCovers'
    BY <2>1, <2>2, <2>3 DEF Watch!IInv, Watch!SyncCovers, Watch!Process
  <2>6. Watch!DealtWith'
    BY <2>1 DEF Watch!IInv, Watch!DealtWith
  <2> QED
    BY <2>3, <2>4, <2>5, <2>6 DEF Watch!IInv
<1>5. CASE Watch!Written(p)
  <2>1. /\ job[p].step = "write" /\ job[p].todo = {}
        /\ UNCHANGED <<head, moves, notes, adrs, active>>
    BY <1>5 DEF Watch!Written, Watch!At
  <2>2. CASE p = "watch" /\ job[p].read.notes = {}
    <3>1. Watch!Ends(p, TRUE)
      BY <1>5, <2>2 DEF Watch!Written
    <3>2. /\ Watch!Shape' /\ job'[p].step = "idle"
          /\ \A q \in Watch!Process \ {p} : job'[q] = job[q]
      BY <1>1, <2>1, <2>2, <3>1, EndsIdle DEF Watch!Shape
    <3>3. Watch!OnePublishes' /\ Watch!NotesGrow' /\ Watch!OneTree'
      BY <2>1, <2>2, <3>2
         DEF Watch!IInv, Watch!OnePublishes, Watch!NotesGrow, Watch!OneTree, Watch!At, Watch!Process
    <3>4. Watch!SyncCovers'
      BY <2>2, <3>2 DEF Watch!SyncCovers
    <3>5. Watch!DealtWith'
      BY <2>1, <2>2, <3>1 DEF Watch!IInv, Watch!DealtWith, Watch!SyncCovers, Watch!Ends
    <3> QED
      BY <3>2, <3>3, <3>4, <3>5 DEF Watch!IInv
  <2>3. CASE ~(p = "watch" /\ job[p].read.notes = {})
    <3> DEFINE step == IF p = "init" THEN "stage" ELSE "index"
               k == [job[p] EXCEPT !.step = step]
    <3>1. Watch!Goes(p, k) /\ UNCHANGED last
      BY <1>5, <2>3 DEF Watch!Written
    <3>2. /\ Watch!Shaped(k) /\ k.step = step
          /\ k.print = job[p].print /\ k.read = job[p].read
      BY <1>1, StepShaped
    <3> HIDE DEF k
    <3>3. job'[p] = k /\ (\A q \in Watch!Process \ {p} : job'[q] = job[q]) /\ Watch!Shape'
      BY <1>1, <2>1, <3>1, <3>2, JobMoves DEF Watch!Shape
    <3>4. Watch!OnePublishes' /\ Watch!NotesGrow' /\ Watch!OneTree'
      BY <2>1, <3>2, <3>3
         DEF Watch!IInv, Watch!OnePublishes, Watch!NotesGrow, Watch!OneTree, Watch!At, Watch!Process
    <3>5. Watch!SyncCovers'
      BY <2>1, <3>2, <3>3 DEF Watch!IInv, Watch!SyncCovers, Watch!Process
    <3>6. Watch!DealtWith'
      BY <2>1, <3>1 DEF Watch!IInv, Watch!DealtWith
    <3> QED
      BY <3>3, <3>4, <3>5, <3>6 DEF Watch!IInv
  <2> QED
    BY <2>2, <2>3
<1> QED
  BY <1>2, <1>3, <1>4, <1>5

\* What the corpus is when it is parsed is what a promotion finds, or there is none.
LEMMA PromotionKeeps ==
    ASSUME Watch!IInv, NEW p \in Watch!Process, Watch!Parse(p) \/ Watch!Validate(p)
    PROVE  Watch!IInv'
<1>1. /\ Watch!Shape /\ Watch!Shaped(job[p])
      /\ UNCHANGED <<head, moves, notes, adrs, active, last>>
  BY DEF Watch!IInv, Watch!Shape, Watch!Parse, Watch!Validate
<1>2. CASE Watch!Parse(p)
  <2> DEFINE k == [job[p] EXCEPT !.step = "promote", !.read = [notes |-> notes, adrs |-> adrs]]
  <2>1. Watch!Goes(p, k) /\ job[p].step = "index"
    BY <1>2 DEF Watch!Parse, Watch!At
  <2>2. /\ Watch!Shaped(k) /\ k.step = "promote" /\ k.print = job[p].print
        /\ k.staged = job[p].staged /\ k.read.notes = notes /\ k.read.adrs = adrs
    BY <1>1 DEF Watch!Shaped
  <2> HIDE DEF k
  <2>3. job'[p] = k /\ (\A q \in Watch!Process \ {p} : job'[q] = job[q]) /\ Watch!Shape'
    BY <1>1, <2>1, <2>2, JobMoves DEF Watch!Shape
  <2>4. Watch!OnePublishes' /\ Watch!NotesGrow'
    BY <1>1, <2>1, <2>2, <2>3
       DEF Watch!IInv, Watch!OnePublishes, Watch!NotesGrow, Watch!At, Watch!Process
  <2>5. Watch!OneTree'
    BY <1>1, <2>1, <2>2, <2>3 DEF Watch!IInv, Watch!OneTree, Watch!At, Watch!Process
  <2>6. Watch!SyncCovers'
    BY <1>1, <2>1, <2>2, <2>3 DEF Watch!IInv, Watch!SyncCovers, Watch!Process
  <2>7. Watch!DealtWith'
    BY <1>1 DEF Watch!IInv, Watch!DealtWith
  <2> QED
    BY <2>3, <2>4, <2>5, <2>6, <2>7 DEF Watch!IInv
<1>3. CASE Watch!Validate(p)
  <2> DEFINE k == [job[p] EXCEPT !.step = "publish"]
  <2>1. /\ Watch!Goes(p, k) /\ job[p].step = "promote"
        /\ job[p].read = [notes |-> notes, adrs |-> adrs]
        /\ \A q \in Watch!Process : job[q].step # "publish"
    BY <1>3 DEF Watch!Validate, Watch!At
  <2>2. /\ Watch!Shaped(k) /\ k.step = "publish" /\ k.print = job[p].print
        /\ k.staged = job[p].staged /\ k.read = job[p].read
    BY <1>1, StepShaped
  <2>3. job[p].read.notes = notes /\ job[p].read.adrs = adrs
    BY <2>1
  <2> HIDE DEF k
  <2>4. job'[p] = k /\ (\A q \in Watch!Process \ {p} : job'[q] = job[q]) /\ Watch!Shape'
    BY <1>1, <2>1, <2>2, JobMoves DEF Watch!Shape
  <2>5. Watch!OnePublishes' /\ Watch!NotesGrow'
    BY <1>1, <2>1, <2>2, <2>3, <2>4
       DEF Watch!IInv, Watch!OnePublishes, Watch!NotesGrow, Watch!At, Watch!Process
  <2>6. Watch!OneTree'
    BY <1>1, <2>1, <2>2, <2>3, <2>4 DEF Watch!IInv, Watch!OneTree, Watch!At, Watch!Process
  <2>7. Watch!SyncCovers'
    BY <1>1, <2>1, <2>2, <2>4 DEF Watch!IInv, Watch!SyncCovers, Watch!Process
  <2>8. Watch!DealtWith'
    BY <1>1 DEF Watch!IInv, Watch!DealtWith
  <2> QED
    BY <2>4, <2>5, <2>6, <2>7, <2>8 DEF Watch!IInv
<1> QED
  BY <1>2, <1>3

\* The watcher between two syncs.
LEMMA PollKeeps ==
    ASSUME Watch!IInv, Watch!ReadHead \/ Watch!ReadTimes \/ Watch!RestartWatch
    PROVE  Watch!IInv'
<1>1. /\ Watch!Shape /\ Watch!Shaped(job["watch"]) /\ moves \in Nat /\ "watch" \in Watch!Process
      /\ UNCHANGED <<head, moves, notes, adrs, active>>
  BY DEF Watch!IInv, Watch!Shape, Watch!ReadHead, Watch!ReadTimes, Watch!RestartWatch, Watch!Process
<1>2. SUFFICES ASSUME NEW k, Watch!Shaped(k), Watch!Goes("watch", k),
                      k.step \in {"idle", "times", "log"}, k.read.notes \subseteq notes,
                      k.step = "log" => k.print.moves = moves,
                      last' \in {last, [print |-> Watch!NoPrint, failed |-> FALSE]}
               PROVE  Watch!IInv'
  <2>1. CASE Watch!ReadHead
    <3> DEFINE k == [Watch!Idle EXCEPT !.step = "times", !.print = [head |-> head, moves |-> 0]]
    <3>1. /\ Watch!Shaped(k) /\ k.step = "times" /\ k.read.notes \subseteq notes
          /\ Watch!Goes("watch", k) /\ last' = last
      BY <2>1 DEF Watch!ReadHead, Watch!Shaped, Watch!Idle, Watch!NoIndex
    <3> HIDE DEF k
    <3> QED
      BY <1>2, <3>1
  <2>2. CASE Watch!ReadTimes
    <3> DEFINE print == [job["watch"].print EXCEPT !.moves = moves]
               k == [job["watch"] EXCEPT !.step = "log", !.print = print]
    <3>1. /\ Watch!Goes("watch", IF print = last.print THEN Watch!Idle ELSE k)
          /\ job["watch"].step = "times" /\ last' = last
      BY <2>2 DEF Watch!ReadTimes, Watch!At
    <3>2. /\ Watch!Shaped(k) /\ k.step = "log" /\ k.read = job["watch"].read
          /\ k.print.moves = moves
      BY <1>1 DEF Watch!Shaped
    <3>3. job["watch"].read.notes \subseteq notes
      BY <3>1 DEF Watch!IInv, Watch!SyncCovers
    <3> HIDE DEF k
    <3>4. CASE print = last.print
      BY <1>2, <3>1, <3>4, IdleShaped
    <3>5. CASE print # last.print
      BY <1>2, <3>1, <3>2, <3>3, <3>5
    <3> QED
      BY <3>4, <3>5
  <2>3. CASE Watch!RestartWatch
    BY <1>2, <2>3, IdleShaped DEF Watch!RestartWatch
  <2> QED
    BY <2>1, <2>2, <2>3
<1>3. job'["watch"] = k /\ job'["init"] = job["init"] /\ Watch!Shape'
  BY <1>1, <1>2, JobMoves DEF Watch!Shape, Watch!Process
<1>4. Watch!OnePublishes' /\ Watch!NotesGrow' /\ Watch!OneTree'
  BY <1>1, <1>2, <1>3
     DEF Watch!IInv, Watch!OnePublishes, Watch!NotesGrow, Watch!OneTree, Watch!At, Watch!Process
<1>5. Watch!SyncCovers'
  BY <1>1, <1>2, <1>3 DEF Watch!SyncCovers
<1>6. Watch!DealtWith'
  <2>1. CASE last' = last
    BY <1>1, <2>1 DEF Watch!IInv, Watch!DealtWith
  <2>2. CASE last' = [print |-> Watch!NoPrint, failed |-> FALSE]
    BY <1>1, <2>2, IdleShaped DEF Watch!DealtWith
  <2> QED
    BY <1>2, <2>1, <2>2
<1> QED
  BY <1>3, <1>4, <1>5, <1>6 DEF Watch!IInv

\* An init replaces the folder of the ADRs.
LEMMA InitKeeps ==
    ASSUME Watch!IInv,
           Watch!StartInit \/ Watch!Stage \/ Watch!Rename \/ \E a \in adrs : Watch!RemoveAdr(a)
    PROVE  Watch!IInv'
<1>1. /\ Watch!Shape /\ Watch!Shaped(job["init"]) /\ "init" \in Watch!Process
      /\ UNCHANGED <<head, moves, notes, active, last>>
  BY DEF Watch!IInv, Watch!Shape, Watch!StartInit, Watch!Stage, Watch!Rename, Watch!RemoveAdr,
         Watch!Process, Watch!Ends
<1>2. CASE Watch!StartInit \/ Watch!Stage
  <2>1. PICK k : /\ Watch!Shaped(k) /\ Watch!Goes("init", k) /\ k.step \in {"log", "remove"}
                 /\ adrs' = adrs
    <3>1. CASE Watch!StartInit
      BY <3>1, IdleShaped, StepShaped DEF Watch!StartInit
    <3>2. CASE Watch!Stage
      BY <1>1, <3>2 DEF Watch!Stage, Watch!Shaped
    <3> QED
      BY <1>2, <3>1, <3>2
  <2>2. job'["init"] = k /\ job'["watch"] = job["watch"] /\ Watch!Shape'
    BY <1>1, <2>1, JobMoves DEF Watch!Shape, Watch!Process
  <2>3. Watch!OnePublishes' /\ Watch!NotesGrow' /\ Watch!OneTree'
    BY <1>1, <2>1, <2>2
       DEF Watch!IInv, Watch!OnePublishes, Watch!NotesGrow, Watch!OneTree, Watch!At, Watch!Process
  <2>4. Watch!SyncCovers' /\ Watch!DealtWith'
    BY <1>1, <2>2 DEF Watch!IInv, Watch!SyncCovers, Watch!DealtWith
  <2> QED
    BY <2>2, <2>3, <2>4 DEF Watch!IInv
<1>3. ASSUME NEW a \in adrs, Watch!RemoveAdr(a)
      PROVE  Watch!IInv'
  <2>1. job' = job /\ job["init"].step = "remove"
    BY <1>3 DEF Watch!RemoveAdr, Watch!At
  <2>2. Watch!Shape' /\ Watch!OnePublishes' /\ Watch!NotesGrow' /\ Watch!OneTree'
    BY <1>1, <2>1
       DEF Watch!IInv, Watch!Shape, Watch!OnePublishes, Watch!NotesGrow, Watch!OneTree, Watch!At,
           Watch!Shaped
  <2>3. Watch!SyncCovers' /\ Watch!DealtWith'
    BY <1>1, <2>1 DEF Watch!IInv, Watch!SyncCovers, Watch!DealtWith
  <2> QED
    BY <2>2, <2>3 DEF Watch!IInv
<1>4. CASE Watch!Rename
  <2>1. job["init"].step = "remove" /\ adrs' = job["init"].staged
    BY <1>4 DEF Watch!Rename, Watch!At
  <2>2. /\ Watch!Shape' /\ job'["watch"] = job["watch"]
        /\ job'["init"].step \in {"idle", "index"} /\ job'["init"].staged = job["init"].staged
    <3>1. CASE Watch!Ends("init", FALSE)
      BY <1>1, <3>1, EndsIdle DEF Watch!Shape, Watch!Process
    <3>2. CASE Watch!Goes("init", [job["init"] EXCEPT !.step = "index"])
      <4> DEFINE k == [job["init"] EXCEPT !.step = "index"]
      <4>1. Watch!Shaped(k) /\ k.step = "index" /\ k.staged = job["init"].staged
        BY <1>1, StepShaped
      <4>2. Watch!Goes("init", k)
        BY <3>2
      <4> HIDE DEF k
      <4> QED
        BY <1>1, <4>1, <4>2, JobMoves DEF Watch!Shape, Watch!Process
    <3> QED
      BY <1>4, <3>1, <3>2 DEF Watch!Rename
  <2>3. Watch!OnePublishes' /\ Watch!NotesGrow' /\ Watch!OneTree'
    BY <1>1, <2>1, <2>2
       DEF Watch!IInv, Watch!OnePublishes, Watch!NotesGrow, Watch!OneTree, Watch!At, Watch!Process
  <2>4. Watch!SyncCovers' /\ Watch!DealtWith'
    BY <1>1, <2>2 DEF Watch!IInv, Watch!SyncCovers, Watch!DealtWith
  <2> QED
    BY <2>2, <2>3, <2>4 DEF Watch!IInv
<1> QED
  BY <1>2, <1>3, <1>4

\* When the watcher sees nothing new to do and its last sync did not fail, every commit of
\* HEAD with a body is in the active index, whatever moved during the sync and whatever an
\* init publishes meanwhile; and from the end of an init to the next, the index holds the
\* ADRs of the tree it read (watch.py:107-178, gitcorpus.py:103-245, adrcorpus.py:85-136).
THEOREM CorpusIndexed == Watch!Spec => []IndexedWhatItSaw
<1>1. Watch!Init => Watch!IInv
  BY WatchStarts
<1>2. Watch!IInv /\ [Watch!Next]_(Watch!watchVars) => Watch!IInv'
  <2> SUFFICES ASSUME Watch!IInv, [Watch!Next]_(Watch!watchVars) PROVE Watch!IInv'
    OBVIOUS
  <2>1. CASE \E S \in SUBSET Commit \ {{}} : Watch!Move(S)
    BY <2>1, MoveKeeps
  <2>2. ASSUME NEW p \in Watch!Process,
               \/ Watch!ReadLog(p) \/ Watch!Exits(p) \/ Watch!Written(p)
               \/ \E c \in Commit : Watch!WriteNote(p, c)
        PROVE  Watch!IInv'
    BY <2>2, WritesKeep
  <2>3. ASSUME NEW p \in Watch!Process, Watch!Parse(p) \/ Watch!Validate(p)
        PROVE  Watch!IInv'
    BY <2>3, PromotionKeeps
  <2>4. ASSUME NEW p \in Watch!Process, Watch!Publish(p)
        PROVE  Watch!IInv'
    BY <2>4, PublishKeeps
  <2>5. ASSUME NEW p \in Watch!Process, Watch!Fails(p)
        PROVE  Watch!IInv'
    BY <2>5, FailsKeeps
  <2>6. CASE Watch!ReadHead \/ Watch!ReadTimes \/ Watch!RestartWatch
    BY <2>6, PollKeeps
  <2>7. CASE Watch!StartInit \/ Watch!Stage \/ Watch!Rename \/ \E a \in adrs : Watch!RemoveAdr(a)
    BY <2>7, InitKeeps
  <2>8. CASE UNCHANGED Watch!watchVars
    <3>1. /\ head' = head /\ moves' = moves /\ notes' = notes /\ adrs' = adrs
          /\ active' = active /\ job' = job /\ last' = last
      BY <2>8 DEF Watch!watchVars
    <3>2. Watch!Shape'
      BY <3>1 DEF Watch!IInv, Watch!Shape, Watch!Shaped
    <3>3. Watch!OnePublishes'
      BY <3>1 DEF Watch!IInv, Watch!OnePublishes, Watch!At
    <3>6. Watch!NotesGrow'
      BY <3>1 DEF Watch!IInv, Watch!NotesGrow, Watch!At
    <3>7. Watch!DealtWith'
      BY <3>1 DEF Watch!IInv, Watch!DealtWith
    <3>4. Watch!SyncCovers'
      BY <3>1 DEF Watch!IInv, Watch!SyncCovers
    <3>5. Watch!OneTree'
      BY <3>1 DEF Watch!IInv, Watch!OneTree, Watch!At
    <3> QED
      BY <3>2, <3>3, <3>4, <3>5, <3>6, <3>7 DEF Watch!IInv
  <2>9. CASE \E p \in Watch!Process :
               \/ Watch!ReadLog(p) \/ Watch!Exits(p) \/ Watch!Written(p) \/ Watch!Parse(p)
               \/ Watch!Validate(p) \/ Watch!Publish(p) \/ Watch!Fails(p)
               \/ \E c \in Commit : Watch!WriteNote(p, c)
    BY <2>2, <2>3, <2>4, <2>5, <2>9
  <2> QED
    BY <2>1, <2>6, <2>7, <2>8, <2>9 DEF Watch!Next
<1>3. Watch!IInv => IndexedWhatItSaw
  BY DEF Watch!IInv, Watch!Shape, Watch!DealtWith, Watch!OneTree, Watch!At, Watch!NoPrint,
         IndexedWhatItSaw, Watch!IndexedWhatItSaw, Watch!CommitsIndexed, Watch!AdrsOfOneTree
<1>4. QED
  BY <1>1, <1>2, <1>3, PTL DEF Watch!Spec

--------------------------------------------------------------------------------
(* Pages of evidence *)

\* A ref that is found has a text.
LEMMA Resolved ==
    ASSUME Readable, server \in Material, NEW r
    PROVE  /\ Pages!Resolve(r).status \in {"found", "missing_ref", "expired_ref"}
           /\ Pages!Resolve(r).status = "found" => Pages!Resolve(r).text.length \in Nat
<1> DEFINE Fits(f) == /\ f.status \in {"found", "missing_ref", "expired_ref"}
                      /\ f.status = "found" => f.text.length \in Nat
<1>1. Fits(Pages!Missing) /\ \A t : t.length \in Nat => Fits(Pages!Found(t))
  BY DEF Pages!Missing, Pages!Found
<1>2. Fits([status |-> "expired_ref"])
  OBVIOUS
<1> HIDE DEF Fits
<1>3. Fits(Pages!Passage(r)) /\ Fits(Pages!Capability(r))
  BY <1>1 DEF Readable, Pages!Passage, Pages!Capability, Pages!Lookup
<1>4. Fits(Pages!Alternative(r)) /\ Fits(Pages!Premise(r))
  BY <1>1 DEF Readable, Pages!Alternative, Pages!Premise, Pages!Lookup
<1>5. Fits(Pages!Skill(r))
  BY <1>1 DEF Readable, Pages!Skill
<1>6. Fits(Pages!Live(r))
  BY <1>1, <1>2 DEF Readable, Pages!Live, Pages!Lookup
<1>7. Fits(Pages!Resolve(r))
  BY <1>3, <1>4, <1>5, <1>6 DEF Pages!Resolve
<1> QED
  BY <1>7 DEF Fits

\* Where a request starts and ends to want a text.
LEMMA Wanted ==
    ASSUME Askable, NEW q \in Request, NEW r \in Pages!RefsOf(q)
    PROVE  /\ Pages!WantedStart(q, r) \in Nat \ {0}
           /\ \A t : t.length \in Nat => Pages!WantedEnd(q, r, t) \in Nat
BY DEF Askable, Pages!WantedStart, Pages!WantedEnd, Pages!Min2

\* The window of an item: it begins where it should and ends within the range, or before it
\* begins.
LEMMA WindowOfItem ==
    ASSUME Askable, Readable, server \in Material,
           NEW q \in Request, NEW r \in Pages!RefsOf(q), NEW cursor, NEW remaining \in Int,
           cursor # Pages!NoCursor /\ cursor.ref = r =>
               cursor.start \in Int /\ Pages!WantedStart(q, r) <= cursor.start
    PROVE  LET w == Pages!Item(q, r, cursor, remaining) IN
           /\ Pages!Length(w) \in Int
           /\ w.status = "ok" =>
                /\ w.ref = r /\ w.text.length \in Nat
                /\ w.start = IF cursor # Pages!NoCursor /\ cursor.ref = r THEN cursor.start
                             ELSE Pages!WantedStart(q, r)
                /\ w.start \in Int /\ Pages!WantedStart(q, r) <= w.start
                /\ w.end \in Int /\ w.start - 1 <= w.end
                /\ w.start <= w.end => w.end <= Pages!WantedEnd(q, r, w.text)
<1> DEFINE found == Pages!Resolve(r)
           start == IF cursor # Pages!NoCursor /\ cursor.ref = r THEN cursor.start
                    ELSE Pages!WantedStart(q, r)
           end == Pages!WindowEnd(q, r, found.text, start, remaining)
           w == Pages!Item(q, r, cursor, remaining)
<1>1. /\ found.status \in {"found", "missing_ref", "expired_ref"}
      /\ found.status = "found" => found.text.length \in Nat
  BY Resolved
<1>2. start \in Int /\ Pages!WantedStart(q, r) <= start
  BY Wanted
<1>3. CASE found.status # "found"
  <2>1. w.status # "ok"
    BY <1>1, <1>3 DEF Pages!Item
  <2> QED
    BY <2>1 DEF Pages!Length
<1>4. CASE found.status = "found" /\ start \notin 1..found.text.length
  <2>1. w = [ref |-> r, status |-> "invalid_range"]
    BY <1>4 DEF Pages!Item
  <2> QED
    BY <2>1 DEF Pages!Length
<1>5. CASE found.status = "found" /\ start \in 1..found.text.length
  <2>1. w = [ref |-> r, status |-> "ok", text |-> found.text, start |-> start, end |-> end,
             truncated |-> end < Pages!WantedEnd(q, r, found.text)]
    BY <1>5 DEF Pages!Item
  <2>2. /\ w.status = "ok" /\ w.ref = r /\ w.text = found.text /\ w.start = start
        /\ w.end = end
    BY <2>1
  <2>3. Pages!WantedEnd(q, r, found.text) \in Nat
    BY <1>1, <1>5, Wanted
  <2>4. Pages!Room(q, remaining) \in Nat
    BY DEF Askable, Pages!Room, Pages!Min2
  <2> HIDE DEF start, found
  <2>5. /\ end \in Int /\ start - 1 <= end
        /\ start <= end => end <= Pages!WantedEnd(q, r, found.text)
    BY <1>2, <2>3, <2>4 DEF Pages!WindowEnd, Pages!Min2
  <2> HIDE DEF w, end
  <2>6. Pages!Length(w) \in Int
    BY <1>2, <2>2, <2>5 DEF Pages!Length
  <2> QED
    BY <1>1, <1>2, <1>5, <2>2, <2>5, <2>6 DEF w, start
<1> QED
  BY <1>3, <1>4, <1>5

\* The page is a list of such items, however its recursion over the refs spends the budget.
LEMMA ItemsOfPage ==
    ASSUME Askable, Readable, server \in Material, NEW q \in Request, NEW cursor,
           cursor # Pages!NoCursor =>
               cursor.start \in Int /\ Pages!WantedStart(q, cursor.ref) <= cursor.start
    PROVE  LET items == Pages!Items(q, cursor) IN
           \A i \in DOMAIN items : \E r \in Pages!RefsOf(q), remaining \in Int :
               items[i] = Pages!Item(q, r, cursor, remaining)
<1> DEFINE n == Len(q.refs)
           It(i, remaining) == Pages!Item(q, q.refs[i], cursor, remaining)
           T == {Pages!Item(q, x[1], cursor, x[2]) : x \in Pages!RefsOf(q) \X Int}
           S == [items : Seq(T), remaining : Int]
           a == [items |-> <<>>, remaining |-> q.output]
           After(i, before) ==
               [items |-> Append(before.items, It(i, before.remaining)),
                remaining |-> before.remaining - Pages!Length(It(i, before.remaining))]
<1>1. n \in Nat /\ DOMAIN q.refs = 1..n /\ a \in S
  BY DEF Askable
<1>2. \A i \in 1..n, remaining \in Int :
         It(i, remaining) \in T /\ Pages!Length(It(i, remaining)) \in Int
  <2> SUFFICES ASSUME NEW i \in 1..n, NEW remaining \in Int
               PROVE  It(i, remaining) \in T /\ Pages!Length(It(i, remaining)) \in Int
    OBVIOUS
  <2>1. q.refs[i] \in Pages!RefsOf(q)
    BY <1>1 DEF Pages!RefsOf
  <2>2. Pages!Length(It(i, remaining)) \in Int
    BY <2>1, WindowOfItem
  <2>3. <<q.refs[i], remaining>> \in Pages!RefsOf(q) \X Int
    BY <2>1
  <2> QED
    BY <2>2, <2>3
<1> HIDE DEF It, T, n
<1>3. \A i \in 1..n, before \in S : After(i, before) \in S
  BY <1>2
<1> DEFINE g == [i \in 1..n |-> [before \in S |-> After(i, before)]]
<1>4. g \in [1..n -> [S -> S]]
  BY <1>3
<1> HIDE DEF S, After, a
<1>5. PICK f \in [0..n -> S] : f[0] = a /\ \A i \in 1..n : f[i] = g[i][f[i - 1]]
  <2> HIDE DEF g
  <2>1. n \in Nat /\ a \in S
    BY <1>1
  <2> QED
    BY <1>4, <2>1, Iterated
<1>6. f = [i \in 0..n |-> IF i = 0 THEN a ELSE After(i, f[i - 1])]
  <2>1. \A i \in 1..n : i - 1 \in 0..n /\ f[i - 1] \in S
    BY <1>1
  <2>2. \A i \in 1..n : f[i] = After(i, f[i - 1])
    BY <1>5, <2>1
  <2>3. \A i \in 0..n : f[i] = IF i = 0 THEN a ELSE After(i, f[i - 1])
    BY <1>1, <1>5, <2>2
  <2> QED
    BY <2>3
<1> DEFINE step[i \in 0..n] == IF i = 0 THEN a ELSE After(i, step[i - 1])
<1>7. Pages!Items(q, cursor) = step[n].items
  BY Zenon DEF Pages!Items, n, a, After, It
<1>8. step = [i \in 0..n |-> IF i = 0 THEN a ELSE After(i, step[i - 1])]
  BY <1>6, Zenon
<1> HIDE DEF step
<1>9. \A i \in 0..n : step[i] \in S
  <2> DEFINE U == {i \in Nat : i <= n => step[i] \in S}
  <2>1. 0 \in U
    BY <1>1, <1>8
  <2>2. ASSUME NEW i \in Nat, i \in U, i + 1 <= n PROVE step[i + 1] \in S
    <3>1. i + 1 \in 1..n /\ i + 1 \in 0..n /\ i \in 0..n /\ i + 1 # 0 /\ (i + 1) - 1 = i
      BY <1>1, <2>2
    <3>2. step[i + 1] = After(i + 1, step[i])
      BY <1>8, <3>1
    <3>3. step[i] \in S
      BY <2>2, <3>1
    <3> QED
      BY <1>3, <3>1, <3>2, <3>3 DEF After, S
  <2>3. \A i \in Nat : i \in U => i + 1 \in U
    BY <2>2
  <2>4. Nat \subseteq U
    <3> HIDE DEF U
    <3> QED
      BY <2>1, <2>3, EveryNatural
  <2> QED
    BY <1>1, <2>4
<1>10. Pages!Items(q, cursor) \in Seq(T)
  BY <1>1, <1>7, <1>9 DEF S
<1>11. \A i \in DOMAIN Pages!Items(q, cursor) : Pages!Items(q, cursor)[i] \in T
  BY <1>10
<1> QED
  BY <1>11 DEF T

\* A set of windows that has no hole, ref by ref.
Tiled(S, q) ==
    \A w \in S : (\A v \in S : v.ref = w.ref => v.text = w.text) =>
        /\ \A v \in S : v.ref = w.ref =>
             v.start..v.end \subseteq
               Pages!WantedStart(q, w.ref)..Pages!WantedEnd(q, w.ref, w.text)
        /\ \A n \in Pages!WantedStart(q, w.ref)..w.end :
             \E v \in S : v.ref = w.ref /\ n \in v.start..v.end

LEMMA TilesOfRequests ==
    /\ Pages!WindowsTile <=> \A q \in Request : Tiled(seen[q], q)
    /\ Pages!WindowsTile' <=> \A q \in Request : Tiled(seen'[q], q)
<1>1. \A S : \A w \in S :
        LET held == UNION {v.start..v.end : v \in {v \in S : v.ref = w.ref /\ v.text = w.text}}
        IN  \A n : n \in held <=>
              \E v \in S : v.ref = w.ref /\ v.text = w.text /\ n \in v.start..v.end
  OBVIOUS
<1> QED
  BY <1>1 DEF Pages!WindowsTile, Tiled

\* Another window may join those of a request where the range begins, or where one of them ends.
LEMMA WindowsJoin ==
    ASSUME Askable, NEW q \in Request, NEW S, NEW N, NEW start, Tiled(S, q),
           \A w \in S \cup N :
                /\ w.ref \in Pages!RefsOf(q) /\ w.text.length \in Nat
                /\ w.start \in Int /\ Pages!WantedStart(q, w.ref) <= w.start
                /\ w.end \in Int /\ w.start - 1 <= w.end
                /\ w.start <= w.end => w.end <= Pages!WantedEnd(q, w.ref, w.text),
           \A w \in N : \/ w.start = Pages!WantedStart(q, w.ref)
                        \/ \E v \in S : v.ref = w.ref /\ w.start = v.end + 1
    PROVE  Tiled(S \cup N, q)
<1> SUFFICES ASSUME NEW w \in S \cup N,
                    \A v \in S \cup N : v.ref = w.ref => v.text = w.text
             PROVE  /\ \A v \in S \cup N : v.ref = w.ref =>
                         v.start..v.end \subseteq
                           Pages!WantedStart(q, w.ref)..Pages!WantedEnd(q, w.ref, w.text)
                    /\ \A n \in Pages!WantedStart(q, w.ref)..w.end :
                         \E v \in S \cup N : v.ref = w.ref /\ n \in v.start..v.end
  BY DEF Tiled
<1>1. Pages!WantedStart(q, w.ref) \in Int
  BY Wanted
<1>2. ASSUME NEW v \in S \cup N, v.ref = w.ref, NEW n \in v.start..v.end
      PROVE  n \in Pages!WantedStart(q, w.ref)..Pages!WantedEnd(q, w.ref, w.text)
  <2>1. /\ v.text = w.text /\ v.start \in Int /\ v.end \in Int /\ n \in Int
        /\ v.start <= n /\ n <= v.end
    BY <1>2
  <2>2. Pages!WantedStart(q, w.ref) <= v.start /\ v.end <= Pages!WantedEnd(q, w.ref, w.text)
    BY <1>2, <2>1
  <2>3. Pages!WantedEnd(q, w.ref, w.text) \in Int
    BY Wanted
  <2> QED
    BY <1>1, <2>1, <2>2, <2>3
<1>3. ASSUME NEW u \in S, u.ref = w.ref, NEW n \in Pages!WantedStart(q, w.ref)..u.end
      PROVE  \E v \in S \cup N : v.ref = w.ref /\ n \in v.start..v.end
  BY <1>3 DEF Tiled
<1>4. ASSUME NEW n \in Pages!WantedStart(q, w.ref)..w.end
      PROVE  \E v \in S \cup N : v.ref = w.ref /\ n \in v.start..v.end
  <2>1. CASE w \in S
    BY <1>3, <1>4, <2>1
  <2>2. CASE w \in N /\ n \in w.start..w.end
    BY <2>2
  <2>3. CASE w \in N /\ n \notin w.start..w.end
    <3>1. n \in Int /\ n < w.start /\ Pages!WantedStart(q, w.ref) <= n /\ n <= w.end
      BY <1>1, <1>4, <2>3
    <3>2. PICK v \in S : v.ref = w.ref /\ w.start = v.end + 1
      BY <2>3, <3>1
    <3>3. v.end \in Int /\ n \in Pages!WantedStart(q, w.ref)..v.end
      BY <1>1, <3>1, <3>2
    <3> QED
      BY <1>3, <3>2, <3>3
  <2> QED
    BY <2>1, <2>2, <2>3
<1> QED
  BY <1>2, <1>4

\* A read continues what the client has, or begins anew.
LEMMA ReadKeeps ==
    ASSUME Askable, Readable, Pages!IInv, NEW q \in Request, NEW c \in cursors \cup {Pages!NoCursor},
           Pages!Read(q, c)
    PROVE  Pages!IInv'
<1> DEFINE items == Pages!Items(q, c)
           ok == {items[i] : i \in {j \in DOMAIN items : items[j].status = "ok"}}
           N == {[ref |-> w.ref, text |-> w.text, start |-> w.start, end |-> w.end] : w \in ok}
<1>1. /\ server \in Material /\ seen = [p \in Request |-> seen[p]] /\ Pages!Windowed
      /\ Pages!Resumes /\ \A p \in Request : Tiled(seen[p], p)
  BY TilesOfRequests DEF Pages!IInv
<1>2. /\ server' = server /\ cursors' = cursors \cup Pages!CursorsOf(q, items)
      /\ seen' = [seen EXCEPT ![q] = @ \cup N]
  BY DEF Pages!Read
<1>3. /\ DOMAIN seen' = Request /\ seen' = [p \in Request |-> seen'[p]]
      /\ seen'[q] = seen[q] \cup N /\ \A p \in Request \ {q} : seen'[p] = seen[p]
  <2> HIDE DEF N
  <2> QED
    BY <1>1, <1>2
<1>4. c # Pages!NoCursor =>
          /\ \E v \in seen[q] : v.ref = c.ref /\ c.start = v.end + 1
          /\ c.start \in Int /\ Pages!WantedStart(q, c.ref) <= c.start
  <2> SUFFICES ASSUME c # Pages!NoCursor
               PROVE  /\ \E v \in seen[q] : v.ref = c.ref /\ c.start = v.end + 1
                      /\ c.start \in Int /\ Pages!WantedStart(q, c.ref) <= c.start
    OBVIOUS
  <2>1. c.request = q /\ c.ref \in Pages!RefsOf(q)
    BY DEF Pages!Read, Pages!Accepts
  <2>2. PICK v \in seen[q] : v.ref = c.ref /\ c.start = v.end + 1
    BY <1>1, <2>1 DEF Pages!Resumes
  <2>3. Pages!WantedStart(q, c.ref) \in Int
    BY <2>1, Wanted
  <2> QED
    BY <1>1, <2>2, <2>3 DEF Pages!Windowed
<1>5. \A i \in DOMAIN items : \E r \in Pages!RefsOf(q), remaining \in Int :
          items[i] = Pages!Item(q, r, c, remaining)
  BY <1>1, <1>4, ItemsOfPage
<1>6. \A w \in ok :
          /\ w.ref \in Pages!RefsOf(q) /\ w.text.length \in Nat
          /\ w.start \in Int /\ Pages!WantedStart(q, w.ref) <= w.start
          /\ w.end \in Int /\ w.start - 1 <= w.end
          /\ w.start <= w.end => w.end <= Pages!WantedEnd(q, w.ref, w.text)
          /\ \/ w.start = Pages!WantedStart(q, w.ref)
             \/ \E v \in seen[q] : v.ref = w.ref /\ w.start = v.end + 1
  <2> SUFFICES ASSUME NEW i \in DOMAIN items, items[i].status = "ok"
               PROVE  LET w == items[i] IN
                      /\ w.ref \in Pages!RefsOf(q) /\ w.text.length \in Nat
                      /\ w.start \in Int /\ Pages!WantedStart(q, w.ref) <= w.start
                      /\ w.end \in Int /\ w.start - 1 <= w.end
                      /\ w.start <= w.end => w.end <= Pages!WantedEnd(q, w.ref, w.text)
                      /\ \/ w.start = Pages!WantedStart(q, w.ref)
                         \/ \E v \in seen[q] : v.ref = w.ref /\ w.start = v.end + 1
    OBVIOUS
  <2>1. PICK r \in Pages!RefsOf(q), remaining \in Int :
          items[i] = Pages!Item(q, r, c, remaining)
    BY <1>5
  <2> DEFINE w == Pages!Item(q, r, c, remaining)
  <2>2. c # Pages!NoCursor /\ c.ref = r =>
          c.start \in Int /\ Pages!WantedStart(q, r) <= c.start
    BY <1>4
  <2>3. /\ w.ref = r /\ w.text.length \in Nat
        /\ w.start = IF c # Pages!NoCursor /\ c.ref = r THEN c.start
                     ELSE Pages!WantedStart(q, r)
        /\ w.start \in Int /\ Pages!WantedStart(q, r) <= w.start
        /\ w.end \in Int /\ w.start - 1 <= w.end
        /\ w.start <= w.end => w.end <= Pages!WantedEnd(q, r, w.text)
    BY <1>1, <2>1, <2>2, WindowOfItem
  <2> HIDE DEF w
  <2>4. items[i] = w
    BY <2>1 DEF w
  <2> HIDE DEF items
  <2> QED
    BY <1>4, <2>3, <2>4
<1>7. \A w \in N :
          /\ w.ref \in Pages!RefsOf(q) /\ w.text.length \in Nat
          /\ w.start \in Int /\ Pages!WantedStart(q, w.ref) <= w.start
          /\ w.end \in Int /\ w.start - 1 <= w.end
          /\ w.start <= w.end => w.end <= Pages!WantedEnd(q, w.ref, w.text)
          /\ \/ w.start = Pages!WantedStart(q, w.ref)
             \/ \E v \in seen[q] : v.ref = w.ref /\ w.start = v.end + 1
  <2> HIDE DEF ok
  <2> QED
    BY <1>6
<1>8. \A k \in Pages!CursorsOf(q, items) :
          k.request = q /\ \E w \in N : w.ref = k.ref /\ k.start = w.end + 1
  <2> SUFFICES ASSUME NEW i \in DOMAIN items, items[i].status = "ok"
               PROVE  LET k == [request |-> q, ref |-> items[i].ref,
                                start |-> Pages!Resume(q, items[i])]
                      IN  k.request = q /\ \E w \in N : w.ref = k.ref /\ k.start = w.end + 1
    BY DEF Pages!CursorsOf
  <2> DEFINE w == [ref |-> items[i].ref, text |-> items[i].text, start |-> items[i].start,
                   end |-> items[i].end]
  <2>1. items[i] \in ok /\ w \in N
    OBVIOUS
  <2> QED
    BY <2>1 DEF Pages!Resume
<1> HIDE DEF N, items
<1>9. Pages!Windowed'
  BY <1>1, <1>3, <1>7 DEF Pages!Windowed
<1>10. Pages!Resumes'
  BY <1>1, <1>2, <1>3, <1>8 DEF Pages!Resumes
<1>11. Tiled(seen[q] \cup N, q)
  <2>1. \A w \in seen[q] :
           /\ w.ref \in Pages!RefsOf(q) /\ w.text.length \in Nat
           /\ w.start \in Int /\ Pages!WantedStart(q, w.ref) <= w.start
           /\ w.end \in Int /\ w.start - 1 <= w.end
           /\ w.start <= w.end => w.end <= Pages!WantedEnd(q, w.ref, w.text)
    BY <1>1 DEF Pages!Windowed
  <2> QED
    BY <1>1, <1>7, <2>1, WindowsJoin
<1>12. \A p \in Request : Tiled(seen'[p], p)
  BY <1>1, <1>3, <1>11
<1>13. Pages!WindowsTile'
  BY <1>12, TilesOfRequests
<1> QED
  BY <1>1, <1>2, <1>3, <1>9, <1>10, <1>13 DEF Pages!IInv

\* Whichever cursors a client follows, in whatever order and with whatever requests, what it
\* has of a text begins where the request's range begins, has no hole and stays inside the
\* range, while servers are restarted and cached pages expire (service.py:367-387, 1554-1606).
THEOREM WindowsAlwaysTile == Pages!Spec => []WindowsTile
<1> USE PagesAssumption
<1>1. Pages!Init => Pages!IInv
  <2> SUFFICES ASSUME Pages!Init PROVE Pages!IInv
    OBVIOUS
  <2>1. \A q \in Request : seen[q] = {}
    BY DEF Pages!Init
  <2>2. Pages!WindowsTile
    BY <2>1, TilesOfRequests DEF Tiled
  <2> QED
    BY <2>1, <2>2 DEF Pages!Init, Pages!IInv, Pages!Windowed, Pages!Resumes
<1>2. Pages!IInv /\ [Pages!Next]_(Pages!readVars) => Pages!IInv'
  <2> SUFFICES ASSUME Pages!IInv, [Pages!Next]_(Pages!readVars) PROVE Pages!IInv'
    OBVIOUS
  <2>1. ASSUME NEW q \in Request, NEW c \in cursors \cup {Pages!NoCursor}, Pages!Read(q, c)
        PROVE  Pages!IInv'
    BY <2>1, ReadKeeps
  <2>2. CASE server' \in Material /\ UNCHANGED <<cursors, seen>>
    <3>1. Pages!WindowsTile'
      BY <2>2 DEF Pages!IInv, Pages!WindowsTile
    <3> QED
      BY <2>2, <3>1 DEF Pages!IInv, Pages!Windowed, Pages!Resumes
  <2>3. ASSUME NEW q \in Request, NEW c \in cursors \cup {Pages!NoCursor}, Pages!Refuse(q, c)
        PROVE  server' \in Material /\ UNCHANGED <<cursors, seen>>
    BY <2>3 DEF Pages!Refuse, Pages!IInv
  <2>4. ASSUME NEW m \in Material, Pages!Restart(m)
        PROVE  server' \in Material /\ UNCHANGED <<cursors, seen>>
    BY <2>4 DEF Pages!Restart
  <2>5. ASSUME NEW q \in Request, NEW r \in Pages!RefsOf(q), Pages!Expire(r)
        PROVE  server' \in Material /\ UNCHANGED <<cursors, seen>>
    BY <2>5 DEF Pages!Expire, Pages!IInv
  <2>6. CASE UNCHANGED Pages!readVars
    BY <2>2, <2>6 DEF Pages!readVars, Pages!IInv
  <2> QED
    BY <2>1, <2>2, <2>3, <2>4, <2>5, <2>6 DEF Pages!Next
<1>3. Pages!IInv => WindowsTile
  BY DEF Pages!IInv, WindowsTile
<1>4. QED
  BY <1>1, <1>2, <1>3, PTL DEF Pages!Spec

--------------------------------------------------------------------------------
(* What a request may draw on *)

\* Declaring a request regulated, or asking about a regulated domain, makes it regulated.
LEMMA Regulated ==
    ASSUME NEW r, r.risk \in {"low", "medium", "high", "unknown", "regulated"}
    PROVE  /\ r.risk = "regulated" =>
                Routed!EffectiveRisk(Routed!RiskOf[Routed!Domain(r)], r.risk) = "regulated"
           /\ r.named \cap {"law", "accounting"} # {} =>
                Routed!EffectiveRisk(Routed!RiskOf[Routed!Domain(r)], r.risk) = "regulated"
<1> DEFINE hit == {i \in DOMAIN Routed!Families : Routed!Families[i] \in r.named}
<1>1. /\ DOMAIN Routed!Families = 1..5
      /\ Routed!Families[1] = "law" /\ Routed!Families[2] = "accounting"
      /\ Routed!Families[3] = "cybersecurity" /\ Routed!Families[4] = "programming"
      /\ Routed!Families[5] = "ux_design"
  BY DEF Routed!Families
<1>2. hit # {} => \E i \in hit : \A j \in hit : i <= j
  BY <1>1, LeastNatural
<1>3. /\ Routed!Domain(r) \in {"law", "accounting", "cybersecurity", "programming", "ux_design",
                               "general", "unsupported"}
      /\ r.named \cap {"law", "accounting"} # {} => Routed!Domain(r) \in {"law", "accounting"}
  <2>1. CASE hit = {}
    <3>1. "law" \notin r.named /\ "accounting" \notin r.named
      BY <1>1, <2>1
    <3> QED
      BY <2>1, <3>1 DEF Routed!Domain
  <2>2. CASE hit # {}
    <3> DEFINE i == CHOOSE i \in hit : \A j \in hit : i <= j
    <3>1. i \in hit /\ \A j \in hit : i <= j
      BY <1>2, <2>2
    <3>2. Routed!Domain(r) = Routed!Families[i]
      BY <2>2 DEF Routed!Domain
    <3> HIDE DEF i
    <3>3. i \in 1..5 /\ (1 \in hit => i = 1) /\ (2 \in hit => i \in {1, 2})
      BY <1>1, <3>1
    <3>4. Routed!Families[i] \in {"law", "accounting", "cybersecurity", "programming", "ux_design"}
      BY <1>1, <3>3
    <3>5. r.named \cap {"law", "accounting"} # {} => i \in {1, 2}
      BY <1>1, <3>3
    <3> QED
      BY <1>1, <3>2, <3>4, <3>5
  <2> QED
    BY <2>1, <2>2
<1>4. /\ Routed!RiskOf["law"] = "regulated" /\ Routed!RiskOf["accounting"] = "regulated"
      /\ Routed!RiskOf["cybersecurity"] = "high" /\ Routed!RiskOf["programming"] = "medium"
      /\ Routed!RiskOf["ux_design"] = "medium" /\ Routed!RiskOf["general"] = "low"
      /\ Routed!RiskOf["unsupported"] = "unknown"
  BY DEF Routed!RiskOf
<1>5. /\ Routed!Rank["low"] = 0 /\ Routed!Rank["medium"] = 1 /\ Routed!Rank["high"] = 2
      /\ Routed!Rank["unknown"] = 3 /\ Routed!Rank["regulated"] = 4
  BY DEF Routed!Rank
<1> DEFINE assessed == Routed!RiskOf[Routed!Domain(r)]
<1>6. /\ assessed \in {"regulated", "high", "medium", "low", "unknown"}
      /\ r.named \cap {"law", "accounting"} # {} => assessed = "regulated"
  BY <1>3, <1>4
<1> HIDE DEF assessed
<1>7. /\ r.risk = "regulated" => Routed!EffectiveRisk(assessed, r.risk) = "regulated"
      /\ assessed = "regulated" => Routed!EffectiveRisk(assessed, r.risk) = "regulated"
  BY <1>5, <1>6 DEF Routed!EffectiveRisk
<1> QED
  BY <1>6, <1>7 DEF assessed

\* What the router lets pass has its context, and does not ask to act.
LEMMA RouteFloors ==
    ASSUME NEW s, NEW r, r.risk \in {"low", "medium", "high", "unknown", "regulated"},
           Routed!Route(s, r).outcome = "proceed"
    PROVE  /\ Routed!Intent(r) # "consequential_action"
           /\ r.risk = "regulated" => r.jurisdiction # "unknown" /\ r.asOf
           /\ r.named \cap {"law", "accounting"} # {} => r.jurisdiction # "unknown" /\ r.asOf
<1>1. Routed!Intent(r) # "consequential_action"
  BY DEF Routed!Route, Routed!Decision
<1>2. Routed!EffectiveRisk(Routed!RiskOf[Routed!Domain(r)], r.risk) = "regulated" =>
          Routed!MissingContext(r) = {}
  BY DEF Routed!Route, Routed!Decision
<1>3. Routed!MissingContext(r) = {} => r.jurisdiction # "unknown" /\ r.asOf
  BY DEF Routed!MissingContext
<1> QED
  BY <1>1, <1>2, <1>3, Regulated

\* A skill that a host has, or has not, is not a skill past the ceiling.
LEMMA SkillGapsNamed ==
    ASSUME NEW k, k.currency \in {"current", "stale", "expired"},
           k.availability \in {"installed", "not_installed", "digest_divergent"}
    PROVE  \A g \in Routed!SkillGaps(k) : g.gap # "skill_ceiling_exceeded"
<1> DEFINE C == [current |-> {}, stale |-> {"skill_stale"}, expired |-> {"skill_expired"}]
           A == [installed |-> {}, not_installed |-> {"skill_not_installed"},
                 digest_divergent |-> {"skill_digest_divergent"}]
<1>1. \A x \in C[k.currency] : x # "skill_ceiling_exceeded"
  OBVIOUS
<1>2. \A x \in A[k.availability] : x # "skill_ceiling_exceeded"
  OBVIOUS
<1>3. Routed!SkillGaps(k) = {[gap |-> x, of |-> k.id] : x \in C[k.currency] \cup A[k.availability]}
  BY DEF Routed!SkillGaps
<1> HIDE DEF C, A
<1> QED
  BY <1>1, <1>2, <1>3

\* The skills that are dispatched to a host, and in which order, are not the host's to say.
LEMMA DispatchIgnoresHost ==
    ASSUME NEW matches, NEW host, NEW day
    PROVE  LET d == Routed!Dispatched(matches, host, day)
               chosen == Routed!Selected(matches)
           IN  /\ DOMAIN d = DOMAIN chosen
               /\ \A i \in DOMAIN d :
                    /\ d[i].id = chosen[i].id /\ d[i].currency = Routed!Currency(chosen[i], day)
                    /\ \A g \in Routed!SkillGaps(d[i]) : g.gap # "skill_ceiling_exceeded"
<1> DEFINE d == Routed!Dispatched(matches, host, day)
           chosen == Routed!Selected(matches)
<1>1. d = [i \in DOMAIN chosen |->
             [id |-> chosen[i].id, availability |-> Routed!Availability(chosen[i], host),
              currency |-> Routed!Currency(chosen[i], day)]]
  BY DEF Routed!Dispatched
<1> HIDE DEF d, chosen
<1>2. DOMAIN d = DOMAIN chosen
  BY <1>1
<1>3. ASSUME NEW i \in DOMAIN d
      PROVE  /\ d[i].id = chosen[i].id /\ d[i].currency = Routed!Currency(chosen[i], day)
             /\ \A g \in Routed!SkillGaps(d[i]) : g.gap # "skill_ceiling_exceeded"
  <2>1. /\ d[i].id = chosen[i].id /\ d[i].currency = Routed!Currency(chosen[i], day)
        /\ d[i].availability = Routed!Availability(chosen[i], host)
    BY <1>1, <1>2, <1>3
  <2>2. d[i].currency \in {"current", "stale", "expired"}
    BY <2>1 DEF Routed!Currency
  <2>3. d[i].availability \in {"installed", "not_installed", "digest_divergent"}
    BY <2>1 DEF Routed!Availability
  <2> QED
    BY <2>1, <2>2, <2>3, SkillGapsNamed
<1> QED
  BY <1>2, <1>3 DEF d, chosen

\* What a request that opted in is answered, apart from how its skills are described.
LEMMA ChosenIs ==
    ASSUME NEW s, NEW r, NEW day, r.host.opted
    PROVE  LET domain == Routed!Domain(r)
               matches == Routed!SkillsOf(s, domain)
               chosen == Routed!Selected(matches)
           IN  Routed!Chosen(Routed!Answer(s, r, day)) =
                 IF Routed!Route(s, r).outcome = "proceed"
                 THEN [outcome |-> "proceed",
                       capabilities |-> Routed!Capabilities(s, Routed!ClaimType(r)),
                       skills |-> [i \in DOMAIN chosen |->
                           [id |-> chosen[i].id, currency |-> Routed!Currency(chosen[i], day)]],
                       beyond |-> {g \in Routed!CeilingGap(matches) :
                                      g.gap = "skill_ceiling_exceeded"}]
                 ELSE [outcome |-> Routed!Route(s, r).outcome, capabilities |-> <<>>,
                       skills |-> [i \in DOMAIN <<>> |->
                           [id |-> <<>>[i].id, currency |-> <<>>[i].currency]],
                       beyond |-> {g \in {[gap |-> x, of |-> 0] : x \in Routed!Route(s, r).gaps}
                                           \cup Routed!PackGaps(s, domain) :
                                      g.gap = "skill_ceiling_exceeded"}]
<1> DEFINE domain == Routed!Domain(r)
           matches == Routed!SkillsOf(s, domain)
           chosen == Routed!Selected(matches)
           a == Routed!Answer(s, r, day)
<1>1. CASE Routed!Route(s, r).outcome = "proceed"
  <2> DEFINE skills == Routed!Dispatched(matches, r.host, day)
             drafting == Routed!Uncovered(skills)
             others == {[gap |-> "no_skill_for_domain", of |-> 0]}
  <2>1. Routed!Skills(s, r, domain) = matches
    BY DEF Routed!Skills
  <2>2. /\ a.outcome = "proceed" /\ a.skills = skills
        /\ a.capabilities = Routed!Capabilities(s, Routed!ClaimType(r))
        /\ a.gaps = Routed!CeilingGap(matches)
                      \cup (UNION {Routed!SkillGaps(skills[i]) : i \in DOMAIN skills})
                      \cup (IF drafting THEN others ELSE {})
    BY <1>1, <2>1 DEF Routed!Answer, Routed!Proceeded
  <2>3. /\ DOMAIN skills = DOMAIN chosen
        /\ \A i \in DOMAIN skills :
             /\ skills[i].id = chosen[i].id
             /\ skills[i].currency = Routed!Currency(chosen[i], day)
             /\ \A g \in Routed!SkillGaps(skills[i]) : g.gap # "skill_ceiling_exceeded"
    BY DispatchIgnoresHost
  <2>4. \A g \in others : g.gap # "skill_ceiling_exceeded"
    OBVIOUS
  <2> HIDE DEF a, skills, matches, chosen, others, drafting
  <2>5. {g \in a.gaps : g.gap = "skill_ceiling_exceeded"} =
          {g \in Routed!CeilingGap(matches) : g.gap = "skill_ceiling_exceeded"}
    <3>1. \A g \in UNION {Routed!SkillGaps(skills[i]) : i \in DOMAIN skills} :
            g.gap # "skill_ceiling_exceeded"
      BY <2>3
    <3>2. ASSUME NEW g \in a.gaps, g.gap = "skill_ceiling_exceeded"
          PROVE  g \in Routed!CeilingGap(matches)
      <4>1. \/ g \in Routed!CeilingGap(matches)
            \/ g \in UNION {Routed!SkillGaps(skills[i]) : i \in DOMAIN skills}
            \/ g \in others
        <5> DEFINE told == UNION {Routed!SkillGaps(skills[i]) : i \in DOMAIN skills}
                   drafted == IF drafting THEN others ELSE {}
        <5>1. a.gaps = Routed!CeilingGap(matches) \cup told \cup drafted
          BY <2>2
        <5>2. drafted \subseteq others
          OBVIOUS
        <5> HIDE DEF told, drafted
        <5>3. g \in Routed!CeilingGap(matches) \/ g \in told \/ g \in others
          BY <5>1, <5>2, <3>2
        <5> QED
          BY <5>3 DEF told
      <4> QED
        BY <2>4, <3>1, <3>2, <4>1
    <3>3. \A g \in Routed!CeilingGap(matches) : g \in a.gaps
      BY <2>2
    <3> QED
      BY <3>2, <3>3
  <2>6. [i \in DOMAIN a.skills |-> [id |-> a.skills[i].id, currency |-> a.skills[i].currency]] =
        [i \in DOMAIN chosen |->
            [id |-> chosen[i].id, currency |-> Routed!Currency(chosen[i], day)]]
    BY <2>2, <2>3
  <2>7. Routed!Chosen(a) =
          [outcome |-> "proceed", capabilities |-> Routed!Capabilities(s, Routed!ClaimType(r)),
           skills |-> [i \in DOMAIN chosen |->
               [id |-> chosen[i].id, currency |-> Routed!Currency(chosen[i], day)]],
           beyond |-> {g \in Routed!CeilingGap(matches) : g.gap = "skill_ceiling_exceeded"}]
    BY <2>2, <2>5, <2>6 DEF Routed!Chosen
  <2> QED
    BY <1>1, <2>7 DEF a, matches, chosen
<1>2. CASE Routed!Route(s, r).outcome # "proceed"
  <2>1. /\ a.outcome = Routed!Route(s, r).outcome /\ a.capabilities = <<>> /\ a.skills = <<>>
        /\ a.gaps = {[gap |-> x, of |-> 0] : x \in Routed!Route(s, r).gaps}
                      \cup Routed!PackGaps(s, domain)
    BY <1>2 DEF Routed!Answer, Routed!Gated, Routed!NoReply
  <2> HIDE DEF a
  <2>2. Routed!Chosen(a) =
          [outcome |-> Routed!Route(s, r).outcome, capabilities |-> <<>>,
           skills |-> [i \in DOMAIN <<>> |->
               [id |-> <<>>[i].id, currency |-> <<>>[i].currency]],
           beyond |-> {g \in {[gap |-> x, of |-> 0] : x \in Routed!Route(s, r).gaps}
                               \cup Routed!PackGaps(s, domain) :
                          g.gap = "skill_ceiling_exceeded"}]
    BY <2>1 DEF Routed!Chosen
  <2> QED
    BY <1>2, <2>2 DEF a
<1> QED
  BY <1>1, <1>2

\* Another inventory changes nothing of it.
LEMMA HostChoosesNothing ==
    ASSUME NEW s, NEW day, NEW r, NEW host, Requested(r), r.host.opted, host.opted
    PROVE  Routed!Chosen(Routed!Answer(s, [r EXCEPT !.host = host], day))
             = Routed!Chosen(Routed!Answer(s, r, day))
<1> DEFINE q == [r EXCEPT !.host = host]
<1>1. /\ q.host = host /\ q.words = r.words /\ q.named = r.named /\ q.acts = r.acts
      /\ q.asks = r.asks /\ q.jurisdiction = r.jurisdiction /\ q.asOf = r.asOf
      /\ q.risk = r.risk
  BY DEF Requested
<1> HIDE DEF q
<1>2. Routed!Domain(q) = Routed!Domain(r)
  BY <1>1 DEF Routed!Domain
<1>3. Routed!ClaimType(q) = Routed!ClaimType(r) /\ Routed!Intent(q) = Routed!Intent(r)
  BY <1>1 DEF Routed!ClaimType, Routed!Intent
<1>4. Routed!MissingContext(q) = Routed!MissingContext(r)
  BY <1>1 DEF Routed!MissingContext
<1>5. \A domain : Routed!Skills(s, q, domain) = Routed!Skills(s, r, domain)
  BY <1>1 DEF Routed!Skills
<1>6. Routed!Route(s, q) = Routed!Route(s, r)
  BY <1>1, <1>2, <1>3, <1>4, <1>5 DEF Routed!Route
<1>7. Routed!Chosen(Routed!Answer(s, q, day)) = Routed!Chosen(Routed!Answer(s, r, day))
  BY <1>1, <1>2, <1>3, <1>6, ChosenIs
<1> QED
  BY <1>7 DEF q

\* Every answer is to a request, and keeps its floors.
LEMMA RoutingSteps ==
    ASSUME \A r \in Requests : Requested(r)
    PROVE  /\ Routed!Init => Routed!IInv
           /\ Routed!IInv /\ [Routed!Next]_(Routed!routingVars) => Routed!IInv'
<1>1. Routed!Init => Routed!IInv
  BY DEF Routed!Init, Routed!NoReply, Routed!IInv, Routed!Asked, Routed!FloorsHold
<1>2. ASSUME reply' = reply \/ reply' = Routed!NoReply, Routed!IInv
      PROVE  Routed!IInv'
  BY <1>2 DEF Routed!NoReply, Routed!IInv, Routed!Asked, Routed!FloorsHold
<1>3. ASSUME Routed!Investigate
      PROVE  Routed!IInv'
  <2>1. PICK q \in Requests, host \in Inventories :
          reply' = Routed!Answer(service, [q EXCEPT !.host = host], today)
    BY <1>3 DEF Routed!Investigate
  <2> DEFINE r == [q EXCEPT !.host = host]
  <2>2. r.risk \in {"low", "medium", "high", "unknown", "regulated"}
    BY DEF Requested
  <2>3. r \in {[p EXCEPT !.host = h] : p \in Requests, h \in Inventories}
    OBVIOUS
  <2> HIDE DEF r
  <2>4. reply' = Routed!Answer(service, r, today)
    BY <2>1 DEF r
  <2>5. reply'.to = {r} /\ reply'.outcome = Routed!Route(service, r).outcome
    <3>1. CASE Routed!Route(service, r).outcome = "proceed"
      <4>1. reply' = Routed!Proceeded(service, r, today)
        BY <2>4, <3>1 DEF Routed!Answer
      <4> QED
        BY <3>1, <4>1 DEF Routed!Proceeded
    <3>2. CASE Routed!Route(service, r).outcome # "proceed"
      <4>1. reply' = Routed!Gated(service, r)
        BY <2>4, <3>2 DEF Routed!Answer
      <4> QED
        BY <3>2, <4>1 DEF Routed!Gated, Routed!NoReply
    <3> QED
      BY <3>1, <3>2
  <2>6. ASSUME reply'.outcome = "proceed"
        PROVE  /\ Routed!Intent(r) # "consequential_action"
               /\ r.risk = "regulated" => r.jurisdiction # "unknown" /\ r.asOf
               /\ r.named \cap {"law", "accounting"} # {} => r.jurisdiction # "unknown" /\ r.asOf
    <3>1. Routed!Route(service, r).outcome = "proceed"
      BY <2>5, <2>6
    <3> QED
      <4>1. Routed!Intent(r) # "consequential_action"
        BY <2>2, <3>1, RouteFloors
      <4>2. r.risk = "regulated" => r.jurisdiction # "unknown" /\ r.asOf
        BY <2>2, <3>1, RouteFloors
      <4>3. r.named \cap {"law", "accounting"} # {} => r.jurisdiction # "unknown" /\ r.asOf
        BY <2>2, <3>1, RouteFloors
      <4> QED
        BY <4>1, <4>2, <4>3
  <2>7. Routed!FloorsHold'
    BY <2>5, <2>6 DEF Routed!FloorsHold, Routed!Intent
  <2> QED
    BY <2>3, <2>5, <2>7 DEF Routed!IInv, Routed!Asked
<1>4. ASSUME Routed!IInv, [Routed!Next]_(Routed!routingVars)
      PROVE  Routed!IInv'
  BY <1>2, <1>3, <1>4 DEF Routed!Next, Routed!routingVars, Routed!Deliver, Routed!Start,
       Routed!Stop, Routed!DayPasses, Routed!Upgrade
<1> QED
  BY <1>1, <1>4

\* Whoever declares a request regulated, or asks about a regulated domain, and leaves out the
\* jurisdiction or the date never gets past the router, and nothing that asks to act does,
\* whatever packs and skills are loaded, on any day (route.py:109-163, classify.py:277-319).
THEOREM RiskFloorsHold == Routed!Spec => []FloorsHold
<1> USE RoutingAssumption
<1>1. Routed!IInv => FloorsHold
  BY DEF Routed!IInv, FloorsHold
<1>2. QED
  BY <1>1, RoutingSteps, PTL DEF Routed!Spec

\* Under another inventory of the host, the route, the skills, their order and what falls past
\* the ceiling would have been the same (dispatch.py:15-22, 69-127).
THEOREM InventoriesOnlyDescribe == Routed!Spec => []InventoryOnlyDescribes
<1> USE RoutingAssumption
<1>1. Routed!IInv => InventoryOnlyDescribes
  <2> SUFFICES ASSUME Routed!IInv, NEW r \in reply.to, NEW host \in Inventories,
                      host.opted, r.host.opted
               PROVE  Routed!Chosen(Routed!Answer(service, [r EXCEPT !.host = host], today))
                        = Routed!Chosen(Routed!Answer(service, r, today))
    BY DEF InventoryOnlyDescribes, Routed!InventoryOnlyDescribes
  <2>1. PICK q \in Requests, h \in Inventories : r = [q EXCEPT !.host = h]
    BY DEF Routed!IInv, Routed!Asked
  <2>2. Requested(r)
    BY <2>1 DEF Requested
  <2> QED
    BY <2>2, HostChoosesNothing
<1>2. QED
  BY <1>1, RoutingSteps, PTL DEF Routed!Spec

--------------------------------------------------------------------------------
(* GitHubImport: what is saved, as a value *)

Entry == Number \cup {0}

\* The model's definitions, of responses r, as they are before a step and after it.
LacksIn(r, s) ==
    IF s = 0 THEN {}
    ELSE IF Importing!Item(s) \notin DOMAIN r THEN {Importing!Item(s)}
    ELSE IF r[Importing!Item(s)].state = "rejected"
         THEN {Importing!Path("comments", s)} \ DOMAIN r
    ELSE {}
IssueLacksIn(r, n) ==
    IF Importing!Path("issue", n) \notin DOMAIN r THEN {Importing!Path("issue", n)}
    ELSE IF Importing!Path("timeline", n) \notin DOMAIN r THEN {Importing!Path("timeline", n)}
    ELSE LET mentions == r[Importing!Path("timeline", n)]
             told == {i \in DOMAIN mentions : \A j \in 1..(i - 1) : LacksIn(r, mentions[j]) = {}}
         IN  UNION {LacksIn(r, mentions[i]) : i \in told}
NumbersIn(r, c) ==
    Importing!Closing(Commits[c])
        \cup (IF Commits[c].pr = 0 THEN {} ELSE r[Importing!Path("pull", Commits[c].pr)].closes)
ToldIn(r, c) == Commits[c].pr # 0 => Importing!Path("pull", Commits[c].pr) \in DOMAIN r
ClosedIn(r, n, first) == {c \in 1..first : n \in NumbersIn(r, c)}
UpToIn(r, first) == {n \in Number : ClosedIn(r, n, first) # {}}
NameIn(r, n) == [n |-> n, open |-> r[Importing!Path("issue", n)].state = "open"]
RejectedIn(r, n) ==
    {s \in Number \cap Importing!Range(r[Importing!Path("timeline", n)]) :
        r[Importing!Item(s)].state = "rejected"}
DocumentIn(r, n, first) ==
    [file |-> NameIn(r, n), commits |-> ClosedIn(r, n, first), rejected |-> RejectedIn(r, n)]

\* The parts of the invariant, of values.
SavedIs(r) ==
    \A path \in DOMAIN r :
        /\ Importing!Paged(path) => r[path] \in Seq(Entry)
        /\ path.kind = "pull" => r[path].closes \subseteq Number
BuildShaped(b) ==
    /\ ~b.running => b = Importing!Off
    /\ b \in [running : BOOLEAN, online : BOOLEAN, commit : 0..(Len(Commits) + 1),
              links : [Number -> SUBSET Nat], left : SUBSET Number, call : {b.call},
              closed : BOOLEAN, lost : BOOLEAN, docs : {b.docs}]
    /\ b.running => b.commit >= 1
BuildTold(r, b) ==
    LET first == b.commit - 1
        done == UpToIn(r, first) \ b.left
    IN  /\ \A c \in 1..first : ToldIn(r, c)
        /\ \A n \in Number : b.links[n] = ClosedIn(r, n, first)
        /\ b.left \subseteq UpToIn(r, first)
        /\ b.commit <= Len(Commits) => done = {}
        /\ \A n \in done : IssueLacksIn(r, n) = {}
        /\ b.docs = {DocumentIn(r, n, first) : n \in done}
WarmTold(r, docs) ==
    LET all == Len(Commits)
    IN  /\ \A c \in 1..all : ToldIn(r, c)
        /\ \A n \in UpToIn(r, all) : IssueLacksIn(r, n) = {}
        /\ docs = {DocumentIn(r, n, all) : n \in UpToIn(r, all)}

LEMMA SavedAre ==
    /\ \A s : Importing!Lacks(s) = LacksIn(responses, s)
    /\ \A n : Importing!IssueLacks(n) = IssueLacksIn(responses, n)
    /\ \A c : Importing!NumbersOf(c) = NumbersIn(responses, c)
    /\ \A c : Importing!Told(c) <=> ToldIn(responses, c)
    /\ \A n, first : Importing!ClosedBy(n, first) = ClosedIn(responses, n, first)
    /\ \A first : Importing!NumbersUpTo(first) = UpToIn(responses, first)
    /\ \A n, first : Importing!DocumentUpTo(n, first) = DocumentIn(responses, n, first)
<1>1. \A s : Importing!Lacks(s) = LacksIn(responses, s)
  BY DEF Importing!Lacks, LacksIn, Importing!Saved
<1>2. \A n : Importing!IssueLacks(n) = IssueLacksIn(responses, n)
  BY <1>1 DEF Importing!IssueLacks, IssueLacksIn, Importing!Saved
<1>3. \A c : Importing!NumbersOf(c) = NumbersIn(responses, c)
  BY DEF Importing!NumbersOf, NumbersIn
<1>4. \A c : Importing!Told(c) <=> ToldIn(responses, c)
  BY DEF Importing!Told, ToldIn, Importing!Saved
<1>5. \A n, first : Importing!ClosedBy(n, first) = ClosedIn(responses, n, first)
  BY <1>3 DEF Importing!ClosedBy, ClosedIn
<1>6. \A first : Importing!NumbersUpTo(first) = UpToIn(responses, first)
  BY <1>5 DEF Importing!NumbersUpTo, UpToIn
<1>7. \A n, first : Importing!DocumentUpTo(n, first) = DocumentIn(responses, n, first)
  BY <1>5 DEF Importing!DocumentUpTo, DocumentIn, Importing!FileName, NameIn,
              Importing!Sources, RejectedIn
<1> QED
  BY <1>1, <1>2, <1>3, <1>4, <1>5, <1>6, <1>7

LEMMA SavedAreNext ==
    /\ \A s : Importing!Lacks(s)' = LacksIn(responses', s)
    /\ \A n : Importing!IssueLacks(n)' = IssueLacksIn(responses', n)
    /\ \A c : Importing!NumbersOf(c)' = NumbersIn(responses', c)
    /\ \A c : Importing!Told(c)' <=> ToldIn(responses', c)
    /\ \A n, first : Importing!ClosedBy(n, first)' = ClosedIn(responses', n, first)
    /\ \A first : Importing!NumbersUpTo(first)' = UpToIn(responses', first)
    /\ \A n, first : Importing!DocumentUpTo(n, first)' = DocumentIn(responses', n, first)
<1>1. \A s : Importing!Lacks(s)' = LacksIn(responses', s)
  BY DEF Importing!Lacks, LacksIn, Importing!Saved
<1>2. \A n : Importing!IssueLacks(n)' = IssueLacksIn(responses', n)
  BY <1>1 DEF Importing!IssueLacks, IssueLacksIn, Importing!Saved
<1>3. \A c : Importing!NumbersOf(c)' = NumbersIn(responses', c)
  BY DEF Importing!NumbersOf, NumbersIn
<1>4. \A c : Importing!Told(c)' <=> ToldIn(responses', c)
  BY DEF Importing!Told, ToldIn, Importing!Saved
<1>5. \A n, first : Importing!ClosedBy(n, first)' = ClosedIn(responses', n, first)
  BY <1>3 DEF Importing!ClosedBy, ClosedIn
<1>6. \A first : Importing!NumbersUpTo(first)' = UpToIn(responses', first)
  BY <1>5 DEF Importing!NumbersUpTo, UpToIn
<1>7. \A n, first : Importing!DocumentUpTo(n, first)' = DocumentIn(responses', n, first)
  BY <1>5 DEF Importing!DocumentUpTo, DocumentIn, Importing!FileName, NameIn,
              Importing!Sources, RejectedIn
<1> QED
  BY <1>1, <1>2, <1>3, <1>4, <1>5, <1>6, <1>7

LEMMA BuildIs ==
    Importing!BuildSound
      <=> BuildShaped(build) /\ (build.running /\ ~build.lost => BuildTold(responses, build))
BY SavedAre DEF Importing!BuildSound, BuildShaped, BuildTold

LEMMA BuildIsNext ==
    Importing!BuildSound'
      <=> BuildShaped(build') /\ (build'.running /\ ~build'.lost => BuildTold(responses', build'))
BY SavedAreNext DEF Importing!BuildSound, BuildShaped, BuildTold

LEMMA WarmIs ==
    Importing!WarmSound
      <=> (warm.known => /\ WarmTold(responses, warm.docs)
                         /\ ~build.lost /\ build.call = Importing!NoCall)
BY SavedAre DEF Importing!WarmSound, WarmTold

LEMMA WarmIsNext ==
    Importing!WarmSound'
      <=> (warm'.known => /\ WarmTold(responses', warm'.docs)
                          /\ ~build'.lost /\ build'.call = Importing!NoCall)
BY SavedAreNext DEF Importing!WarmSound, WarmTold

LEMMA EarlierIn ==
    ASSUME NEW S, NEW s \in Seq(S), NEW i \in DOMAIN s, NEW j \in 1..(i - 1)
    PROVE  j \in DOMAIN s
OBVIOUS

\* Nothing is asked for exactly when all of it is saved: if something lacks, so does what
\* comes first.
Sufficient(r, n) ==
    /\ Importing!Path("issue", n) \in DOMAIN r /\ Importing!Path("timeline", n) \in DOMAIN r
    /\ \A i \in DOMAIN r[Importing!Path("timeline", n)] :
         LacksIn(r, r[Importing!Path("timeline", n)][i]) = {}

LEMMA NothingLacks ==
    ASSUME NEW r, SavedIs(r), NEW n, IssueLacksIn(r, n) = {}
    PROVE  Sufficient(r, n)
<1> DEFINE mentions == r[Importing!Path("timeline", n)]
           lacking == {i \in DOMAIN mentions : LacksIn(r, mentions[i]) # {}}
<1>1. Importing!Path("issue", n) \in DOMAIN r /\ Importing!Path("timeline", n) \in DOMAIN r
  BY DEF IssueLacksIn
<1>2. DOMAIN mentions \subseteq Nat
  <2>1. Importing!Paged(Importing!Path("timeline", n))
    BY DEF Importing!Paged, Importing!Path
  <2>2. mentions \in Seq(Entry)
    BY <1>1, <2>1 DEF SavedIs
  <2> HIDE DEF mentions
  <2> QED
    BY <2>2
<1>3. lacking = {}
  <2> SUFFICES ASSUME lacking # {} PROVE FALSE
    OBVIOUS
  <2>1. lacking \subseteq Nat
    BY <1>2
  <2>2. PICK i \in lacking : \A j \in lacking : i <= j
    BY <2>1, LeastNatural
  <2>3. \A j \in 1..(i - 1) : LacksIn(r, mentions[j]) = {}
    <3> SUFFICES ASSUME NEW j \in 1..(i - 1), LacksIn(r, mentions[j]) # {} PROVE FALSE
      OBVIOUS
    <3>1. j \in DOMAIN mentions
      <4>1. Importing!Paged(Importing!Path("timeline", n))
        BY DEF Importing!Paged, Importing!Path
      <4>2. mentions \in Seq(Entry)
        BY <1>1, <4>1 DEF SavedIs
      <4>3. i \in DOMAIN mentions
        BY <2>2
      <4> HIDE DEF mentions
      <4> QED
        BY <4>2, <4>3, EarlierIn
    <3>2. j \in lacking
      BY <3>1
    <3>3. i \in Nat /\ i <= j
      BY <2>1, <2>2, <3>2
    <3> HIDE DEF mentions, lacking
    <3> QED
      BY <3>3
  <2>4. LacksIn(r, mentions[i]) \subseteq IssueLacksIn(r, n)
    BY <1>1, <2>2, <2>3 DEF IssueLacksIn
  <2> QED
    BY <2>2, <2>4
<1> QED
  BY <1>1, <1>3 DEF Sufficient

LEMMA SufficientLacksNothing ==
    ASSUME NEW r, NEW n, Sufficient(r, n)
    PROVE  IssueLacksIn(r, n) = {}
BY DEF Sufficient, IssueLacksIn

\* What is asked for is not saved, and a timeline is of a number.
LEMMA LacksAre ==
    ASSUME NEW r, NEW n \in Number, NEW path \in IssueLacksIn(r, n)
    PROVE  /\ path \notin DOMAIN r
           /\ path \in [kind : {"issue", "pull", "timeline", "comments"}, n : {path.n}]
           /\ path.kind = "timeline" => path.n \in Number
<1>1. \A kind, x : /\ Importing!Path(kind, x) = [kind |-> kind, n |-> x]
                   /\ Importing!Path(kind, x).kind = kind /\ Importing!Path(kind, x).n = x
  BY DEF Importing!Path
<1>2. CASE path = Importing!Path("issue", n) /\ path \notin DOMAIN r
  BY <1>1, <1>2
<1>3. CASE path = Importing!Path("timeline", n) /\ path \notin DOMAIN r
  BY <1>1, <1>3
<1>4. CASE \E s : path \in LacksIn(r, s)
  <2>1. PICK s : path \in LacksIn(r, s)
    BY <1>4
  <2>2. path \notin DOMAIN r /\ (path = Importing!Item(s) \/ path = Importing!Path("comments", s))
    BY <2>1 DEF LacksIn
  <2>3. path = Importing!Path("issue", s) \/ path = Importing!Path("pull", s)
        \/ path = Importing!Path("comments", s)
    BY <2>2 DEF Importing!Item
  <2> QED
    BY <1>1, <2>2, <2>3
<1> QED
  BY <1>2, <1>3, <1>4 DEF IssueLacksIn

\* What is saved stays as it is when more is saved, and so does what is made of it.
Grown(r, q) == DOMAIN r \subseteq DOMAIN q /\ \A path \in DOMAIN r : q[path] = r[path]

LEMMA ToldGrows ==
    ASSUME NEW r, NEW q, Grown(r, q), NEW c, ToldIn(r, c)
    PROVE  ToldIn(q, c) /\ NumbersIn(q, c) = NumbersIn(r, c)
BY DEF Grown, ToldIn, NumbersIn

LEMMA ClosedGrows ==
    ASSUME NEW r, NEW q, Grown(r, q), NEW first, \A c \in 1..first : ToldIn(r, c)
    PROVE  /\ \A n : ClosedIn(q, n, first) = ClosedIn(r, n, first)
           /\ UpToIn(q, first) = UpToIn(r, first)
<1>1. \A c \in 1..first : NumbersIn(q, c) = NumbersIn(r, c)
  BY ToldGrows
<1>2. \A n : ClosedIn(q, n, first) = ClosedIn(r, n, first)
  BY <1>1 DEF ClosedIn
<1> QED
  BY <1>2 DEF UpToIn

LEMMA DocumentGrows ==
    ASSUME NEW r, NEW q, Grown(r, q), NEW n, Sufficient(r, n)
    PROVE  Sufficient(q, n) /\ NameIn(q, n) = NameIn(r, n) /\ RejectedIn(q, n) = RejectedIn(r, n)
<1> DEFINE mentions == r[Importing!Path("timeline", n)]
<1>1. /\ Importing!Path("issue", n) \in DOMAIN r /\ Importing!Path("timeline", n) \in DOMAIN r
      /\ \A i \in DOMAIN mentions : LacksIn(r, mentions[i]) = {}
  BY DEF Sufficient
<1>2. /\ Importing!Path("issue", n) \in DOMAIN q /\ Importing!Path("timeline", n) \in DOMAIN q
      /\ q[Importing!Path("timeline", n)] = mentions
      /\ q[Importing!Path("issue", n)] = r[Importing!Path("issue", n)]
  BY <1>1 DEF Grown
<1>3. ASSUME NEW s, LacksIn(r, s) = {}
      PROVE  LacksIn(q, s) = {} /\ (s # 0 => q[Importing!Item(s)] = r[Importing!Item(s)])
  <2>1. CASE s = 0
    BY <2>1 DEF LacksIn
  <2>2. CASE s # 0
    <3>1. Importing!Item(s) \in DOMAIN r
      BY <1>3, <2>2 DEF LacksIn
    <3>2. Importing!Item(s) \in DOMAIN q /\ q[Importing!Item(s)] = r[Importing!Item(s)]
      BY <3>1 DEF Grown
    <3>3. CASE r[Importing!Item(s)].state = "rejected"
      <4>1. Importing!Path("comments", s) \in DOMAIN r
        BY <1>3, <2>2, <3>1, <3>3 DEF LacksIn
      <4>2. Importing!Path("comments", s) \in DOMAIN q
        BY <4>1 DEF Grown
      <4> QED
        BY <3>2, <4>2 DEF LacksIn
    <3>4. CASE r[Importing!Item(s)].state # "rejected"
      BY <3>2, <3>4 DEF LacksIn
    <3> QED
      BY <3>3, <3>4
  <2> QED
    BY <2>1, <2>2
<1>4. Sufficient(q, n)
  BY <1>1, <1>2, <1>3 DEF Sufficient
<1>5. \A s \in Number \cap Importing!Range(mentions) :
         q[Importing!Item(s)] = r[Importing!Item(s)]
  <2> SUFFICES ASSUME NEW s \in Number \cap Importing!Range(mentions)
               PROVE  q[Importing!Item(s)] = r[Importing!Item(s)]
    OBVIOUS
  <2>1. PICK i \in DOMAIN mentions : s = mentions[i]
    BY DEF Importing!Range
  <2>2. s # 0
    BY ImportAssumption DEF Numbered
  <2> HIDE DEF mentions
  <2> QED
    BY <1>1, <1>3, <2>1, <2>2
<1>6. RejectedIn(q, n) = RejectedIn(r, n)
  BY <1>2, <1>5 DEF RejectedIn
<1>7. NameIn(q, n) = NameIn(r, n)
  BY <1>2 DEF NameIn
<1> QED
  BY <1>4, <1>6, <1>7

LEMMA BuildGrows ==
    ASSUME NEW r, NEW q, SavedIs(r), Grown(r, q), NEW b, BuildTold(r, b)
    PROVE  BuildTold(q, b)
<1> DEFINE first == b.commit - 1
           done == UpToIn(r, first) \ b.left
<1>1. /\ \A c \in 1..first : ToldIn(r, c)
      /\ \A n \in Number : b.links[n] = ClosedIn(r, n, first)
      /\ b.left \subseteq UpToIn(r, first)
      /\ b.commit <= Len(Commits) => done = {}
      /\ \A n \in done : IssueLacksIn(r, n) = {}
      /\ b.docs = {DocumentIn(r, n, first) : n \in done}
  BY DEF BuildTold
<1> HIDE DEF first
<1>2. /\ \A c \in 1..first : ToldIn(q, c)
      /\ \A n : ClosedIn(q, n, first) = ClosedIn(r, n, first)
      /\ UpToIn(q, first) = UpToIn(r, first)
  BY <1>1, ToldGrows, ClosedGrows
<1>3. \A n \in done : IssueLacksIn(q, n) = {} /\ DocumentIn(q, n, first) = DocumentIn(r, n, first)
  <2> SUFFICES ASSUME NEW n \in done
               PROVE  IssueLacksIn(q, n) = {} /\ DocumentIn(q, n, first) = DocumentIn(r, n, first)
    OBVIOUS
  <2>1. Sufficient(r, n)
    BY <1>1, NothingLacks
  <2>2. Sufficient(q, n) /\ NameIn(q, n) = NameIn(r, n) /\ RejectedIn(q, n) = RejectedIn(r, n)
    BY <2>1, DocumentGrows
  <2>3. IssueLacksIn(q, n) = {}
    BY <2>2, SufficientLacksNothing
  <2>4. DocumentIn(q, n, first) = DocumentIn(r, n, first)
    BY <1>2, <2>2 DEF DocumentIn
  <2> QED
    BY <2>3, <2>4
<1>4. b.docs = {DocumentIn(q, n, first) : n \in done}
  BY <1>1, <1>3
<1>5. done = UpToIn(q, first) \ b.left
  BY <1>2
<1> HIDE DEF done
<1>6. \A n \in Number : b.links[n] = ClosedIn(q, n, first)
  BY <1>1, <1>2
<1>7. b.left \subseteq UpToIn(q, first)
  BY <1>1, <1>2
<1> QED
  BY <1>1, <1>2, <1>3, <1>4, <1>5, <1>6, <1>7 DEF BuildTold, first

\* The fields of a build, and a build whose call changes.
LEMMA BuildFields ==
    ASSUME NEW b, BuildShaped(b)
    PROVE  /\ b.running \in BOOLEAN /\ b.lost \in BOOLEAN
           /\ b.commit \in 0..(Len(Commits) + 1)
           /\ b.links \in [Number -> SUBSET Nat] /\ b.left \subseteq Number
           /\ ~b.running => ~b.lost /\ b.call = Importing!NoCall
<1>1. b.running \in BOOLEAN /\ b.lost \in BOOLEAN /\ b.commit \in 0..(Len(Commits) + 1)
  BY DEF BuildShaped
<1>2. b.links \in [Number -> SUBSET Nat] /\ b.left \subseteq Number
  BY DEF BuildShaped
<1>3. ~b.running => ~b.lost /\ b.call = Importing!NoCall
  BY DEF BuildShaped, Importing!Off
<1> QED
  BY <1>1, <1>2, <1>3

LEMMA CallChanges ==
    ASSUME NEW b, BuildShaped(b), b.running, NEW call, NEW r, NEW b2,
           b2 = [b EXCEPT !.call = call]
    PROVE  /\ BuildShaped(b2) /\ b2.running /\ b2.lost = b.lost /\ b2.call = call
           /\ BuildTold(r, b) => BuildTold(r, b2)
<1>1. b \in [running : {b.running}, online : {b.online}, commit : {b.commit},
             links : {b.links}, left : {b.left}, call : {b.call},
             closed : {b.closed}, lost : {b.lost}, docs : {b.docs}]
  BY DEF BuildShaped
<1>2. b2 \in [running : {b.running}, online : {b.online}, commit : {b.commit},
              links : {b.links}, left : {b.left}, call : {call},
              closed : {b.closed}, lost : {b.lost}, docs : {b.docs}]
  BY <1>1
<1>3. /\ b2.running = b.running /\ b2.online = b.online /\ b2.commit = b.commit
      /\ b2.links = b.links /\ b2.left = b.left /\ b2.call = call /\ b2.closed = b.closed
      /\ b2.lost = b.lost /\ b2.docs = b.docs
  BY <1>2
<1>4. BuildTold(r, b) => BuildTold(r, b2)
  BY <1>3 DEF BuildTold
<1>5. /\ b.running \in BOOLEAN /\ b.online \in BOOLEAN /\ b.commit \in 0..(Len(Commits) + 1)
      /\ b.links \in [Number -> SUBSET Nat] /\ b.left \in SUBSET Number
      /\ b.closed \in BOOLEAN /\ b.lost \in BOOLEAN /\ b.commit >= 1
  BY DEF BuildShaped
<1>6. BuildShaped(b2)
  BY <1>2, <1>3, <1>5 DEF BuildShaped
<1> QED
  BY <1>3, <1>4, <1>6

\* What a commit closes is linked to it.
LinkedTo(b, b2, numbers) ==
    /\ BuildShaped(b2) /\ b2.running /\ numbers \subseteq Number
    /\ b2.commit = b.commit + 1 /\ b2.left = b.left \cup numbers
    /\ \A n \in Number : b2.links[n] = IF n \in numbers THEN b.links[n] \cup {b.commit}
                                       ELSE b.links[n]
    /\ b2.call = b.call /\ b2.lost = b.lost /\ b2.docs = b.docs
LEMMA LinkedIs ==
    ASSUME NEW b, BuildShaped(b), b.running, b.commit <= Len(Commits),
           NEW pulled \in SUBSET Number
    PROVE  LinkedTo(b, Importing!Linked(b, pulled), Importing!Closing(Commits[b.commit]) \cup pulled)
<1> DEFINE b2 == Importing!Linked(b, pulled)
           numbers == Importing!Closing(Commits[b.commit]) \cup pulled
           links == [n \in Number |-> IF n \in numbers THEN b.links[n] \cup {b.commit}
                                      ELSE b.links[n]]
           left == b.left \cup numbers
<1>1. /\ b.running \in BOOLEAN /\ b.online \in BOOLEAN /\ b.commit \in 0..(Len(Commits) + 1)
      /\ b.links \in [Number -> SUBSET Nat] /\ b.left \in SUBSET Number
      /\ b.closed \in BOOLEAN /\ b.lost \in BOOLEAN /\ b.commit >= 1
  BY DEF BuildShaped
<1>2. b \in [running : {b.running}, online : {b.online}, commit : {b.commit},
             links : {b.links}, left : {b.left}, call : {b.call},
             closed : {b.closed}, lost : {b.lost}, docs : {b.docs}]
  BY DEF BuildShaped
<1>3. Len(Commits) \in Nat /\ DOMAIN Commits = 1..Len(Commits)
      /\ \A c \in DOMAIN Commits : Commits[c].closes \subseteq Number
  BY ImportAssumption DEF Numbered
<1>4. b.commit \in 1..Len(Commits) /\ b.commit + 1 \in 0..(Len(Commits) + 1) /\ b.commit \in Nat
  BY <1>1, <1>3
<1>5. numbers \subseteq Number
  BY <1>3, <1>4 DEF Importing!Closing
<1>6. b2 = [b EXCEPT !.commit = b.commit + 1, !.left = left, !.links = links]
  BY <1>2 DEF Importing!Linked
<1> HIDE DEF b2, numbers
<1>7. links \in [Number -> SUBSET Nat] /\ left \in SUBSET Number
  BY <1>1, <1>4, <1>5
<1> HIDE DEF links, left
<1>8. b2 \in [running : {b.running}, online : {b.online}, commit : {b.commit + 1},
              links : {links}, left : {left}, call : {b.call},
              closed : {b.closed}, lost : {b.lost}, docs : {b.docs}]
  BY <1>2, <1>6
<1>9. /\ b2.running = b.running /\ b2.online = b.online /\ b2.commit = b.commit + 1
      /\ b2.links = links /\ b2.left = left /\ b2.call = b.call /\ b2.closed = b.closed
      /\ b2.lost = b.lost /\ b2.docs = b.docs
  BY <1>8
<1>10. b.commit + 1 >= 1
  BY <1>4
<1>11. BuildShaped(b2)
  BY <1>1, <1>4, <1>7, <1>8, <1>9, <1>10 DEF BuildShaped
<1> QED
  <2>1. \A n \in Number : b2.links[n] = IF n \in numbers THEN b.links[n] \cup {b.commit}
                                        ELSE b.links[n]
    BY <1>9 DEF links
  <2>2. LinkedTo(b, b2, numbers)
    BY <1>5, <1>9, <1>11, <2>1 DEF LinkedTo, left
  <2> QED
    BY <2>2 DEF b2, numbers

\* A build that fails at something has lost it, and goes on with the next.
LEMMA SkipIs ==
    ASSUME BuildShaped(build), build.running, NEW closed \in BOOLEAN, Importing!Skip(closed)
    PROVE  /\ BuildShaped(build') /\ build'.lost /\ build'.call = Importing!NoCall
           /\ UNCHANGED <<hub, responses, warm>>
<1> DEFINE failed == [build EXCEPT !.call = Importing!NoCall, !.lost = TRUE,
                                   !.closed = build.closed \/ closed]
<1>1. /\ build.running \in BOOLEAN /\ build.online \in BOOLEAN
      /\ build.commit \in 0..(Len(Commits) + 1)
      /\ build.links \in [Number -> SUBSET Nat] /\ build.left \in SUBSET Number
      /\ build.closed \in BOOLEAN /\ build.lost \in BOOLEAN /\ build.commit >= 1
  BY DEF BuildShaped
<1>2. build \in [running : {build.running}, online : {build.online}, commit : {build.commit},
                 links : {build.links}, left : {build.left}, call : {build.call},
                 closed : {build.closed}, lost : {build.lost}, docs : {build.docs}]
  BY DEF BuildShaped
<1>3. UNCHANGED <<hub, responses, warm>>
  BY DEF Importing!Skip
<1>4. build' = IF Importing!Resolving THEN Importing!Linked(failed, {})
               ELSE [failed EXCEPT !.left = failed.left \ {Importing!Current}]
  BY <1>2 DEF Importing!Skip
<1>5. failed \in [running : {build.running}, online : {build.online}, commit : {build.commit},
                  links : {build.links}, left : {build.left}, call : {Importing!NoCall},
                  closed : {build.closed \/ closed}, lost : {TRUE}, docs : {build.docs}]
  BY <1>2
<1> HIDE DEF failed
<1>6. /\ failed.running = build.running /\ failed.online = build.online
      /\ failed.commit = build.commit /\ failed.links = build.links
      /\ failed.left = build.left /\ failed.call = Importing!NoCall
      /\ failed.closed = (build.closed \/ closed) /\ failed.lost = TRUE
      /\ failed.docs = build.docs
  BY <1>5
<1>7. failed.closed \in BOOLEAN
  BY <1>1, <1>6
<1>8. BuildShaped(failed) /\ failed.running
  BY <1>1, <1>5, <1>6, <1>7 DEF BuildShaped
<1>9. CASE Importing!Resolving
  <2>1. failed.commit <= Len(Commits)
    BY <1>6, <1>9 DEF Importing!Resolving
  <2>2. {} \in SUBSET Number
    OBVIOUS
  <2>3. build' = Importing!Linked(failed, {})
    BY <1>4, <1>9
  <2>5. LinkedTo(failed, Importing!Linked(failed, {}),
                 Importing!Closing(Commits[failed.commit]) \cup {})
    BY <1>8, <2>1, <2>2, LinkedIs
  <2>4. BuildShaped(build') /\ build'.call = failed.call /\ build'.lost = failed.lost
    BY <2>3, <2>5 DEF LinkedTo
  <2> QED
    BY <1>3, <1>6, <2>4
<1>10. CASE ~Importing!Resolving
  <2> DEFINE left == failed.left \ {Importing!Current}
  <2>1. build' = [failed EXCEPT !.left = left]
    BY <1>4, <1>10
  <2>2. left \in SUBSET Number
    BY <1>1, <1>6
  <2> HIDE DEF left
  <2>3. build' \in [running : {build.running}, online : {build.online}, commit : {build.commit},
                    links : {build.links}, left : {left}, call : {Importing!NoCall},
                    closed : {failed.closed}, lost : {TRUE}, docs : {build.docs}]
    BY <1>5, <1>6, <2>1
  <2>4. /\ build'.running = build.running /\ build'.commit = build.commit
        /\ build'.call = Importing!NoCall /\ build'.lost = TRUE /\ build'.docs = build.docs
    BY <2>3
  <2>5. BuildShaped(build')
    BY <1>1, <1>7, <2>2, <2>3, <2>4 DEF BuildShaped
  <2> QED
    BY <1>3, <2>4, <2>5
<1> QED
  BY <1>9, <1>10

\* What a build knows after a commit: it has read what the pull request of the commit says.
LEMMA CommitKeeps ==
    ASSUME NEW r, SavedIs(r), NEW b, BuildShaped(b), b.running, b.commit <= Len(Commits),
           BuildTold(r, b), ToldIn(r, b.commit), NEW pulled,
           pulled = IF Commits[b.commit].pr = 0 THEN {}
                    ELSE r[Importing!Path("pull", Commits[b.commit].pr)].closes,
           NEW b2, b2 = Importing!Linked(b, pulled)
    PROVE  /\ BuildShaped(b2) /\ b2.running /\ b2.lost = b.lost /\ b2.call = b.call
           /\ BuildTold(r, b2)
<1> DEFINE c == b.commit
           first == c - 1
           numbers == Importing!Closing(Commits[c]) \cup pulled
<1>1. pulled \subseteq Number
  <2>1. CASE Commits[b.commit].pr = 0
    BY <2>1
  <2>2. CASE Commits[b.commit].pr # 0
    <3>1. Importing!Path("pull", Commits[b.commit].pr) \in DOMAIN r
      BY <2>2 DEF ToldIn
    <3>2. Importing!Path("pull", Commits[b.commit].pr).kind = "pull"
      BY DEF Importing!Path
    <3> QED
      BY <2>2, <3>1, <3>2 DEF SavedIs
  <2> QED
    BY <2>1, <2>2
<1>15. LinkedTo(b, Importing!Linked(b, pulled), Importing!Closing(Commits[b.commit]) \cup pulled)
  BY <1>1, LinkedIs
<1>16. LinkedTo(b, b2, numbers)
  BY <1>15
<1> HIDE DEF numbers
<1>2. /\ BuildShaped(b2) /\ b2.running /\ numbers \subseteq Number
      /\ b2.commit = c + 1 /\ b2.left = b.left \cup numbers
      /\ \A n \in Number : b2.links[n] = IF n \in numbers THEN b.links[n] \cup {c}
                                         ELSE b.links[n]
      /\ b2.call = b.call /\ b2.lost = b.lost /\ b2.docs = b.docs
  BY <1>16 DEF LinkedTo
<1>3. numbers = NumbersIn(r, c)
  BY DEF NumbersIn, numbers
<1>4. c \in Nat /\ c >= 1 /\ (c + 1) - 1 = c /\ 1..c = (1..first) \cup {c} /\ c \notin 1..first
  <2>1. c \in 0..(Len(Commits) + 1) /\ c >= 1
    BY BuildFields DEF BuildShaped
  <2>2. Len(Commits) \in Nat
    BY ImportAssumption DEF Numbered
  <2> HIDE DEF c
  <2>3. c \in Nat
    BY <2>1, <2>2
  <2> QED
    BY <2>1, <2>3
<1>5. /\ \A x \in 1..first : ToldIn(r, x)
      /\ \A n \in Number : b.links[n] = ClosedIn(r, n, first)
      /\ b.left \subseteq UpToIn(r, first)
      /\ UpToIn(r, first) \ b.left = {}
      /\ b.docs = {DocumentIn(r, n, first) : n \in UpToIn(r, first) \ b.left}
  <2>1. c <= Len(Commits)
    OBVIOUS
  <2> QED
    BY <2>1 DEF BuildTold
<1> HIDE DEF c, first
<1>6. ToldIn(r, c)
  BY DEF c
<1>7. \A x \in 1..c : ToldIn(r, x)
  BY <1>4, <1>5, <1>6
<1>8. \A n : /\ n \in numbers => ClosedIn(r, n, c) = ClosedIn(r, n, first) \cup {c}
             /\ n \notin numbers => ClosedIn(r, n, c) = ClosedIn(r, n, first)
  <2>1. ASSUME NEW n, n \in numbers
        PROVE  ClosedIn(r, n, c) = ClosedIn(r, n, first) \cup {c}
    BY <1>3, <1>4, <2>1 DEF ClosedIn
  <2>2. ASSUME NEW n, n \notin numbers
        PROVE  ClosedIn(r, n, c) = ClosedIn(r, n, first)
    BY <1>3, <1>4, <2>2 DEF ClosedIn
  <2> QED
    BY <2>1, <2>2
<1>9. \A n \in Number : b2.links[n] = ClosedIn(r, n, c)
  <2> SUFFICES ASSUME NEW n \in Number PROVE b2.links[n] = ClosedIn(r, n, c)
    OBVIOUS
  <2>1. b.links[n] = ClosedIn(r, n, first)
    BY <1>5
  <2>2. CASE n \in numbers
    <3>1. b2.links[n] = b.links[n] \cup {c}
      BY <1>2, <2>2
    <3> QED
      BY <1>8, <2>1, <2>2, <3>1
  <2>3. CASE n \notin numbers
    <3>1. b2.links[n] = b.links[n]
      BY <1>2, <2>3
    <3> QED
      BY <1>8, <2>1, <2>3, <3>1
  <2> QED
    BY <2>2, <2>3
<1>10. UpToIn(r, c) = UpToIn(r, first) \cup numbers
  <2>1. \A n \in Number : ClosedIn(r, n, c) # {} <=> n \in numbers \/ ClosedIn(r, n, first) # {}
    BY <1>8
  <2> QED
    BY <1>2, <2>1 DEF UpToIn
<1>11. b2.left = UpToIn(r, c)
  BY <1>2, <1>5, <1>10
<1>12. b2.docs = {} /\ UpToIn(r, c) \ b2.left = {}
  BY <1>2, <1>5, <1>11
<1>13. b2.commit - 1 = c
  BY <1>2, <1>4
<1>14. BuildTold(r, b2)
  BY <1>7, <1>9, <1>11, <1>12, <1>13 DEF BuildTold
<1> QED
  BY <1>2, <1>14

\* What a build knows after a document: nothing of it lacks.
LEMMA DocumentKeeps ==
    ASSUME NEW r, NEW b, BuildShaped(b), b.running, b.commit > Len(Commits),
           BuildTold(r, b), NEW n \in b.left, IssueLacksIn(r, n) = {},
           NEW b2, b2 = [b EXCEPT !.left = b.left \ {n},
                                  !.docs = b.docs \cup {[file |-> NameIn(r, n),
                                                         commits |-> b.links[n],
                                                         rejected |-> RejectedIn(r, n)]}]
    PROVE  /\ BuildShaped(b2) /\ b2.running /\ b2.lost = b.lost /\ b2.call = b.call
           /\ BuildTold(r, b2)
<1> DEFINE first == b.commit - 1
           left == b.left \ {n}
           docs == b.docs \cup {[file |-> NameIn(r, n), commits |-> b.links[n],
                                 rejected |-> RejectedIn(r, n)]}
<1>1. b \in [running : {b.running}, online : {b.online}, commit : {b.commit},
             links : {b.links}, left : {b.left}, call : {b.call},
             closed : {b.closed}, lost : {b.lost}, docs : {b.docs}]
  BY DEF BuildShaped
<1>2. /\ b.running \in BOOLEAN /\ b.online \in BOOLEAN /\ b.commit \in 0..(Len(Commits) + 1)
      /\ b.links \in [Number -> SUBSET Nat] /\ b.left \in SUBSET Number
      /\ b.closed \in BOOLEAN /\ b.lost \in BOOLEAN /\ b.commit >= 1
  BY DEF BuildShaped
<1>3. b2 = [b EXCEPT !.left = left, !.docs = docs]
  OBVIOUS
<1>4. /\ \A c \in 1..first : ToldIn(r, c)
      /\ \A m \in Number : b.links[m] = ClosedIn(r, m, first)
      /\ b.left \subseteq UpToIn(r, first)
      /\ \A m \in UpToIn(r, first) \ b.left : IssueLacksIn(r, m) = {}
      /\ b.docs = {DocumentIn(r, m, first) : m \in UpToIn(r, first) \ b.left}
  BY DEF BuildTold
<1>5. n \in Number /\ left \in SUBSET Number
  BY <1>2
<1>6. docs = b.docs \cup {DocumentIn(r, n, first)}
  BY <1>4, <1>5 DEF DocumentIn
<1> HIDE DEF first, left, docs
<1>7. b2 \in [running : {b.running}, online : {b.online}, commit : {b.commit},
              links : {b.links}, left : {left}, call : {b.call},
              closed : {b.closed}, lost : {b.lost}, docs : {docs}]
  BY <1>1, <1>3
<1>8. /\ b2.running = b.running /\ b2.online = b.online /\ b2.commit = b.commit
      /\ b2.links = b.links /\ b2.left = left /\ b2.call = b.call /\ b2.closed = b.closed
      /\ b2.lost = b.lost /\ b2.docs = docs
  BY <1>7
<1>9. BuildShaped(b2)
  BY <1>2, <1>5, <1>7, <1>8 DEF BuildShaped
<1>10. UpToIn(r, first) \ left = (UpToIn(r, first) \ b.left) \cup {n}
  BY <1>4 DEF left
<1>11. docs = {DocumentIn(r, m, first) : m \in UpToIn(r, first) \ left}
  BY <1>4, <1>6, <1>10
<1>12. \A m \in UpToIn(r, first) \ left : IssueLacksIn(r, m) = {}
  BY <1>4, <1>10
<1>13. left \subseteq UpToIn(r, first)
  BY <1>4 DEF left
<1>14. ~(b.commit <= Len(Commits))
  <2>1. Len(Commits) \in Nat
    BY ImportAssumption DEF Numbered
  <2>2. b.commit \in Int
    BY <1>2, <2>1
  <2> QED
    BY <2>1, <2>2
<1>15. b2.commit - 1 = first
  BY <1>8 DEF first
<1>16. BuildTold(r, b2)
  BY <1>4, <1>8, <1>11, <1>12, <1>13, <1>14, <1>15 DEF BuildTold
<1> QED
  BY <1>8, <1>9, <1>16

\* The threads, and what a call has of one.
ThreadIn(h, path) ==
    IF path.kind = "timeline" THEN SubSeq(Mentions[path.n], 1, h.shown[path.n]) ELSE <<0>>
HubIs(h) ==
    /\ h \in [state : {h.state}, shown : [Number -> Nat]]
    /\ \A n \in Number : h.shown[n] <= Len(Mentions[n])
ReadIs(h, call) ==
    /\ call.path.kind = "timeline" => call.path.n \in Number
    /\ call.page \in 1..MaxPages
    /\ call.items \in Seq(Entry)
    /\ Len(call.items) = (call.page - 1) * PageSize
    /\ Len(call.items) <= Len(ThreadIn(h, call.path))
    /\ \A i \in 1..Len(call.items) : call.items[i] = ThreadIn(h, call.path)[i]
    /\ call.begun \in Nat /\ call.begun <= Len(ThreadIn(h, call.path))
CallIs(h, r, running, call) ==
    call # Importing!NoCall =>
        /\ running /\ call.path \notin DOMAIN r
        /\ call \in [path : {call.path}, attempt : Nat, slept : BOOLEAN, page : Nat,
                    items : {call.items}, begun : Nat]
        /\ call.path \in [kind : {"issue", "pull", "timeline", "comments"}, n : {call.path.n}]
        /\ Importing!Paged(call.path) => ReadIs(h, call)

LEMMA CallAre ==
    /\ Importing!HubSound <=> HubIs(hub)
    /\ Importing!SavedSound <=> SavedIs(responses)
    /\ Importing!CallSound <=> CallIs(hub, responses, build.running, build.call)
<1>1. \A path : Importing!Thread(path) = ThreadIn(hub, path)
  BY DEF Importing!Thread, ThreadIn
<1>2. Importing!HubSound <=> HubIs(hub)
  BY DEF Importing!HubSound, HubIs
<1>3. Importing!SavedSound <=> SavedIs(responses)
  BY DEF Importing!SavedSound, SavedIs, Entry
<1>4. Importing!CallSound <=> CallIs(hub, responses, build.running, build.call)
  BY <1>1 DEF Importing!CallSound, CallIs, ReadIs, Importing!Saved, Entry
<1> QED
  BY <1>2, <1>3, <1>4

LEMMA CallAreNext ==
    /\ Importing!HubSound' <=> HubIs(hub')
    /\ Importing!SavedSound' <=> SavedIs(responses')
    /\ Importing!CallSound' <=> CallIs(hub', responses', build'.running, build'.call)
<1>1. \A path : Importing!Thread(path)' = ThreadIn(hub', path)
  BY DEF Importing!Thread, ThreadIn
<1>2. Importing!HubSound' <=> HubIs(hub')
  BY DEF Importing!HubSound, HubIs
<1>3. Importing!SavedSound' <=> SavedIs(responses')
  BY DEF Importing!SavedSound, SavedIs, Entry, Importing!Paged
<1>4. Importing!CallSound' <=> CallIs(hub', responses', build'.running, build'.call)
  BY <1>1 DEF Importing!CallSound, CallIs, ReadIs, Importing!Saved, Entry, Importing!Paged
<1> QED
  BY <1>2, <1>3, <1>4

\* Part of a sequence, and two put together.
LEMMA PartOf ==
    ASSUME NEW S, NEW s \in Seq(S), NEW m \in Int, NEW n \in Int, 1 <= m, m <= n + 1, n <= Len(s)
    PROVE  /\ SubSeq(s, m, n) \in Seq(S) /\ Len(SubSeq(s, m, n)) = n + 1 - m
           /\ \A i \in 1..(n + 1 - m) : SubSeq(s, m, n)[i] = s[m - 1 + i]
<1>1. Len(SubSeq(s, m, n)) = n + 1 - m /\ SubSeq(s, m, n) \in Seq(S)
  OBVIOUS
<1>2. \A i \in 1..(n + 1 - m) : SubSeq(s, m, n)[i] = s[m - 1 + i]
  OBVIOUS
<1> QED
  BY <1>1, <1>2

Joins(S, s, t, u) ==
    /\ u \in Seq(S) /\ Len(u) = Len(s) + Len(t)
    /\ \A i \in 1..Len(s) : u[i] = s[i]
    /\ \A i \in 1..Len(t) : u[Len(s) + i] = t[i]
LEMMA Together ==
    ASSUME NEW S, NEW s \in Seq(S), NEW t \in Seq(S)
    PROVE  Joins(S, s, t, s \o t)
BY DEF Joins

LEMMA Alike ==
    ASSUME NEW S, NEW s \in Seq(S), NEW t \in Seq(S), Len(s) = Len(t),
           \A i \in 1..Len(s) : s[i] = t[i]
    PROVE  s = t
OBVIOUS

\* A thread is a sequence; a timeline has as much of it as is shown.
LEMMA ThreadIs ==
    ASSUME NEW h, HubIs(h), NEW path, path.kind = "timeline" => path.n \in Number
    PROVE  /\ ThreadIn(h, path) \in Seq(Entry) /\ Len(ThreadIn(h, path)) \in Nat
           /\ path.kind = "timeline" =>
                /\ Len(ThreadIn(h, path)) = h.shown[path.n]
                /\ \A i \in 1..h.shown[path.n] : ThreadIn(h, path)[i] = Mentions[path.n][i]
<1> DEFINE t == ThreadIn(h, path)
<1>1. CASE path.kind # "timeline"
  <2>1. t = <<0>>
    BY <1>1 DEF ThreadIn
  <2>2. 0 \in Entry
    BY DEF Entry
  <2>3. ASSUME NEW S, NEW x \in S PROVE <<x>> \in Seq(S) /\ Len(<<x>>) \in Nat
    OBVIOUS
  <2> QED
    BY <1>1, <2>1, <2>2, <2>3
<1>2. CASE path.kind = "timeline"
  <2> DEFINE n == path.n
             k == h.shown[path.n]
             m == Mentions[path.n]
  <2>1. n \in Number /\ k \in Nat /\ k <= Len(m) /\ m \in Seq(Entry)
    BY <1>2, ImportAssumption DEF HubIs, Numbered, Entry
  <2>2. t = SubSeq(m, 1, k)
    BY <1>2 DEF ThreadIn
  <2> HIDE DEF k, m, t
  <2>3. /\ SubSeq(m, 1, k) \in Seq(Entry) /\ Len(SubSeq(m, 1, k)) = k + 1 - 1
        /\ \A i \in 1..(k + 1 - 1) : SubSeq(m, 1, k)[i] = m[1 - 1 + i]
    <3>1. 1 \in Int /\ k \in Int /\ 1 <= 1 /\ 1 <= k + 1 /\ k <= Len(m)
      BY <2>1
    <3> QED
      BY <2>1, <3>1, PartOf
  <2>4. k + 1 - 1 = k /\ \A i \in 1..k : 1 - 1 + i = i
    BY <2>1
  <2>5. t \in Seq(Entry) /\ Len(t) = k /\ \A i \in 1..k : t[i] = m[i]
    BY <2>2, <2>3, <2>4
  <2> QED
    BY <2>1, <2>5 DEF t, k, m
<1> QED
  BY <1>1, <1>2

\* A mention makes a thread longer, and changes nothing of it.
LEMMA ThreadGrows ==
    ASSUME NEW h, HubIs(h), NEW g, HubIs(g), \A n \in Number : h.shown[n] <= g.shown[n],
           NEW path, path.kind = "timeline" => path.n \in Number
    PROVE  /\ Len(ThreadIn(h, path)) <= Len(ThreadIn(g, path))
           /\ \A i \in 1..Len(ThreadIn(h, path)) : ThreadIn(g, path)[i] = ThreadIn(h, path)[i]
<1>1. CASE path.kind # "timeline"
  <2>1. ThreadIn(h, path) = <<0>> /\ ThreadIn(g, path) = <<0>>
    BY <1>1 DEF ThreadIn
  <2>2. Len(ThreadIn(h, path)) \in Nat
    BY ThreadIs
  <2> QED
    BY <2>1, <2>2
<1>2. CASE path.kind = "timeline"
  <2> DEFINE t == ThreadIn(h, path)
             u == ThreadIn(g, path)
             j == h.shown[path.n]
             k == g.shown[path.n]
  <2>1. j \in Nat /\ k \in Nat /\ j <= k
    BY <1>2 DEF HubIs
  <2>2. Len(t) = j /\ \A i \in 1..j : t[i] = Mentions[path.n][i]
    BY <1>2, ThreadIs
  <2>3. Len(u) = k /\ \A i \in 1..k : u[i] = Mentions[path.n][i]
    BY <1>2, ThreadIs
  <2> HIDE DEF t, u, j, k
  <2>4. \A i \in 1..j : i \in 1..k
    BY <2>1
  <2>5. Len(t) <= Len(u) /\ \A i \in 1..Len(t) : u[i] = t[i]
    BY <2>1, <2>2, <2>3, <2>4
  <2> QED
    BY <2>5 DEF t, u
<1> QED
  BY <1>1, <1>2

LEMMA ReadGrows ==
    ASSUME NEW h, HubIs(h), NEW g, HubIs(g), \A n \in Number : h.shown[n] <= g.shown[n],
           NEW call, ReadIs(h, call)
    PROVE  ReadIs(g, call)
<1> DEFINE t == ThreadIn(h, call.path)
           u == ThreadIn(g, call.path)
<1>1. call.path.kind = "timeline" => call.path.n \in Number
  BY DEF ReadIs
<1>2. Len(t) <= Len(u) /\ \A i \in 1..Len(t) : u[i] = t[i]
  BY <1>1, ThreadGrows
<1>3. Len(t) \in Nat /\ Len(u) \in Nat
  BY <1>1, ThreadIs
<1>4. /\ call.items \in Seq(Entry) /\ Len(call.items) <= Len(t)
      /\ \A i \in 1..Len(call.items) : call.items[i] = t[i]
      /\ call.begun \in Nat /\ call.begun <= Len(t)
  BY DEF ReadIs
<1>5. Len(call.items) \in Nat
  BY <1>4
<1> HIDE DEF t, u
<1>6. Len(call.items) <= Len(u) /\ call.begun <= Len(u)
  BY <1>2, <1>3, <1>4, <1>5
<1>7. \A i \in 1..Len(call.items) : call.items[i] = u[i]
  <2>1. \A i \in 1..Len(call.items) : i \in 1..Len(t)
    BY <1>3, <1>4, <1>5
  <2> QED
    BY <1>2, <1>4, <2>1
<1> QED
  BY <1>1, <1>6, <1>7 DEF ReadIs, u

LEMMA Multiples ==
    ASSUME NEW p \in Nat, p >= 1, NEW q \in Nat
    PROVE  /\ p * q \in Nat /\ (p - 1) * q \in Nat /\ (p - 1) * q <= p * q
           /\ (p + 1) - 1 = p /\ p * q = q * p
<1>1. p - 1 \in Nat /\ (p + 1) - 1 = p
  OBVIOUS
<1>2. p * q = (p - 1) * q + q
  OBVIOUS
<1>3. \A x \in Nat : x * q \in Nat
  OBVIOUS
<1>4. (p - 1) * q \in Nat /\ p * q \in Nat
  BY <1>1, <1>3
<1>5. p * q = q * p
  OBVIOUS
<1> QED
  BY <1>1, <1>2, <1>4, <1>5

LEMMA PageIs ==
    ASSUME NEW S, NEW t \in Seq(S), NEW a \in Nat, NEW end \in Nat, a <= end, end <= Len(t)
    PROVE  /\ SubSeq(t, a + 1, end) \in Seq(S) /\ Len(SubSeq(t, a + 1, end)) = end - a
           /\ \A i \in 1..(end - a) : SubSeq(t, a + 1, end)[i] = t[a + i]
<1>1. Len(SubSeq(t, a + 1, end)) = end - a /\ SubSeq(t, a + 1, end) \in Seq(S)
  OBVIOUS
<1>2. \A i \in 1..(end - a) : SubSeq(t, a + 1, end)[i] = t[a + i]
  OBVIOUS
<1> QED
  BY <1>1, <1>2

\* What has been read of a thread, and a page that comes next.
HasRead(t, items, end) ==
    /\ items \in Seq(Entry) /\ Len(items) = end /\ end \in Nat /\ end <= Len(t)
    /\ \A i \in 1..end : items[i] = t[i]
Follows(t, items, more, a, end) ==
    /\ t \in Seq(Entry) /\ items \in Seq(Entry) /\ more \in Seq(Entry)
    /\ a \in Nat /\ end \in Nat /\ a <= end /\ end <= Len(t)
    /\ Len(items) = a /\ \A i \in 1..a : items[i] = t[i]
    /\ Len(more) = end - a /\ \A i \in 1..(end - a) : more[i] = t[a + i]

LEMMA PageJoins ==
    ASSUME NEW t, NEW items, NEW more, NEW a, NEW end, Follows(t, items, more, a, end)
    PROVE  HasRead(t, items \o more, end)
<1> DEFINE all == items \o more
<1>1. /\ t \in Seq(Entry) /\ items \in Seq(Entry) /\ more \in Seq(Entry)
      /\ a \in Nat /\ end \in Nat /\ a <= end /\ end <= Len(t)
      /\ Len(items) = a /\ \A i \in 1..a : items[i] = t[i]
      /\ Len(more) = end - a /\ \A i \in 1..(end - a) : more[i] = t[a + i]
  BY DEF Follows
<1>2. Joins(Entry, items, more, all)
  BY <1>1, Together
<1> HIDE DEF all
<1>3. /\ all \in Seq(Entry) /\ Len(all) = Len(items) + Len(more)
      /\ \A i \in 1..Len(items) : all[i] = items[i]
      /\ \A i \in 1..Len(more) : all[Len(items) + i] = more[i]
  BY <1>2 DEF Joins
<1>4. Len(all) = end
  BY <1>1, <1>3
<1>5. \A i \in 1..end : all[i] = t[i]
  <2> SUFFICES ASSUME NEW i \in 1..end PROVE all[i] = t[i]
    OBVIOUS
  <2>1. CASE i <= a
    BY <1>1, <1>3, <2>1
  <2>2. CASE ~(i <= a)
    <3>1. i - a \in 1..Len(more) /\ i - a \in 1..(end - a) /\ Len(items) + (i - a) = i
          /\ a + (i - a) = i
      BY <1>1, <2>2
    <3>2. all[Len(items) + (i - a)] = more[i - a] /\ more[i - a] = t[a + (i - a)]
      BY <1>1, <1>3, <3>1
    <3> QED
      BY <3>1, <3>2
  <2> QED
    BY <2>1, <2>2
<1> QED
  BY <1>1, <1>3, <1>4, <1>5 DEF HasRead, all

--------------------------------------------------------------------------------
(* GitHubImport: the steps *)

Sound(h, r, b, w) ==
    /\ HubIs(h) /\ SavedIs(r) /\ CallIs(h, r, b.running, b.call)
    /\ BuildShaped(b) /\ (b.running /\ ~b.lost => BuildTold(r, b))
    /\ w.known => WarmTold(r, w.docs) /\ ~b.lost /\ b.call = Importing!NoCall

LEMMA SoundIs == Importing!IInv <=> Sound(hub, responses, build, warm)
BY CallAre, BuildIs, WarmIs DEF Importing!IInv, Sound

LEMMA SoundIsNext == Importing!IInv' <=> Sound(hub', responses', build', warm')
BY CallAreNext, BuildIsNext, WarmIsNext DEF Importing!IInv, Sound

\* The least of what is left is of what is left.
LEMMA CurrentIsLeft ==
    ASSUME BuildShaped(build), build.left # {}
    PROVE  Importing!Current \in build.left
<1>1. build.left \subseteq Nat
  BY BuildFields, ImportAssumption DEF Numbered
<1>2. \E n \in build.left : \A m \in build.left : n <= m
  BY <1>1, LeastNatural
<1> QED
  BY <1>2 DEF Importing!Current

\* A build finds nothing to ask for over what a build that failed at nothing has left.
LEMMA WarmMissesNothing ==
    ASSUME Sound(hub, responses, build, warm), warm.known
    PROVE  /\ build.call = Importing!NoCall /\ ~build.lost
           /\ Importing!Idle => Importing!Missing = {}
<1>1. WarmTold(responses, warm.docs) /\ ~build.lost /\ build.call = Importing!NoCall
  BY DEF Sound
<1>2. ASSUME Importing!Idle
      PROVE  Importing!Missing = {}
  <2>1. build.running /\ BuildShaped(build) /\ BuildTold(responses, build)
    BY <1>1, <1>2 DEF Sound, Importing!Idle, Importing!Resolving, Importing!Documenting
  <2>2. Len(Commits) \in Nat
    BY ImportAssumption DEF Numbered
  <2>3. build.commit \in 0..(Len(Commits) + 1) /\ build.commit >= 1
    BY <2>1 DEF BuildShaped
  <2>4. CASE Importing!Resolving
    <3>1. build.commit \in 1..Len(Commits)
      BY <2>2, <2>3, <2>4 DEF Importing!Resolving
    <3>2. ToldIn(responses, build.commit)
      BY <1>1, <3>1 DEF WarmTold
    <3> QED
      BY <2>4, <3>2 DEF Importing!Missing, ToldIn
  <2>5. CASE ~Importing!Resolving /\ Importing!Documenting
    <3>1. build.commit - 1 = Len(Commits) /\ build.left # {}
      BY <2>2, <2>3, <2>5 DEF Importing!Documenting
    <3>2. build.left \subseteq UpToIn(responses, Len(Commits))
      BY <2>1, <3>1 DEF BuildTold
    <3>3. Importing!Current \in build.left
      BY <2>1, <3>1, CurrentIsLeft
    <3>4. IssueLacksIn(responses, Importing!Current) = {}
      BY <1>1, <3>2, <3>3 DEF WarmTold
    <3> QED
      BY <2>5, <3>4, SavedAre DEF Importing!Missing
  <2> QED
    BY <1>2, <2>4, <2>5 DEF Importing!Idle
<1> QED
  BY <1>1, <1>2

LEMMA HubKeeps ==
    ASSUME Sound(hub, responses, build, warm),
           \/ \E n \in Number, state \in {"done", "rejected"} : Importing!Close(n, state)
           \/ \E n \in Number : Importing!Mention(n)
    PROVE  Sound(hub', responses', build', warm')
<1>1. UNCHANGED <<responses, build, warm>>
  BY DEF Importing!Close, Importing!Mention
<1>2. HubIs(hub)
  BY DEF Sound
<1>3. hub \in [state : {hub.state}, shown : {hub.shown}] /\ hub.shown \in [Number -> Nat]
      /\ \A n \in Number : hub.shown[n] <= Len(Mentions[n])
  BY <1>2 DEF HubIs
<1>4. HubIs(hub') /\ \A n \in Number : hub.shown[n] <= hub'.shown[n]
  <2>1. CASE \E n \in Number, state \in {"done", "rejected"} : Importing!Close(n, state)
    <3>1. PICK n \in Number, state \in {"done", "rejected"} : Importing!Close(n, state)
      BY <2>1
    <3> DEFINE s == [hub.state EXCEPT ![n] = state]
    <3>2. hub' = [hub EXCEPT !.state = s]
      BY <1>3, <3>1 DEF Importing!Close
    <3> HIDE DEF s
    <3>3. hub' \in [state : {s}, shown : {hub.shown}]
      BY <1>3, <3>2
    <3>4. hub'.shown = hub.shown /\ hub'.state = s
      BY <3>3
    <3>5. HubIs(hub')
      BY <1>3, <3>3, <3>4 DEF HubIs
    <3> QED
      BY <1>3, <3>4, <3>5
  <2>2. CASE \E n \in Number : Importing!Mention(n)
    <3>1. PICK n \in Number : Importing!Mention(n)
      BY <2>2
    <3> DEFINE s == [hub.shown EXCEPT ![n] = hub.shown[n] + 1]
    <3>2. hub' = [hub EXCEPT !.shown = s] /\ hub.shown[n] < Len(Mentions[n])
      BY <1>3, <3>1 DEF Importing!Mention
    <3>3. Mentions[n] \in Seq(Number \cup {0})
      BY ImportAssumption DEF Numbered
    <3>4. Len(Mentions[n]) \in Nat
      BY <3>3
    <3>5. /\ s \in [Number -> Nat]
          /\ \A m \in Number : s[m] <= Len(Mentions[m]) /\ hub.shown[m] <= s[m]
      BY <1>3, <3>2, <3>4
    <3> HIDE DEF s
    <3>6. hub' \in [state : {hub.state}, shown : {s}]
      BY <1>3, <3>2
    <3>7. hub'.shown = s /\ hub'.state = hub.state
      BY <3>6
    <3>8. HubIs(hub')
      BY <3>5, <3>6, <3>7 DEF HubIs
    <3> QED
      BY <3>5, <3>7, <3>8
  <2> QED
    BY <2>1, <2>2
<1>5. CallIs(hub', responses, build.running, build.call)
  BY <1>2, <1>4, ReadGrows DEF Sound, CallIs
<1> QED
  BY <1>1, <1>4, <1>5 DEF Sound

\* A build that begins, and one that is off.
LEMMA OffIsSound ==
    /\ BuildShaped(Importing!Off) /\ ~Importing!Off.running /\ ~Importing!Off.lost
    /\ Importing!Off.call = Importing!NoCall
<1> DEFINE links == [n \in Number |-> {}]
<1>1. Importing!Off = [running |-> FALSE, online |-> FALSE, commit |-> 0, links |-> links,
                       left |-> {}, call |-> Importing!NoCall, closed |-> FALSE,
                       lost |-> FALSE, docs |-> {}]
  BY DEF Importing!Off
<1>2. links \in [Number -> SUBSET Nat] /\ {} \in SUBSET Number
  OBVIOUS
<1>3. 0 \in 0..(Len(Commits) + 1)
  BY ImportAssumption DEF Numbered
<1> HIDE DEF links
<1> QED
  BY <1>1, <1>2, <1>3 DEF BuildShaped

LEMMA FreshIsSound ==
    ASSUME NEW r, NEW online \in BOOLEAN, NEW links \in [Number -> SUBSET Nat],
           \A n \in Number : links[n] = {}, NEW call, NEW b,
           b = [running |-> TRUE, online |-> online, commit |-> 1, links |-> links,
                left |-> {}, call |-> call, closed |-> FALSE, lost |-> FALSE, docs |-> {}]
    PROVE  BuildShaped(b) /\ b.running /\ ~b.lost /\ b.call = call /\ BuildTold(r, b)
<1>1. 1 \in 0..(Len(Commits) + 1)
  BY ImportAssumption DEF Numbered
<1>2. BuildShaped(b)
  <2>1. b \in [running : BOOLEAN, online : BOOLEAN, commit : 0..(Len(Commits) + 1),
               links : [Number -> SUBSET Nat], left : SUBSET Number, call : {b.call},
               closed : BOOLEAN, lost : BOOLEAN, docs : {b.docs}]
    BY <1>1
  <2>2. b.running /\ b.commit = 1
    OBVIOUS
  <2>3. b.commit >= 1
    BY <2>2
  <2> QED
    BY <2>1, <2>2, <2>3 DEF BuildShaped
<1>3. \A c \in 1..0 : ToldIn(r, c)
  OBVIOUS
<1>4. \A n : ClosedIn(r, n, 0) = {}
  BY DEF ClosedIn
<1>5. UpToIn(r, 0) = {}
  BY <1>4 DEF UpToIn
<1>6. b.commit - 1 = 0 /\ b.left = {} /\ b.docs = {} /\ b.links = links
  OBVIOUS
<1>7. BuildTold(r, b)
  BY <1>3, <1>4, <1>5, <1>6 DEF BuildTold
<1> QED
  BY <1>2, <1>7

LEMMA BuildEnds ==
    ASSUME Sound(hub, responses, build, warm),
           Importing!Die \/ Importing!EmptyCache \/ \E online \in BOOLEAN : Importing!StartBuild(online)
    PROVE  Sound(hub', responses', build', warm')
<1>1. HubIs(hub) /\ SavedIs(responses) /\ BuildShaped(build)
  BY DEF Sound
<1>2. \A h, r, running : CallIs(h, r, running, Importing!NoCall)
  BY DEF CallIs
<1>3. CASE Importing!Die
  <2>1. build' = Importing!Off /\ UNCHANGED <<hub, responses, warm>>
    BY <1>3 DEF Importing!Die
  <2> QED
    BY <1>1, <1>2, <2>1, OffIsSound DEF Sound
<1>4. CASE Importing!EmptyCache
  <2>1. ~build.running /\ UNCHANGED <<hub, build>> /\ responses' = <<>> /\ ~warm'.known
    BY <1>4 DEF Importing!EmptyCache, Importing!Cold
  <2>2. build.call = Importing!NoCall
    BY <1>1, <2>1, BuildFields
  <2>3. SavedIs(responses')
    BY <2>1 DEF SavedIs
  <2> QED
    BY <1>1, <1>2, <2>1, <2>2, <2>3 DEF Sound
<1>5. CASE \E online \in BOOLEAN : Importing!StartBuild(online)
  <2>1. PICK online \in BOOLEAN : Importing!StartBuild(online)
    BY <1>5
  <2> DEFINE links == [n \in Number |-> {}]
  <2>2. /\ build' = [running |-> TRUE, online |-> online, commit |-> 1, links |-> links,
                     left |-> {}, call |-> Importing!NoCall, closed |-> FALSE,
                     lost |-> FALSE, docs |-> {}]
        /\ UNCHANGED <<hub, responses, warm>>
    BY <2>1 DEF Importing!StartBuild, Importing!Off
  <2>4. links \in [Number -> SUBSET Nat] /\ \A n \in Number : links[n] = {}
    OBVIOUS
  <2> HIDE DEF links
  <2>3. /\ BuildShaped(build') /\ build'.running /\ ~build'.lost
        /\ build'.call = Importing!NoCall /\ BuildTold(responses, build')
    BY <2>2, <2>4, FreshIsSound
  <2>5. ASSUME warm.known PROVE WarmTold(responses, warm.docs)
    BY <2>5 DEF Sound
  <2> QED
    BY <1>1, <1>2, <2>2, <2>3, <2>5 DEF Sound
<1> QED
  BY <1>3, <1>4, <1>5

LEMMA FinishKeeps ==
    ASSUME Sound(hub, responses, build, warm), Importing!Finish
    PROVE  Sound(hub', responses', build', warm')
<1>1. /\ build.running /\ build.commit > Len(Commits) /\ build.left = {}
      /\ warm' = IF build.lost THEN warm ELSE [known |-> TRUE, docs |-> build.docs]
      /\ build' = Importing!Off /\ UNCHANGED <<hub, responses>>
  BY DEF Importing!Finish
<1>2. HubIs(hub) /\ SavedIs(responses) /\ BuildShaped(build)
  BY DEF Sound
<1>3. CallIs(hub, responses, build'.running, Importing!NoCall)
  BY DEF CallIs
<1>4. warm'.known => WarmTold(responses, warm'.docs)
  <2>1. CASE build.lost
    BY <1>1, <2>1 DEF Sound
  <2>2. CASE ~build.lost
    <3>1. BuildTold(responses, build) /\ warm'.docs = build.docs
      BY <1>1, <2>2 DEF Sound
    <3>2. build.commit - 1 = Len(Commits)
      <4>1. Len(Commits) \in Nat
        BY ImportAssumption DEF Numbered
      <4>2. build.commit \in 0..(Len(Commits) + 1)
        BY <1>2, BuildFields
      <4> QED
        BY <1>1, <4>1, <4>2
    <3>3. \A N : N \ {} = N
      OBVIOUS
    <3> QED
      BY <1>1, <3>1, <3>2, <3>3 DEF BuildTold, WarmTold
  <2> QED
    BY <2>1, <2>2
<1>5. /\ BuildShaped(build') /\ ~build'.running /\ ~build'.lost
      /\ build'.call = Importing!NoCall
  BY <1>1, OffIsSound
<1> QED
  BY <1>1, <1>2, <1>3, <1>4, <1>5 DEF Sound

\* The step that links what a commit closes.
LEMMA CommitStep ==
    ASSUME Sound(hub, responses, build, warm), Importing!ResolveCommit
    PROVE  Sound(hub', responses', build', warm')
<1> DEFINE pr == Commits[build.commit].pr
           pulled == IF pr = 0 THEN {} ELSE responses[Importing!Path("pull", pr)].closes
<1>1. /\ build.call = Importing!NoCall /\ build.running /\ build.commit <= Len(Commits)
      /\ build' = Importing!Linked(build, pulled) /\ UNCHANGED <<hub, responses, warm>>
  BY DEF Importing!ResolveCommit, Importing!Idle, Importing!Resolving
<1>2. HubIs(hub) /\ SavedIs(responses) /\ BuildShaped(build)
  BY DEF Sound
<1>3. ToldIn(responses, build.commit)
  BY DEF Importing!ResolveCommit, Importing!Missing, ToldIn
<1>4. pulled \in SUBSET Number
  <2>1. CASE pr = 0
    BY <2>1
  <2>2. CASE pr # 0
    <3>1. Importing!Path("pull", pr) \in DOMAIN responses
      BY <1>3, <2>2 DEF ToldIn
    <3>2. Importing!Path("pull", pr).kind = "pull"
      BY DEF Importing!Path
    <3> QED
      BY <1>2, <2>2, <3>1, <3>2 DEF SavedIs
  <2> QED
    BY <2>1, <2>2
<1>5. LinkedTo(build, Importing!Linked(build, pulled),
               Importing!Closing(Commits[build.commit]) \cup pulled)
  BY <1>1, <1>2, <1>4, LinkedIs
<1>6. BuildShaped(build') /\ build'.running /\ build'.lost = build.lost /\ build'.call = build.call
  BY <1>1, <1>5 DEF LinkedTo
<1>7. ASSUME ~build.lost PROVE BuildTold(responses, build')
  <2>1. BuildTold(responses, build)
    BY <1>1, <1>7 DEF Sound
  <2> QED
    BY <1>1, <1>2, <1>3, <2>1, CommitKeeps
<1>8. CallIs(hub, responses, build'.running, build'.call)
  BY <1>1, <1>6 DEF CallIs
<1> QED
  BY <1>1, <1>2, <1>6, <1>7, <1>8 DEF Sound

LEMMA DocumentShape ==
    ASSUME NEW b, BuildShaped(b), b.running, NEW left \in SUBSET Number, NEW docs, NEW b2,
           b2 \in [running : {b.running}, online : {b.online}, commit : {b.commit},
                   links : {b.links}, left : {left}, call : {b.call},
                   closed : {b.closed}, lost : {b.lost}, docs : {docs}]
    PROVE  BuildShaped(b2) /\ b2.running /\ b2.lost = b.lost /\ b2.call = b.call
<1>2. /\ b.running \in BOOLEAN /\ b.online \in BOOLEAN /\ b.commit \in 0..(Len(Commits) + 1)
      /\ b.links \in [Number -> SUBSET Nat]
      /\ b.closed \in BOOLEAN /\ b.lost \in BOOLEAN /\ b.commit >= 1
  BY DEF BuildShaped
<1>4. /\ b2.running = b.running /\ b2.online = b.online /\ b2.commit = b.commit
      /\ b2.links = b.links /\ b2.left = left /\ b2.call = b.call /\ b2.closed = b.closed
      /\ b2.lost = b.lost /\ b2.docs = docs
  OBVIOUS
<1> QED
  BY <1>2, <1>4 DEF BuildShaped

LEMMA DocumentStep ==
    ASSUME Sound(hub, responses, build, warm), Importing!WriteDocument
    PROVE  Sound(hub', responses', build', warm')
<1> DEFINE n == Importing!Current
           left == build.left \ {n}
           docs == build.docs \cup {[file |-> NameIn(responses, n), commits |-> build.links[n],
                                     rejected |-> RejectedIn(responses, n)]}
<1>1. /\ build.call = Importing!NoCall /\ build.running /\ build.commit > Len(Commits)
      /\ build.left # {} /\ UNCHANGED <<hub, responses, warm>>
  BY DEF Importing!WriteDocument, Importing!Idle, Importing!Documenting
<1>2. HubIs(hub) /\ SavedIs(responses) /\ BuildShaped(build)
  BY DEF Sound
<1>3. ~Importing!Resolving
  <2>1. Len(Commits) \in Nat
    BY ImportAssumption DEF Numbered
  <2>2. build.commit \in 0..(Len(Commits) + 1)
    BY <1>2, BuildFields
  <2> QED
    BY <1>1, <2>1, <2>2 DEF Importing!Resolving
<1>4. IssueLacksIn(responses, n) = {}
  BY <1>3, SavedAre DEF Importing!WriteDocument, Importing!Missing
<1>5. n \in build.left /\ left \in SUBSET Number
  BY <1>1, <1>2, CurrentIsLeft, BuildFields
<1>6. Importing!Document(n) = [file |-> NameIn(responses, n), commits |-> build.links[n],
                               rejected |-> RejectedIn(responses, n)]
  BY DEF Importing!Document, Importing!FileName, NameIn, Importing!Sources, RejectedIn
<1>7. build' = [build EXCEPT !.left = left, !.docs = docs]
  BY <1>6 DEF Importing!WriteDocument
<1>8. BuildShaped(build') /\ build'.running /\ build'.lost = build.lost /\ build'.call = build.call
  <2>1. build \in [running : {build.running}, online : {build.online}, commit : {build.commit},
                   links : {build.links}, left : {build.left}, call : {build.call},
                   closed : {build.closed}, lost : {build.lost}, docs : {build.docs}]
    BY <1>2 DEF BuildShaped
  <2> HIDE DEF left, docs
  <2>2. build' \in [running : {build.running}, online : {build.online}, commit : {build.commit},
                    links : {build.links}, left : {left}, call : {build.call},
                    closed : {build.closed}, lost : {build.lost}, docs : {docs}]
    BY <1>7, <2>1
  <2> QED
    BY <1>1, <1>2, <1>5, <2>2, DocumentShape
<1>9. ASSUME ~build.lost PROVE BuildTold(responses, build')
  <2>1. BuildTold(responses, build)
    BY <1>1, <1>9 DEF Sound
  <2> HIDE DEF n
  <2> QED
    BY <1>1, <1>2, <1>4, <1>5, <1>7, <2>1, DocumentKeeps
<1>10. CallIs(hub, responses, build'.running, build'.call)
  BY <1>1, <1>8 DEF CallIs
<1> QED
  BY <1>1, <1>2, <1>8, <1>9, <1>10 DEF Sound

\* Whatever fails: nothing that a build which failed at nothing has left can fail.
LEMMA SkipKeeps ==
    ASSUME Sound(hub, responses, build, warm), build.running, ~warm.known,
           NEW closed \in BOOLEAN, Importing!Skip(closed)
    PROVE  Sound(hub', responses', build', warm')
<1>1. HubIs(hub) /\ SavedIs(responses) /\ BuildShaped(build)
  BY DEF Sound
<1>2. /\ BuildShaped(build') /\ build'.lost /\ build'.call = Importing!NoCall
      /\ UNCHANGED <<hub, responses, warm>>
  BY <1>1, SkipIs
<1>3. CallIs(hub, responses, build'.running, build'.call)
  BY <1>2 DEF CallIs
<1> QED
  BY <1>1, <1>2, <1>3 DEF Sound

LEMMA CallKeeps ==
    ASSUME Sound(hub, responses, build, warm), build.running, ~warm.known,
           NEW call, build' = [build EXCEPT !.call = call], UNCHANGED <<hub, responses, warm>>,
           CallIs(hub, responses, TRUE, call)
    PROVE  Sound(hub', responses', build', warm')
<1>1. HubIs(hub) /\ SavedIs(responses) /\ BuildShaped(build)
  BY DEF Sound
<1>2. /\ BuildShaped(build') /\ build'.running /\ build'.lost = build.lost /\ build'.call = call
      /\ BuildTold(responses, build) => BuildTold(responses, build')
  BY <1>1, CallChanges
<1>3. UNCHANGED <<hub, responses, warm>>
  OBVIOUS
<1> QED
  BY <1>1, <1>2, <1>3 DEF Sound

LEMMA SaveKeeps ==
    ASSUME Sound(hub, responses, build, warm), build.running, ~warm.known,
           NEW path, path \notin DOMAIN responses, NEW value, Importing!Save(path, value),
           UNCHANGED <<hub, warm>>,
           Importing!Paged(path) => value \in Seq(Entry),
           path.kind = "pull" => value.closes \subseteq Number
    PROVE  Sound(hub', responses', build', warm')
<1>1. HubIs(hub) /\ SavedIs(responses) /\ BuildShaped(build)
  BY DEF Sound
<1>2. /\ responses' = [saved \in DOMAIN responses \cup {path} |->
                         IF saved = path THEN value ELSE responses[saved]]
      /\ build' = [build EXCEPT !.call = Importing!NoCall]
  BY DEF Importing!Save, Importing!CallBecomes
<1>3. /\ DOMAIN responses' = DOMAIN responses \cup {path} /\ responses'[path] = value
      /\ \A other \in DOMAIN responses : responses'[other] = responses[other]
  BY <1>2
<1>4. SavedIs(responses')
  BY <1>1, <1>3 DEF SavedIs
<1>5. Grown(responses, responses')
  BY <1>3 DEF Grown
<1>6. /\ BuildShaped(build') /\ build'.running /\ build'.lost = build.lost
      /\ build'.call = Importing!NoCall
      /\ BuildTold(responses', build) => BuildTold(responses', build')
  BY <1>1, <1>2, CallChanges
<1>7. BuildTold(responses, build) => BuildTold(responses', build')
  BY <1>1, <1>5, <1>6, BuildGrows
<1>8. CallIs(hub, responses', build'.running, build'.call)
  BY <1>6 DEF CallIs
<1> QED
  BY <1>1, <1>4, <1>6, <1>7, <1>8 DEF Sound

LEMMA InCallIs ==
    ASSUME Sound(hub, responses, build, warm), Importing!InCall
    PROVE  /\ build.running /\ ~warm.known /\ build.call.path \notin DOMAIN responses
           /\ CallIs(hub, responses, TRUE, build.call) /\ build.call # Importing!NoCall
BY DEF Sound, CallIs, Importing!InCall

\* A call that is tried again has read what it had.
LEMMA Retried ==
    ASSUME NEW call, CallIs(hub, responses, TRUE, call), call # Importing!NoCall,
           NEW next, next.path = call.path, next.page = call.page,
           next.items = call.items, next.begun = call.begun, next.attempt = call.attempt + 1,
           next \in [path : {call.path}, attempt : {call.attempt + 1}, slept : BOOLEAN,
                     page : {call.page}, items : {call.items}, begun : {call.begun}]
    PROVE  CallIs(hub, responses, TRUE, next)
<1>1. /\ call.path \notin DOMAIN responses
      /\ call.path \in [kind : {"issue", "pull", "timeline", "comments"}, n : {call.path.n}]
      /\ Importing!Paged(call.path) => ReadIs(hub, call)
      /\ call.attempt \in Nat /\ call.page \in Nat /\ call.begun \in Nat
  BY DEF CallIs
<1>2. call.attempt + 1 \in Nat
  BY <1>1
<1>3. next \in [path : {next.path}, attempt : Nat, slept : BOOLEAN, page : Nat,
                items : {next.items}, begun : Nat]
  BY <1>1, <1>2
<1>4. Importing!Paged(next.path) => ReadIs(hub, next)
  BY <1>1 DEF ReadIs
<1> QED
  BY <1>1, <1>3, <1>4 DEF CallIs

LEMMA RetryStep ==
    ASSUME Sound(hub, responses, build, warm),
           Importing!Retry \/ Importing!LimitedSoon
    PROVE  Sound(hub', responses', build', warm')
<1> DEFINE call == build.call
           again == [call EXCEPT !.attempt = call.attempt + 1]
           rested == [call EXCEPT !.attempt = call.attempt + 1, !.slept = TRUE]
<1>1. Importing!InCall
  BY DEF Importing!Retry, Importing!LimitedSoon
<1>2. /\ build.running /\ ~warm.known /\ call # Importing!NoCall
      /\ CallIs(hub, responses, TRUE, call)
  BY <1>1, InCallIs
<1>3. call \in [path : {call.path}, attempt : Nat, slept : BOOLEAN, page : Nat,
                items : {call.items}, begun : Nat]
  BY <1>2 DEF CallIs
<1>4. CASE build' = [build EXCEPT !.call = again] /\ UNCHANGED <<hub, responses, warm>>
  <2>1. again \in [path : {call.path}, attempt : {call.attempt + 1}, slept : {call.slept},
                   page : {call.page}, items : {call.items}, begun : {call.begun}]
    BY <1>3
  <2> HIDE DEF again, call
  <2>2. /\ again.path = call.path /\ again.page = call.page /\ again.items = call.items
        /\ again.begun = call.begun /\ again.attempt = call.attempt + 1
    BY <2>1
  <2>3. again \in [path : {call.path}, attempt : {call.attempt + 1}, slept : BOOLEAN,
                   page : {call.page}, items : {call.items}, begun : {call.begun}]
    BY <1>3, <2>1
  <2>4. CallIs(hub, responses, TRUE, again)
    BY <1>2, <2>2, <2>3, Retried
  <2> QED
    BY <1>2, <1>4, <2>4, CallKeeps
<1>5. CASE build' = [build EXCEPT !.call = rested] /\ UNCHANGED <<hub, responses, warm>>
  <2>1. rested \in [path : {call.path}, attempt : {call.attempt + 1}, slept : {TRUE},
                    page : {call.page}, items : {call.items}, begun : {call.begun}]
    BY <1>3
  <2> HIDE DEF rested, call
  <2>2. /\ rested.path = call.path /\ rested.page = call.page /\ rested.items = call.items
        /\ rested.begun = call.begun /\ rested.attempt = call.attempt + 1
    BY <2>1
  <2>3. rested \in [path : {call.path}, attempt : {call.attempt + 1}, slept : BOOLEAN,
                    page : {call.page}, items : {call.items}, begun : {call.begun}]
    BY <2>1
  <2>4. CallIs(hub, responses, TRUE, rested)
    BY <1>2, <2>2, <2>3, Retried
  <2> QED
    BY <1>2, <1>5, <2>4, CallKeeps
<1>6. CASE Importing!Skip(FALSE)
  BY <1>2, <1>6, SkipKeeps
<1>7. CASE Importing!Retry
  <2>1. build' = [build EXCEPT !.call = again] /\ UNCHANGED <<hub, responses, warm>>
    BY <1>7 DEF Importing!Retry, Importing!CallBecomes
  <2> HIDE DEF again
  <2> QED
    BY <1>4, <2>1
<1>8. CASE Importing!LimitedSoon
  <2>1. \/ Importing!Skip(FALSE)
        \/ build' = [build EXCEPT !.call = rested] /\ UNCHANGED <<hub, responses, warm>>
    BY <1>8 DEF Importing!LimitedSoon, Importing!CallBecomes
  <2> HIDE DEF rested
  <2> QED
    BY <1>5, <1>6, <2>1
<1> QED
  BY <1>7, <1>8

LEMMA FailStep ==
    ASSUME Sound(hub, responses, build, warm),
           Importing!Refused \/ Importing!Fail \/ Importing!Limited
    PROVE  Sound(hub', responses', build', warm')
<1>1. CASE Importing!Refused
  <2>1. Importing!Idle /\ Importing!Missing # {} /\ Importing!Skip(FALSE)
    BY <1>1 DEF Importing!Refused
  <2>2. build.running
    BY <2>1 DEF Importing!Idle, Importing!Resolving, Importing!Documenting
  <2>4. ~warm.known
    BY <2>1, WarmMissesNothing
  <2> QED
    BY <2>1, <2>2, <2>4, SkipKeeps
<1>2. CASE Importing!Fail \/ Importing!Limited
  <2>1. Importing!InCall /\ \E closed \in BOOLEAN : Importing!Skip(closed)
    BY <1>2 DEF Importing!Fail, Importing!Limited
  <2>2. build.running /\ ~warm.known
    BY <2>1, InCallIs
  <2> QED
    BY <2>1, <2>2, SkipKeeps
<1> QED
  BY <1>1, <1>2

\* What is asked for is not saved, and can be asked for.
LEMMA MissingIs ==
    ASSUME BuildShaped(build), Importing!Idle, NEW path \in Importing!Missing
    PROVE  /\ path \notin DOMAIN responses
           /\ path \in [kind : {"issue", "pull", "timeline", "comments"}, n : {path.n}]
           /\ path.kind = "timeline" => path.n \in Number
<1>1. CASE Importing!Resolving
  <2>1. path \notin DOMAIN responses /\ \E n : path = Importing!Path("pull", n)
    BY <1>1 DEF Importing!Missing
  <2> QED
    BY <2>1 DEF Importing!Path
<1>2. CASE ~Importing!Resolving
  <2>1. build.left # {}
    BY <1>2 DEF Importing!Idle, Importing!Documenting
  <2>2. Importing!Current \in Number
    BY <2>1, CurrentIsLeft, BuildFields
  <2>3. path \in IssueLacksIn(responses, Importing!Current)
    BY <1>2, SavedAre DEF Importing!Missing
  <2> QED
    BY <2>2, <2>3, LacksAre
<1> QED
  BY <1>1, <1>2

LEMMA FirstPage == (1 - 1) * PageSize = 0 /\ 1 \in 1..MaxPages
BY ImportAssumption DEF Numbered

\* A call that begins has read nothing.
LEMMA Asked ==
    ASSUME HubIs(hub), NEW path, path \notin DOMAIN responses,
           path \in [kind : {"issue", "pull", "timeline", "comments"}, n : {path.n}],
           path.kind = "timeline" => path.n \in Number,
           NEW begun, begun = IF Importing!Paged(path) THEN Len(ThreadIn(hub, path)) ELSE 0,
           NEW call, call = [path |-> path, attempt |-> 1, slept |-> FALSE, page |-> 1,
                             items |-> <<>>, begun |-> begun]
    PROVE  CallIs(hub, responses, TRUE, call)
<1>1. Len(ThreadIn(hub, path)) \in Nat
  BY ThreadIs
<1>2. begun \in Nat
  BY <1>1
<1>3. /\ call.path = path /\ call.page = 1 /\ call.items = <<>> /\ call.begun = begun
  OBVIOUS
<1>4. call \in [path : {call.path}, attempt : Nat, slept : BOOLEAN, page : Nat,
                items : {call.items}, begun : Nat]
  BY <1>2
<1>5. ASSUME Importing!Paged(path)
      PROVE  ReadIs(hub, call)
  <2>1. begun = Len(ThreadIn(hub, path)) /\ begun <= Len(ThreadIn(hub, path))
    BY <1>1, <1>5
  <2>2. \A S : <<>> \in Seq(S) /\ Len(<<>>) = 0
    OBVIOUS
  <2>3. \A i \in 1..0 : call.items[i] = ThreadIn(hub, path)[i]
    OBVIOUS
  <2>4. 0 <= Len(ThreadIn(hub, path))
    BY <1>1
  <2>5. call.items \in Seq(Entry) /\ Len(call.items) = 0
    BY <1>3, <2>2
  <2> QED
    BY <1>2, <1>3, <2>1, <2>3, <2>4, <2>5, FirstPage DEF ReadIs
<1> QED
  BY <1>3, <1>4, <1>5 DEF CallIs

LEMMA AskStep ==
    ASSUME Sound(hub, responses, build, warm), Importing!Ask
    PROVE  Sound(hub', responses', build', warm')
<1>1. PICK path \in Importing!Missing :
        Importing!CallBecomes(
          [path |-> path, attempt |-> 1, slept |-> FALSE, page |-> 1, items |-> <<>>,
           begun |-> IF Importing!Paged(path) THEN Len(Importing!Thread(path)) ELSE 0])
  BY DEF Importing!Ask
<1> DEFINE begun == IF Importing!Paged(path) THEN Len(ThreadIn(hub, path)) ELSE 0
           call == [path |-> path, attempt |-> 1, slept |-> FALSE, page |-> 1,
                    items |-> <<>>, begun |-> begun]
<1>2. Importing!Idle /\ UNCHANGED <<hub, responses, warm>>
  BY DEF Importing!Ask
<1>3. build.running /\ HubIs(hub) /\ BuildShaped(build)
  BY <1>2 DEF Sound, Importing!Idle, Importing!Resolving, Importing!Documenting
<1>4. ~warm.known
  BY <1>1, <1>2, WarmMissesNothing
<1>5. Importing!Thread(path) = ThreadIn(hub, path)
  BY DEF Importing!Thread, ThreadIn
<1> HIDE DEF begun
<1>7. build' = [build EXCEPT !.call = call]
  BY <1>1, <1>5, Zenon DEF Importing!CallBecomes, begun
<1>8. begun = IF Importing!Paged(path) THEN Len(ThreadIn(hub, path)) ELSE 0
  BY DEF begun
<1>9. CallIs(hub, responses, TRUE, call)
  BY <1>2, <1>3, <1>8, MissingIs, Asked
<1> HIDE DEF call
<1> QED
  BY <1>2, <1>3, <1>4, <1>7, <1>9, CallKeeps

EndOf(t, n) == IF n * PageSize < Len(t) THEN n * PageSize ELSE Len(t)

LEMMA PageRead ==
    ASSUME NEW h, HubIs(h), NEW call, ReadIs(h, call)
    PROVE  HasRead(ThreadIn(h, call.path),
                   call.items \o Importing!PageOf(ThreadIn(h, call.path), call.page),
                   EndOf(ThreadIn(h, call.path), call.page))
<1> DEFINE t == ThreadIn(h, call.path)
           p == call.page
           a == (p - 1) * PageSize
           b == p * PageSize
           end == EndOf(t, p)
           more == Importing!PageOf(t, p)
           items == call.items
<1>1. t \in Seq(Entry) /\ Len(t) \in Nat
  BY ThreadIs DEF ReadIs
<1>2. p \in Nat /\ p >= 1 /\ PageSize \in Nat
  BY ImportAssumption DEF ReadIs, Numbered
<1>3. a \in Nat /\ b \in Nat /\ a <= b
  <2> HIDE DEF p
  <2> QED
    BY <1>2, Multiples
<1>4. /\ items \in Seq(Entry) /\ Len(items) = a /\ a <= Len(t)
      /\ \A i \in 1..a : items[i] = t[i]
  BY DEF ReadIs
<1>5. end = IF b < Len(t) THEN b ELSE Len(t)
  BY DEF EndOf
<1>6. more = SubSeq(t, a + 1, end)
  BY <1>5 DEF Importing!PageOf
<1> HIDE DEF t, p, a, b, end, more, items
<1>7. end \in Nat /\ a <= end /\ end <= Len(t)
  BY <1>1, <1>3, <1>4, <1>5
<1>8. /\ more \in Seq(Entry) /\ Len(more) = end - a
      /\ \A i \in 1..(end - a) : more[i] = t[a + i]
  BY <1>1, <1>3, <1>6, <1>7, PageIs
<1>9. Follows(t, items, more, a, end)
  BY <1>1, <1>3, <1>4, <1>7, <1>8 DEF Follows
<1>10. HasRead(t, items \o more, end)
  BY <1>9, PageJoins
<1> QED
  BY <1>10 DEF t, more, end, p, items

\* The call that goes on with the next page.
LEMMA GoesOn ==
    ASSUME NEW call, CallIs(hub, responses, TRUE, call), call # Importing!NoCall, HubIs(hub),
           Importing!Paged(call.path),
           Importing!Continues(ThreadIn(hub, call.path), call.page),
           NEW next, next.path = call.path, next.page = call.page + 1,
           next.items = call.items \o Importing!PageOf(ThreadIn(hub, call.path), call.page),
           next.begun = call.begun, next.attempt = 1,
           next \in [path : {call.path}, attempt : {1}, slept : BOOLEAN,
                     page : {call.page + 1}, items : {next.items}, begun : {call.begun}]
    PROVE  CallIs(hub, responses, TRUE, next)
<1> DEFINE t == ThreadIn(hub, call.path)
           p == call.page
           b == p * PageSize
<1>1. /\ call.path \notin DOMAIN responses
      /\ call.path \in [kind : {"issue", "pull", "timeline", "comments"}, n : {call.path.n}]
      /\ ReadIs(hub, call) /\ call.begun \in Nat
  BY DEF CallIs
<1>2. Len(t) \in Nat
  BY <1>1, ThreadIs DEF ReadIs
<1>3. p \in 1..MaxPages /\ PageSize \in Nat /\ MaxPages \in Nat
  BY <1>1, ImportAssumption DEF ReadIs, Numbered
<1>4. b < Len(t) /\ p < MaxPages
  BY <1>2, <1>3, Multiples DEF Importing!Continues
<1>5. HasRead(t, next.items, EndOf(t, p))
  BY <1>1, PageRead
<1>6. EndOf(t, p) = b
  BY <1>4 DEF EndOf
<1>7. ((p + 1) - 1) * PageSize = b
  <2>1. (p + 1) - 1 = p
    BY <1>3
  <2> QED
    BY <2>1
<1>8. call.path.kind = "timeline" => call.path.n \in Number
  BY <1>1 DEF ReadIs
<1>9. call.begun <= Len(t)
  BY <1>1 DEF ReadIs
<1> HIDE DEF t, p, b
<1>10. p + 1 \in 1..MaxPages /\ p + 1 \in Nat
  BY <1>3, <1>4
<1>11. next.page = p + 1
  BY DEF p
<1>12. /\ next.items \in Seq(Entry) /\ Len(next.items) = b /\ b <= Len(t)
       /\ \A i \in 1..b : next.items[i] = t[i]
  BY <1>5, <1>6 DEF HasRead
<1>13. ReadIs(hub, next)
  BY <1>1, <1>7, <1>8, <1>9, <1>10, <1>11, <1>12 DEF ReadIs, t
<1>14. next \in [path : {next.path}, attempt : Nat, slept : BOOLEAN, page : Nat,
                 items : {next.items}, begun : Nat]
  <2>1. next.begun \in Nat /\ next.page \in Nat /\ next.attempt \in Nat
    BY <1>1, <1>10, <1>11
  <2>2. next \in [path : {next.path}, attempt : {next.attempt}, slept : BOOLEAN,
                  page : {next.page}, items : {next.items}, begun : {next.begun}]
    OBVIOUS
  <2> QED
    BY <2>1, <2>2
<1> QED
  BY <1>1, <1>13, <1>14 DEF CallIs

LEMMA SingleStep ==
    ASSUME Sound(hub, responses, build, warm), Importing!AnswerSingle
    PROVE  Sound(hub', responses', build', warm')
<1> DEFINE path == build.call.path
           value == Importing!Single(path)
<1>1. /\ Importing!InCall /\ ~Importing!Paged(path) /\ Importing!Save(path, value)
      /\ UNCHANGED <<hub, warm>>
  BY DEF Importing!AnswerSingle
<1>2. build.running /\ ~warm.known /\ path \notin DOMAIN responses
  BY <1>1, InCallIs
<1>3. value.closes \subseteq Number
  BY ImportAssumption DEF Numbered, Importing!Single
<1> HIDE DEF path, value
<1> QED
  BY <1>1, <1>2, <1>3, SaveKeeps

\* The answer to a call for a page: the thread goes on, or is saved with what has been read.
LEMMA AnswerIs ==
    ASSUME Sound(hub, responses, build, warm), Importing!AnswerPage
    PROVE  LET t == ThreadIn(hub, build.call.path)
               items == build.call.items \o Importing!PageOf(t, build.call.page)
           IN  /\ HasRead(t, items, EndOf(t, build.call.page))
               /\ ReadIs(hub, build.call) /\ HubIs(hub)
               /\ ~Importing!Continues(t, build.call.page)
                    => Importing!Save(build.call.path, items)
<1>1. \A path : Importing!Thread(path) = ThreadIn(hub, path)
  BY DEF Importing!Thread, ThreadIn
<1>2. HubIs(hub) /\ ReadIs(hub, build.call)
  <2>1. Importing!InCall /\ Importing!Paged(build.call.path)
    BY DEF Importing!AnswerPage
  <2>2. CallIs(hub, responses, TRUE, build.call) /\ build.call # Importing!NoCall
    BY <2>1, InCallIs
  <2> QED
    BY <2>1, <2>2 DEF Sound, CallIs
<1> QED
  BY <1>1, <1>2, PageRead DEF Importing!AnswerPage

LEMMA PageStep ==
    ASSUME Sound(hub, responses, build, warm), Importing!AnswerPage
    PROVE  Sound(hub', responses', build', warm')
<1> DEFINE call == build.call
           path == call.path
           t == ThreadIn(hub, path)
           items == call.items \o Importing!PageOf(t, call.page)
           next == [call EXCEPT !.items = items, !.page = call.page + 1, !.attempt = 1,
                                !.slept = FALSE]
<1>1. Importing!InCall /\ Importing!Paged(path) /\ UNCHANGED <<hub, warm>>
  BY DEF Importing!AnswerPage
<1>2. /\ build.running /\ ~warm.known /\ path \notin DOMAIN responses
      /\ call # Importing!NoCall /\ CallIs(hub, responses, TRUE, call)
  BY <1>1, InCallIs
<1>3. HubIs(hub)
  BY DEF Sound
<1>4. call \in [path : {call.path}, attempt : Nat, slept : BOOLEAN, page : Nat,
                items : {call.items}, begun : Nat]
      /\ path \in [kind : {"issue", "pull", "timeline", "comments"}, n : {path.n}]
  BY <1>2 DEF CallIs
<1>5. Importing!Thread(path) = t
  BY DEF Importing!Thread, ThreadIn
<1>6. CASE Importing!Continues(t, call.page)
  <2>1. build' = [build EXCEPT !.call = next] /\ responses' = responses
    BY <1>5, <1>6 DEF Importing!AnswerPage, Importing!CallBecomes
  <2> HIDE DEF items
  <2>2. next \in [path : {call.path}, attempt : {1}, slept : {FALSE},
                  page : {call.page + 1}, items : {items}, begun : {call.begun}]
    BY <1>4
  <2> HIDE DEF next
  <2>3. /\ next.path = call.path /\ next.page = call.page + 1 /\ next.items = items
        /\ next.begun = call.begun /\ next.attempt = 1
    BY <2>2
  <2>4. next \in [path : {call.path}, attempt : {1}, slept : BOOLEAN,
                  page : {call.page + 1}, items : {next.items}, begun : {call.begun}]
    BY <2>2, <2>3
  <2>5. CallIs(hub, responses, TRUE, next)
    <3> HIDE DEF call
    <3>1. next.items = call.items \o Importing!PageOf(ThreadIn(hub, call.path), call.page)
      BY <2>3 DEF items
    <3> QED
      BY <1>1, <1>2, <1>3, <1>6, <2>3, <2>4, <3>1, GoesOn
  <2> QED
    BY <1>1, <1>2, <2>1, <2>5, CallKeeps
<1>7. CASE ~Importing!Continues(t, call.page)
  <2>1. Importing!Save(path, items) /\ HasRead(t, items, EndOf(t, call.page))
    BY <1>7, AnswerIs
  <2>2. items \in Seq(Entry)
    BY <2>1 DEF HasRead
  <2>3. path.kind # "pull"
    BY <1>1 DEF Importing!Paged
  <2> HIDE DEF items, path
  <2> QED
    BY <1>1, <1>2, <2>1, <2>2, <2>3, SaveKeeps
<1> QED
  BY <1>6, <1>7

LEMMA ImportSteps ==
    /\ Importing!Init => Importing!IInv
    /\ Importing!IInv /\ [Importing!Next]_(Importing!importVars) => Importing!IInv'
<1>1. ASSUME Importing!Init
      PROVE  Importing!IInv
  <2> DEFINE shown == [n \in Number |-> 0]
             state == [n \in Number |-> "open"]
  <2>1. /\ hub = [state |-> state, shown |-> shown] /\ responses = <<>>
        /\ build = Importing!Off /\ warm = Importing!Cold
    BY <1>1 DEF Importing!Init
  <2>2. shown \in [Number -> Nat] /\ \A n \in Number : shown[n] = 0
    OBVIOUS
  <2>3. \A n \in Number : Len(Mentions[n]) \in Nat
    <3>1. \A S : \A s \in Seq(S) : Len(s) \in Nat
      OBVIOUS
    <3> QED
      BY <3>1, ImportAssumption DEF Numbered
  <2> HIDE DEF shown, state
  <2>4. hub.shown = shown /\ hub.state = state
    BY <2>1
  <2>5. HubIs(hub)
    <3>1. \A n \in Number : shown[n] <= Len(Mentions[n])
      BY <2>2, <2>3
    <3> QED
      BY <2>1, <2>2, <2>4, <3>1 DEF HubIs
  <2>6. SavedIs(responses)
    BY <2>1 DEF SavedIs
  <2>7. ~warm.known
    BY <2>1 DEF Importing!Cold
  <2>8. BuildShaped(build) /\ ~build.running /\ ~build.lost /\ build.call = Importing!NoCall
    BY <2>1, OffIsSound
  <2>9. CallIs(hub, responses, build.running, build.call)
    BY <2>8 DEF CallIs
  <2> QED
    BY <2>5, <2>6, <2>7, <2>8, <2>9, SoundIs DEF Sound
<1>2. ASSUME Importing!IInv, [Importing!Next]_(Importing!importVars)
      PROVE  Importing!IInv'
  <2>1. Sound(hub, responses, build, warm)
    BY <1>2, SoundIs
  <2>2. CASE UNCHANGED Importing!importVars
    <3>1. UNCHANGED <<hub, responses, build, warm>>
      BY <2>2 DEF Importing!importVars
    <3> QED
      BY <2>1, <3>1, SoundIsNext
  <2>3. CASE \E n \in Number : \/ Importing!Mention(n)
                               \/ \E state \in {"done", "rejected"} : Importing!Close(n, state)
    BY <2>1, <2>3, HubKeeps, SoundIsNext
  <2>4. CASE Importing!Die \/ Importing!EmptyCache
             \/ \E online \in BOOLEAN : Importing!StartBuild(online)
    BY <2>1, <2>4, BuildEnds, SoundIsNext
  <2>5. CASE Importing!ResolveCommit \/ Importing!WriteDocument \/ Importing!Finish
    BY <2>1, <2>5, CommitStep, DocumentStep, FinishKeeps, SoundIsNext
  <2>6. CASE Importing!Refused \/ Importing!Fail \/ Importing!Limited
    BY <2>1, <2>6, FailStep, SoundIsNext
  <2>7. CASE Importing!Ask \/ Importing!Retry \/ Importing!LimitedSoon
    BY <2>1, <2>7, AskStep, RetryStep, SoundIsNext
  <2>8. CASE Importing!AnswerSingle \/ Importing!AnswerPage
    BY <2>1, <2>8, SingleStep, PageStep, SoundIsNext
  <2> QED
    BY <1>2, <2>2, <2>3, <2>4, <2>5, <2>6, <2>7, <2>8 DEF Importing!Next
<1> QED
  BY <1>1, <1>2

\* A build over the cache of one that failed at nothing fails at nothing and writes the same
\* documents, on line or not, whatever GitHub has become in between and at whatever step
\* builds were killed (github_corpus.py, _Ledger; github_read.py, GitHubReader).
THEOREM WarmRebuildsTheSame == Importing!Spec => []WarmRebuild
<1>1. Importing!IInv => WarmRebuild
  <2> SUFFICES ASSUME Importing!IInv, warm.known
               PROVE  /\ ~build.lost
                      /\ build.running /\ build.commit > Len(Commits) /\ build.left = {}
                           => build.docs = warm.docs
    BY DEF WarmRebuild, Importing!WarmRebuild
  <2>1. WarmTold(responses, warm.docs) /\ ~build.lost /\ BuildShaped(build)
    BY SoundIs DEF Sound
  <2>2. ASSUME build.running, build.commit > Len(Commits), build.left = {}
        PROVE  build.docs = warm.docs
    <3>1. BuildTold(responses, build)
      BY <2>1, <2>2, SoundIs DEF Sound
    <3>2. build.commit - 1 = Len(Commits)
      <4>1. Len(Commits) \in Nat
        BY ImportAssumption DEF Numbered
      <4>2. build.commit \in 0..(Len(Commits) + 1)
        BY <2>1, BuildFields
      <4> QED
        BY <2>2, <4>1, <4>2
    <3>3. \A N : N \ {} = N
      OBVIOUS
    <3> QED
      BY <2>1, <2>2, <3>1, <3>2, <3>3 DEF BuildTold, WarmTold
  <2> QED
    BY <2>1, <2>2
<1> QED
  BY <1>1, ImportSteps, PTL DEF Importing!Spec

\* What has been read of a thread begins it.
LEMMA ReadIsPrefix ==
    ASSUME NEW t \in Seq(Entry), NEW items, NEW end, HasRead(t, items, end)
    PROVE  Importing!IsPrefix(items, t)
<1>1. /\ items \in Seq(Entry) /\ Len(items) = end /\ end \in Nat /\ end <= Len(t)
      /\ \A i \in 1..end : items[i] = t[i]
  BY DEF HasRead
<1>2. \A i \in 1..end : 1 - 1 + i = i
  BY <1>1
<1>3. 1 <= end + 1 /\ end <= Len(items) /\ end + 1 - 1 = end
  BY <1>1
<1>4. /\ SubSeq(items, 1, end) \in Seq(Entry) /\ Len(SubSeq(items, 1, end)) = end
      /\ \A i \in 1..end : SubSeq(items, 1, end)[i] = items[i]
  BY <1>1, <1>2, <1>3, PartOf
<1>5. /\ SubSeq(t, 1, end) \in Seq(Entry) /\ Len(SubSeq(t, 1, end)) = end
      /\ \A i \in 1..end : SubSeq(t, 1, end)[i] = t[i]
  BY <1>1, <1>2, <1>3, PartOf
<1>6. SubSeq(items, 1, end) = SubSeq(t, 1, end)
  BY <1>1, <1>4, <1>5, Alike
<1> QED
  BY <1>1, <1>6 DEF Importing!IsPrefix

\* A thread enters the cache whole, up to the cap of pages, whatever fails between two of its
\* pages and however GitHub grows meanwhile (github_read.py, _get_paginated).
THEOREM ThreadsEnterWhole == Importing!Spec => ThreadsWhole
<1>1. ASSUME Importing!IInv, [Importing!Next]_(Importing!importVars)
      PROVE  [Importing!SavesWholeThreads]_(Importing!importVars)
  <2> SUFFICES ASSUME Importing!Next, NEW path \in DOMAIN responses' \ DOMAIN responses,
                      Importing!Paged(path)
               PROVE  /\ Importing!IsPrefix(responses'[path], Importing!Thread(path))
                      /\ \/ Len(responses'[path]) >= build.call.begun
                         \/ Len(responses'[path]) >= PageSize * MaxPages
    BY <1>1 DEF Importing!SavesWholeThreads
  <2>1. Sound(hub, responses, build, warm)
    BY <1>1, SoundIs
  <2>2. \A p, value : Importing!Save(p, value)
           => DOMAIN responses' = DOMAIN responses \cup {p} /\ responses'[p] = value
    BY DEF Importing!Save
  <2>3. CASE Importing!AnswerPage
    <3> DEFINE t == ThreadIn(hub, path)
               p == build.call.page
               items == build.call.items \o Importing!PageOf(t, p)
               b == p * PageSize
    <3>1. path = build.call.path /\ ~Importing!Continues(t, p) /\ responses'[path] = items
          /\ HasRead(t, items, EndOf(t, p)) /\ ReadIs(hub, build.call) /\ HubIs(hub)
      <4>1. \A any : Importing!Thread(any) = ThreadIn(hub, any)
        BY DEF Importing!Thread, ThreadIn
      <4>2. ~Importing!Continues(ThreadIn(hub, build.call.path), p)
        BY <2>3, <4>1 DEF Importing!AnswerPage
      <4>3. /\ Importing!Save(build.call.path,
                   build.call.items \o Importing!PageOf(ThreadIn(hub, build.call.path), p))
            /\ HasRead(ThreadIn(hub, build.call.path),
                   build.call.items \o Importing!PageOf(ThreadIn(hub, build.call.path), p),
                   EndOf(ThreadIn(hub, build.call.path), p))
            /\ ReadIs(hub, build.call) /\ HubIs(hub)
        BY <2>1, <2>3, <4>2, AnswerIs
      <4>4. path = build.call.path
        BY <2>2, <4>3
      <4> QED
        BY <2>2, <4>2, <4>3, <4>4
    <3>2. t \in Seq(Entry) /\ Len(t) \in Nat /\ Importing!Thread(path) = t
      BY <3>1, ThreadIs DEF ReadIs, Importing!Thread, ThreadIn
    <3>3. /\ p \in 1..MaxPages /\ PageSize \in Nat /\ MaxPages \in Nat
          /\ build.call.begun \in Nat /\ build.call.begun <= Len(t)
      BY <3>1, ImportAssumption DEF ReadIs, Numbered
    <3>4. b \in Nat /\ ~(Len(t) > b /\ p < MaxPages)
      BY <3>1, <3>3, Multiples DEF Importing!Continues
    <3>5. p * PageSize = PageSize * p
      BY <3>3, Multiples
    <3>6. Len(items) = IF b < Len(t) THEN b ELSE Len(t)
      BY <3>1 DEF HasRead, EndOf
    <3>7. Importing!IsPrefix(items, t)
      BY <3>1, <3>2, ReadIsPrefix
    <3> HIDE DEF items, t
    <3>8. Len(items) >= build.call.begun \/ Len(items) >= PageSize * MaxPages
      <4>1. CASE b < Len(t)
        <5>1. p = MaxPages
          BY <3>2, <3>3, <3>4, <4>1
        <5>2. Len(items) = PageSize * MaxPages
          BY <3>5, <3>6, <4>1, <5>1
        <5>3. PageSize * MaxPages \in Nat
          BY <3>4, <3>5, <5>1
        <5> QED
          BY <5>2, <5>3
      <4>2. CASE ~(b < Len(t))
        BY <3>2, <3>3, <3>6, <4>2
      <4> QED
        BY <4>1, <4>2
    <3> QED
      BY <3>1, <3>2, <3>7, <3>8
  <2>4. CASE Importing!AnswerSingle
    <3>1. DOMAIN responses' = DOMAIN responses \cup {build.call.path}
          /\ ~Importing!Paged(build.call.path)
      BY <2>2, <2>4 DEF Importing!AnswerSingle
    <3> QED
      BY <3>1
  <2>5. CASE Importing!EmptyCache
    <3>1. DOMAIN responses' = {}
      BY <2>5 DEF Importing!EmptyCache
    <3> QED
      BY <3>1
  <2>6. CASE responses' = responses
    BY <2>6
  <2>7. ASSUME ~Importing!AnswerPage, ~Importing!AnswerSingle, ~Importing!EmptyCache
        PROVE  responses' = responses
    BY <2>7 DEF Importing!Next, Importing!Mention, Importing!Close, Importing!StartBuild,
         Importing!ResolveCommit, Importing!WriteDocument, Importing!Finish, Importing!Refused,
         Importing!Ask, Importing!Retry, Importing!Fail, Importing!LimitedSoon,
         Importing!Limited, Importing!Die, Importing!Skip
  <2> QED
    BY <2>3, <2>4, <2>5, <2>6, <2>7
<1>2. Importing!Spec => [][Importing!SavesWholeThreads]_(Importing!importVars)
  BY <1>1, ImportSteps, PTL DEF Importing!Spec
<1> QED
  BY <1>2 DEF ThreadsWhole, Importing!ThreadsWhole
================================================================================
