------------------------------- MODULE CorpusWatch -----------------------------
(***************************************************************************)
(* From git to the index: `bruriah watch` and `bruriah init --repo` write  *)
(* the documents of a repository into one corpus directory and index it    *)
(* (watch.py, gitcorpus.py, adrcorpus.py, cli.py, index_runner.py).        *)
(*                                                                         *)
(* The two run at the same time, on the same directory, without a lock     *)
(* around the documents, while the repository moves.  Both can fail or die *)
(* at any step.  What a build does with the documents is IndexLifecycle;   *)
(* here it reads the corpus, and is published if the corpus is still what  *)
(* was read when the pointer is locked.                                    *)
(***************************************************************************)
EXTENDS Integers, FiniteSets

CONSTANTS
    Commit,     \* the non-merge commits
    Bodied,     \* those with a body
    Broken,     \* those whose document no build accepts
    Adds,       \* [Commit -> the ADRs the commit adds]
    Drops,      \* [Commit -> the ADRs it deletes]
    MaxMoves    \* bound: how often the refs of the repository move

VARIABLES
    head,       \* the commits reachable from HEAD
    moves,      \* the times of the ref files, as a count of what changed them
    notes,      \* commits with a document in the corpus directory
    adrs,       \* the ADRs in its subfolder
    active,     \* what the active index was built from
    job,        \* [Process -> the step a command is at, and its locals]
    last        \* the watcher: [print, failed], the fingerprint it last dealt with

watchVars == <<head, moves, notes, adrs, active, job, last>>

Process == {"watch", "init"}

NoPrint == [head |-> {0}, moves |-> 0]
NoIndex == [notes |-> {}, adrs |-> {}]
Idle == [step |-> "idle", print |-> NoPrint, todo |-> {}, staged |-> {}, read |-> NoIndex]

\* The ADRs in the tree of HEAD.
Tree == (UNION {Adds[c] : c \in head}) \ (UNION {Drops[c] : c \in head})

Init ==
    /\ head = {} /\ moves = 0
    /\ notes = {} /\ adrs = {}
    /\ active = NoIndex
    /\ job = [p \in Process |-> Idle]
    /\ last = [print |-> NoPrint, failed |-> FALSE]

--------------------------------------------------------------------------------
(* The repository *)

\* A commit is made or pulled; or HEAD moves to another branch, or is rewritten.
Move(commits) ==
    /\ moves < MaxMoves
    /\ head' = commits
    /\ moves' = moves + 1
    /\ UNCHANGED <<notes, adrs, active, job, last>>

--------------------------------------------------------------------------------
(* Steps of both commands *)

At(p, step) == job[p].step = step
Goes(p, k) == job' = [job EXCEPT ![p] = k]

\* Fault: the fingerprint is taken again when the sync is over.
EndsAtPresent(p, ok) ==
    /\ Goes(p, [Idle EXCEPT !.step = IF p = "init" /\ ok THEN "done" ELSE "idle",
                            !.staged = job[p].staged])
    /\ last' = IF p = "watch" THEN [print |-> [head |-> head, moves |-> moves], failed |-> ~ok]
               ELSE last

\* The end of a command.  The watcher remembers the fingerprint it began with,
\* whether the sync failed or not.
Ends(p, ok) ==
    /\ Goes(p, [Idle EXCEPT !.step = IF p = "init" /\ ok THEN "done" ELSE "idle",
                            !.staged = job[p].staged])
    /\ last' = IF p = "watch" THEN [print |-> job[p].print, failed |-> ~ok] ELSE last

\* gitcorpus.build reads the log.  Without a commit it leaves by SystemExit, which
\* the watcher does not catch.
ReadLog(p) ==
    /\ At(p, "log") /\ head # {}
    /\ Goes(p, [job[p] EXCEPT !.step = "write", !.todo = head \cap Bodied])
    /\ UNCHANGED <<head, moves, notes, adrs, active, last>>

Exits(p) ==
    /\ At(p, "log") /\ head = {}
    /\ Goes(p, Idle)
    /\ UNCHANGED <<head, moves, notes, adrs, active, last>>

\* One document per commit; none is ever removed.
WriteNote(p, c) ==
    /\ At(p, "write") /\ c \in job[p].todo
    /\ notes' = notes \cup {c}
    /\ Goes(p, [job[p] EXCEPT !.todo = @ \ {c}, !.read.notes = @ \cup {c}])
    /\ UNCHANGED <<head, moves, adrs, active, last>>

\* What follows the last one; a sync that wrote nothing indexes nothing.
Written(p) ==
    /\ At(p, "write") /\ job[p].todo = {}
    /\ IF p = "watch" /\ job[p].read.notes = {} THEN Ends(p, TRUE)
       ELSE /\ Goes(p, [job[p] EXCEPT !.step = IF p = "init" THEN "stage" ELSE "index"])
            /\ UNCHANGED last
    /\ UNCHANGED <<head, moves, notes, adrs, active>>

\* run_index parses the corpus; the staging folder of an init is hidden from it.
Parse(p) ==
    /\ At(p, "index")
    /\ Goes(p, [job[p] EXCEPT !.step = "promote", !.read = [notes |-> notes, adrs |-> adrs]])
    /\ UNCHANGED <<head, moves, notes, adrs, active, last>>

Buildable(p) == job[p].read.notes \cap Broken = {}

\* promote_candidate takes the lock of the pointer, and goes on if the corpus still
\* is what the candidate was built from ...
Validate(p) ==
    /\ At(p, "promote") /\ \A other \in Process : ~At(other, "publish")
    /\ Buildable(p) /\ job[p].read = [notes |-> notes, adrs |-> adrs]
    /\ Goes(p, [job[p] EXCEPT !.step = "publish"])
    /\ UNCHANGED <<head, moves, notes, adrs, active, last>>

\* ... while documents may be written and removed.
Publish(p) ==
    /\ At(p, "publish")
    /\ active' = job[p].read
    /\ Ends(p, TRUE)
    /\ UNCHANGED <<head, moves, notes, adrs>>

\* A build that raises, a candidate that no longer matches, a disk that is full.
Fails(p) ==
    /\ job[p].step \in {"write", "stage", "remove", "index", "promote", "publish"}
    /\ Ends(p, FALSE)
    /\ UNCHANGED <<head, moves, notes, adrs, active>>

--------------------------------------------------------------------------------
(* RepoWatcher.watch *)

\* The fingerprint is the sha of HEAD ...
ReadHead ==
    /\ At("watch", "idle")
    /\ Goes("watch", [Idle EXCEPT !.step = "times", !.print = [head |-> head, moves |-> 0]])
    /\ UNCHANGED <<head, moves, notes, adrs, active, last>>

\* ... and then the times of the ref files.  One that differs starts a sync.
ReadTimes ==
    /\ At("watch", "times")
    /\ LET print == [job["watch"].print EXCEPT !.moves = moves]
       IN  Goes("watch", IF print = last.print THEN Idle
                         ELSE [job["watch"] EXCEPT !.step = "log", !.print = print])
    /\ UNCHANGED <<head, moves, notes, adrs, active, last>>

\* Ctrl-C, SystemExit or a crash, and another `bruriah watch`, which knows no
\* fingerprint.
RestartWatch ==
    /\ Goes("watch", Idle)
    /\ last' = [print |-> NoPrint, failed |-> FALSE]
    /\ UNCHANGED <<head, moves, notes, adrs, active>>

--------------------------------------------------------------------------------
(* _run_init_repo_bootstrap and adrcorpus.build *)

StartInit ==
    /\ job["init"].step \in {"idle", "done"}
    /\ Goes("init", [Idle EXCEPT !.step = "log"])
    /\ UNCHANGED <<head, moves, notes, adrs, active, last>>

\* The ADRs of the tree are written into a staging folder.
Stage ==
    /\ At("init", "stage") /\ head # {}
    /\ Goes("init", [job["init"] EXCEPT !.step = "remove", !.staged = Tree])
    /\ UNCHANGED <<head, moves, notes, adrs, active, last>>

\* rmtree: file by file.
RemoveAdr(a) ==
    /\ At("init", "remove") /\ a \in adrs
    /\ adrs' = adrs \ {a}
    /\ UNCHANGED <<head, moves, notes, active, job, last>>

\* Then the staging folder takes its place; without any document nothing is indexed.
Rename ==
    /\ At("init", "remove") /\ adrs = {}
    /\ adrs' = job["init"].staged
    /\ IF job["init"].read.notes = {} /\ job["init"].staged = {} THEN Ends("init", FALSE)
       ELSE Goes("init", [job["init"] EXCEPT !.step = "index"]) /\ UNCHANGED last
    /\ UNCHANGED <<head, moves, notes, active>>

Next ==
    \/ \E S \in SUBSET Commit \ {{}} : Move(S)
    \/ \E p \in Process :
        \/ ReadLog(p) \/ Exits(p) \/ Written(p) \/ Parse(p)
        \/ Validate(p) \/ Publish(p) \/ Fails(p)
        \/ \E c \in Commit : WriteNote(p, c)
    \/ ReadHead \/ ReadTimes \/ RestartWatch
    \/ StartInit \/ Stage \/ Rename
    \/ \E a \in adrs : RemoveAdr(a)

Spec == Init /\ [][Next]_watchVars

--------------------------------------------------------------------------------
(* Properties *)

\* When the watcher sees nothing new to do and its last sync did not fail, every
\* commit of HEAD with a body is in the active index, whatever moved during the
\* sync and whatever an init publishes meanwhile.
CommitsIndexed ==
    (last.print = [head |-> head, moves |-> moves] /\ ~last.failed) =>
        head \cap Bodied \subseteq active.notes

\* From the end of an init to the start of the next, the active index holds exactly
\* the ADRs of the tree it read: none that was deleted, none half copied, also
\* when the watcher publishes in between.
AdrsOfOneTree == At("init", "done") => active.adrs = job["init"].staged

\* The two commands together leave an index of what git holds.
IndexedWhatItSaw == CommitsIndexed /\ AdrsOfOneTree

--------------------------------------------------------------------------------
(* The inductive invariant *)

Shaped(k) ==
    k \in [step : {k.step}, todo : {k.todo}, staged : {k.staged},
           print : [head : {k.print.head}, moves : {k.print.moves}],
           read : [notes : {k.read.notes}, adrs : {k.read.adrs}]]

Shape ==
    /\ job = [p \in Process |-> job[p]]
    /\ \A p \in Process : Shaped(job[p])
    /\ moves \in Nat
    /\ moves = 0 => head = {}

\* The pointer is locked by one command; what is published has all that was indexed, since
\* no document of a commit is ever removed.
OnePublishes == ~(At("watch", "publish") /\ At("init", "publish"))
NotesGrow ==
    /\ active.notes \subseteq notes
    /\ \A p \in Process :
          At(p, "publish") => active.notes \subseteq job[p].read.notes /\ job[p].read.notes \subseteq notes

\* As long as the refs have not moved since the watcher read their times, what it has
\* written, then read, covers HEAD.
SyncCovers ==
    LET k == job["watch"] IN
    /\ k.step \notin {"idle", "times"} => k.print.moves \in Nat /\ k.print.moves <= moves
    /\ k.step \in {"times", "log", "write"} => k.read.notes \subseteq notes
    /\ k.step = "write" /\ k.print.moves = moves =>
          head \cap Bodied \subseteq k.todo \cup k.read.notes
    /\ k.step = "index" /\ k.print.moves = moves => head \cap Bodied \subseteq notes
    /\ k.step \in {"promote", "publish"} /\ k.print.moves = moves =>
          head \cap Bodied \subseteq k.read.notes

\* What the watcher dealt with is in the index unless it failed or the refs moved.
DealtWith ==
    /\ last.print.moves \in Nat /\ last.print.moves <= moves
    /\ last.print # NoPrint /\ last.print.moves = moves /\ ~last.failed =>
          head \cap Bodied \subseteq active.notes

\* From the rename on, the corpus has the ADRs that were staged; a watcher that publishes
\* after the init has read these.
OneTree ==
    LET k == job["init"] IN
    /\ k.step \in {"index", "promote", "publish", "done"} => adrs = k.staged
    /\ k.step \in {"promote", "publish"} => k.read.adrs = adrs
    /\ k.step = "done" => active.adrs = adrs
    /\ k.step = "done" /\ At("watch", "publish") => job["watch"].read.adrs = adrs

IInv == Shape /\ OnePublishes /\ NotesGrow /\ SyncCovers /\ DealtWith /\ OneTree
================================================================================
