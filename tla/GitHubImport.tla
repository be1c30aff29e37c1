------------------------------ MODULE GitHubImport -----------------------------
(***************************************************************************)
(* `bruriah corpus --github`: one document per issue that the commits      *)
(* close, with the alternatives GitHub says were rejected (github_corpus.py*)
(* and issue_links.py), read through a cache that never expires, with      *)
(* retries, pages and rate limits (github_read.py).                        *)
(*                                                                         *)
(* GitHub moves while a build reads it; a build can be killed at any step, *)
(* also while it writes a response; and the next build finds what the last *)
(* one left.  A number is an issue's or a pull request's; 0 stands for one *)
(* of another repository.                                                  *)
(***************************************************************************)
EXTENDS Integers, SequencesExt

CONSTANTS
    Number,         \* numbers of issues and pull requests
    Pulls,          \* those that are pull requests
    Commits,        \* sequence of [closes, pr]: what a message says it closes, and the
                    \* pull request its subject names (0 if none)
    Closes,         \* [Pulls -> the numbers its title and body say it closes]
    Mentions,       \* [Number -> sequence of the sources that come to mention it]
    PageSize, MaxPages, MaxAttempts

VARIABLES
    hub,            \* what GitHub has: [state, shown], a number's state and how many
                    \* of its mentions there are
    responses,      \* the cache: whole responses by path
    written,        \* the documents in the output directory, by file name
    build,          \* the build that runs
    warm            \* the documents of the last build that failed at nothing since the
                    \* cache was emptied, if it is known

importVars == <<hub, responses, written, build, warm>>

Path(kind, n) == [kind |-> kind, n |-> n]
Cold == [known |-> FALSE, docs |-> {}]
NoCall == [path |-> Path("none", 0), attempt |-> 0, slept |-> FALSE, page |-> 0,
           items |-> <<>>, begun |-> 0]
Off == [running |-> FALSE, online |-> FALSE, commit |-> 0, links |-> [n \in Number |-> {}],
        left |-> {}, call |-> NoCall, closed |-> FALSE, lost |-> FALSE, docs |-> {}]

Init ==
    /\ hub = [state |-> [n \in Number |-> "open"], shown |-> [n \in Number |-> 0]]
    /\ responses = <<>> /\ written = <<>>
    /\ build = Off
    /\ warm = Cold

--------------------------------------------------------------------------------
(* GitHub *)

\* Closed as done, or rejected: without merge, or as not planned.
Close(n, state) ==
    /\ hub.state[n] = "open"
    /\ hub' = [hub EXCEPT !.state[n] = state]
    /\ UNCHANGED <<responses, written, build, warm>>

Mention(n) ==
    /\ hub.shown[n] < Len(Mentions[n])
    /\ hub' = [hub EXCEPT !.shown[n] = @ + 1]
    /\ UNCHANGED <<responses, written, build, warm>>

\* A thread is where its entries come from, as far as that is asked for.
Thread(path) == IF path.kind = "timeline" THEN SubSeq(Mentions[path.n], 1, hub.shown[path.n])
                ELSE <<0>>
Single(path) == [state |-> hub.state[path.n],
                 closes |-> IF path.n \in Pulls THEN Closes[path.n] ELSE {}]

--------------------------------------------------------------------------------
(* What a build reads *)

Saved(path) == path \in DOMAIN responses

Item(n) == Path(IF n \in Pulls THEN "pull" ELSE "issue", n)

\* What a mention asks for that is not saved: what it comes from, and the comments of that
\* when it was rejected.  One in another repository asks for nothing; a second one from the
\* same source finds it in the cache.
Lacks(s) ==
    IF s = 0 THEN {}
    ELSE IF ~Saved(Item(s)) THEN {Item(s)}
    ELSE IF responses[Item(s)].state = "rejected" THEN {Path("comments", s)} \ DOMAIN responses
    ELSE {}

\* What the document of a number asks for next: its mentions come in order.
IssueLacks(n) ==
    IF ~Saved(Path("issue", n)) THEN {Path("issue", n)}
    ELSE IF ~Saved(Path("timeline", n)) THEN {Path("timeline", n)}
    ELSE LET mentions == responses[Path("timeline", n)]
             told == {i \in DOMAIN mentions : \A j \in 1..(i - 1) : Lacks(mentions[j]) = {}}
         IN  UNION {Lacks(mentions[i]) : i \in told}

Resolving == build.running /\ build.commit <= Len(Commits)
Documenting == build.running /\ build.commit > Len(Commits) /\ build.left # {}
Current == CHOOSE n \in build.left : \A m \in build.left : n <= m

\* The path the build asks for next, if there is one.
Missing ==
    IF Resolving THEN LET pr == Commits[build.commit].pr
                      IN  IF pr = 0 THEN {} ELSE {Path("pull", pr)} \ DOMAIN responses
    ELSE IssueLacks(Current)

\* A number is read as the pull request of the subject before it is read as closed.
Closing(commit) == commit.closes \ {commit.pr}

\* After a commit, the numbers it closes are known: those its message says and those
\* its pull request says.
Linked(b, pulled) ==
    LET numbers == Closing(Commits[b.commit]) \cup pulled
    IN  [b EXCEPT !.commit = @ + 1, !.left = @ \cup numbers,
                  !.links = [n \in Number |-> IF n \in numbers THEN @[n] \cup {b.commit}
                                              ELSE @[n]]]

\* Whatever fails costs what the pull request of a commit says, without a word, or
\* the document of one number.
Skip(closed) ==
    LET failed == [build EXCEPT !.call = NoCall, !.lost = TRUE, !.closed = @ \/ closed]
    IN  /\ build' = IF Resolving THEN Linked(failed, {})
                    ELSE [failed EXCEPT !.left = @ \ {Current}]
        /\ UNCHANGED <<hub, responses, written, warm>>

Idle == (Resolving \/ Documenting) /\ build.call = NoCall

--------------------------------------------------------------------------------
(* build_documents *)

StartBuild(online) ==
    /\ ~build.running
    /\ build' = [Off EXCEPT !.running = TRUE, !.online = online, !.commit = 1]
    /\ UNCHANGED <<hub, responses, written, warm>>

ResolveCommit ==
    /\ Idle /\ Resolving /\ Missing = {}
    /\ LET pr == Commits[build.commit].pr
       IN  build' = Linked(build, IF pr = 0 THEN {} ELSE responses[Path("pull", pr)].closes)
    /\ UNCHANGED <<hub, responses, written, warm>>

\* The file of a document is named by the number and by a date: the day the issue
\* was closed, or else created.
FileName(n) == [n |-> n, open |-> responses[Path("issue", n)].state = "open"]

Sources(n) == Number \cap Range(responses[Path("timeline", n)])

\* Fault: whether a source was rejected is asked again, of GitHub.
DocumentAsked(n) ==
    [file |-> FileName(n), commits |-> build.links[n],
     rejected |-> {s \in Sources(n) : hub.state[s] = "rejected"}]

Document(n) ==
    [file |-> FileName(n), commits |-> build.links[n],
     rejected |-> {s \in Sources(n) : responses[Item(s)].state = "rejected"}]

WriteDocument ==
    /\ Idle /\ Documenting /\ Missing = {}
    /\ written' = (Document(Current).file :> Document(Current)) @@ written
    /\ build' = [build EXCEPT !.left = @ \ {Current}, !.docs = @ \cup {Document(Current)}]
    /\ UNCHANGED <<hub, responses, warm>>

\* The manifest is written.
Finish ==
    /\ build.running /\ build.commit > Len(Commits) /\ build.left = {}
    /\ warm' = IF build.lost THEN warm ELSE [known |-> TRUE, docs |-> build.docs]
    /\ build' = Off
    /\ UNCHANGED <<hub, responses, written>>

\* The network is off, or the window of the rate limit is known to be closed.
Refused ==
    /\ Idle /\ Missing # {} /\ (~build.online \/ build.closed)
    /\ Skip(FALSE)

--------------------------------------------------------------------------------
(* One path: _get_single and _get_paginated *)

CallBecomes(call) == build' = [build EXCEPT !.call = call]
InCall == build.call # NoCall
Paged(path) == path.kind \in {"timeline", "comments"}

Ask ==
    /\ Idle /\ build.online /\ ~build.closed
    /\ \E path \in Missing :
         CallBecomes([path |-> path, attempt |-> 1, slept |-> FALSE, page |-> 1, items |-> <<>>,
                      begun |-> IF Paged(path) THEN Len(Thread(path)) ELSE 0])
    /\ UNCHANGED <<hub, responses, written, warm>>

Save(path, value) ==
    /\ responses' = [saved \in DOMAIN responses \cup {path} |->
                       IF saved = path THEN value ELSE responses[saved]]
    /\ CallBecomes(NoCall)

AnswerSingle ==
    /\ InCall /\ ~Paged(build.call.path)
    /\ Save(build.call.path, Single(build.call.path))
    /\ UNCHANGED <<hub, written, warm>>

\* The items of a page, as the thread is when it is asked for.
PageOf(thread, page) ==
    SubSeq(thread, (page - 1) * PageSize + 1,
           IF page * PageSize < Len(thread) THEN page * PageSize ELSE Len(thread))

\* The page has a successor, and the cap is not reached.
Continues(thread, page) == Len(thread) > page * PageSize /\ page < MaxPages

AnswerPage ==
    /\ InCall /\ Paged(build.call.path)
    /\ LET call == build.call
           items == call.items \o PageOf(Thread(call.path), call.page)
       IN  IF Continues(Thread(call.path), call.page)
           THEN /\ CallBecomes([call EXCEPT !.items = items, !.page = @ + 1, !.attempt = 1,
                                            !.slept = FALSE])
                /\ UNCHANGED responses
           ELSE Save(call.path, items)
    /\ UNCHANGED <<hub, written, warm>>

\* 5xx, until the attempts are spent.
Retry ==
    /\ InCall /\ build.call.attempt < MaxAttempts
    /\ CallBecomes([build.call EXCEPT !.attempt = @ + 1])
    /\ UNCHANGED <<hub, responses, written, warm>>

\* Fault: an error ends the thread with the pages there are.
FailKeepsPages ==
    /\ InCall
    /\ IF build.call.page > 1
       THEN Save(build.call.path, build.call.items) /\ UNCHANGED <<hub, written, warm>>
       ELSE Skip(FALSE)

\* 404 and any other error that is not tried again, a timeout, the last 5xx.
Fail == InCall /\ Skip(FALSE)

\* 403 or 429 with a window that opens soon: slept through once in a request.  A
\* sleep after the last attempt is the end of it.
LimitedSoon ==
    /\ InCall /\ ~build.call.slept
    /\ IF build.call.attempt = MaxAttempts THEN Skip(FALSE)
       ELSE /\ CallBecomes([build.call EXCEPT !.attempt = @ + 1, !.slept = TRUE])
            /\ UNCHANGED <<hub, responses, written, warm>>

\* A window that stays closed, or that is still closed after the sleep.
Limited == InCall /\ Skip(TRUE)

--------------------------------------------------------------------------------

\* Killed at any step; a response being written then is no JSON, which the cache
\* takes for a response it does not have.
Die ==
    /\ build.running
    /\ build' = Off
    /\ UNCHANGED <<hub, responses, written, warm>>

\* The user empties the cache to see GitHub as it is now.
EmptyCache ==
    /\ ~build.running
    /\ responses' = <<>> /\ warm' = Cold
    /\ UNCHANGED <<hub, written, build>>

Next ==
    \/ \E n \in Number : Mention(n) \/ \E state \in {"done", "rejected"} : Close(n, state)
    \/ \E online \in BOOLEAN : StartBuild(online)
    \/ ResolveCommit \/ WriteDocument \/ Finish \/ Refused
    \/ Ask \/ AnswerSingle \/ AnswerPage \/ Retry \/ Fail \/ LimitedSoon \/ Limited
    \/ Die \/ EmptyCache

Spec == Init /\ [][Next]_importVars

--------------------------------------------------------------------------------
(* Properties *)

\* A thread enters the cache whole, up to the cap of pages: all it had when its first
\* page was asked for, whatever fails between two pages, in the order GitHub has it.
SavesWholeThreads ==
    \A path \in DOMAIN responses' \ DOMAIN responses :
       Paged(path) =>
         /\ IsPrefix(responses'[path], Thread(path))
         /\ Len(responses'[path]) >= build.call.begun
               \/ Len(responses'[path]) >= PageSize * MaxPages

\* It holds of every step, whoever takes it.
ThreadsWhole == [][SavesWholeThreads]_importVars

\* A build over the cache of one that failed at nothing fails at nothing and writes
\* the same documents, on line or not, whatever GitHub has become.
WarmRebuild ==
    warm.known =>
        /\ ~build.lost
        /\ build.running /\ build.commit > Len(Commits) /\ build.left = {} => build.docs = warm.docs

--------------------------------------------------------------------------------
(* The invariant *)

\* GitHub's threads grow up to what comes to mention a number.
HubSound ==
    /\ hub \in [state : {hub.state}, shown : [Number -> Nat]]
    /\ \A n \in Number : hub.shown[n] <= Len(Mentions[n])

\* What is saved of a thread is a sequence, and a pull request closes numbers.
SavedSound ==
    \A path \in DOMAIN responses :
        /\ Paged(path) => responses[path] \in Seq(Number \cup {0})
        /\ path.kind = "pull" => responses[path].closes \subseteq Number

\* A call reads a path that is not saved, and has read the thread up to its page, which is
\* more than there was when it began or all there is.
CallSound ==
    build.call # NoCall =>
        /\ build.running /\ ~Saved(build.call.path)
        /\ build.call \in [path : {build.call.path}, attempt : Nat, slept : BOOLEAN, page : Nat,
                          items : {build.call.items}, begun : Nat]
        /\ build.call.path \in [kind : {"issue", "pull", "timeline", "comments"},
                                n : {build.call.path.n}]
        /\ Paged(build.call.path) =>
             /\ build.call.path.kind = "timeline" => build.call.path.n \in Number
             /\ build.call.page \in 1..MaxPages
             /\ build.call.items \in Seq(Number \cup {0})
             /\ Len(build.call.items) = (build.call.page - 1) * PageSize
             /\ Len(build.call.items) <= Len(Thread(build.call.path))
             /\ \A i \in 1..Len(build.call.items) :
                  build.call.items[i] = Thread(build.call.path)[i]
             /\ build.call.begun \in Nat /\ build.call.begun <= Len(Thread(build.call.path))

\* The numbers a commit closes, and the document of one, by what is saved.
NumbersOf(c) ==
    Closing(Commits[c])
        \cup (IF Commits[c].pr = 0 THEN {} ELSE responses[Path("pull", Commits[c].pr)].closes)
Told(c) == Commits[c].pr # 0 => Saved(Path("pull", Commits[c].pr))
ClosedBy(n, first) == {c \in 1..first : n \in NumbersOf(c)}
NumbersUpTo(first) == {n \in Number : ClosedBy(n, first) # {}}
DocumentUpTo(n, first) ==
    [file |-> FileName(n), commits |-> ClosedBy(n, first),
     rejected |-> {s \in Sources(n) : responses[Item(s)].state = "rejected"}]

\* A build that has failed at nothing knows what the commits so far close, and has the
\* documents of all but what is left.
BuildSound ==
    /\ ~build.running => build = Off
    /\ build \in [running : BOOLEAN, online : BOOLEAN, commit : 0..(Len(Commits) + 1),
                  links : [Number -> SUBSET Nat], left : SUBSET Number, call : {build.call},
                  closed : BOOLEAN, lost : BOOLEAN, docs : {build.docs}]
    /\ build.running => build.commit >= 1
    /\ build.running /\ ~build.lost =>
         LET first == build.commit - 1
             done == NumbersUpTo(first) \ build.left
         IN  /\ \A c \in 1..first : Told(c)
             /\ \A n \in Number : build.links[n] = ClosedBy(n, first)
             /\ build.left \subseteq NumbersUpTo(first)
             /\ build.commit <= Len(Commits) => done = {}
             /\ \A n \in done : IssueLacks(n) = {}
             /\ build.docs = {DocumentUpTo(n, first) : n \in done}

\* What is known of the last build is what any build makes of the responses, and there is
\* nothing that it would ask for.
WarmSound ==
    warm.known =>
        LET last == Len(Commits)
        IN  /\ \A c \in 1..last : Told(c)
            /\ \A n \in NumbersUpTo(last) : IssueLacks(n) = {}
            /\ warm.docs = {DocumentUpTo(n, last) : n \in NumbersUpTo(last)}
            /\ ~build.lost /\ build.call = NoCall

IInv == HubSound /\ SavedSound /\ CallSound /\ BuildSound /\ WarmSound
================================================================================
