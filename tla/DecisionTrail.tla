------------------------------ MODULE DecisionTrail ----------------------------
(***************************************************************************)
(* From a decision to the review that enforces it: `bruriah decide` makes  *)
(* a commit that names what it replaces, `corpus` or `bootstrap` mine the  *)
(* history into notes and index them, and `lens`, `drift` and `review`     *)
(* judge by the index the files that later commits change (decide.py,      *)
(* bootstrap.py, gitcorpus.py, lens.py, why.py, drift.py, review.py,       *)
(* github.py).                                                             *)
(*                                                                         *)
(* A review is several steps: it asks git for the files, opens the index,  *)
(* asks git for the lines and opens the index again, while commits are     *)
(* made and another index is promoted.  A commit is its position in the    *)
(* history, which only grows.                                              *)
(***************************************************************************)
EXTENDS Integers, Sequences, FiniteSets

CONSTANTS
    File,
    Core,       \* those in a core directory
    Relation,
    MinScore,   \* of bootstrap, in hundredths
    Limit,      \* of bootstrap: the most notes that one run writes
    LineCap,    \* the most lines of a file that a review traces
    MaxCommits,     \* bound
    MaxLines        \* bound: [File -> lines]

VARIABLES
    history,    \* [subject, files, links]: the commits, first to last
    text,       \* [File -> its lines, each the commits that wrote it, last first]
    mined,      \* [commit -> links]: the notes in the directory of bootstrap
    index,      \* [by, notes]: the active index, and the command that built it
    review      \* the running review

trailVars == <<history, text, mined, index, review>>

NoCommit == 0
NoNotes == [c \in {} |-> {}]
NoReview == [step |-> "idle", files |-> {}, base |-> 0,
             report |-> [f \in {} |-> "clean"], changed |-> [f \in {} |-> {}],
             comments |-> {}, strict |-> FALSE, event |-> "none"]

Init ==
    /\ history = <<>>
    /\ text = [f \in File |-> <<>>]
    /\ mined = NoNotes
    /\ index = [by |-> "nobody", notes |-> NoNotes]
    /\ review = NoReview

Highest(S) == CHOOSE n \in S : \A k \in S : k <= n

--------------------------------------------------------------------------------
(* Commits *)

\* The last commit wrote line i of a file, or added it.
Written(f, i) ==
    LET c == Len(history) + 1 IN
    [text EXCEPT ![f] = IF i > Len(@) THEN Append(@, <<c>>) ELSE [@ EXCEPT ![i] = <<c>> \o @]]

AddsCommit(f, i, subject, links) ==
    /\ Len(history) < MaxCommits
    /\ i <= Len(text[f]) + 1 /\ i <= MaxLines[f]
    /\ history' = Append(history, [subject |-> subject, files |-> {f}, links |-> links])
    /\ text' = Written(f, i)
    /\ UNCHANGED <<mined, index, review>>

\* "fix" has no body; "refactor" explains itself.  So does a commit that `decide`
\* makes for a decision that replaces nothing, for which it opens no index.
GitCommit(f, i, subject) == subject \in {"fix", "refactor"} /\ AddsCommit(f, i, subject, {})

\* validate_predecessor_sha: there is an index, and the predecessor is in it.
Validated(c) == index.by # "nobody" /\ c \in DOMAIN index.notes

\* `decide --commit`, with a file staged, for a decision that replaces another.
Decide(f, i, relation, pred) ==
    /\ Validated(pred)
    /\ AddsCommit(f, i, "decided", {[relation |-> relation, pred |-> pred]})

--------------------------------------------------------------------------------
(* Mining *)

\* Fault: the miner of `corpus` reads the trailers that bootstrap reads.
SupersessionsOnly ==
    [c \in {n \in DOMAIN history : history[n].subject # "fix"} |->
        {l \in history[c].links : l.relation = "supersedes"}]

\* gitcorpus.build: every commit with a body, and its trailers.
Reasoned == [c \in {n \in DOMAIN history : history[n].subject # "fix"} |-> history[c].links]

\* `init --repo`, or `corpus` and `index`.
MineCorpus ==
    /\ DOMAIN Reasoned # {}
    /\ index' = [by |-> "corpus", notes |-> Reasoned]
    /\ UNCHANGED <<history, text, mined, review>>

\* score_commit, for the three kinds of commit.
Score(c) ==
    10 + (IF history[c].subject = "refactor" THEN 30 ELSE 0)
       + (CASE history[c].subject = "decided" -> 25 [] history[c].subject = "refactor" -> 15
            [] OTHER -> 0)
       + (IF history[c].links # {} THEN 40 ELSE 0)
       + (IF Cardinality(history[c].files) >= 4 THEN 15 ELSE 0)
       + (IF history[c].files \cap Core # {} THEN 15 ELSE 0)

Candidates == {c \in DOMAIN history : Score(c) >= MinScore}

\* The supersessions of a commit, or for a refactoring without any the last
\* candidate before it that touches a file of its own.
Inferred(c) ==
    LET stated == {l \in history[c].links : l.relation = "supersedes"}
        before == {p \in Candidates : p < c /\ history[p].files \cap history[c].files # {}}
    IN  IF stated # {} \/ history[c].subject # "refactor" \/ before = {} THEN stated
        ELSE {[relation |-> "supersedes", pred |-> Highest(before)]}

\* The highest scores, and of equal ones the first.
Kept ==
    LET scored == {<<Score(c), c>> : c \in Candidates}
        above(s) == {t \in scored : t[1] > s[1] \/ (t[1] = s[1] /\ t[2] < s[2])}
    IN  {s[2] : s \in {t \in scored : Cardinality(above(t)) < Limit}}

\* `bootstrap --index`: the notes of earlier runs stay and are indexed too.  Without
\* --index, the notes wait for a run that has it and writes them again.
Bootstrap ==
    LET kept == Kept
        notes == [c \in kept \cup DOMAIN mined |-> IF c \in kept THEN Inferred(c) ELSE mined[c]] IN
    /\ DOMAIN notes # {}
    /\ mined' = notes
    /\ index' = [by |-> "bootstrap", notes |-> notes]
    /\ UNCHANGED <<history, text, review>>

--------------------------------------------------------------------------------
(* What an index says of a file *)

\* git blame and the log of a line; git log of the file.
OfLine(line) == {line[n] : n \in DOMAIN line}
OfFile(f) == {c \in DOMAIN history : f \in history[c].files}

\* The last commit with a decision: of the line, or else of the file.
Governing(f, line) ==
    LET known(log) == log \cap DOMAIN index.notes
    IN  IF known(OfLine(line)) # {} THEN Highest(known(OfLine(line)))
        ELSE IF known(OfFile(f)) # {} THEN Highest(known(OfFile(f)))
        ELSE NoCommit

Replaced(d) == \E e \in DOMAIN index.notes : \E l \in index.notes[e] : l.pred = d

\* analyze_architectural_drift, for a file or a line that is in git.
Judged(f, line) ==
    LET d == Governing(f, line) IN
    IF d = NoCommit THEN "unindexed" ELSE IF Replaced(d) THEN "stale" ELSE "clean"

\* compute_file_lens: the runs of lines of one commit, and what became of it.
Lens(f) ==
    LET by(i) == text[f][i][1]
        run(a, b) ==
            /\ a <= b /\ \A i \in a..b : by(i) = by(a)
            /\ a = 1 \/ by(a - 1) # by(a)
            /\ b = Len(text[f]) \/ by(b + 1) # by(a)
    IN  {[first |-> r[1], last |-> r[2], commit |-> by(r[1]),
          status |-> IF by(r[1]) \notin DOMAIN index.notes THEN "unindexed"
                     ELSE IF Replaced(by(r[1])) THEN "replaced" ELSE "active"]
         : r \in {x \in (1..Len(text[f])) \X (1..Len(text[f])) : run(x[1], x[2])}}

--------------------------------------------------------------------------------
(* `bruriah review` *)

Goes(r) == review' = r /\ UNCHANGED <<history, text, mined, index>>

\* The range ends at HEAD; the diff names the files.
StartReview(base) ==
    /\ review.step = "idle" /\ base < Len(history)
    /\ Goes([NoReview EXCEPT !.step = "report", !.base = base,
             !.files = UNION {history[c].files : c \in (base + 1)..Len(history)}])

\* run_drift opens the index and traces the files.
Report ==
    /\ review.step = "report" /\ index.by # "nobody"
    /\ Goes([review EXCEPT !.step = "lines", !.report = [f \in review.files |-> Judged(f, <<>>)]])

\* Without an index the command ends with an error.
Refuse ==
    /\ review.step = "report" /\ index.by = "nobody"
    /\ Goes(NoReview)

\* get_changed_lines: the lines that the range wrote, in order ...
ReadLines ==
    /\ review.step = "lines"
    /\ Goes([review EXCEPT !.step = "comments", !.base = 0,
             !.changed = [f \in review.files |->
                {i \in DOMAIN text[f] : text[f][i][1] > review.base}]])

\* ... or none: git fails, or --no-line-comments.
SkipLines ==
    /\ review.step = "lines"
    /\ Goes([review EXCEPT !.step = "comments", !.base = 0,
             !.changed = [f \in review.files |-> {}]])

Stale == {f \in review.files : review.report[f] = "stale"}

\* Of its first changed lines, those whose decision is replaced.
Remarked(f) ==
    {i \in review.changed[f] :
        /\ Cardinality({k \in review.changed[f] : k < i}) < LineCap
        /\ Judged(f, text[f][i]) = "stale"}

\* Fault: the lines of every changed file are traced.
CommentEverywhere(strict) ==
    /\ review.step = "comments"
    /\ LET remarks == UNION {{<<f, i>> : i \in Remarked(f)} : f \in review.files}
       IN  Goes([review EXCEPT !.step = "post", !.changed = NoReview.changed, !.strict = strict,
                 !.comments = {<<f, 0>> : f \in Stale} \cup remarks,
                 !.event = IF strict /\ Stale # {} THEN "REQUEST_CHANGES" ELSE "COMMENT"])

\* build_review, on the index as it is by now: a comment on each stale file (line 0)
\* and on its lines.
Comment(strict) ==
    /\ review.step = "comments"
    /\ LET remarks == UNION {{<<f, i>> : i \in Remarked(f)} : f \in Stale}
       IN  Goes([review EXCEPT !.step = "post", !.changed = NoReview.changed, !.strict = strict,
                 !.comments = {<<f, 0>> : f \in Stale} \cup remarks,
                 !.event = IF strict /\ Stale # {} THEN "REQUEST_CHANGES" ELSE "COMMENT"])

\* The review is printed, or sent to GitHub in one request, which may fail; without
\* a token or a pull request it is not sent.  Nothing is kept of it.
Post == review.step = "post" /\ Goes(NoReview)

Next ==
    \/ \E f \in File : \E i \in 1..MaxLines[f] :
        \/ \E subject \in {"fix", "refactor"} : GitCommit(f, i, subject)
        \/ \E r \in Relation, p \in DOMAIN history : Decide(f, i, r, p)
    \/ MineCorpus \/ Bootstrap
    \/ \E base \in 0..MaxCommits : StartReview(base)
    \/ Report \/ Refuse \/ ReadLines \/ SkipLines
    \/ \E strict \in BOOLEAN : Comment(strict)
    \/ Post

Spec == Init /\ [][Next]_trailVars

--------------------------------------------------------------------------------
(* Properties *)

\* What a commit of the index was made to replace is replaced for everyone who
\* reads the index: drift calls every file it governs stale, and the lens shows no
\* line of it as active.  Bootstrap knows of supersessions only.
TrailEnforced ==
    \A d \in DOMAIN index.notes :
        (\E e \in DOMAIN index.notes : \E l \in history[e].links :
            l.pred = d /\ (index.by = "corpus" \/ l.relation = "supersedes"))
        => \A f \in File :
            /\ Governing(f, <<>>) = d => Judged(f, <<>>) = "stale"
            /\ \A g \in Lens(f) : g.commit = d => g.status = "replaced"

\* A review does not contradict itself, though commits and promotions come between
\* its steps: a strict one requests changes when it comments on a file and only
\* then, and it comments on a line only of such a file.
OneVerdict ==
    review.step = "post" =>
        /\ {c[1] : c \in review.comments} = Stale
        /\ Stale \X {0} \subseteq review.comments
        /\ (review.event = "REQUEST_CHANGES") = (review.strict /\ review.comments # {})

--------------------------------------------------------------------------------
(* The inductive invariant *)

Shape ==
    /\ history \in Seq([subject : {"fix", "refactor", "decided"}, files : SUBSET File,
                        links : SUBSET [relation : Relation, pred : Nat]])
    /\ review \in [step : {review.step}, files : {review.files}, base : {review.base},
                   report : {review.report}, changed : {review.changed},
                   comments : {review.comments}, strict : {review.strict},
                   event : {review.event}]

\* Notes of commits, with the supersessions that these state; those of `corpus` with all of
\* their relations.
Mined(notes, all) ==
    \A c \in DOMAIN notes :
        /\ c \in DOMAIN history
        /\ \A l \in history[c].links : (all \/ l.relation = "supersedes") => l \in notes[c]
NotesTrue == Mined(mined, FALSE) /\ Mined(index.notes, index.by = "corpus")

IInv == Shape /\ NotesTrue /\ OneVerdict
================================================================================
