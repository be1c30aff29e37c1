------------------------------- MODULE BenchmarkRun ----------------------------
(***************************************************************************)
(* The agent benchmark's driver (evals/agent_regression/run.py): it asks a *)
(* client for every planned invocation of a trap set, appends each run to  *)
(* runs.jsonl as soon as it ends, and publishes a report when the plan is  *)
(* done.  A run set takes hours, so it is stopped and resumed: the log is  *)
(* all that survives, and what is installed may change at any moment.      *)
(***************************************************************************)
EXTENDS Integers, Sequences, SequencesExt

CONSTANTS
    Plans,      \* what one command line asks for: [set |-> a trap set's digest,
                \* keys |-> the invocations in order]
    Client,     \* versions of the client, positive numbers like the rest
    Commit,     \* commits of Bruriah and the harness
    Model,      \* models that may answer
    Alias       \* the model as --model names it

VARIABLES
    installed,      \* what the machine would run now; 0 is a client that cannot say its
                    \* version, or sources that are not one clean commit
    log,            \* runs.jsonl: its lines, and whether the last ends in a newline
    harness,        \* the process
    published       \* the runs of the last runs.json and of the last report.md

benchVars == <<installed, log, harness, published>>

Pinned == {"client", "commit", "model"}

\* A line is a run, or a piece no parser takes.
Malformed == [set |-> 0, key |-> 0, client |-> 0, commit |-> 0, model |-> 0]
Runs(lines) == ToSet(lines) \ {Malformed}

\* Appending to a file whose last line is open runs the two lines together.
Appended(line, ended) ==
    IF log.ended THEN [lines |-> Append(log.lines, line), ended |-> ended]
    ELSE [lines |-> [log.lines EXCEPT ![Len(log.lines)] = Malformed], ended |-> ended]

Off == [step |-> "off", set |-> 0, left |-> <<>>, skip |-> {}, runs |-> {}, client |-> 0, commit |-> 0,
        pinned |-> [f \in Pinned |-> {}], next |-> Malformed]

Init ==
    /\ installed \in [client : Client, commit : Commit, model : Model]
    /\ log = [lines |-> <<>>, ended |-> TRUE]
    /\ harness = Off
    /\ published = [json |-> {}, markdown |-> {}]

--------------------------------------------------------------------------------
(* The machine *)

\* The client updates itself, the checkout moves or is edited, another model answers.
Upgrade ==
    /\ installed' \in [client : Client \cup {0}, commit : Commit \cup {0}, model : Model]
    /\ UNCHANGED <<log, harness, published>>

--------------------------------------------------------------------------------
(* Reading the log *)

Readable == \A i \in DOMAIN log.lines :
    log.lines[i] = Malformed => i = Len(log.lines) /\ ~log.ended

\* Fault: a piece is ended as if it were a line.
RepairedByEnding == [log EXCEPT !.ended = TRUE]

\* An open last line is cut when it does not parse, and ended when it does.
Repaired ==
    LET n == Len(log.lines)
    IN [lines |-> IF n > 0 /\ log.lines[n] = Malformed THEN SubSeq(log.lines, 1, n - 1)
                  ELSE log.lines,
        ended |-> TRUE]

Recorded(lines, set) == {run \in Runs(lines) : run.set = set}

\* A corrupt line anywhere else ends the command before it spends anything.
Start(plan) ==
    /\ harness = Off
    /\ Readable
    /\ log' = Repaired
    /\ LET known == Recorded(log'.lines, plan.set)
       IN harness' = [Off EXCEPT
                !.step = "setup",
                !.set = plan.set,
                !.left = plan.keys,
                !.skip = {run.key : run \in known},
                !.runs = {run \in known : run.key \in ToSet(plan.keys)},
                !.pinned = [f \in Pinned |-> {run[f] : run \in known}]]
    /\ UNCHANGED <<installed, published>>

Mismatch(current, fields) ==
    \E f \in fields : harness.pinned[f] \notin {{}, {current[f]}}

--------------------------------------------------------------------------------
(* The invocations *)

\* The version is asked once, and not before the first run when nothing is recorded.
ClientVersion == IF harness.client = 0 THEN installed.client ELSE harness.client

\* The server and the harness run the same clean, tracked commit.
OneCommit == installed.commit # 0

\* The commit is always asked first; a resume under another client or commit stops here.
SetUp ==
    /\ harness.step = "setup"
    /\ LET resumed == \E f \in Pinned : harness.pinned[f] # {}
           refused == \/ ~OneCommit
                      \/ resumed /\ installed.client = 0
                      \/ resumed /\ Mismatch(installed, {"client", "commit"})
       IN harness' = IF refused THEN Off
                     ELSE [harness EXCEPT !.step = "running",
                                          !.commit = installed.commit,
                                          !.client = IF resumed THEN installed.client ELSE 0]
    /\ UNCHANGED <<installed, log, published>>

\* What the stream says answered: a client that never printed its init line leaves an error
\* run under the name --model gave.
Answering == {installed.model, Alias}

Invoking == harness.step = "running" /\ harness.left # <<>> /\ Head(harness.left) \notin harness.skip

\* An invocation that the log holds is passed over.
Skip ==
    /\ harness.step = "running" /\ harness.left # <<>> /\ Head(harness.left) \in harness.skip
    /\ harness' = [harness EXCEPT !.left = Tail(harness.left)]
    /\ UNCHANGED <<installed, log, published>>

\* The trap, the index, the servers, the clone or the client itself is not as the condition
\* asks: the failure is listed and the next invocation follows.
RunFails ==
    /\ Invoking
    /\ harness' = [harness EXCEPT !.left = Tail(harness.left), !.client = ClientVersion]
    /\ UNCHANGED <<installed, log, published>>

RunEnds ==
    /\ Invoking
    /\ ClientVersion # 0
    /\ \E model \in Answering :
          harness' = [harness EXCEPT
            !.step = "recording", !.client = ClientVersion,
            !.next = [set |-> harness.set, key |-> Head(harness.left),
                      client |-> ClientVersion, commit |-> harness.commit, model |-> model]]
    /\ UNCHANGED <<installed, log, published>>

\* A run of another provenance stops the command: it is not recorded and nothing is published.
Refused == Mismatch(harness.next, Pinned)

Record ==
    /\ harness.step = "recording"
    /\ IF Refused THEN harness' = Off /\ UNCHANGED log
       ELSE /\ log' = Appended(harness.next, TRUE)
            /\ harness' = [harness EXCEPT
                 !.step = "running", !.left = Tail(harness.left), !.next = Malformed,
                 !.runs = @ \cup {harness.next},
                 !.pinned = [f \in Pinned |-> @[f] \cup {harness.next[f]}]]
    /\ UNCHANGED <<installed, published>>

--------------------------------------------------------------------------------
(* The report, and the end of a process that nobody planned *)

Planned == harness.step = "running" /\ harness.left = <<>>

\* No run at all publishes nothing.
PublishJson ==
    /\ Planned
    /\ IF harness.runs = {} THEN harness' = Off /\ UNCHANGED published
       ELSE /\ published' = [published EXCEPT !.json = harness.runs]
            /\ harness' = [harness EXCEPT !.step = "reporting"]
    /\ UNCHANGED <<installed, log>>

PublishMarkdown ==
    /\ harness.step = "reporting"
    /\ published' = [published EXCEPT !.markdown = harness.runs]
    /\ harness' = Off
    /\ UNCHANGED <<installed, log>>

\* A kill, a full disk or a power loss; in an append it leaves nothing, a piece, the line
\* without its newline, or all of it.
Die ==
    /\ harness.step # "off"
    /\ harness' = Off
    /\ \/ UNCHANGED log
       \/ /\ harness.step = "recording"
          /\ ~Refused
          /\ \/ log' = Appended(Malformed, FALSE)
             \/ \E ended \in BOOLEAN : log' = Appended(harness.next, ended)
    /\ UNCHANGED <<installed, published>>

Next ==
    \/ Upgrade
    \/ \E plan \in Plans : Start(plan)
    \/ SetUp \/ Skip \/ RunFails \/ RunEnds \/ Record
    \/ PublishJson \/ PublishMarkdown
    \/ Die

Spec == Init /\ [][Next]_benchVars

--------------------------------------------------------------------------------
(* The invariant *)

Sets == {plan.set : plan \in Plans}
Keys == UNION {ToSet(plan.keys) : plan \in Plans}
Lines ==
    [set : Sets, key : Keys, client : Client, commit : Commit, model : Model \cup {Alias}]
        \cup {Malformed}

Shape ==
    /\ installed \in [client : Client \cup {0}, commit : Commit \cup {0}, model : Model]
    /\ log \in [lines : Seq(Lines), ended : BOOLEAN]
    /\ harness \in [step : {"off", "setup", "running", "recording", "reporting"},
                    set : Sets \cup {0}, left : Seq(Keys), skip : SUBSET Keys,
                    runs : SUBSET Lines, client : Client \cup {0}, commit : Commit \cup {0},
                    pinned : [Pinned -> SUBSET (Client \cup Commit \cup Model \cup {Alias})],
                    next : Lines]
    /\ harness.step \in {"running", "recording", "reporting"} => harness.commit # 0
    /\ published \in [json : SUBSET Lines, markdown : SUBSET Lines]

\* A process has repaired the log before it appends to it.
WholeLines == harness.step # "off" => log.ended /\ Malformed \notin ToSet(log.lines)

\* What a process knows of its trap set is what the log holds.
KnowsTheLog ==
    harness.step # "off" =>
        LET recorded == Recorded(log.lines, harness.set)
        IN /\ harness.set \in Sets
           /\ \A f \in Pinned : harness.pinned[f] = {run[f] : run \in recorded}
           /\ harness.runs \subseteq recorded

\* What is left to invoke comes once, and is passed over if the log holds it.
LeftIsNew ==
    harness.step # "off" =>
        /\ \A i, j \in DOMAIN harness.left : harness.left[i] = harness.left[j] => i = j
        /\ \A i \in DOMAIN harness.left, run \in Recorded(log.lines, harness.set) :
              run.key = harness.left[i] => run.key \in harness.skip

\* The run to record is that of the first invocation left.
NextIsFirst ==
    harness.step = "recording" =>
        /\ harness.left # <<>>
        /\ harness.next \in Lines \ {Malformed}
        /\ harness.next.set = harness.set
        /\ harness.next.key = harness.left[1] /\ harness.left[1] \notin harness.skip

--------------------------------------------------------------------------------
(* Properties *)

\* Whatever is installed between and during the runs, the runs of one trap set carry one
\* client version, one commit and one model (run.py, ProvenanceMismatch).
OneProvenance ==
    \A r, s \in Runs(log.lines) : r.set = s.set => \A f \in Pinned : r[f] = s[f]

\* Wherever a process dies, the log can be read again, holds an invocation once, and still
\* holds every run a report was made of (run.py, _append_jsonl and _recorded_runs).
LogSound ==
    /\ Readable
    /\ OneProvenance
    /\ \A i, j \in DOMAIN log.lines :
          LET r == log.lines[i] s == log.lines[j]
          IN r # Malformed /\ r.set = s.set /\ r.key = s.key => i = j
    /\ published.json \cup published.markdown \subseteq Runs(log.lines)

IInv == Shape /\ WholeLines /\ KnowsTheLog /\ LeftIsNew /\ NextIsFirst /\ LogSound
================================================================================
