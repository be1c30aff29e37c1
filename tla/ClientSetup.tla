------------------------------ MODULE ClientSetup ------------------------------
(***************************************************************************)
(* setup (setup.py): bruriah's entry is merged into the configuration of   *)
(* the MCP clients, one after the other, while the clients themselves      *)
(* write the same files. A file is read and merged, copied to .bak, and    *)
(* replaced at once; a client empties its file and writes it again.        *)
(***************************************************************************)
EXTENDS Naturals, SequencesExt

CONSTANTS
    Entry,          \* what the clients keep beside bruriah's entry
    Manifest,       \* the launches setup may be asked to register
    Desktop,        \* the client whose configuration is always the user's
    MaxWrites       \* of the clients

VARIABLES
    file,           \* place -> what is there
    bak,            \* place -> its .bak
    setup,          \* the command that runs, or Idle
    sinceRead,      \* the file setup read last was written by its client since
    sinceCopy,      \* and since it was copied
    writes          \* how often the clients have written

setupVars == <<file, bak, setup, sinceRead, sinceCopy, writes>>

Editor == "editor"
Client == {Editor, Desktop}
Place == {"project", "global", "application"}

\* kind: the file is absent, empty, broken or whole
NoFile == [kind |-> "absent", others |-> {}, ours |-> 0]
Emptied == [NoFile EXCEPT !.kind = "empty"]
BrokenFile == [NoFile EXCEPT !.kind = "broken"]
Whole(others, ours) == [kind |-> "whole", others |-> others, ours |-> ours]

\* todo: where the configurations that are left are
Idle == [step |-> "idle", todo |-> <<>>, manifest |-> 0, dry |-> FALSE, merged |-> NoFile]

--------------------------------------------------------------------------------
(* resolve_client_config_path, merge_client_config *)

\* The desktop client's is the user's; a scope of project asks for a repository.
Target(c, scope, inside) ==
    IF c = Desktop THEN "application"
    ELSE IF scope = "project" THEN IF inside THEN "project" ELSE "refused"
    ELSE IF scope = "auto" /\ inside THEN "project" ELSE "global"

\* Fault: what is there is not looked at.
Fresh(f) == Whole({}, setup.manifest)

\* An empty file counts as one without entries.
Merged(f) == Whole(f.others, setup.manifest)

\* The entry is there as it would be written.
Unchanged(f) == f.kind # "absent" /\ f.ours = setup.manifest

\* A client has begun to write, or written.
WrittenTo(p) ==
    LET meant == setup.step \in {"copy", "replace"} /\ p = Head(setup.todo)
    IN sinceRead' = (sinceRead \/ meant) /\ sinceCopy' = (sinceCopy \/ meant)

--------------------------------------------------------------------------------
Init ==
    /\ file = [p \in Place |-> NoFile] /\ bak = [p \in Place |-> NoFile]
    /\ setup = Idle
    /\ sinceRead = FALSE /\ sinceCopy = FALSE /\ writes = 0

\* _cmd_setup: for one client or for those that are installed, in their order.
Begin ==
    /\ setup.step = "idle"
    /\ \E todo \in {<<Editor>>, <<Desktop>>, <<Editor, Desktop>>, <<Desktop, Editor>>},
          scope \in {"auto", "project", "global"}, inside \in BOOLEAN, m \in Manifest, dry \in BOOLEAN :
         setup' = [Idle EXCEPT !.step = "merge", !.manifest = m, !.dry = dry,
                               !.todo = [i \in DOMAIN todo |-> Target(todo[i], scope, inside)]]
    /\ UNCHANGED <<file, bak, sinceRead, sinceCopy, writes>>

\* One client is done.
Ended ==
    IF Len(setup.todo) = 1 THEN Idle
    ELSE [setup EXCEPT !.step = "merge", !.todo = Tail(@), !.merged = NoFile]

\* The file is read and merged. A scope that asks for more than there is, and a file that is
\* not JSON, end the command: the clients before keep what they got. --dry-run only prints it.
Merge ==
    /\ setup.step = "merge"
    /\ LET p == Head(setup.todo)
           f == IF p = "refused" THEN BrokenFile ELSE file[p] IN
       setup' = IF f.kind = "broken" THEN Idle
                ELSE IF Unchanged(f) \/ setup.dry THEN Ended
                ELSE [setup EXCEPT !.step = "copy", !.merged = Merged(f)]
    /\ sinceRead' = FALSE /\ sinceCopy' = FALSE
    /\ UNCHANGED <<file, bak, writes>>

\* What is there now is copied, whatever it has become since it was read.
Copy ==
    /\ setup.step = "copy"
    /\ LET p == Head(setup.todo) IN
         /\ bak' = IF file[p].kind = "absent" THEN bak ELSE [bak EXCEPT ![p] = file[p]]
         /\ sinceCopy' = FALSE
    /\ setup' = [setup EXCEPT !.step = "replace"]
    /\ UNCHANGED <<file, sinceRead, writes>>

\* The merged configuration is moved over the file.
Replace ==
    /\ setup.step = "replace"
    /\ file' = [file EXCEPT ![Head(setup.todo)] = setup.merged]
    /\ setup' = Ended /\ sinceRead' = FALSE /\ sinceCopy' = FALSE
    /\ UNCHANGED <<bak, writes>>

\* The command fails or dies at any step: what is at the target is what was there or what was
\* merged.
Dies ==
    /\ setup.step # "idle" /\ setup' = Idle /\ sinceRead' = FALSE /\ sinceCopy' = FALSE
    /\ UNCHANGED <<file, bak, writes>>

\* A client begins to write its file: until it is done, it is empty or a piece.
ClientEmpties(p) ==
    /\ file[p].kind \in {"absent", "whole"}
    /\ \E piece \in {Emptied, BrokenFile} : file' = [file EXCEPT ![p] = piece]
    /\ writes < MaxWrites /\ writes' = writes + 1
    /\ WrittenTo(p)
    /\ UNCHANGED <<bak, setup>>

\* It writes what it knows: entries of its own choice, and bruriah's as it once read it.
ClientWrites(p) ==
    /\ \E others \in SUBSET Entry, ours \in {0} \cup Manifest :
         file' = [file EXCEPT ![p] = Whole(others, ours)]
    /\ file[p].kind \in {"empty", "broken"}
    /\ WrittenTo(p)
    /\ UNCHANGED <<bak, setup, writes>>

Next ==
    \/ Begin \/ Merge \/ Copy \/ Replace \/ Dies
    \/ \E p \in Place : ClientEmpties(p) \/ ClientWrites(p)

Spec == Init /\ [][Next]_setupVars

--------------------------------------------------------------------------------
(* Properties *)

\* Whatever the clients write while a setup merges, what it moves its own file over is not
\* lost: the other entries are in the new file, or, of a client that has written since the
\* file was read, in .bak; but for a client that has written since the copy.
KeepsOthers ==
    \A p \in Place :
      setup.step = "replace" /\ p = Head(setup.todo) /\ setup.merged = file'[p] =>
          /\ ~sinceRead => file[p].others \subseteq file'[p].others
          /\ ~sinceCopy => file[p].others \subseteq file'[p].others \cup bak'[p].others

\* It holds of every step, whoever takes it.
OthersKept == [][KeepsOthers]_setupVars

--------------------------------------------------------------------------------
(* The inductive invariant *)

Files == [kind : {"absent", "empty", "broken"}, others : {{}}, ours : {0}]
             \cup [kind : {"whole"}, others : SUBSET Entry, ours : {0} \cup Manifest]

Shape ==
    /\ file \in [Place -> Files] /\ bak \in [Place -> Files]
    /\ setup \in [step : {"idle", "merge", "copy", "replace"},
                  todo : Seq(Place \cup {"refused"}), manifest : {0} \cup Manifest,
                  dry : BOOLEAN, merged : Files]
    /\ sinceRead \in BOOLEAN /\ sinceCopy \in BOOLEAN
    /\ setup.step # "idle" => setup.todo # <<>>

\* What was merged has the others of the file it was read from, until its client writes.
MergedKeeps ==
    setup.step \in {"copy", "replace"} =>
        /\ Head(setup.todo) \in Place
        /\ setup.merged.kind = "whole"
        /\ ~sinceRead => setup.merged.others = file[Head(setup.todo)].others

\* And what was copied.
CopyKeeps ==
    setup.step = "replace" /\ ~sinceCopy =>
        file[Head(setup.todo)].others \subseteq bak[Head(setup.todo)].others

IInv == Shape /\ MergedKeeps /\ CopyKeeps
================================================================================
