------------------------------- MODULE GateHook --------------------------------
(***************************************************************************)
(* The gate of the benchmark's `gated` condition (gated_hook.py): a hook   *)
(* process per tool call, which denies the first edit of a run and lets    *)
(* the later ones through.  The client may run the hooks of parallel calls *)
(* at once; the file system refuses now and then; the harness counts what  *)
(* the client handed back when the run is over.                            *)
(***************************************************************************)
EXTENDS Integers, FiniteSets

CONSTANTS
    Call,       \* the tool calls of a run
    Edits       \* those that Edit, Write or MultiEdit

VARIABLES
    hook,       \* how far the process of each call is
    state,      \* the calls whose name was linked as gate-state.json; at most one file
    handed,     \* what the client gave the agent back: "denied", "broken", "done" or none
    tally       \* what the record of the run says, once there is one

gateVars == <<hook, state, handed, tally>>

Init ==
    /\ hook = [c \in Call |-> "none"]
    /\ state = {}
    /\ handed = [c \in Call |-> "none"]
    /\ tally = [denials |-> 0, errors |-> 0, written |-> FALSE, known |-> FALSE]

Becomes(c, from, to) == hook[c] = from /\ hook' = [hook EXCEPT ![c] = to]

\* The matcher of the settings asks the hook for edits only.
Ask(c) ==
    /\ ~tally.known
    /\ Becomes(c, "none", IF c \in Edits THEN "asked" ELSE "allowing")
    /\ UNCHANGED <<state, handed, tally>>

--------------------------------------------------------------------------------
(* The hook *)

\* A payload that does not parse, or a file system that gives no temporary file, cannot
\* write it or cannot link it, denies the call and spends nothing.
Break(c) ==
    /\ \E from \in {"asked", "temporary"} : Becomes(c, from, "breaking")
    /\ UNCHANGED <<state, handed, tally>>

Prepare(c) ==
    /\ Becomes(c, "asked", "temporary")
    /\ UNCHANGED <<state, handed, tally>>

\* Fault: the state file is moved over whatever is there.
ClaimReplacing(c) ==
    /\ Becomes(c, "temporary", "denying")
    /\ state' = {c}
    /\ UNCHANGED <<handed, tally>>

\* The link fails when the file exists: an earlier call has the denial.
Claim(c) ==
    /\ Becomes(c, "temporary", IF state = {} THEN "denying" ELSE "allowing")
    /\ state' = IF state = {} THEN {c} ELSE state
    /\ UNCHANGED <<handed, tally>>

--------------------------------------------------------------------------------
(* The client and the harness *)

Answer(step) ==
    CASE step = "denying" -> "denied"
      [] step = "breaking" -> "broken"
      [] step = "allowing" -> "done"

\* The client hands the reason of exit code 2 back, or makes the call.
HandBack(c) ==
    /\ hook[c] \in {"denying", "breaking", "allowing"}
    /\ handed' = [handed EXCEPT ![c] = Answer(hook[c])]
    /\ hook' = [hook EXCEPT ![c] = "ended"]
    /\ UNCHANGED <<state, tally>>

Counted(reason) == Cardinality({c \in Call : handed[c] = reason})

\* The run ends on its own or is killed at its time budget, hooks and all.
EndRun ==
    /\ ~tally.known
    /\ tally' = [denials |-> Counted("denied"), errors |-> Counted("broken"),
                 written |-> state # {}, known |-> TRUE]
    /\ hook' = [c \in Call |-> "ended"]
    /\ UNCHANGED <<state, handed>>

Next ==
    \/ \E c \in Call : Ask(c) \/ Break(c) \/ Prepare(c) \/ Claim(c) \/ HandBack(c)
    \/ EndRun

Spec == Init /\ [][Next]_gateVars

--------------------------------------------------------------------------------
(* Property *)

\* However the hooks of parallel edits race and fail, one call at most is told of the
\* history, no edit goes through before that call is settled, and the record counts no
\* denial without its state file (gated_hook.py:8-20).
DeniedOnce ==
    /\ Cardinality({c \in Call : hook[c] = "denying" \/ handed[c] = "denied"}) <= 1
    /\ \A c \in Edits : handed[c] = "done" => state # {} /\ c \notin state
    /\ tally.known /\ tally.denials > 0 => tally.written

--------------------------------------------------------------------------------
(* The inductive invariant *)

Shape ==
    /\ hook \in [Call -> {"none", "asked", "temporary", "breaking", "denying", "allowing", "ended"}]
    /\ handed \in [Call -> {"none", "denied", "broken", "done"}]
    /\ state \subseteq Call

\* The file is linked once.
OneLink == \A c, d \in state : c = d

\* A call that is or was denied is the one whose name was linked; an edit that is or was
\* let through is another, and came after it.
DeniedHasLink ==
    /\ \A c \in Call : hook[c] = "denying" \/ handed[c] = "denied" => c \in state
    /\ \A c \in state : hook[c] \in {"denying", "ended"}

AllowedAfterLink ==
    \A c \in Edits : hook[c] = "allowing" \/ handed[c] = "done" => state # {} /\ c \notin state

RecordHasLink == tally.known /\ tally.denials > 0 => tally.written

IInv == Shape /\ OneLink /\ DeniedHasLink /\ AllowedAfterLink /\ RecordHasLink
================================================================================
