------------------------------- MODULE GitHooks -------------------------------
(***************************************************************************)
(* What bruriah writes into a user's git: a block in the pre-commit hook   *)
(* (hooks.py) and two aliases (aliases.py), beside lines and aliases that  *)
(* are the user's own.                                                     *)
(*                                                                         *)
(* A hook is its lines, without the blank ones.                            *)
(***************************************************************************)
EXTENDS Naturals, SequencesExt

CONSTANTS
    Line,           \* lines the user may write
    MaxLines,       \* of the user's in the hook
    MaxScript,      \* lines of a hook that is changed again; one whose block is broken may double
    Name            \* aliases bruriah manages

VARIABLES
    script,         \* the lines of the hook, or NoHook
    enabled,        \* the hook may be executed
    own,            \* the user's lines in it, in order
    meddled,        \* the user has removed a line of the block
    alias           \* alias -> "none", "ours" or "own"

hookVars == <<script, enabled, own, meddled, alias>>

NoHook == <<>>
Shebang == "#!"
Start == "# >>>"
End == "# <<<"
Payload == <<Start, "drift", End>>

Has(s, line) == \E i \in DOMAIN s : s[i] = line
First(s, line) == CHOOSE i \in DOMAIN s : s[i] = line /\ \A j \in 1..i - 1 : s[j] # line
Before(s, i) == SubSeq(s, 1, i - 1)
After(s, i) == SubSeq(s, i + 1, Len(s))

\* What a hook keeps of itself, around its block: the first start, the first end, and
\* everything from the start when there is no end.
Above(s) == Before(s, First(s, Start))

\* Fault: what is below the block is taken for a part of it.
BelowForgotten(s) == <<>>

Below(s) == IF Has(s, End) THEN After(s, First(s, End)) ELSE <<>>

--------------------------------------------------------------------------------
Init ==
    /\ script = NoHook /\ own = <<>>
    /\ enabled = FALSE /\ meddled = FALSE
    /\ alias = [n \in Name |-> "none"]

\* install_hook: a hook that has the block is left as it is, unless forced.
Install(force) ==
    /\ Len(script) < MaxScript
    /\ IF script = NoHook THEN script' = <<Shebang>> \o Payload
       ELSE IF ~Has(script, Start) THEN script' = script \o Payload
       ELSE IF force THEN script' = Above(script) \o Payload \o Below(script)
       ELSE UNCHANGED script
    /\ enabled' = (enabled \/ script = NoHook \/ ~Has(script, Start) \/ force)
    /\ UNCHANGED <<own, meddled, alias>>

\* uninstall_hook: the file goes when nothing but a shebang is left of it.
Uninstall ==
    /\ script # NoHook /\ Has(script, Start) /\ Len(script) < MaxScript
    /\ LET rest == Above(script) \o Below(script) IN
       script' = IF rest \in {<<>>, <<Shebang>>} THEN NoHook ELSE rest
    /\ enabled' = (enabled /\ script' # NoHook)
    \* what a broken block took with it is gone, and the next hook is a new one
    /\ meddled' = (meddled /\ script' # NoHook)
    /\ own' = IF meddled /\ script' = NoHook THEN <<>> ELSE own
    /\ UNCHANGED alias

\* The user writes a line at the top or at the end of the hook, and makes the hook if there
\* is none.
Write(line) ==
    /\ Len(own) < MaxLines /\ ~Has(own, line) /\ ~meddled
    /\ \/ /\ script' = IF script = NoHook THEN <<Shebang, line>> ELSE Append(script, line)
          /\ own' = Append(own, line)
       \/ /\ script # NoHook /\ script[1] = Shebang
          /\ script' = <<Shebang, line>> \o After(script, 1)
          /\ own' = <<line>> \o own
    /\ enabled' = (enabled \/ script = NoHook)
    /\ UNCHANGED <<meddled, alias>>

\* The user turns the hook off.
Disable ==
    /\ enabled /\ enabled' = FALSE
    /\ UNCHANGED <<script, own, meddled, alias>>

\* The user removes one line of the block.
Meddle ==
    /\ ~meddled /\ meddled' = TRUE
    /\ \E i \in DOMAIN script :
         /\ script[i] \in Range(Payload)
         /\ script' = Before(script, i) \o After(script, i)
    /\ UNCHANGED <<enabled, own, alias>>

\* install_aliases sets one alias after the other and stops where git fails; an alias of the
\* user's is overwritten.
InstallAliases ==
    /\ \E done \in SUBSET Name : alias' = [n \in Name |-> IF n \in done THEN "ours" ELSE alias[n]]
    /\ UNCHANGED <<script, enabled, own, meddled>>

\* uninstall_aliases unsets what is there, whoever set it.
UninstallAliases ==
    /\ \E done \in SUBSET Name : alias' = [n \in Name |-> IF n \in done THEN "none" ELSE alias[n]]
    /\ UNCHANGED <<script, enabled, own, meddled>>

OwnAlias ==
    /\ \E n \in Name : alias' = [alias EXCEPT ![n] = "own"]
    /\ UNCHANGED <<script, enabled, own, meddled>>

Next ==
    \/ \E force \in BOOLEAN : Install(force)
    \/ Uninstall \/ \E line \in Line : Write(line)
    \/ Disable \/ Meddle
    \/ InstallAliases \/ UninstallAliases \/ OwnAlias

Spec == Init /\ [][Next]_hookVars

--------------------------------------------------------------------------------
(* Properties *)

\* A hook of the user's lines without a block, and with one after k of them.
Plain(lines) == <<Shebang>> \o lines
Hooked(lines, k) ==
    <<Shebang>> \o SubSeq(lines, 1, k) \o Payload \o SubSeq(lines, k + 1, Len(lines))

\* However installs, forced ones, uninstalls and edits of the user's follow each other, the
\* hook has the user's lines, in order, and at most one block, whole and in one piece; unless
\* the user has broken the block.
HookKeepsTheUsers ==
    ~meddled =>
        IF script = NoHook THEN own = <<>>
        ELSE script = Plain(own) \/ \E k \in 0..Len(own) : script = Hooked(own, k)

--------------------------------------------------------------------------------
(* The invariant *)

\* No line of the user's is one of a block, so a block is found where it is.
IInv == own \in Seq(Line) /\ HookKeepsTheUsers
================================================================================
