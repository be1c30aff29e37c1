--------------------------------- MODULE Tooling --------------------------------
(***************************************************************************)
(* The small state machines around the server, side by side: the driver of *)
(* the benchmark and its gate, the homes of a project, setup's merge into  *)
(* the clients' files, the git hook and the trail of decisions.  They      *)
(* share no state; each has its own specification, and here its own        *)
(* variables.                                                              *)
(***************************************************************************)
EXTENDS Naturals, Sequences

CONSTANTS Call, Edits
VARIABLES hook, state, handed, tally

Gate == INSTANCE GateHook

\* Edits are calls.
ASSUME GateAssumption == Edits \subseteq Call

VARIABLES store, policies, pointer, made, launch, told

Homes == INSTANCE ProjectHomes WITH policy <- policies

CONSTANTS Theirs, Manifest, Desktop, MaxWrites
VARIABLES file, bak, setup, sinceRead, sinceCopy, writes

Setup == INSTANCE ClientSetup WITH Entry <- Theirs

CONSTANTS File, Core, Relation, MinScore, Limit, LineCap, MaxCommits, MaxLines
VARIABLES history, text, mined, index, review

Trail == INSTANCE DecisionTrail

CONSTANTS Plans, Release, Checkout, Model, Alias
VARIABLES installed, log, harness, published

Benchmark == INSTANCE BenchmarkRun WITH Client <- Release, Commit <- Checkout

\* A trap set has a digest, and a plan names an invocation once (run.py:92-97, 449).
ASSUME BenchmarkAssumption ==
    \A plan \in Plans :
        /\ plan.set # 0
        /\ plan.keys \in Seq({plan.keys[i] : i \in DOMAIN plan.keys})
        /\ \A i, j \in DOMAIN plan.keys : plan.keys[i] = plan.keys[j] => i = j

CONSTANTS UserLine, MaxOwn, MaxScript, Name
VARIABLES script, enabled, own, meddled, alias

Hooks == INSTANCE GitHooks WITH Line <- UserLine, MaxLines <- MaxOwn

\* No line of the user's is one of those that bruriah writes (hooks.py, _START and _END).
ASSUME HooksAssumption == UserLine \cap {"#!", "# >>>", "drift", "# <<<"} = {}

--------------------------------------------------------------------------------
(* Properties *)

\* However the hooks of parallel edits race, one denial at most (gated_hook.py, _claim).
DeniedOnce == Gate!DeniedOnce

\* The server a client starts reads what commands build, under the policy of that home
\* (platform.py, resolve_paths).
OneHome == Homes!OneHome

\* What setup moves its file over is in the new file or in .bak (setup.py, _atomic_write_json).
OthersKept == Setup!OthersKept

\* A decision that a commit of the index replaces is replaced for every reader
\* (decide.py, gitcorpus.py, lens.py, drift.py).
TrailEnforced == Trail!TrailEnforced

\* A review does not contradict itself while the index moves (cli.py, _cmd_review).
OneVerdict == Trail!OneVerdict

\* Wherever a process dies, the log reads back, holds an invocation once and every run a
\* report was made of, each trap set under one client, commit and model (run.py).
LogSound == Benchmark!LogSound

\* A hook keeps the user's lines and one whole block at most (hooks.py, install_hook).
HookKeepsTheUsers == Hooks!HookKeepsTheUsers
================================================================================
