----------------------------- MODULE ProjectHomes -----------------------------
(***************************************************************************)
(* Which directories a command, or the server a client starts, uses        *)
(* (platform.py, resolve_paths; cli.py, init, index, watch, setup, serve). *)
(* init builds into a home of the user's for the project ("scoped"), into  *)
(* one inside the repository ("local"), or where a flag says ("given"),    *)
(* and leaves a pointer, .bruriah/config.json, by which later commands     *)
(* without flags are to find the data; the client is told once.            *)
(*                                                                         *)
(* "dot" is the directory .bruriah itself, which commands take for their   *)
(* configuration when there is a pointer and no home of the project.       *)
(***************************************************************************)
EXTENDS Naturals

VARIABLES
    store,          \* data home -> the build that is active in it, or NoBuild
    policy,         \* configuration home -> its policy.yaml
    pointer,        \* the data home .bruriah/config.json names, or Nowhere
    made,           \* the homes of the last init that ended well, or NoHomes
    launch,         \* the homes the client starts the server with, or NoHomes
    told            \* the client was told since the last init, and from inside the repository

homeVars == <<store, policy, pointer, made, launch, told>>

DataHome == {"private", "scoped", "local", "given"}
ConfigHome == {"private", "scoped", "local", "dot"}
Kind == {"scoped", "local", "given"}

Nowhere == "nowhere"
NoHomes == [data |-> Nowhere, config |-> Nowhere]

\* A build is made under a policy: one of the operator's or the one that is written when
\* there is none.
NoBuild == "no build"
PolicyFile == {"absent", "default", "edited"}

--------------------------------------------------------------------------------
(* resolve_paths, for a command without flags *)

\* The home the project is looked for in: the one with an active index, the user's first.
Home ==
    IF store["scoped"] # NoBuild THEN "scoped"
    ELSE IF store["local"] # NoBuild THEN "local" ELSE Nowhere

Config ==
    IF Home # Nowhere THEN Home ELSE IF pointer # Nowhere THEN "dot" ELSE "private"

\* Fault: the home found outside the repository goes before the pointer in it.
DataScopedFirst ==
    IF Home # Nowhere THEN Home ELSE IF pointer # Nowhere THEN pointer ELSE "private"

Data ==
    IF pointer # Nowhere THEN pointer ELSE IF Home # Nowhere THEN Home ELSE "private"

\* Outside the repository nothing of it is found.
Resolved(inside) ==
    IF inside THEN [data |-> Data, config |-> Config]
    ELSE [data |-> "private", config |-> "private"]

\* Where an init of a kind builds: a --data-dir leaves the configuration where it was.
Target(kind) ==
    IF kind = "given" THEN [data |-> "given", config |-> Config]
    ELSE [data |-> kind, config |-> kind]

--------------------------------------------------------------------------------
Init ==
    /\ store = [d \in DataHome |-> NoBuild]
    /\ policy = [c \in ConfigHome |-> "absent"]
    /\ pointer = Nowhere
    /\ made = NoHomes /\ launch = NoHomes /\ told = FALSE

\* A policy is written where there is none, and never over one.
WithPolicy(c) == [policy EXCEPT ![c] = IF @ = "absent" THEN "default" ELSE @]

\* The client gets what a command prints or writes, or the user does not paste it.
Told(homes, inside) ==
    \/ launch' = homes /\ told' = inside
    \/ UNCHANGED <<launch, told>>

\* init --repo. The pointer is written when the index is built; the snippets come last, and
\* a client that is not given them goes on with what it had.
InitRepo(kind) ==
    LET to == Target(kind) IN
    /\ policy' = WithPolicy(to.config)
    /\ store' = [store EXCEPT ![to.data] = policy'[to.config]]
    /\ pointer' = to.data
    /\ made' = to
    /\ \/ launch' = to /\ told' = TRUE
       \/ launch' = launch /\ told' = FALSE

\* init --repo finds nothing to index: it has written its policy, and stops.
InitFindsNothing(kind) ==
    /\ policy' = WithPolicy(Target(kind).config)
    /\ UNCHANGED <<store, pointer, made, launch, told>>

\* init --repo dies when its index is active and before the pointer is written. What it built
\* is found all the same where no pointer leads elsewhere.
InitDies(kind) ==
    LET to == Target(kind) IN
    /\ policy' = WithPolicy(to.config)
    /\ store' = [store EXCEPT ![to.data] = policy'[to.config]]
    /\ told' = (told /\ pointer # Nowhere)
    /\ UNCHANGED <<pointer, made, launch>>

\* init without a repository, and setup: the client is told what commands resolve to.
InitOrSetup ==
    /\ \E inside \in BOOLEAN : Told(Resolved(inside), inside)
    /\ UNCHANGED <<store, policy, pointer, made>>

\* index: the corpus and the policy are arguments.
Index ==
    /\ \E inside \in BOOLEAN, given \in {"default", "edited"} :
         store' = [store EXCEPT ![Resolved(inside).data] = given]
    /\ UNCHANGED <<policy, pointer, made, launch, told>>

\* watch: a sync builds into the resolved data with the resolved configuration's policy.
Watch ==
    /\ policy' = WithPolicy(Config)
    /\ store' = [store EXCEPT ![Data] = policy'[Config]]
    /\ UNCHANGED <<pointer, made, launch, told>>

\* The operator edits the policy of the last init.
EditPolicy ==
    /\ made # NoHomes /\ policy[made.config] = "default"
    /\ policy' = [policy EXCEPT ![made.config] = "edited"]
    /\ UNCHANGED <<store, pointer, made, launch, told>>

\* Untracked files are cleaned from the repository, and .bruriah with them.
Clean ==
    /\ store' = [store EXCEPT !["local"] = NoBuild]
    /\ policy' = [policy EXCEPT !["local"] = "absent", !["dot"] = "absent"]
    /\ pointer' = Nowhere /\ made' = NoHomes /\ told' = FALSE
    /\ UNCHANGED launch

Next ==
    \/ \E kind \in Kind : InitRepo(kind) \/ InitFindsNothing(kind) \/ InitDies(kind)
    \/ InitOrSetup \/ Index \/ Watch \/ EditPolicy \/ Clean

Spec == Init /\ [][Next]_homeVars

--------------------------------------------------------------------------------
(* Properties *)

\* A client that was told since the last init, by its snippet or by setup, starts a server on
\* the data that commands in the repository build and read.
ServerFollowsCommands == told => launch.data = Data

\* Where the project has one home, what is rebuilt by watch is under the policy the operator
\* edited there: never under another one, and never under a default written over it.
PolicyFollows ==
    made.data \in {"scoped", "local"} /\ (store["scoped"] = NoBuild \/ store["local"] = NoBuild) =>
        made = [data |-> Data, config |-> Config]

OneHome == ServerFollowsCommands /\ PolicyFollows

--------------------------------------------------------------------------------
(* The inductive invariant *)

Shape ==
    /\ store \in [DataHome -> PolicyFile \cup {NoBuild}]
    /\ policy \in [ConfigHome -> PolicyFile]
    /\ pointer \in DataHome \cup {Nowhere}
    /\ made \in [data : DataHome \cup {Nowhere}, config : ConfigHome \cup {Nowhere}]

\* The pointer is to what the last init that ended well made; a home it made of its own has
\* a build, and its policy in it.
MadeIsThere ==
    /\ pointer = made.data
    /\ made.data \in {"scoped", "local"} =>
          made.config = made.data /\ store[made.data] # NoBuild

IInv == Shape /\ MadeIsThere /\ ServerFollowsCommands
================================================================================
