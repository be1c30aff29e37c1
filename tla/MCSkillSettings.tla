---------------------------- MODULE MCSkillSettings ----------------------------
(***************************************************************************)
(* Two small settings of SkillLifecycle that one run explores, over the    *)
(* same variables: `setting` says which one a behaviour is of.  In the     *)
(* first, two generations and a candidate that is edited between two       *)
(* bodies; in the second, one content only, four generations of which two  *)
(* are retained, and the calendar.                                         *)
(***************************************************************************)
EXTENDS MCSkillLifecycle

CONSTANTS g1, g2, g3, g4

VARIABLE setting

Only(f) == [k \in {edited} |-> f[k]]

Approving == INSTANCE SkillLifecycle WITH Generation <- {g1, g2}, MaxDay <- 0

Retaining == INSTANCE SkillLifecycle WITH
    Pack <- {edited}, Verifiable <- {edited}, PackId <- Only(PackId), Bodies <- Only(Bodies),
    FirstDay <- Only(FirstDay), LastDay <- Only(LastDay)

SettingsInit ==
    \/ setting = "approving" /\ Approving!Init
    \/ setting = "retaining" /\ Retaining!Init

SettingsNext ==
    /\ UNCHANGED setting
    /\ \/ setting = "approving" /\ Approving!Next
       \/ setting = "retaining" /\ Retaining!Next

SettingsSpec == SettingsInit /\ [][SettingsNext]_<<vars, setting>>

\* The permutations that either setting stays the same under.
SettingsSymmetry ==
    Permutations(Process) \union Permutations({g1, g2}) \union Permutations({g3, g4})
================================================================================
