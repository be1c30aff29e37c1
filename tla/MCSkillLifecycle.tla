--------------------------- MODULE MCSkillLifecycle ----------------------------
(* Small instances of SkillLifecycle for TLC.                              *)
EXTENDS SkillLifecycle, TLC

CONSTANTS tool, s1, s2, d1, d2, old, edited

\* `edited` is `old` with another body for s1, and one skill more.
MCPackId == [k \in Pack |-> tool]

MCBodies ==
    [k \in Pack |->
        IF k = old THEN [s \in {s1} |-> d1]
        ELSE [s \in {s1, s2} |-> IF s = s1 THEN d2 ELSE d1]]

\* One skill, two bodies.
OneSkillBodies ==
    [k \in Pack |-> [s \in {s1} |-> IF k = old THEN d1 ELSE d2]]

\* `old` leaves its review window after the first day.
MCFirstDay == [k \in Pack |-> 0]
MCLastDay == [k \in Pack |-> IF k = old THEN 0 ELSE 1]

Symmetry == Permutations(Process) \union Permutations(Generation)
================================================================================
