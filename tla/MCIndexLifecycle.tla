--------------------------- MODULE MCIndexLifecycle ----------------------------
(* Small instances of IndexLifecycle for TLC.                              *)
EXTENDS IndexLifecycle, TLC

CONSTANTS p1, p2, here, there, m1, m2, t1, t2, v1, v2, all, some, new, nothing

\* One project, one model.
OneConfig == {[project |-> here, model |-> m1]}

\* One project indexed with two models in turn.
TwoModels == {[project |-> here, model |-> m] : m \in {m1, m2}}

\* Two projects that share one data directory.
TwoProjects == {[project |-> r, model |-> m1] : r \in {here, there}}

\* Under t1 the notes of v1 and v2 differ, t2 selects less, and of v2 nothing.
MCSelected ==
    [x \in {t1, t2} \X {v1, v2} |->
        IF x = <<t1, v1>> THEN all
        ELSE IF x = <<t1, v2>> THEN new
        ELSE IF x = <<t2, v1>> THEN some ELSE nothing]

\* One policy text for everybody.
OnePolicySelected ==
    [x \in {t1} \X {v1, v2} |-> IF x = <<t1, v1>> THEN all ELSE new]

\* One policy text and notes nobody edits.
NoEditSelected == [x \in {t1} \X {v1} |-> all]

\* Commands are interchangeable, and so are names.
Symmetry == Permutations(Process) \union Permutations(Generation)
================================================================================
