\* One command at a time: a note is edited between two indexings.
SPECIFICATION Spec
CONSTANTS
    p1 = p1
    p2 = p2
    here = here
    there = there
    m1 = m1
    m2 = m2
    t1 = t1
    t2 = t2
    v1 = v1
    v2 = v2
    all = all
    some = some
    new = new
    nothing = nothing
    Process = {p1}
    Generation = {g1, g2, g3}
    Project = {here}
    Config <- OneConfig
    Model = {m1}
    PolicyText = {t1}
    CorpusVersion = {v1, v2}
    Manifest = {all, some, new, nothing}
    Selected <- OnePolicySelected
    Queryable = {all, some, new}
    Retain = 2
    PolicyStable = TRUE
    None = None
    Torn = Torn
INVARIANT
    RetainedActivatable
