\* A server starts while the index command runs with another embedding model.
SPECIFICATION Spec
CONSTANTS
    p1 = p1
    p2 = p2
    here = here
    there = there
    m1 = m1
    m2 = m2
    t1 = t1
    t2 = t2
    v1 = v1
    v2 = v2
    all = all
    some = some
    new = new
    nothing = nothing
    Process = {p1, p2}
    Generation = {g1, g2}
    Project = {here}
    Config <- TwoModels
    Model = {m1, m2}
    PolicyText = {t1}
    CorpusVersion = {v1}
    Manifest = {all, some, new, nothing}
    Selected <- NoEditSelected
    Queryable = {all, some, new}
    Retain = 2
    PolicyStable = TRUE
    None = None
    Torn = Torn
INVARIANT
    QueriesUseTheIndexedModel
