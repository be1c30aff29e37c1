\* Two commands on one project; its policy is edited between commands, its notes at any time.
SPECIFICATION Spec
CONSTANTS
    p1 = p1
    p2 = p2
    here = here
    there = there
    m1 = m1
    m2 = m2
    t1 = t1
    t2 = t2
    v1 = v1
    v2 = v2
    all = all
    some = some
    new = new
    nothing = nothing
    Process = {p1, p2}
    Generation = {g1, g2, g3}
    Project = {here}
    Config <- OneConfig
    Model = {m1}
    PolicyText = {t1, t2}
    CorpusVersion = {v1, v2}
    Manifest = {all, some, new, nothing}
    Selected <- MCSelected
    Queryable = {all, some, new}
    Retain = 1
    PolicyStable = TRUE
    None = None
    Torn = Torn
SYMMETRY Symmetry
INVARIANTS
    TypeOK
    PointerSound
    OneConfiguration
    FreshIndexOpens
PROPERTIES
    NoSilentLoss
    StoreRefined
