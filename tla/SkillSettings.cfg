\* Two commands: on a candidate that is edited, and on generations that are retained.
SPECIFICATION SettingsSpec
CONSTANTS
    tool = tool
    s1 = s1
    s2 = s2
    d1 = d1
    d2 = d2
    old = old
    edited = edited
    g1 = g1
    g2 = g2
    g3 = g3
    g4 = g4
    Process = {p1, p2}
    Candidate = {c1}
    Pack = {old, edited}
    PackId <- MCPackId
    Skill = {s1}
    Digest = {d1, d2}
    Bodies <- OneSkillBodies
    Verifiable = {old, edited}
    FirstDay <- MCFirstDay
    LastDay <- MCLastDay
    MaxDay = 1
    Bundled = {}
    Generation = {g1, g2, g3, g4}
    Retain = 2
    None = None
SYMMETRY SettingsSymmetry
INVARIANT
    ServedWasApproved
PROPERTIES
    ActivatedWasApproved
    RetentionKept
    StoreRefined
