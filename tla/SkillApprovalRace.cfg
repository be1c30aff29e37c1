\* One command, and an editor saving the candidate.
SPECIFICATION Spec
CONSTANTS
    tool = tool
    s1 = s1
    s2 = s2
    d1 = d1
    d2 = d2
    old = old
    edited = edited
    Process = {p1}
    Candidate = {c1}
    Pack = {old, edited}
    PackId <- MCPackId
    Skill = {s1, s2}
    Digest = {d1, d2}
    Bodies <- MCBodies
    Verifiable = {old, edited}
    FirstDay <- MCFirstDay
    LastDay <- MCLastDay
    MaxDay = 0
    Bundled = {s2}
    Generation = {g1, g2}
    Retain = 1
    None = None
PROPERTY
    ApprovalBindsItsCandidate
