\* One command at a time, and the calendar.
SPECIFICATION Spec
CONSTANTS
    tool = tool
    s1 = s1
    s2 = s2
    d1 = d1
    d2 = d2
    old = old
    edited = edited
    Process = {p1}
    Candidate = {c1}
    Pack = {old, edited}
    PackId <- MCPackId
    Skill = {s1, s2}
    Digest = {d1, d2}
    Bodies <- MCBodies
    Verifiable = {old, edited}
    FirstDay <- MCFirstDay
    LastDay <- MCLastDay
    MaxDay = 1
    Bundled = {}
    Generation = {g1}
    Retain = 1
    None = None
INVARIANT
    ExpiryDemotes
