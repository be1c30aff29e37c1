SPECIFICATION FairSpec
CONSTANTS
    plain = plain
    code = code
    b1 = b1
    b2 = b2
    s1 = s1
    s2 = s2
    None = None
    Request = {plain, code}
    Build = {b1, b2}
    Setting = {s1, s2}
    Ref = {1, 2, 3, 5, 11, 12, 21}
    Gated <- MCGated
    Skills <- MCSkills
    Traces <- MCTraces
    Capabilities <- MCCapabilities
    Counterfactual <- MCCounterfactual
    Ranked <- MCRanked
    Supersedes <- MCSupersedes
    Researched <- MCResearched
    Degraded <- MCDegraded
    MaxEvidence <- MCMaxEvidence
    SearchLimit <- MCSearchLimit
    OutputFits = FALSE
INVARIANTS
    NothingSkipped
    OneBuildPerWalk
    CompleteMeansAll
PROPERTIES
    CursorAdvances
    WalkEnds
CHECK_DEADLOCK FALSE
