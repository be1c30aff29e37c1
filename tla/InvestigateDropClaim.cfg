\* One request over one generation: no shortfall, no compaction, nothing changes.
SPECIFICATION FairSpec
CONSTANTS
    plain = plain
    code = code
    b1 = b1
    b2 = b2
    s1 = s1
    s2 = s2
    None = None
    Request = {plain}
    Build = {b1}
    Setting = {s1}
    Ref = {1, 2, 3, 5, 11, 12, 21}
    Gated <- MCGated
    Skills <- MCSkills
    Traces <- OneTrace
    Capabilities <- MCCapabilities
    Counterfactual <- NoCounterfactual
    Ranked <- RankedInOrder
    Supersedes <- MCSupersedes
    Researched <- NoResearch
    Degraded <- NeverDegraded
    MaxEvidence <- LongPages
    SearchLimit <- MCSearchLimit
    OutputFits = TRUE
INVARIANT PagesDropNothing
CHECK_DEADLOCK FALSE
