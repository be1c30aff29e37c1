\* Is an older decision always presented as stale?
SPECIFICATION ComponentsSpec
CONSTANTS
    Parts = {"decisions"}
    Caller = {"c1", "c2"}
    Url = {1, 2}
    HostOf <- MCHostOf
    Ref = {7}
    Policy <- MCPolicy
    Inquiry <- MCInquiry
    MaxConcurrent = 1
    Chunk = 2
    MinBytes = 1
    Ttl = 0
    BodySizes = {2}
    MaxClock = 1
    Request <- MCRequest
    Material <- MCMaterial
    Commit = {1, 2}
    Bodied = {2}
    Broken = {}
    Adds <- MCAdds
    Drops <- MCDrops
    MaxMoves = 2
    Wheel <- MCWheel
    UserSets <- MCUsers
    Requests <- MCAsked
    Inventories <- MCHosts
    Library <- MCLibrary
    RefRank <- MCRefRank
    Resembles <- MCResembles
    LogOf <- MCLogOf
    FoundSets <- MCFound
    Tasks <- MCTasks
    Ceiling = 2
    MaxDay = 3
    Call = {1, 2, 3, 4}
    Edits = {1, 2, 3}
    Theirs = {"a"}
    Manifest = {1}
    Desktop = "desktop"
    MaxWrites = 2
    File = {"f", "g"}
    Core = {"g"}
    Relation = {"supersedes", "amends"}
    MinScore = 50
    Limit = 1
    LineCap = 1
    MaxCommits = 3
    MaxLines <- MCMaxLines
    Number = {1, 3}
    Pulls = {3}
    Commits <- MCClosing
    Closes <- MCCloses
    Mentions <- MCMentions
    PageSize = 1
    MaxPages = 2
    MaxAttempts = 2
    Plans <- MCPlans
    Release = {1, 2}
    Checkout = {1}
    Model = {1}
    Alias = 2
    UserLine = {"lint", "test"}
    MaxOwn = 2
    MaxScript = 7
    Name = {"why", "drift"}
    Statements <- MCItem
    Question <- MCQuestion
    Researchable = {5}
    Allowed = {4, 8, 9, 11, 14}
    MaxClaims = 2
    MaxItems = 3
    Today = 4
    Passages = {1, 2, 3, 4}
    DocumentOf <- MCDocumentOf
    Lengths <- MCLengths
    Query <- MCQuery
    Budget <- MCBudget
    ClockEvery = 2
    Depth = 2
    Snippet = 2
INVARIANT
    SupersededNeverCurrent
CHECK_DEADLOCK FALSE
