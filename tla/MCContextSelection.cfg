\* Sixteen requests, one or two files that change at any time, noticed or not, one crash, and
\* continuations stamped as the first request was.
CONSTANTS
    NoPath = NoPath
    None = None
    Paths <- MCPaths
    Parts <- MCParts
    Allowed <- MCAllowed
    Forbidden <- MCForbidden
    Text <- MCText
    Requests <- MCRequests
    Limits <- MCLimits
    MaxAgentOutput = 9
    TestOf <- MCTestOf
    MaxCrashes = 1
    StampedAs = {"original"}
SPECIFICATION FairSpec
INVARIANTS
    RequiredDelivered
    WithinBudget
    ContentIsOneVersion
    ScopeEnforced
    PackageIsRecorded
PROPERTIES
    EventuallySelected
CHECK_DEADLOCK FALSE
