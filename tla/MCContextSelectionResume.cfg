\* A restart over files that nobody writes, with requests stamped as the runtime stamps them.
CONSTANTS
    NoPath = NoPath
    None = None
    Paths <- MCPaths
    Parts <- MCParts
    Allowed <- MCAllowed
    Forbidden <- MCForbidden
    Text <- MCText
    Requests <- QuietRequests
    Limits <- MCLimits
    MaxAgentOutput = 9
    TestOf <- MCTestOf
    MaxCrashes = 1
    StampedAs = {"now"}
SPECIFICATION FairSpec
INVARIANTS
    UnchangedFilesRestore
CHECK_DEADLOCK FALSE
