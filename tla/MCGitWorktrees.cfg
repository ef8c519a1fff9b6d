\* Two processes, one crash, two identifiers for one path and branch, a base that
\* may move and a repository that may be replaced.
CONSTANTS
    p1 = p1
    p2 = p2
    w1 = w1
    w2 = w2
    dir = dir
    ref = ref
    here = here
    there = there
    None = None
    Processes <- TwoProcesses
    Ids <- TwoIds
    Paths <- OnePath
    Branches <- OneBranch
    PathOf <- SamePath
    BranchOf <- SameBranch
    Repositories <- TwoRepositories
    Commits = {0, 1}
    Descends <- Linear
    MaxCrashes = 1
SPECIFICATION Spec
SYMMETRY Symmetry
INVARIANTS
    OwnershipExclusive
    NoOrphanWorktree
PROPERTIES
    LifecycleForward
    CleanupSparesOthers
