\* Two clients over two runs: retries with other reasons, a worktree and record
\* identifiers that both runs want.
CONSTANTS
    r1 = r1
    r2 = r2
    c1 = c1
    c2 = c2
    w1 = w1
    MaxBuildAttempts = 1
    MaxReviewAttempts = 1
    MaxRepairAttempts = 1
    RunIds <- TwoRuns
    Clients <- TwoClients
    WorktreeIds <- OneWorktree
    Times <- OneTime
    Reasons = {"accepted", "retried"}
    RecordIds = {"intent", "outcome"}
    Bodies = {"body"}
    MaxRevision = 1
    MaxRecords = 2
SPECIFICATION Spec
SYMMETRY SymmetryRuns
INVARIANTS
    AckedDurable
    JournalMatchesLog
    OneCreator
PROPERTIES
    AppendOnly
CHECK_DEADLOCK FALSE
