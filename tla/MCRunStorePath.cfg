\* One run, two clients with stale clocks, the whole path from CREATED to APPROVED.
CONSTANTS
    r1 = r1
    r2 = r2
    c1 = c1
    c2 = c2
    w1 = w1
    MaxBuildAttempts = 1
    MaxReviewAttempts = 1
    MaxRepairAttempts = 1
    RunIds <- OneRun
    Clients <- TwoClients
    WorktreeIds = {}
    Times <- TwoTimes
    Reasons = {"accepted"}
    RecordIds = {}
    Bodies = {}
    MaxRevision = 10
    MaxRecords = 0
SPECIFICATION Spec
SYMMETRY Symmetry
INVARIANTS
    TypeOK
    LogExplainsRun
PROPERTIES
    TerminalFrozen
    ImplementsLifecycle
CHECK_DEADLOCK FALSE
