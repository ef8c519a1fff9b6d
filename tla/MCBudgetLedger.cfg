\* Two coordinators that may stop anywhere, an attempt, and
\* two validations against one unit of time that may overrun.
CONSTANTS
    c1 = c1
    c2 = c2
    b1 = b1
    v1 = v1
    v2 = v2
    None = None
    UNRESOLVED = UNRESOLVED
    Clients <- TwoClients
    Keys <- AllKeys
    Metrics <- AllMetrics
    MetricOf <- KeyMetric
    DurationMetric = "TOTAL_DURATION"
    Limit <- Limits
    Elapsed = {0, 1, 2}
SPECIFICATION Spec
INVARIANTS
    TypeOK
    NoOverCommitment
    LedgerBalanced
PROPERTIES
    LedgerAppendOnly
    ImplementsAccount
CHECK_DEADLOCK FALSE
