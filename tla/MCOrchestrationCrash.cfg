\* One coordinator that may crash twice, anywhere; a whole review and repair cycle,
\* and somebody who keeps resuming the run.
CONSTANTS
    c1 = c1
    c2 = c2
    Coordinators <- OneCoordinator
    ContextRoles = 2
    ValidationPlans = 2
    ExternalCeilings = {FALSE, TRUE}
    MayExpire = TRUE
    MayOverrun = TRUE
    AgentEffects = {"KNOWN_NONE", "KNOWN_PRESENT", "AMBIGUOUS"}
    MaxCrashes = 2
    MaxBuildAttempts = 1
    MaxReviewAttempts = 2
    MaxRepairAttempts = 1
SPECIFICATION FairSpec
INVARIANTS
    TypeOK
    EffectsAtMostOnce
    ApprovedIsValidated
    BudgetFailsClosed
    CountersMatchJournal
PROPERTIES
    ImplementsLifecycle
    EventuallyTerminal
    SettlementRecovered
