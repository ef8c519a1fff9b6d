\* A crash after a safe RECONCILIATION and before its transition.
CONSTANTS
    c1 = c1
    c2 = c2
    Coordinators <- OneCoordinator
    ContextRoles = 1
    ValidationPlans = 1
    ExternalCeilings = {FALSE}
    MayExpire = FALSE
    MayOverrun = FALSE
    AgentEffects = {"KNOWN_PRESENT"}
    MaxCrashes = 2
    MaxBuildAttempts = 1
    MaxReviewAttempts = 1
    MaxRepairAttempts = 0
SPECIFICATION FairSpec
PROPERTIES
    SafeReconciliationContinues
