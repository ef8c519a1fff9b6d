\* A crash after the OUTCOME of the last repair.
CONSTANTS
    c1 = c1
    c2 = c2
    Coordinators <- OneCoordinator
    ContextRoles = 1
    ValidationPlans = 2
    ExternalCeilings = {FALSE}
    MayExpire = FALSE
    MayOverrun = FALSE
    AgentEffects = {"KNOWN_PRESENT"}
    MaxCrashes = 1
    MaxBuildAttempts = 1
    MaxReviewAttempts = 1
    MaxRepairAttempts = 1
SPECIFICATION Spec
PROPERTIES
    CompletedRepairIsConsumed
