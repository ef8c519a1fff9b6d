\* Two coordinators over one run: every interleaving of their store accesses.
CONSTANTS
    c1 = c1
    c2 = c2
    Coordinators <- TwoCoordinators
    ContextRoles = 1
    ValidationPlans = 1
    ExternalCeilings = {FALSE}
    MayExpire = FALSE
    MayOverrun = FALSE
    AgentEffects = {"KNOWN_PRESENT"}
    MaxCrashes = 0
    MaxBuildAttempts = 1
    MaxReviewAttempts = 1
    MaxRepairAttempts = 0
SPECIFICATION Spec
SYMMETRY Symmetry
INVARIANTS
    EffectsAtMostOnce
    ApprovedIsValidated
PROPERTIES
    EvidenceFinal
