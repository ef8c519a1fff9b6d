\* Plans of two commands with one or two seconds each, one to three seconds left,
\* and agents of a writing and of a read-only role.
CONSTANTS
    None = None
    Declared <- TwoCommands
    Allowances = {1, 2, 3}
    Roles = {"BUILDER", "REVIEWER"}
SPECIFICATION FairSpec
INVARIANTS
    ApprovableIsTrue
    CancelDominates
    PlanFitsAllowance
    ProcessEnded
    SideEffectsHonest
PROPERTIES
    EventuallyEnded
CHECK_DEADLOCK FALSE
