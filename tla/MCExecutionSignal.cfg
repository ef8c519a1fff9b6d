\* One command of one second.
CONSTANTS
    None = None
    Declared <- OneCommand
    Allowances = {1}
    Roles = {}
SPECIFICATION FairSpec
PROPERTY TimeoutIsTyped
CHECK_DEADLOCK FALSE
