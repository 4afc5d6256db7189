CONSTANTS
    MaxGen = 3
    NoUserLimit = 2
SPECIFICATION Spec
INVARIANT HandleIsCurrent
CHECK_DEADLOCK FALSE
