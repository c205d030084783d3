SPECIFICATION Spec
CONSTANTS
    Nodes = 2
    MaxTries = 3
CHECK_DEADLOCK FALSE
INVARIANT ExitsInsideOut
