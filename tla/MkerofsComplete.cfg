CONSTANTS
    NameOrder <- MCNameOrder
    MaxDepth = 2
    MaxDirs = 1
    MaxFiles = 1
    MaxLinks = 1
SPECIFICATION Spec
INVARIANT ImageComplete
CHECK_DEADLOCK FALSE
