CONSTANTS
    NameOrder <- MCNameOrder
    MaxDepth = 2
    MaxDirs = 1
    MaxFiles = 2
    MaxLinks = 1
SPECIFICATION Spec
INVARIANT ImageFaithful
INVARIANT ImageWellFormed
CHECK_DEADLOCK FALSE
