\* Whether the delete loop, acting on an earlier List, can remove an
\* administrator's unlabelled object that took a stray's name meanwhile.
CONSTANTS
    Kinds = {"psps"}
    MaxAdmin = 3
    MaxFailures = 0
    ReplaceStray = TRUE

SPECIFICATION Spec

PROPERTY DeletesOnlyStrays
