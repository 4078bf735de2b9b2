\* The reconciler with administrators deleting and creating objects and
\* failing API calls.
CONSTANTS
    Kinds = {"psps", "clusterroles", "clusterrolebindings"}
    MaxAdmin = 3
    MaxFailures = 2
    ReplaceStray = FALSE

SPECIFICATION Spec

PROPERTY BuiltinsConverge
PROPERTY DeletesOnlyStrays
