\* Whether a labelled ClusterRoleBinding that is not built in gets deleted.
CONSTANTS
    Kinds = {"clusterrolebindings"}
    MaxAdmin = 1
    MaxFailures = 0
    ReplaceStray = FALSE

SPECIFICATION Spec

PROPERTY StraysRemoved
