\* Run's loop, the local pipe and runCluster with a breaking Watch; Run
\* itself never fails here (see HostsfileStuckRestart.cfg).
CONSTANTS
    n1 = n1
    n2 = n2
    a1 = a1
    a2 = a2
    Self = n1
    Others <- MCOthers
    Addrs <- MCAddrs
    NilIP = NilIP
    None = None
    MaxEnvChanges = 3
    MaxBreaks = 1
    MaxFailures = 0

SPECIFICATION Spec

INVARIANT TypeOK
INVARIANT SelfEntryFromNetwork
INVARIANT HostsMatchCluster
PROPERTY FilesConverge

\* Run blocks in select for good once the environment stops changing.
CHECK_DEADLOCK FALSE
