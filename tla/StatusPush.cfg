\* The status pusher with failing RPCs, cancellations and restarts.
CONSTANTS
    a1 = a1
    a2 = a2
    Addrs <- MCAddrs
    NilIP = NilIP
    NodeID = n1
    None = None
    MaxEnvChanges = 4
    MaxFailures = 2

SPECIFICATION Spec

INVARIANT IdleImpliesPublished
PROPERTY StatusPublished

\* The pusher blocks in select once nothing changes any more.
CHECK_DEADLOCK FALSE
