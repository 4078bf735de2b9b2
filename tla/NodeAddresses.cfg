\* Remote's pusher publishing its address to Local's /etc/hosts.
CONSTANTS
    n1 = n1
    n2 = n2
    a1 = a1
    Local = n1
    Remote = n2
    IPs = {a1}
    NilIP = NilIP
    None = None
    MaxPushChanges = 3
    MaxPushFailures = 0
    MaxHostsChanges = 2
    MaxBreaks = 0

SPECIFICATION Spec

INVARIANT HostsHoldIPs

\* Both services block in select once nothing changes any more.
CHECK_DEADLOCK FALSE
