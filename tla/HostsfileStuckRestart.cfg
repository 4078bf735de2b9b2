\* Run may fail (ESP write error, context canceled) and is restarted.
CONSTANTS
    n1 = n1
    n2 = n2
    a1 = a1
    a2 = a2
    Self = n1
    Others <- MCOthers
    Addrs <- MCAddrs
    NilIP = NilIP
    None = None
    MaxEnvChanges = 3
    MaxBreaks = 0
    MaxFailures = 1

SPECIFICATION SpecWithRunFailures

PROPERTY RunRestarts

\* A stuck restart leaves nothing enabled; the liveness check reports it.
CHECK_DEADLOCK FALSE
