\* Two nodes booting against one etcd, with up to two failed etcd calls.
CONSTANTS
    Nodes = {n1, n2}
    MaxFailures = 2
    MaxReboots = 1
SPECIFICATION Spec
INVARIANT KeysAgree
\* A node that served or halted stops.
CHECK_DEADLOCK FALSE
