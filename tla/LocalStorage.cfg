\* MountNew / MountExisting with failing system calls, retries and a reboot.
CONSTANTS
    MaxFailures = 2
    MaxAttempts = 4
    MaxReboots = 2

SPECIFICATION Spec

INVARIANT TypeOK
INVARIANT MountedIsJournaled
PROPERTY DataPartitionSpec

\* The caller's attempts and reboots are bounded; the model stops after them.
CHECK_DEADLOCK FALSE
