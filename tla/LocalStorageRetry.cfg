\* Whether a call that failed can be repeated without a reboot.
CONSTANTS
    MaxFailures = 2
    MaxAttempts = 4
    MaxReboots = 2

SPECIFICATION Spec

INVARIANT FailedCallRetryable

\* The caller's attempts and reboots are bounded; the model stops after them.
CHECK_DEADLOCK FALSE
