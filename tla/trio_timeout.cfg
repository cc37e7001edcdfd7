SPECIFICATION Spec
CONSTANTS
    MaxSteps = 2
    MaxRuns = 2
    MaxTimeouts = 1
INVARIANTS
    RetryResendsOwn
CHECK_DEADLOCK FALSE
