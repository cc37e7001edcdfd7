SPECIFICATION Spec
CONSTANTS
    Size = 2
    MaxRuns = 0
    MaxResets = 0
    MaxQueue = 1
INVARIANTS
    FailedChunkEndsLoad
