SPECIFICATION LanesSpec
CONSTANTS
    Steps <- UnevenSteps
    MaxDamage = 3
    MaxMisses = 2
    MaxResets = 2
    MaxSteps = 2
    MaxRuns = 2
    MaxTimeouts = 1
    LateRuns = 1
INVARIANTS
    TrioIsComplete
    RetryIsInFlight
    AcceptedIsGenuine
    ResultIsComplete
    DamageIsHealed
PROPERTIES
    RunsEnd
