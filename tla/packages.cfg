SPECIFICATION PackagesSpec
CONSTANTS
    Size = 3
    MaxRuns = 3
    MaxResets = 1
    MaxQueue = 4
    Stages = 2
    Inputs = 2
    Outputs = 2
    MaxDamage = 1
    MaxTimeouts = 2
    MaxIdle = 1
    SeqMod = 4
    Shapes = {2, 3}
    Targets = {7, 10}
    StepGoals = {3}
    Every = 2
    OldStep = 1
    OldShape = 2
    MaxKills = 2
INVARIANTS
    LogitsAreOwn
    ReadyMeansLoaded
    CheckpointsExact
PROPERTIES
    NeverWrittenWhileReady
    ResumableStays
    SelectionsSucceed
