SPECIFICATION FirmwareSpec
CONSTANTS
    Period = 3
    BurstMax = 2
    RestMax = 1
    FlushMin = 1
    FlushMax = 2
    FaultRests = {2}
    Wide = 2
    PerSecond = 3
    TsetValues = {"number", "nan"}
    MaxCount = 2
    Samples = 128
    Measured <- MCMeasured
    MaxRuns = 2
INVARIANTS
    EveryBenchMeasures
