SPECIFICATION Spec
CONSTANTS
    Period = 2
    BurstMax = 2
    PerSecond = 1
    TsetValues = {"number", "nan"}
    MaxCount = 3
    RestMax = 0
    FlushMin = 1
    FlushMax = 1
    FaultRests = {1}
    Wide = 2
PROPERTIES
    ResetRestoresNumbers
