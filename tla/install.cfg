SPECIFICATION InstallSpec
CONSTANTS
    Images = 2
    MaxFaults = 3
    MaxPrinted = 3
    MaxTyped = 2
    Chunk = 2
    PtyCap = 2
CHECK_DEADLOCK FALSE
INVARIANTS
    BridgeExact
    CompletedMeansFlashed
PROPERTIES
    ErasedOnlyAfterVerify
    StopsOrBlocks
    FlashCanBeRepeated
