SPECIFICATION ConsoleSpec
CONSTANTS
    Commands = {"PKT", "BENCH"}
    LongCommands = {"PKT"}
    PerTransfer = 2
    MaxReply = 2
    LineMax = 3
    Slices = 2
    MaxSessions = 2
    Prompt = FALSE
    MaySplit = TRUE
    PktMax = 32
    Lag = 2
    MaxLost = 1
    Doubtful = {2}
    Crowd = {0, 17}
    CrowdAt <- MCCrowdAt
    Empty = Empty
CHECK_DEADLOCK FALSE
INVARIANTS
    SessionExact
    RowsStored
PROPERTIES
    OwnRecordsStay
