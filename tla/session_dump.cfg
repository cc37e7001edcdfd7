SPECIFICATION Spec
CONSTANTS
    Commands = {"PKT", "BENCH"}
    LongCommands = {"PKT"}
    PerTransfer = 2
    MaxReply = 2
    LineMax = 3
    Slices = 3
    MaxSessions = 1
    Prompt = TRUE
    MaySplit = FALSE
INVARIANTS
    DumpRetrieved
CHECK_DEADLOCK FALSE
