SPECIFICATION FairSpec
CONSTANTS
    Steps <- UnevenSteps
    MaxGlitches = 2
    MaxResets = 2
INVARIANTS
    TypeOK
    PreparedFrameIntact
    AcceptedIsGenuine
    ResultIsComplete
PROPERTIES
    RunsRecover
