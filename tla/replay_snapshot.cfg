SPECIFICATION Spec
CONSTANTS
    k = k
    u = u
    a = a
    e = e
    x = x
    xc = xc
    c0 = c0
    c1 = c1
    c2 = c2
    c3 = c3
    s = s
    s1 = s1
    BadRow = BadRow
    Empty = Empty
    NoModel = NoModel
    PktMax = 4
    Ids <- MCIds
    Coords <- MCCoords
    Bodies <- MCBodies
    Weights = {}
    ClipId <- MCClipId
    ClipBody <- MCClipBody
    Q10 <- MCQ10
    ModelIds = {}
    RowIds = {}
    KernelPkt <- MCKernelPkt
    UsbPkt <- MCUsbPkt
    Inputs <- MovedInputs
    LineBody <- MCLineBody
INVARIANTS
    SnapshotIsReplayable
