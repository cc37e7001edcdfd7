SPECIFICATION Spec
CONSTANTS
    k = k
    u = u
    w = w
    a = a
    x = x
    xc = xc
    y = y
    c0 = c0
    c1 = c1
    c2 = c2
    c3 = c3
    v1 = v1
    v2 = v2
    v1t = v1t
    t = t
    w1 = w1
    w2 = w2
    BadRow = BadRow
    Empty = Empty
    NoModel = NoModel
    NoBlob = NoBlob
    PktMax = 4
    Ids <- MCIds
    Coords <- MCCoords
    Bodies <- MCBodies
    Weights <- MCWeights
    ClipId <- MCClipId
    ClipBody <- MCClipBody
    Q10 <- MCQ10
    ModelIds = {w, y}
    RowIds = {w, y}
    KernelPkt <- MCKernelPkt
    UsbPkt <- MCUsbPkt
    Inputs <- ModelInputs
    FlushMin = 1
    FlushMax = 1
    FlushWide = 1
    TsetValues = {"number"}
    MaxBoots = 1
INVARIANTS
    TypeOK
    CacheAgreesWithBank
    DuplicatesOnlyWhenCut
