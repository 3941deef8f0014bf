CONSTANTS
    MaxFrame = 3
    SyncPoints = {s1, s2}
    Infos <- MCInfos
    NoBufferInfo <- MCNoBufferInfo
    LayerOpaqueFlag = FALSE
    LatchUnsignaled = FALSE
    PartialFailure = TRUE
    Removable = TRUE

SPECIFICATION Spec

INVARIANT TypeOK
INVARIANT SyncBarrier
INVARIANT NoOrphanedWaiter
PROPERTY NeverLatchUnsignaled
PROPERTY GeometryInvalidation

PROPERTY ImplementsSyncBarrier

SYMMETRY MCSymmetry
