CONSTANTS
    MaxFrame = 3
    SyncPoints = {s1, s2}
    Infos <- MCOneInfo
    NoBufferInfo <- MCNoBufferInfo
    LayerOpaqueFlag = FALSE
    LatchUnsignaled = FALSE
    PartialFailure = TRUE
    Removable = TRUE

SPECIFICATION FairSpec

PROPERTY WaitersReleased


