CONSTANTS
    MaxFrame = 3
    SyncPoints = {s1, s2}
    Infos <- MCOneInfo
    NoBufferInfo <- MCNoBufferInfo
    LayerOpaqueFlag = FALSE
    LatchUnsignaled = FALSE
    PartialFailure = FALSE
    Removable = TRUE

SPECIFICATION Spec


PROPERTY NoLostFrameStats


