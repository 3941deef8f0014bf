CONSTANTS
    MaxFrame = 2
    SyncPoints = {s1}
    Infos <- MCInfos
    NoBufferInfo <- MCNoBufferInfo
    LayerOpaqueFlag = FALSE
    LatchUnsignaled = FALSE
    PartialFailure = TRUE
    Removable = TRUE
    OriginalFlags = flags
    NoFlags = noFlags

SPECIFICATION CloneSpec

INVARIANT CloneTextureLive
