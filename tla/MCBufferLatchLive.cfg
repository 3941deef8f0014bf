CONSTANTS
    MaxFrame = 3
    SyncPoints = {s1, s2}
    Infos <- MCOneInfo
    NoBufferInfo <- MCNoBufferInfo
    LayerOpaqueFlag = FALSE
    LatchUnsignaled = FALSE
    PartialFailure = FALSE
    Removable = FALSE

SPECIFICATION FairSpec

PROPERTY WaitersReleased
PROPERTY FramesEventuallyLatched


INVARIANT AvailableBeforeNext
INVARIANT VisibleRegionsCurrent
PROPERTY NoLostFrameStats
