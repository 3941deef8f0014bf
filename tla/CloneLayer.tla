----------------------------- MODULE CloneLayer -----------------------------
(***************************************************************************)
(* A clone (mirror) of the buffer layer of BufferLatch: BufferLayer's      *)
(* setInitialValuesForClone() and updateCloneBufferInfo() copy the         *)
(* original's latched state into the clone, on the composition thread,    *)
(* between the original's latches.  The original may be destroyed, after  *)
(* which the clone keeps what it last copied.  The two share one texture   *)
(* (mTextureName), which only the original's destructor deletes.           *)
(***************************************************************************)
EXTENDS BufferLatch

CONSTANTS
    OriginalFlags,   \* mPremultipliedAlpha, mPotentialCursor, mProtectedByApp
    NoFlags          \* the clone's flags before they are copied

VARIABLES
    isClone,          \* the clone exists (mClonedFrom is set)
    clonedFromAlive,  \* isClonedFromAlive()
    cloneFlags,       \* the clone's three flags
    cloneInfo,        \* the clone's mBufferInfo
    cloneSideband,    \* the clone's mSidebandStream != nullptr
    cloneFrame,       \* the clone's mCurrentFrameNumber
    textureDeleted,   \* the original ran deleteTextureAsync(mTextureName)
    cloneSampled      \* history: the texture state the clone's last client
                      \* composition sampled: "none", "live" or "deleted"

cloneVars == <<isClone, clonedFromAlive, cloneFlags, cloneInfo, cloneSideband, cloneFrame,
               textureDeleted, cloneSampled>>
allVars == <<vars, cloneVars>>

\* The copies of updateCloneBufferInfo().
CopyFromOriginal ==
    /\ cloneInfo' = bufferInfo
    /\ cloneSideband' = sideband
    /\ cloneFrame' = currentFrameNumber

CloneInit ==
    /\ Init
    /\ isClone = FALSE
    /\ clonedFromAlive = FALSE
    /\ cloneFlags = NoFlags
    /\ cloneInfo = NoBufferInfo
    /\ cloneSideband = FALSE
    /\ cloneFrame = 0
    /\ textureDeleted = FALSE
    /\ cloneSampled = "none"

\* setInitialValuesForClone(): the clone is created from the live original,
\* copies its flags and calls updateCloneBufferInfo().
SetInitialValuesForClone ==
    /\ ~isClone
    /\ latchPc = "idle" /\ ~composing
    /\ isClone' = TRUE
    /\ clonedFromAlive' = TRUE
    /\ cloneFlags' = OriginalFlags
    /\ CopyFromOriginal
    /\ UNCHANGED <<vars, textureDeleted, cloneSampled>>

\* updateCloneBufferInfo(): returns early unless this is a clone of a live
\* original; the drawing state copy is not modelled.
UpdateCloneBufferInfo ==
    /\ isClone /\ clonedFromAlive
    /\ latchPc = "idle" /\ ~composing
    /\ CopyFromOriginal
    /\ UNCHANGED <<vars, isClone, clonedFromAlive, cloneFlags, textureDeleted, cloneSampled>>

\* ~BufferLayer() of the original, once its last reference (held during a
\* latch) is gone: not being a clone, it deletes the shared texture; the
\* clone's weak reference fails.
OriginalDestroyed ==
    /\ clonedFromAlive /\ latchPc = "idle"
    /\ clonedFromAlive' = FALSE
    /\ textureDeleted' = TRUE
    /\ UNCHANGED <<vars, isClone, cloneFlags, cloneInfo, cloneSideband, cloneFrame,
                   cloneSampled>>

\* The clone's prepareClientComposition(): nothing without a buffer, else
\* the buffer sampled through mTextureName unless the output blacks the
\* layer out (protection and security of the output are inputs).
CloneComposite ==
    /\ isClone /\ latchPc = "idle"
    /\ \E blackOut \in BOOLEAN :
          cloneSampled' = IF ~cloneInfo.buffer \/ blackOut THEN cloneSampled
                          ELSE IF textureDeleted THEN "deleted" ELSE "live"
    /\ UNCHANGED <<vars, isClone, clonedFromAlive, cloneFlags, cloneInfo, cloneSideband,
                   cloneFrame, textureDeleted>>

CloneNext ==
    \/ Next /\ ~textureDeleted /\ UNCHANGED cloneVars
    \/ SetInitialValuesForClone
    \/ UpdateCloneBufferInfo
    \/ OriginalDestroyed
    \/ CloneComposite

CloneSpec == CloneInit /\ [][CloneNext]_allVars

-----------------------------------------------------------------------------
\* The comment in ~BufferLayer() (lines 73-77): the clone shares the
\* original's texture and is removed with it, so the clone never samples
\* the texture after the original's destructor deleted it.
CloneTextureLive == cloneSampled # "deleted"

=============================================================================
