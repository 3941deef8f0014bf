---------------------------- MODULE BufferLatch ----------------------------
(***************************************************************************)
(* The per-layer buffer latch of SurfaceFlinger's BufferLayer              *)
(* (src/services/surfaceflinger/BufferLayer.cpp) together with the         *)
(* threads it shares state with.                                           *)
(*                                                                         *)
(*  - The composition thread runs latchBuffer, notifyAvailableFrames,      *)
(*    onPreComposition, onPostComposition and latchAndReleaseBuffer.       *)
(*    latchBuffer takes mLocalSyncPointMutex twice, in                     *)
(*    allTransactionsSignaled and in the final pruning, and releases it    *)
(*    in between while it acquires the buffer; it is therefore split into  *)
(*    LatchBegin and LatchFinish, and latchPc records which is next.       *)
(*  - The producer queues frames; their acquire fences signal later.       *)
(*  - Transaction threads register sync points (deferred transactions of   *)
(*    other layers waiting for a frame of this layer), apply the waiting   *)
(*    transaction once the frame is available, and disconnect the layer.   *)
(* The producer queue, the fences, sync point registration and the         *)
(* requester's apply live outside BufferLayer.cpp and follow spec.md.      *)
(***************************************************************************)
EXTENDS Naturals, Sequences, SequencesExt, FiniteSets

CONSTANTS
    MaxFrame,          \* bound on the frame numbers the producer queues
    SyncPoints,        \* identities of the sync points that may be registered
    Infos,             \* the BufferInfo a queued frame may carry
    NoBufferInfo,      \* mBufferInfo before any buffer was latched
    LayerOpaqueFlag,   \* layer_state_t::eLayerOpaque in the drawing state
    LatchUnsignaled,   \* the debug.sf.latch_unsignaled property
    PartialFailure,    \* updateActiveBuffer()/updateFrameNumber() may fail
    Removable          \* the layer may be removed from the current state

ASSUME MaxFrame \in Nat \ {0}
ASSUME {LatchUnsignaled, LayerOpaqueFlag, PartialFailure, Removable} \subseteq BOOLEAN
ASSUME \A i \in Infos : i.buffer /\ ~NoBufferInfo.buffer

VARIABLES
    queue,               \* frames queued by the producer: [fn, info, signaled]
    lastQueued,          \* frame number of the last queued frame
    sidebandChanged,     \* the producer's sideband-stream-changed flag
    sideband,            \* mSidebandStream != nullptr
    currentFrameNumber,  \* mCurrentFrameNumber
    bufferInfo,          \* mBufferInfo
    refreshPending,      \* mRefreshPending
    frameLatencyNeeded,  \* mBufferInfo.mFrameLatencyNeeded
    recompute,           \* mVisibleRegionsDirty, fed by recomputeVisibleRegions
    visibleGeometry,     \* the geometry visible regions were last computed for
    composing,           \* a refresh is between onPreComposition and onPostComposition
    latchPc,             \* "idle" or "finish" (latchBuffer between its locks)
    latchCaller,         \* "refresh" (handlePageFlip) or "release"
    ledger,              \* mLocalSyncPoints, in list order
    sp,                  \* each sync point's target frame and two flags
    registered,          \* sync points created so far
    disconnected,        \* the producer has disconnected
    raced                \* history: sync points added while latchPc = "finish"

vars == <<queue, lastQueued, sidebandChanged, sideband, currentFrameNumber,
          bufferInfo, refreshPending, frameLatencyNeeded, recompute, visibleGeometry,
          composing, latchPc, latchCaller, ledger, sp, registered, disconnected, raced>>

producerVars == <<queue, lastQueued, sidebandChanged>>
layerVars == <<sideband, currentFrameNumber, bufferInfo, refreshPending,
               frameLatencyNeeded, recompute, visibleGeometry, composing, latchPc,
               latchCaller>>

Frame == [fn : 1..MaxFrame, info : Infos, signaled : BOOLEAN]
SyncPoint == [target : 0..MaxFrame, available : BOOLEAN, applied : BOOLEAN]

-----------------------------------------------------------------------------
(* Helpers of BufferLayer and of the producer queue it consumes.           *)

\* hasFrameUpdate(): the producer has a queued frame.
HasFrameUpdate == queue # <<>>

\* hasReadyFrame(); auto refresh is not modelled.
HasReadyFrame == HasFrameUpdate \/ sidebandChanged

\* getHeadFrameNumber(): the head queued frame, else the latched one.
HeadFrameNumber == IF HasFrameUpdate THEN Head(queue).fn ELSE currentFrameNumber

\* latchUnsignaledBuffers(): debug.sf.latch_unsignaled, read under a static
\* mutex on the first call and cached, so one value for the process's life.
LatchUnsignaledBuffers == LatchUnsignaled

\* fenceHasSignaled(): the override, or the head frame's acquire fence.
FenceHasSignaled == LatchUnsignaledBuffers \/ ~HasFrameUpdate \/ Head(queue).signaled

\* getOpacityForFormat(): device formats 0x100-0x1FF and all formats but
\* RGBA_8888 (1), BGRA_8888 (5), RGBA_FP16 (0x16), RGBA_1010102 (0x2B).
OpacityForFormat(f) == (256 <= f /\ f <= 511) \/ f \notin {1, 5, 22, 43}

\* isOpaque(s) for a given mBufferInfo and sideband stream.
IsOpaque(info, hasSideband) ==
    /\ hasSideband \/ info.buffer
    /\ LayerOpaqueFlag \/ OpacityForFormat(info.format)

\* What composition derives from a latched buffer: crop, transform, scaling,
\* display-inverse flag, buffer size and opacity.
Geometry(info) ==
    [crop |-> info.crop, transform |-> info.transform, scaleMode |-> info.scaleMode,
     tdi |-> info.transformToDisplayInverse, size |-> <<info.width, info.height>>,
     opaque |-> IsOpaque(info, sideband)]

\* Fault: the transform comparison is missing.
GeometryChangedNoTransform(old, new) ==
    \/ ~old.buffer
    \/ old.crop # new.crop
    \/ old.scaleMode # new.scaleMode
    \/ old.transformToDisplayInverse # new.transformToDisplayInverse
    \/ old.buffer /\ <<old.width, old.height>> # <<new.width, new.height>>
    \/ IsOpaque(old, sideband) # IsOpaque(new, sideband)

\* Fault: the first buffer does not trigger a geometry invalidation.
GeometryChangedNoFirst(old, new) ==
    \/ old.crop # new.crop
    \/ old.transform # new.transform
    \/ old.scaleMode # new.scaleMode
    \/ old.transformToDisplayInverse # new.transformToDisplayInverse
    \/ old.buffer /\ <<old.width, old.height>> # <<new.width, new.height>>
    \/ IsOpaque(old, sideband) # IsOpaque(new, sideband)

\* The latch's recomputeVisibleRegions decision after replacing old by new.
GeometryChanged(old, new) ==
    \/ ~old.buffer
    \/ old.crop # new.crop
    \/ old.transform # new.transform
    \/ old.scaleMode # new.scaleMode
    \/ old.transformToDisplayInverse # new.transformToDisplayInverse
    \/ old.buffer /\ <<old.width, old.height>> # <<new.width, new.height>>
    \/ IsOpaque(old, sideband) # IsOpaque(new, sideband)

-----------------------------------------------------------------------------
(* The sync point ledger, mLocalSyncPoints.                                *)

\* Fault: the loop breaks only past frame n + 1.
FirstAfterOffByOne(l, n) == SelectInSeq(l, LAMBDA p : sp[p].target > n + 1)

\* Index of the first entry whose target exceeds frame n (0 if none).
FirstAfter(l, n) == SelectInSeq(l, LAMBDA p : sp[p].target > n)

\* The entries allTransactionsSignaled visits before its break.
Scanned(head) ==
    IF FirstAfter(ledger, head) = 0 THEN ledger
    ELSE SubSeq(ledger, 1, FirstAfter(ledger, head) - 1)

\* allTransactionsSignaled(): the first visited entry whose frame is not yet
\* available (0 if none) is marked available and the latch is aborted;
\* otherwise the latch may go on iff every visited transaction is applied.
FirstUnavailable(head) == SelectInSeq(Scanned(head), LAMBDA p : ~sp[p].available)
\* Fault: allTransactionsApplied is not accumulated.
AllTransactionsSignaledNoApplied(head) == FirstUnavailable(head) = 0
AllTransactionsSignaled(head) ==
    /\ FirstUnavailable(head) = 0
    /\ \A i \in 1..Len(Scanned(head)) : sp[Scanned(head)[i]].applied

\* The pruning loop at the end of latchBuffer keeps an entry unless both
\* flags are set and its frame number is at most mCurrentFrameNumber.
\* Fault: entries are dropped by frame number alone.
PrunableByFrame(p, cur) == sp[p].target <= cur
Prunable(p, cur) == sp[p].available /\ sp[p].applied /\ sp[p].target <= cur
Prune(l, cur) == SelectSeq(l, LAMBDA p : ~Prunable(p, cur))

\* Ordered insert: after every entry with a target not above t.
InsertOrdered(l, p, t) ==
    IF FirstAfter(l, t) = 0 THEN Append(l, p) ELSE InsertAt(l, FirstAfter(l, t), p)

-----------------------------------------------------------------------------
Init ==
    /\ queue = <<>>
    /\ lastQueued = 0
    /\ sidebandChanged = FALSE
    /\ sideband = FALSE
    /\ currentFrameNumber = 0
    /\ bufferInfo = NoBufferInfo
    /\ refreshPending = FALSE
    /\ frameLatencyNeeded = FALSE
    /\ recompute = FALSE
    /\ visibleGeometry = Geometry(NoBufferInfo)
    /\ composing = FALSE
    /\ latchPc = "idle"
    /\ latchCaller = "refresh"
    /\ ledger = <<>>
    /\ sp = [p \in SyncPoints |-> [target |-> 0, available |-> FALSE, applied |-> FALSE]]
    /\ registered = {}
    /\ disconnected = FALSE
    /\ raced = {}

-----------------------------------------------------------------------------
(* Composition thread.                                                     *)

\* Fault: the acquire fence is not polled.
PassesEarlyReturnsNoFence(rp) == ~sidebandChanged /\ HasReadyFrame /\ ~rp

\* Fault: the mRefreshPending early return is missing.
PassesEarlyReturnsNoPending(rp) == ~sidebandChanged /\ HasReadyFrame /\ FenceHasSignaled

\* The early returns of latchBuffer() before allTransactionsSignaled(): no
\* sideband change, a ready frame, no pending refresh, a signaled fence.
PassesEarlyReturns(rp) == ~sidebandChanged /\ HasReadyFrame /\ ~rp /\ FenceHasSignaled

\* latchBuffer() up to and including allTransactionsSignaled(), called from
\* handlePageFlip ("refresh") or from latchAndReleaseBuffer() ("release"),
\* which first clears mRefreshPending and drops recomputeVisibleRegions.
\* Every early return either changes nothing or is one of the disjuncts.
LatchBegin(caller) ==
    LET rp   == IF caller = "release" THEN FALSE ELSE refreshPending
        head == HeadFrameNumber
        proceeds == PassesEarlyReturns(rp)
    IN
    /\ latchPc = "idle"
    /\ ~composing
    /\ refreshPending' = rp
    /\ \/ \* latchSidebandStream() consumed a sideband change: refresh needed
          /\ sidebandChanged
          /\ sidebandChanged' = FALSE
          /\ sideband' = TRUE
          /\ recompute' = IF caller = "refresh" THEN TRUE ELSE recompute
          /\ UNCHANGED <<queue, lastQueued, currentFrameNumber, bufferInfo,
                         frameLatencyNeeded, latchPc, latchCaller, ledger, sp>>
       \/ \* a sync point's frame was not yet available: mark it and abort
          /\ proceeds
          /\ FirstUnavailable(head) # 0
          /\ sp' = [sp EXCEPT ![Scanned(head)[FirstUnavailable(head)]].available = TRUE]
          /\ UNCHANGED <<producerVars, sideband, currentFrameNumber, bufferInfo,
                         frameLatencyNeeded, recompute, latchPc, latchCaller, ledger>>
       \/ \* every sync point up to the head frame is applied: acquire next
          /\ proceeds
          /\ AllTransactionsSignaled(head)
          /\ latchPc' = "finish"
          /\ latchCaller' = caller
          /\ UNCHANGED <<producerVars, sideband, currentFrameNumber, bufferInfo,
                         frameLatencyNeeded, recompute, ledger, sp>>
       \/ \* latchAndReleaseBuffer() with nothing latched: only the reset
          /\ caller = "release"
          /\ refreshPending
          /\ ~sidebandChanged
          /\ ~proceeds \/ (FirstUnavailable(head) = 0 /\ ~AllTransactionsSignaled(head))
          /\ UNCHANGED <<producerVars, sideband, currentFrameNumber, bufferInfo,
                         frameLatencyNeeded, recompute, latchPc, latchCaller, ledger, sp>>
    /\ UNCHANGED <<visibleGeometry, composing, registered, disconnected, raced>>

\* latchAndReleaseBuffer(): clears mRefreshPending and runs latchBuffer with
\* its recomputeVisibleRegions ignored (the pending release is not modelled).
\* SurfaceFlinger calls it for layers removed from the current state.
LatchAndReleaseBuffer == Removable /\ LatchBegin("release")

\* The rest of latchBuffer(): updateTexImage() fails without acquiring.
LatchFinishTexFail ==
    /\ latchPc = "finish"
    /\ latchPc' = "idle"
    /\ UNCHANGED <<producerVars, sideband, currentFrameNumber, bufferInfo, refreshPending,
                   frameLatencyNeeded, recompute, visibleGeometry, composing, latchCaller,
                   ledger, sp, registered, disconnected, raced>>

\* updateTexImage() acquired the head frame, then updateActiveBuffer() or
\* updateFrameNumber() failed: return false with the frame consumed.
LatchFinishPartial ==
    /\ PartialFailure
    /\ latchPc = "finish"
    /\ HasFrameUpdate
    /\ queue' = Tail(queue)
    /\ latchPc' = "idle"
    /\ UNCHANGED <<lastQueued, sidebandChanged, sideband, currentFrameNumber, bufferInfo,
                   refreshPending, frameLatencyNeeded, recompute, visibleGeometry, composing,
                   latchCaller, ledger, sp, registered, disconnected, raced>>

\* Fault: mCurrentFrameNumber set one past the latched frame.
LatchFinishOffByOne ==
    LET frame == Head(queue) IN
    /\ latchPc = "finish"
    /\ HasFrameUpdate
    /\ queue' = Tail(queue)
    /\ currentFrameNumber' = frame.fn + 1
    /\ bufferInfo' = frame.info
    /\ refreshPending' = TRUE
    /\ frameLatencyNeeded' = TRUE
    /\ recompute' = IF latchCaller = "refresh"
                    THEN recompute \/ GeometryChanged(bufferInfo, frame.info)
                    ELSE recompute
    /\ ledger' = Prune(ledger, frame.fn)
    /\ latchPc' = "idle"
    /\ UNCHANGED <<lastQueued, sidebandChanged, sideband, visibleGeometry, composing,
                   latchCaller, sp, registered, disconnected, raced>>

\* The buffer is latched: gatherBufferInfo(), the flags, the geometry
\* comparison against the old state, and the pruning of the sync points.
LatchFinish ==
    LET frame == Head(queue) IN
    /\ latchPc = "finish"
    /\ HasFrameUpdate
    /\ queue' = Tail(queue)
    /\ currentFrameNumber' = frame.fn
    /\ bufferInfo' = frame.info
    /\ refreshPending' = TRUE
    /\ frameLatencyNeeded' = TRUE
    /\ recompute' = IF latchCaller = "refresh"
                    THEN recompute \/ GeometryChanged(bufferInfo, frame.info)
                    ELSE recompute
    /\ ledger' = Prune(ledger, frame.fn)
    /\ latchPc' = "idle"
    /\ UNCHANGED <<lastQueued, sidebandChanged, sideband, visibleGeometry, composing,
                   latchCaller, sp, registered, disconnected, raced>>

\* Fault: headFrameNumber > point->getFrameNumber() instead of >=.
NotifyAvailableFramesStrict ==
    \E presentTimeIsCurrent \in IF HasFrameUpdate THEN BOOLEAN ELSE {TRUE} :
    LET head == HeadFrameNumber
        ready(p) == sp[p].target < head /\ FenceHasSignaled /\ presentTimeIsCurrent
    IN
    /\ latchPc = "idle"
    /\ ~composing
    /\ sp' = [p \in SyncPoints |->
                IF p \in Range(ledger) /\ ready(p) THEN [sp[p] EXCEPT !.available = TRUE]
                ELSE sp[p]]
    /\ UNCHANGED <<producerVars, layerVars, ledger, registered, disconnected, raced>>

\* notifyAvailableFrames(): with the head fence signaled and the head's
\* present time current, every sync point up to the head frame becomes
\* available (and its requester is flagged to apply its transaction).
\* A layer with nothing queued has its present time current.
NotifyAvailableFrames ==
    \E presentTimeIsCurrent \in IF HasFrameUpdate THEN BOOLEAN ELSE {TRUE} :
    LET head == HeadFrameNumber
        ready(p) == sp[p].target <= head /\ FenceHasSignaled /\ presentTimeIsCurrent
    IN
    /\ latchPc = "idle"
    /\ ~composing
    /\ sp' = [p \in SyncPoints |->
                IF p \in Range(ledger) /\ ready(p) THEN [sp[p] EXCEPT !.available = TRUE]
                ELSE sp[p]]
    /\ UNCHANGED <<producerVars, layerVars, ledger, registered, disconnected, raced>>

\* SurfaceFlinger's rebuildLayerStacks() after preComposition(): with
\* mVisibleRegionsDirty set, visible regions are computed from the layer's
\* current geometry, and the flag is cleared (spec.md 4.1 step 9).
RebuildLayerStacks ==
    /\ visibleGeometry' = IF recompute THEN Geometry(bufferInfo) ELSE visibleGeometry
    /\ recompute' = FALSE

\* Fault: mRefreshPending is not reset.
OnPreCompositionNoReset ==
    /\ latchPc = "idle"
    /\ ~composing
    /\ composing' = TRUE
    /\ refreshPending' = refreshPending
    /\ RebuildLayerStacks
    /\ UNCHANGED <<producerVars, sideband, currentFrameNumber, bufferInfo,
                   frameLatencyNeeded, latchPc, latchCaller, ledger, sp,
                   registered, disconnected, raced>>

\* onPreComposition(), at the start of SurfaceFlinger's refresh: the
\* latched frame goes to composition, and the refresh then recomputes the
\* visible regions if they were marked dirty.
OnPreComposition ==
    /\ latchPc = "idle"
    /\ ~composing
    /\ composing' = TRUE
    /\ refreshPending' = FALSE
    /\ RebuildLayerStacks
    /\ UNCHANGED <<producerVars, sideband, currentFrameNumber, bufferInfo,
                   frameLatencyNeeded, latchPc, latchCaller, ledger, sp,
                   registered, disconnected, raced>>

\* onPostComposition(), at the end of the same refresh: the statistics of a
\* newly latched frame are recorded and mFrameLatencyNeeded cleared; with no
\* new frame it returns early, which leaves the flag false as well.
OnPostComposition ==
    /\ composing
    /\ composing' = FALSE
    /\ frameLatencyNeeded' = FALSE
    /\ UNCHANGED <<producerVars, sideband, currentFrameNumber, bufferInfo,
                   refreshPending, recompute, visibleGeometry, latchPc, latchCaller, ledger, sp,
                   registered, disconnected, raced>>

-----------------------------------------------------------------------------
(* Producer and transaction threads (outside BufferLayer.cpp, per spec.md). *)

QueueBuffer(info) ==
    /\ ~disconnected
    /\ lastQueued < MaxFrame
    /\ queue' = Append(queue, [fn |-> lastQueued + 1, info |-> info, signaled |-> FALSE])
    /\ lastQueued' = lastQueued + 1
    /\ UNCHANGED <<sidebandChanged, layerVars, ledger, sp, registered, disconnected, raced>>

SignalFence(i) ==
    /\ ~queue[i].signaled
    /\ queue' = [queue EXCEPT ![i].signaled = TRUE]
    /\ UNCHANGED <<lastQueued, sidebandChanged, layerVars, ledger, sp, registered,
                   disconnected, raced>>

SetSidebandStream ==
    /\ ~disconnected
    /\ ~sideband /\ ~sidebandChanged
    /\ sidebandChanged' = TRUE
    /\ UNCHANGED <<queue, lastQueued, layerVars, ledger, sp, registered, disconnected, raced>>

\* A deferred transaction of another layer registers a sync point for frame
\* t of this layer; a frame already latched needs no sync point.
AddSyncPoint(p, t) ==
    /\ ~disconnected
    /\ p \notin registered
    /\ t > currentFrameNumber
    /\ registered' = registered \cup {p}
    /\ sp' = [sp EXCEPT ![p].target = t]
    /\ ledger' = InsertOrdered(ledger, p, t)
    /\ raced' = IF latchPc = "finish" THEN raced \cup {p} ELSE raced
    /\ UNCHANGED <<producerVars, layerVars, disconnected>>

\* The requester applies its deferred transaction once the frame is available.
ApplyTransaction(p) ==
    /\ p \in registered
    /\ sp[p].available /\ ~sp[p].applied
    /\ sp' = [sp EXCEPT ![p].applied = TRUE]
    /\ UNCHANGED <<producerVars, layerVars, ledger, registered, disconnected, raced>>

\* Producer disconnect: queued frames are dropped and every remaining sync
\* point is forced available and removed.
Disconnect ==
    /\ ~disconnected
    /\ disconnected' = TRUE
    /\ queue' = <<>>
    /\ sp' = [p \in SyncPoints |->
                IF p \in Range(ledger) THEN [sp[p] EXCEPT !.available = TRUE] ELSE sp[p]]
    /\ ledger' = <<>>
    /\ UNCHANGED <<lastQueued, sidebandChanged, layerVars, registered, raced>>

-----------------------------------------------------------------------------
Next ==
    \/ LatchBegin("refresh") \/ LatchAndReleaseBuffer
    \/ LatchFinishTexFail \/ LatchFinishPartial \/ LatchFinish
    \/ NotifyAvailableFrames \/ OnPreComposition \/ OnPostComposition
    \/ \E info \in Infos : QueueBuffer(info)
    \/ \E i \in 1..Len(queue) : SignalFence(i)
    \/ SetSidebandStream
    \/ \E p \in SyncPoints, t \in 1..MaxFrame : AddSyncPoint(p, t)
    \/ \E p \in SyncPoints : ApplyTransaction(p)
    \/ Disconnect

Spec == Init /\ [][Next]_vars

-----------------------------------------------------------------------------
(* Properties.                                                             *)

TypeOK ==
    /\ queue \in Seq(Frame) /\ Len(queue) <= MaxFrame
    /\ lastQueued \in 0..MaxFrame
    /\ currentFrameNumber \in 0..MaxFrame
    /\ bufferInfo \in Infos \cup {NoBufferInfo}
    /\ {sidebandChanged, sideband, refreshPending, frameLatencyNeeded, recompute,
        composing, disconnected} \subseteq BOOLEAN
    /\ \E i \in Infos \cup {NoBufferInfo}, o \in BOOLEAN :
          visibleGeometry = [Geometry(i) EXCEPT !.opaque = o]
    /\ latchPc \in {"idle", "finish"} /\ latchCaller \in {"refresh", "release"}
    /\ ledger \in Seq(registered) /\ Len(ledger) <= Cardinality(SyncPoints)
    /\ sp \in [SyncPoints -> SyncPoint]
    /\ raced \subseteq registered /\ registered \subseteq SyncPoints

\* A layer never shows a frame at or past the target of a sync point whose
\* dependent transaction has not been applied (allTransactionsSignaled in
\* latchBuffer), for every sync point registered while no latch was between
\* its two critical sections.
SyncBarrier ==
    \A p \in registered \ raced :
        sp[p].target <= currentFrameNumber => sp[p].applied

\* The same for every sync point, including those registered while the
\* composition thread was acquiring the buffer outside mLocalSyncPointMutex.
SyncBarrierStrict ==
    \A p \in registered :
        sp[p].target <= currentFrameNumber => sp[p].applied

\* A sync point whose frame has not been signalled to its requester is still
\* in mLocalSyncPoints, where notifyAvailableFrames or allTransactionsSignaled
\* can signal it: latchBuffer's pruning never orphans a waiting transaction.
NoOrphanedWaiter ==
    \A p \in registered : ~sp[p].available => p \in Range(ledger)

\* Spec section 8: a sync point targeting frame N is made available no
\* later than the latch of a frame after N succeeds. This covers the sync
\* points registered during a latch, which the latch of frame N skipped and
\* the next latchBuffer must find in mLocalSyncPoints and mark before it
\* can go on.
AvailableBeforeNext ==
    \A p \in registered : sp[p].target < currentFrameNumber => sp[p].available

\* A frame latched from handlePageFlip never overwrites
\* mFrameLatencyNeeded while the previous latched frame's statistics are
\* still unrecorded: the mRefreshPending early return holds the next
\* updateTexImage back until onPreComposition, and onPostComposition of
\* that refresh records the frame.
NoLostFrameStats ==
    [][latchCaller' = "refresh" /\ currentFrameNumber' # currentFrameNumber
         => ~frameLatencyNeeded]_vars

\* latchBuffer installs a frame only after its acquire fence has signaled,
\* unless debug.sf.latch_unsignaled is set.
NeverLatchUnsignaled ==
    [][currentFrameNumber' # currentFrameNumber =>
         LatchUnsignaled \/ (HasFrameUpdate /\ Head(queue).signaled)]_vars

\* A latch from handlePageFlip that installs a buffer whose geometry differs
\* from the previous one (or the first buffer) reports
\* recomputeVisibleRegions.
GeometryInvalidation ==
    [][/\ latchCaller = "refresh"
       /\ currentFrameNumber' # currentFrameNumber
       /\ (~bufferInfo.buffer \/ Geometry(bufferInfo) # Geometry(bufferInfo'))
       => recompute']_vars

\* A refresh composes the layer with visible regions computed for the
\* geometry it shows: every change of crop, transform, scaling, size or
\* opacity latched since the previous refresh (by latchBuffer, or by
\* latchSidebandStream) was reported through recomputeVisibleRegions and
\* made SurfaceFlinger recompute them.
VisibleRegionsCurrent == composing => visibleGeometry = Geometry(bufferInfo)

\* Every registered sync point whose frame the producer has queued is
\* eventually released: its dependent transaction is applied.
WaitersReleased ==
    \A p \in SyncPoints :
        (p \in registered /\ sp[p].target <= lastQueued) ~> sp[p].applied

\* Every frame the producer queues is eventually latched, or superseded by
\* a later latched frame, unless the producer disconnects: an unsignaled
\* fence, a pending refresh or an unapplied transaction only defers it.
FramesEventuallyLatched ==
    \A n \in 1..MaxFrame :
        lastQueued = n ~> (currentFrameNumber >= n \/ disconnected)

\* The abstract sync barrier, seen through the ledger: a sync point is
\* waiting until frameIsAvailable, released until transactionIsApplied.
\* Sync points registered while a latch was between its two critical
\* sections are left out: the race run shows the barrier does not hold
\* for them.
DepState(p) ==
    CASE p \notin registered \ raced -> "unused"
      [] sp[p].applied              -> "applied"
      [] sp[p].available            -> "released"
      [] OTHER                      -> "waiting"

Barrier == INSTANCE SyncBarrier WITH
    frame <- currentFrameNumber,
    produced <- lastQueued,
    closed <- disconnected,
    deps <- [p \in SyncPoints |->
               [target |-> IF p \in registered \ raced THEN sp[p].target ELSE 0,
                state |-> DepState(p)]]

\* The layer implements the sync barrier: frames are latched in increasing
\* order and only once produced; allTransactionsSignaled and
\* notifyAvailableFrames release a sync point only for a produced frame (or
\* on disconnect); a frame is latched only when every sync point up to it
\* has its transaction applied.
ImplementsSyncBarrier == Barrier!Spec

\* The refresh loop keeps running the composition thread, and runs
\* handlePageFlip (notifyAvailableFrames, latchBuffer) on every vsync, between
\* refreshes, hence strong fairness for those; fences signal;
\* acquisition failures are transient; the requester applies its
\* transaction once flagged; a queued frame's present time arrives.
Fairness ==
    /\ SF_vars(LatchBegin("refresh"))
    /\ WF_vars(LatchFinishTexFail \/ LatchFinishPartial \/ LatchFinish)
    /\ SF_vars(LatchFinish)
    /\ SF_vars(NotifyAvailableFrames)
    /\ WF_vars(OnPreComposition)
    /\ WF_vars(OnPostComposition)
    /\ \A i \in 1..MaxFrame : WF_vars(i <= Len(queue) /\ SignalFence(i))
    /\ \A p \in SyncPoints : WF_vars(ApplyTransaction(p))

FairSpec == Spec /\ Fairness

=============================================================================
