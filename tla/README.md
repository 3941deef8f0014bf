# TLA+ model of the SurfaceFlinger buffer latch

This directory models the buffer-latch and frame-synchronisation logic of
`src/services/surfaceflinger/BufferLayer.cpp`: the per-layer decision, once per
display refresh, whether the producer's next frame becomes the visible content,
and the cross-layer sync points that make a buffer wait for a dependent
transaction (and the transaction wait for the buffer).

## 1. Inventory

### Components

| Component | Code | State | Operations |
|---|---|---|---|
| BufferLatchEngine | `BufferLayer::latchBuffer` (344-456), `latchAndReleaseBuffer` (653-660), `onPreComposition` (283-290), `onPostComposition` (292-342), `hasReadyFrame`, `getHeadFrameNumber` | `mCurrentFrameNumber`, `mBufferInfo` (buffer, crop, transform, scaling mode, display-inverse flag, format, fence), `mRefreshPending`, `mBufferInfo.mFrameLatencyNeeded`, `mSidebandStream` | latch, latch-and-release, pre/post composition |
| SyncPointLedger | `mLocalSyncPoints` with `mLocalSyncPointMutex`: `allTransactionsSignaled` (510-534), `notifyAvailableFrames` (459-476), pruning in `latchBuffer` (431-453) | ordered list of sync points, each with a target frame, `frameIsAvailable`, `transactionIsApplied` | check/mark, notify, prune; add, apply and force-satisfy live in `Layer.cpp` (not in the repository) |
| FenceTracker / producer queue | `fenceHasSignaled`, `hasFrameUpdate`, `updateTexImage` (subclasses, not in the repository), `latchUnsignaledBuffers` (495-507) | queued frames with acquire fences | queue, fence signal, acquire |
| GeometryProjector | `inverseOrientation` (125-141), texture transform in `prepareClientComposition` (143-258), `getBufferSize` (587-615), `computeSourceBounds` (621-651), `needsFiltering` (558-577), `getBufferCrop`, `getEffectiveScalingMode` | none (pure) | pure functions |
| Clone layers | `setInitialValuesForClone`, `updateCloneBufferInfo` (731-767), `~BufferLayer` (71-83) | copy of the original's latched state; the shared texture | copy, destroy the original, composite the clone |
| Damage/visibility/format helpers | `getBufferCrop` (670-684), `translateDataspace` (693-719), `isProtected` (489-493), `isOpaque`, `getOpacityForFormat`, `useSurfaceDamage`, `isVisible`, `isHdrY410` | flags | lookups (protection and opacity modelled) |
| TouchButtonAccumulator | `TouchButtonAccumulator.h` | button bits | declaration only, no implementation in the repository |

### Interaction

* The **composition thread** (SurfaceFlinger's main loop) calls
  `notifyAvailableFrames` and `latchBuffer` for each layer, then
  `onPreComposition` and `onPostComposition`; `latchAndReleaseBuffer` is the same
  latch for layers leaving the screen.
* The **producer** (a client process via BufferQueue) queues frames whose
  acquire fences signal when the GPU finishes; it may also switch to a sideband
  stream or disconnect.
* **Transaction threads** register sync points on this layer for deferred
  transactions of other layers, and those layers apply the transaction once the
  sync point's frame is available.
* Shared state: `mLocalSyncPoints` under `mLocalSyncPointMutex`, and each
  `SyncPoint` object's two flags, which the latching layer and the requesting
  layer both read and write.

### What is hard

* `latchBuffer` takes `mLocalSyncPointMutex` twice (in
  `allTransactionsSignaled` and when pruning) and acquires the buffer in
  between, unlocked: sync points can be added in that window (the comment at
  lines 438-439 says so).
* The buffer waits for the dependent transaction and the transaction waits for
  the frame to be available: a potential cycle that `allTransactionsSignaled`
  breaks by marking the frame available before it aborts.
* Acquisition is three calls with three error returns; the first consumes the
  frame.
* Unsignaled fences and unapplied transactions make the latch retry on a later
  refresh.

### Correctness properties, per component

* Latch: a frame is never latched before its fence signals (unless
  `debug.sf.latch_unsignaled`); every queued frame is eventually latched; a
  geometry change is reported through `recomputeVisibleRegions`.
* Ledger: the layer never shows a frame past a sync point whose transaction is
  not applied; no waiting transaction loses the sync point that will release it;
  every waiting transaction is eventually released.
* Geometry: the inverse orientation undoes the orientation; the
  buffer size swap for 90 degree rotations composes; filtering is required iff
  source and destination sizes differ.

## 2. Plan

1. `BufferLatch` (done): latch engine + ledger + the producer and transaction
   threads it interacts with. `MCBufferLatch` instantiates it.
2. `Geometry` and `ClientComposition` (done):
   `inverseOrientation` as integer 2-D affine matrices, `getBufferSize`,
   `computeSourceBounds`, and the whole of `prepareClientComposition` with its
   texture transform over exact fractions.
3. `SyncBarrier` abstract specification (done): `BufferLatch` refines it, with
   the registration window excluded, as the race run shows it must be.
4. Refresh cycle (done): the `composing` flag orders handlePageFlip,
   `onPreComposition` and `onPostComposition`; frame statistics and
   latch-and-release are checked.
5. Clone layers (done): `CloneLayer` composes a clone with `BufferLatch`.
6. Next: auto-refresh, and a composition of two layers with a sync point
   between them (the requester being a `BufferLatch` too).

## 3. Modules

### `BufferLatch.tla`

Variables correspond to code as follows: `currentFrameNumber` =
`mCurrentFrameNumber`, `bufferInfo` = `mBufferInfo`, `refreshPending` =
`mRefreshPending`, `frameLatencyNeeded` = `mBufferInfo.mFrameLatencyNeeded`,
`recompute` = SurfaceFlinger's `mVisibleRegionsDirty`, set from the
`recomputeVisibleRegions` out-parameter of handlePageFlip's latches and cleared
when the layer stacks are rebuilt, `visibleGeometry` = the geometry (crop,
transform, scaling mode, size, opacity) the visible regions were last computed
for, `ledger` = `mLocalSyncPoints` (a sequence of sync point
identities), `sp` = each `SyncPoint`'s frame number and flags, `sideband` =
`mSidebandStream != nullptr`. `latchPc` is the composition thread's position
inside `latchBuffer`; `composing` is true between `onPreComposition` and
`onPostComposition`, when SurfaceFlinger does not latch. `queue`,
`lastQueued`, `sidebandChanged`, `disconnected` model the producer.
`registered` and `raced` are history variables (which sync points exist, and
which were registered while the latch was between its two critical sections).

Actions:

* `LatchBegin(caller)` - `latchBuffer` lines 344-384 with
  `allTransactionsSignaled`: sideband change, the early returns, marking the
  first unavailable sync point and aborting, or going on to acquire.
  `LatchAndReleaseBuffer` is the same with `mRefreshPending` cleared first; it
  is enabled only when the constant `Removable` is TRUE (SurfaceFlinger calls
  it for layers removed from the current state).
* `LatchFinishTexFail`, `LatchFinishPartial`, `LatchFinish` - lines 386-456:
  `updateTexImage` fails; it succeeds but `updateActiveBuffer` /
  `updateFrameNumber` fail (the frame is consumed, enabled when the constant
  `PartialFailure` is TRUE); or the frame is installed, flags set, geometry
  compared and ledger pruned.
* `NotifyAvailableFrames`, `OnPreComposition`, `OnPostComposition` - the
  functions of the same names. `OnPreComposition` also performs
  `RebuildLayerStacks` (from spec.md, SurfaceFlinger's `rebuildLayerStacks`
  is not in the repository), which recomputes the visible regions from the
  latched geometry if `mVisibleRegionsDirty` is set and clears it.
* From spec.md (code not in the repository): `QueueBuffer`, `SignalFence`,
  `SetSidebandStream`, `AddSyncPoint` (ordered insert, refused for a frame
  already latched or after disconnect), `ApplyTransaction` (the requester
  applies once the frame is available), `Disconnect` (force-satisfy and clear).

`fenceHasSignaled` follows BufferQueue, with `latchUnsignaledBuffers` (the
property read once and cached) as the constant `LatchUnsignaled`: the head frame's fence, true with
nothing queued or with the override. `framePresentTimeIsCurrent` is a free
choice while a frame is queued and true otherwise.

The refinement mapping at the end of the module maps each sync point to the
abstract dependency state (`unused`, `waiting` = not available, `released` =
available, `applied`), the current frame to `frame`, the last queued frame to
`produced` and disconnect to `closed`.

### `SyncBarrier.tla`

The abstract promise of sync points: dependencies registered for a frame not
yet latched go waiting, released, applied; a release happens only for a
produced frame (several at once, as `notifyAvailableFrames` does) or on
close; the frame moves forward only to a produced frame with every
dependency up to it applied.

### `CloneLayer.tla`

Extends `BufferLatch` with a clone: `SetInitialValuesForClone` copies the
flags and calls `updateCloneBufferInfo`; `UpdateCloneBufferInfo` copies
`mBufferInfo`, `mSidebandStream` and `mCurrentFrameNumber` while the original
is alive; `OriginalDestroyed` is the original's destructor: it deletes the texture
the two layers share (`mTextureName`) and the clone's weak reference fails;
the original takes no step after it. `CloneComposite` is the clone's
`prepareClientComposition` as far as the texture goes: without a buffer it
returns nothing, else it samples the shared texture unless blacked out. Clone steps run on the composition
thread, so they interleave with the original's steps only between whole
latches, never inside one.

### `Geometry.tla`

The pure helpers. Variables are the inputs (`mBufferInfo.mTransform`, the
display-inverse flag, the primary display orientation, sideband, override
and buffer scaling modes, buffer and active sizes), chosen by `Init` and
never changed, so each invariant is checked on every input combination. A
`mat4` is kept as the 3x3 affine matrix of its x, y, w rows and columns; `Mat4`
reads the constructor's sixteen arguments column by column as the math
library does. `Inverse` is the adjugate times the determinant, exact for the
determinant +-1 matrices used here. `InverseOrientation`, `GetBufferSize`,
`ComputeSourceBounds` and `EffectiveScalingMode` follow the functions of the
same names line by line.

### `ClientComposition.tla`

`prepareClientComposition` on top of `Geometry` (instantiated with the same
inputs), plus the window (`getBounds()`), the drawing parent's orientation,
the protected/secure case (`isProtected` reads the buffer's usage bit) and
the requested filtering. The client's active size is a separate constant
`ActiveSizes` so that a zero size can be given to it; a division by a zero
buffer dimension yields the value `"nonfinite"`. The floats of the
texture transform are kept exact as reduced fractions; the scale and
translate matrices and their products follow lines 225-249, the orientation
correction lines 197-218. GLConsumer's `getDrawingTransformMatrix` is not in
the repository and is the constant `TexMatrix` (a 90 degree rotation in the
model, which commutes with none of the corrections). The clearing of holes
under a layer without a buffer is region arithmetic and is left out; that
branch returns no settings, as the model does.

## 4. Runs

| Run | Config | Checks | Result |
|---|---|---|---|
| latch_safety | `MCBufferLatch.cfg` | `TypeOK`, `SyncBarrier`, `NoOrphanedWaiter`, `NeverLatchUnsignaled`, `GeometryInvalidation`, `ImplementsSyncBarrier` | pass (1.7M states, symmetry over sync points) |
| latch_liveness | `MCBufferLatchLive.cfg` | `AvailableBeforeNext`, `VisibleRegionsCurrent`, `NoLostFrameStats`, `WaitersReleased`, `FramesEventuallyLatched` | pass (50k states) |
| geometry | `MCGeometry.cfg` | `TypeOK`, `InverseUndoesOrientation`, `BoundsAgree` | pass (49k input combinations) |
| client_composition | `MCClientComposition.cfg` | `TextureMapsWindow`, `FallbackUnreachable` | pass (24.6k input combinations) |
| latch_race | `MCBufferLatchRace.cfg` | `SyncBarrierStrict` | violation |
| latch_partial_failure | `MCBufferLatchPartial.cfg` | `WaitersReleased` | violation |
| latch_release_overwrite | `MCBufferLatchRelease.cfg` | `NoLostFrameStats` | violation |
| client_composition_zero | `MCClientCompositionZero.cfg` | `ProjectionFinite` | violation |
| clone_texture_after_destroy | `MCCloneLayerTexture.cfg` | `CloneTextureLive` | violation |

* `SyncBarrier`: for every sync point not registered during a latch, a
  current frame at or past its target means its transaction is applied.
  `SyncBarrierStrict` drops the exception and is violated in 6 steps: frame 1
  queued, `LatchBegin` passes an empty ledger, a sync point for frame 1 is
  added, `LatchFinish` latches frame 1 with the transaction unapplied.
* `NoOrphanedWaiter`: a sync point whose frame was not yet signalled is still in
  the ledger, so pruning never strands a waiting transaction.
* `NeverLatchUnsignaled`, `GeometryInvalidation`: action properties on the
  latching step.
* `AvailableBeforeNext` (spec.md section 8): a sync point for frame N is
  available once a later frame is latched. It holds on the refresh cycle
  without partial failures, including for points registered while a latch
  is between its two critical sections. (A partial failure leaves the
  consumed frame unlatched, outside what section 8 promises; its effect is
  the one `latch_partial_failure` shows.)
* `NoLostFrameStats`: a latch from handlePageFlip never overwrites a frame
  whose statistics `onPostComposition` has not yet recorded. It holds when
  every latch goes through `latchBuffer`; `latch_release_overwrite` shows that
  `latchAndReleaseBuffer` clears `mRefreshPending` even when it latches
  nothing, and the next refresh then latches over the unrecorded frame.
* `ImplementsSyncBarrier`: the layer refines `SyncBarrier` under the mapping
  above.
* `VisibleRegionsCurrent` (spec.md 4.1 step 9): while a refresh composes, the
  visible regions were computed for the geometry actually latched, so every
  geometry change a latch makes is reported through `recomputeVisibleRegions`.
  It is checked for latches from handlePageFlip (including the first
  buffer, which `geometryChanged` always reports). `latchAndReleaseBuffer`
  discards the flag, but it is called for layers being removed, and whether
  such a layer is composited again is decided outside the repository.
* `CloneTextureLive` (the comment in `~BufferLayer`, lines 73-77): the clone
  never samples the shared texture after the original deleted it.
  `clone_texture_after_destroy` violates it in 8 steps: a frame is latched,
  the clone copies it, the original is destroyed, and the clone, which
  `updateCloneBufferInfo` deliberately leaves with its last copy when the
  original is dead, composites it. BufferLayer.cpp relies on SurfaceFlinger
  removing the mirror first.
* `WaitersReleased`: a sync point whose frame was queued is eventually applied.
  It holds without the partial failure; with it, frame 1 consumed by
  `updateTexImage` and then failed leaves `mCurrentFrameNumber` at 0 and a sync
  point for frame 1 waits forever if no later frame arrives.
* `FramesEventuallyLatched`: every queued frame is eventually latched or
  superseded, unless the producer disconnects.
* `InverseUndoesOrientation`: for every transform, `inverseOrientation`
  maps each corner of the unit texture square, flipped and then rotated by
  the transform, back to itself; it fails if the matrices were multiplied in
  the other order.
* `BoundsAgree`: `getBufferSize` and `computeSourceBounds` (two copies of one
  computation) agree, and a frozen buffer's size is swapped exactly when one
  of the buffer transform and the display-inverse transform rotates by 90
  degrees.
* `TextureMapsWindow`: the texture transform, a product of seven matrices,
  takes every corner of the window to the point of the buffer obtained by
  normalising, flipping y, undoing the parent's then the display's
  orientation and applying GLConsumer's matrix, computed point by point.
  The order of the two orientation undos is the code's own, so the property
  catches a product taken in the other order, not an order wrong in both.
* `FallbackUnreachable`: the invalid-buffer-size fallback of lines 229-235 is
  dead for `BufferLayer`: a layer that gets buffer settings always has a
  valid (non-negative) buffer size.
* `ProjectionFinite` (spec.md 4.3, 7): the texture transform handed to the
  render engine is finite. `client_composition_zero` shows a scaled layer
  with a zero active size: `getBufferSize` is a valid zero-size Rect and the
  divisions at lines 237-246 produce infinities.

Every property has a mutant in `PROJECT.json` (a seeded fault in the
definition it depends on) that TLC finds violating it.

### Bounds

Three frames, two sync points, and three buffer infos (a 4x2 translucent
buffer, the same with ROT_90, a 2x2 opaque-format buffer). Three frames let a
sync point target a frame that is the head, behind the head, or not yet
queued; two sync points give an ordered ledger with equal and distinct
targets, one registered before and one during a latch. The infos make each of
the transform, size and opacity comparisons the only difference between two
consecutive latches. The liveness run uses one buffer info and no
`latchAndReleaseBuffer` (a released layer leaves the screen, and its
properties are about layers that stay); the safety run uses symmetry over
the two sync points, sound because the ledger orders them by target frame
only; the clone texture run uses two frames and
one sync point, enough for a latched buffer, a copy and the destruction. The geometry run
uses sizes 1 and 2, so every swap of width and height is visible, all eight
transforms, the four display orientations and every scaling mode with and
without override. The client composition run uses sizes 1 and 2, four
windows covering both offsets and both sizes in each coordinate, buffer
transforms 0 and ROT_90, display orientations 0 and ROT_90, no parent or a
parent with FLIP_H or ROT_90 (neither commutes with the display's), and a
secure and a protected case; zero sizes are excluded there and given to the active size in
`MCClientCompositionZero.cfg`.

### Fairness

Strong fairness on `LatchBegin("refresh")` and `NotifyAvailableFrames`: the
refresh loop runs handlePageFlip on every vsync, but they are disabled while
a refresh is composing, so they are only intermittently enabled. Weak
fairness on the latch's second half, `onPreComposition`,
`onPostComposition`, fence signalling (the GPU finishes) and the requester's
apply (its `eTransactionNeeded` flag is set). Strong fairness on the
successful `LatchFinish`: acquisition failures are transient (spec.md 7), so
a latch retried infinitely often eventually succeeds. The producer and the
transaction threads are not fair: a client may stop. Deadlock is checked:
the refresh loop always has a next step.

## 5. Not modelled

* Auto-refresh mode, surface damage, visibility reporting, frame-event
  history contents and time statistics: they record or report, and no
  property is about them.
* The visible-region recomputation itself (SurfaceFlinger, outside the
  repository) is reduced to recording the geometry it was computed for.
* `needsFiltering`: it compares rectangles produced by the output layer's
  composition state, which is outside the repository.
* `useSurfaceDamage`, `useEmptyDamage`, `isVisible`, `latchPerFrameState`:
  each copies or tests fields with no ordering of its own, and their callers
  (handlePageFlip, the composition engine) are outside the repository, so
  the order in which they run relative to a latch cannot be taken from code.
* `isHdrY410`: it dereferences `mBuffer` unchecked, which is safe only
  because its one caller returned at line 152 without a buffer; which
  dataspace and API a bufferless `mBufferInfo` carries is set outside the
  repository, so inputs that would make the dereference reachable cannot be
  shown to be states the program is in.
* `getBufferCrop` and `translateDataspace`: pure lookups whose only
  checkable properties (a non-empty crop, no legacy dataspace left) restate
  their own branches.
* The constructor's flag decoding (`mPotentialCursor`, `mProtectedByApp`,
  `mPremultipliedAlpha`): the clone model takes the three flags as a
  constant copied by `setInitialValuesForClone`.
* The region arithmetic of the no-buffer branch of
  `prepareClientComposition`, and `Layer::prepareClientComposition`.
* `TouchButtonAccumulator`: only a declaration exists.
