------------------------------ MODULE Geometry ------------------------------
(***************************************************************************)
(* The geometry helpers of BufferLayer.cpp: inverseOrientation(), the      *)
(* effective scaling mode, getBufferSize() and computeSourceBounds().      *)
(* They are pure; the variables are their inputs, fixed by Init, so that   *)
(* TLC evaluates the properties on every combination of inputs.            *)
(*                                                                         *)
(* A mat4 of the code is kept as the 3x3 affine matrix of its x, y and w   *)
(* rows and columns (z never mixes with them in these matrices); a matrix  *)
(* is a tuple of rows.                                                     *)
(***************************************************************************)
EXTENDS Integers, Bitwise

\* NATIVE_WINDOW_TRANSFORM_* and NATIVE_WINDOW_SCALING_MODE_* values.
FLIP_H == 1
FLIP_V == 2
ROT_90 == 4
FREEZE == 0

CONSTANTS
    Sizes,         \* buffer and layer widths and heights
    ParentBounds   \* the parentBounds argument of computeSourceBounds()

VARIABLES
    transform,            \* mBufferInfo.mTransform
    tdi,                  \* mBufferInfo.mTransformToDisplayInverse
    displayOrientation,   \* getPrimaryDisplayOrientationTransform()
    sideband,             \* s.sidebandStream != nullptr
    overrideScalingMode,  \* mOverrideScalingMode (-1 when not overridden)
    scaleMode,            \* mBufferInfo.mScaleMode
    hasBuffer,            \* mBufferInfo.mBuffer != nullptr
    bufW, bufH,           \* the buffer's getWidth(), getHeight()
    activeW, activeH      \* getActiveWidth(s), getActiveHeight(s)

vars == <<transform, tdi, displayOrientation, sideband, overrideScalingMode,
          scaleMode, hasBuffer, bufW, bufH, activeW, activeH>>

-----------------------------------------------------------------------------
(* Matrices.                                                               *)

\* Rows and columns x, y, w of a mat4 are its indices 0, 1 and 3.
Idx == <<0, 1, 3>>

\* Fault: the sixteen constructor arguments read row by row.
Mat4RowMajor(a) == [i \in 1..3 |-> [j \in 1..3 |-> a[4 * Idx[i] + Idx[j] + 1]]]

\* mat4(a0, ..., a15) takes its arguments column by column.
Mat4(a) == [i \in 1..3 |-> [j \in 1..3 |-> a[4 * Idx[j] + Idx[i] + 1]]]

Identity == <<<<1, 0, 0>>, <<0, 1, 0>>, <<0, 0, 1>>>>

MatMul(A, B) ==
    [i \in 1..3 |-> [j \in 1..3 |-> A[i][1] * B[1][j] + A[i][2] * B[2][j] + A[i][3] * B[3][j]]]

\* The 2x2 minor without row r and column c, its cofactor, the determinant.
Others(k) == CASE k = 1 -> <<2, 3>> [] k = 2 -> <<1, 3>> [] k = 3 -> <<1, 2>>
Cofactor(M, r, c) ==
    LET R == Others(r)  C == Others(c)
    IN (IF (r + c) % 2 = 0 THEN 1 ELSE -1)
         * (M[R[1]][C[1]] * M[R[2]][C[2]] - M[R[1]][C[2]] * M[R[2]][C[1]])
Det(M) == M[1][1] * Cofactor(M, 1, 1) + M[1][2] * Cofactor(M, 1, 2) + M[1][3] * Cofactor(M, 1, 3)

\* inverse(): the adjugate divided by the determinant; the orientation
\* matrices have determinant 1 or -1, for which dividing is multiplying.
Inverse(M) == [i \in 1..3 |-> [j \in 1..3 |-> Det(M) * Cofactor(M, j, i)]]

\* A matrix applied to the point p (w = 1).
Apply(M, p) == <<M[1][1] * p[1] + M[1][2] * p[2] + M[1][3],
                 M[2][1] * p[1] + M[2][2] * p[2] + M[2][3]>>

-----------------------------------------------------------------------------
(* inverseOrientation(transform).                                          *)

FlipH == Mat4(<<-1, 0, 0, 0, 0, 1, 0, 0, 0, 0, 1, 0, 1, 0, 0, 1>>)
FlipV == Mat4(<<1, 0, 0, 0, 0, -1, 0, 0, 0, 0, 1, 0, 0, 1, 0, 1>>)
Rot90 == Mat4(<<0, 1, 0, 0, -1, 0, 0, 0, 0, 0, 1, 0, 1, 0, 0, 1>>)

\* Fault: each matrix multiplied in on the left.
InverseOrientationLeft(t) ==
    LET tr1 == IF (t & ROT_90) # 0 THEN MatMul(Rot90, Identity) ELSE Identity
        tr2 == IF (t & FLIP_H) # 0 THEN MatMul(FlipH, tr1) ELSE tr1
        tr3 == IF (t & FLIP_V) # 0 THEN MatMul(FlipV, tr2) ELSE tr2
    IN Inverse(tr3)

InverseOrientation(t) ==
    LET tr1 == IF (t & ROT_90) # 0 THEN MatMul(Identity, Rot90) ELSE Identity
        tr2 == IF (t & FLIP_H) # 0 THEN MatMul(tr1, FlipH) ELSE tr1
        tr3 == IF (t & FLIP_V) # 0 THEN MatMul(tr2, FlipV) ELSE tr2
    IN Inverse(tr3)

-----------------------------------------------------------------------------
(* Buffer size and source bounds.                                          *)

\* getEffectiveScalingMode().
EffectiveScalingMode == IF overrideScalingMode >= 0 THEN overrideScalingMode ELSE scaleMode

\* Rect::INVALID_RECT has width and height -1.
InvalidRect == <<-1, -1>>

\* Fault: the display-inverse swap tests the buffer transform again.
GetBufferSizeCopyPaste ==
    IF sideband \/ EffectiveScalingMode # FREEZE THEN <<activeW, activeH>>
    ELSE IF ~hasBuffer THEN InvalidRect
    ELSE LET s == IF (transform & ROT_90) # 0 THEN <<bufH, bufW>> ELSE <<bufW, bufH>>
         IN IF tdi /\ (transform & ROT_90) # 0 THEN <<s[2], s[1]>> ELSE s

\* getBufferSize(s): width and height of the returned Rect.
GetBufferSize ==
    IF sideband \/ EffectiveScalingMode # FREEZE THEN <<activeW, activeH>>
    ELSE IF ~hasBuffer THEN InvalidRect
    ELSE LET s == IF (transform & ROT_90) # 0 THEN <<bufH, bufW>> ELSE <<bufW, bufH>>
         IN IF tdi /\ (displayOrientation & ROT_90) # 0 THEN <<s[2], s[1]>> ELSE s

\* computeSourceBounds(parentBounds): left, top, right, bottom.
ComputeSourceBounds ==
    IF sideband \/ EffectiveScalingMode # FREEZE THEN <<0, 0, activeW, activeH>>
    ELSE IF ~hasBuffer THEN ParentBounds
    ELSE LET s == IF (transform & ROT_90) # 0 THEN <<bufH, bufW>> ELSE <<bufW, bufH>>
             d == IF tdi /\ (displayOrientation & ROT_90) # 0 THEN <<s[2], s[1]>> ELSE s
         IN <<0, 0, d[1], d[2]>>

-----------------------------------------------------------------------------
Init ==
    /\ transform \in 0..7
    /\ tdi \in BOOLEAN
    /\ displayOrientation \in {0, 3, 4, 7}   \* ROT_0, ROT_180, ROT_90, ROT_270
    /\ sideband \in BOOLEAN
    /\ overrideScalingMode \in -1..2
    /\ scaleMode \in 0..2
    /\ hasBuffer \in BOOLEAN
    /\ bufW \in Sizes /\ bufH \in Sizes
    /\ activeW \in Sizes /\ activeH \in Sizes

Next == UNCHANGED vars

Spec == Init /\ [][Next]_vars

-----------------------------------------------------------------------------
(* Properties.                                                             *)

\* An affine matrix with entries in -1..1: the texture-coordinate maps.
IsAffine(M) ==
    /\ M[3] = <<0, 0, 1>>
    /\ \A i, j \in 1..3 : M[i][j] \in -1..1

TypeOK ==
    /\ IsAffine(InverseOrientation(transform))
    /\ GetBufferSize \in (Sizes \X Sizes) \cup {InvalidRect}
    /\ ComputeSourceBounds \in ({0} \X {0} \X Sizes \X Sizes) \cup {ParentBounds}

\* A window transform applied to a texture-coordinate corner: the flips
\* first, then the 90 degree rotation (x, y) -> (1 - y, x).
Orient(t, p) ==
    LET h == IF (t & FLIP_H) # 0 THEN <<1 - p[1], p[2]>> ELSE p
        v == IF (t & FLIP_V) # 0 THEN <<h[1], 1 - h[2]>> ELSE h
    IN IF (t & ROT_90) # 0 THEN <<1 - v[2], v[1]>> ELSE v

\* inverseOrientation(t), used by prepareClientComposition to render a
\* buffer upright, maps every corner oriented by t back to where it was.
InverseUndoesOrientation ==
    \A p \in {0, 1} \X {0, 1} :
        Apply(InverseOrientation(transform), Orient(transform, p)) = p

\* getBufferSize() and computeSourceBounds() duplicate one computation and
\* agree; for a frozen buffer both give the buffer size in display
\* orientation: swapped iff exactly one of the buffer transform and the
\* display-inverse transform rotates by 90 degrees.
BoundsAgree ==
    LET turns == ((transform & ROT_90) # 0) # (tdi /\ (displayOrientation & ROT_90) # 0)
    IN
    /\ GetBufferSize # InvalidRect =>
          ComputeSourceBounds = <<0, 0, GetBufferSize[1], GetBufferSize[2]>>
    /\ GetBufferSize = InvalidRect => ComputeSourceBounds = ParentBounds
    /\ ~sideband /\ EffectiveScalingMode = FREEZE /\ hasBuffer =>
          GetBufferSize = IF turns THEN <<bufH, bufW>> ELSE <<bufW, bufH>>

=============================================================================
