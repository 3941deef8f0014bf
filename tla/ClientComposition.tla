------------------------- MODULE ClientComposition -------------------------
(***************************************************************************)
(* BufferLayer::prepareClientComposition(): what the layer hands the       *)
(* render engine when it is composited by the GPU.  Nothing with no buffer *)
(* (the holes below it are cleared), a black layer for protected or secure *)
(* content on an output that cannot show it, else the buffer with its      *)
(* filtering flag and texture transform.                                   *)
(*                                                                         *)
(* The texture transform is float arithmetic on small integers; it is      *)
(* kept exact as fractions <<numerator, denominator>> (denominator > 0).   *)
(* getBufferSize() and inverseOrientation() come from Geometry, over the   *)
(* same inputs.  Like Geometry, the variables are inputs fixed by Init.    *)
(***************************************************************************)
EXTENDS Integers, Bitwise

CONSTANTS
    Sizes,          \* buffer and window widths and heights
    ActiveSizes,    \* getActiveWidth(s), getActiveHeight(s): the client's size
    Windows,        \* getBounds() values <<left, top, width, height>>
    SecurityCases,  \* <<usage has GRALLOC_USAGE_PROTECTED, supportsProtectedContent,
                    \*   isSecure, targetSettings.isSecure>>
    TexMatrix       \* getDrawingTransformMatrix(): GLConsumer's matrix, outside src/

VARIABLES
    transform, tdi, displayOrientation, sideband, overrideScalingMode,
    scaleMode, hasBuffer, bufW, bufH, activeW, activeH,   \* as in Geometry
    parentOrientation,   \* the drawing parent's getOrientation(), -1 if none
    winL, winT, winW, winH,   \* getBounds()
    security,            \* one of SecurityCases
    filteringRequested   \* targetSettings.needsFiltering || mNeedsFiltering

vars == <<transform, tdi, displayOrientation, sideband, overrideScalingMode,
          scaleMode, hasBuffer, bufW, bufH, activeW, activeH, parentOrientation,
          winL, winT, winW, winH, security, filteringRequested>>

G == INSTANCE Geometry WITH ParentBounds <- <<0, 0, 0, 0>>

-----------------------------------------------------------------------------
(* Fractions and matrices of fractions.                                    *)

RECURSIVE Gcd(_, _)
Gcd(a, b) == IF b = 0 THEN a ELSE Gcd(b, a % b)

\* A fraction in lowest terms, so that products stay small.
Reduce(n, d) ==
    IF n % d = 0 THEN <<n \div d, 1>>
    ELSE LET g == Gcd(IF n < 0 THEN -n ELSE n, d) IN <<n \div g, d \div g>>

QAdd(a, b) == Reduce(a[1] * b[2] + b[1] * a[2], a[2] * b[2])
QMul(a, b) == Reduce(a[1] * b[1], a[2] * b[2])
QEq(a, b) == a[1] * b[2] = b[1] * a[2]

\* An integer matrix as a matrix of fractions.
Lift(M) ==
    LET Row(i) == <<<<M[i][1], 1>>, <<M[i][2], 1>>, <<M[i][3], 1>>>> IN <<Row(1), Row(2), Row(3)>>

\* Built as tuples, which TLC evaluates once, rather than as functions.
QMatMul(A, B) ==
    LET Cell(i, j) == QAdd(QAdd(QMul(A[i][1], B[1][j]), QMul(A[i][2], B[2][j])),
                           QMul(A[i][3], B[3][j]))
        Row(i) == <<Cell(i, 1), Cell(i, 2), Cell(i, 3)>>
    IN <<Row(1), Row(2), Row(3)>>

QApply(M, p) ==
    LET Coord(i) == QAdd(QAdd(QMul(M[i][1], p[1]), QMul(M[i][2], p[2])), M[i][3])
    IN <<Coord(1), Coord(2)>>

\* mat4::translate(vec4(x, y, 0, 1)) and mat4::scale(vec4(x, y, 1, 1)).
Translate(x, y) == <<<<<<1, 1>>, <<0, 1>>, x>>, <<<<0, 1>>, <<1, 1>>, y>>,
                    <<<<0, 1>>, <<0, 1>>, <<1, 1>>>>>>
Scale(x, y) == <<<<x, <<0, 1>>, <<0, 1>>>>, <<<<0, 1>>, y, <<0, 1>>>>,
                <<<<0, 1>>, <<0, 1>>, <<1, 1>>>>>>

-----------------------------------------------------------------------------
(* prepareClientComposition().                                             *)

\* Fault: the parent's inverse orientation multiplied in on the left.
OrientationCorrectionSwapped ==
    LET tr == G!InverseOrientation(displayOrientation) IN
    IF parentOrientation >= 0 THEN G!MatMul(G!InverseOrientation(parentOrientation), tr)
    ELSE tr

\* Lines 202-218: the primary display's inverse orientation, then the
\* parent's.
OrientationCorrection ==
    LET tr == G!InverseOrientation(displayOrientation) IN
    IF parentOrientation >= 0 THEN G!MatMul(tr, G!InverseOrientation(parentOrientation))
    ELSE tr

\* Lines 225-249: the window within the buffer, with the y flip. A buffer
\* size that is not isValid() (negative) falls back to the window size; a
\* zero width or height is valid, and the float divisions by it leave
\* infinities or NaNs in the matrix ("nonfinite").
TextureTransform ==
    LET size == G!GetBufferSize
        valid == size[1] >= 0 /\ size[2] >= 0
        bw == IF valid THEN size[1] ELSE winW
        bh == IF valid THEN size[2] ELSE winH
        half == <<1, 2>>
        tr == QMatMul(QMatMul(QMatMul(QMatMul(
                  Translate(half, half), Scale(<<1, 1>>, <<-1, 1>>)),
                  Translate(<<-1, 2>>, <<-1, 2>>)),
                  Translate(<<winL, bw>>, <<winT, bh>>)),
                  Scale(<<winW, bw>>, <<winH, bh>>))
        tex == IF tdi THEN G!MatMul(TexMatrix, OrientationCorrection) ELSE TexMatrix
    IN IF bw = 0 \/ bh = 0 THEN "nonfinite" ELSE QMatMul(Lift(tex), tr)

\* isProtected(): a buffer allocated with GRALLOC_USAGE_PROTECTED.
IsProtected == hasBuffer /\ security[1]

\* isFixedSize(): the buffer is scaled to the layer.
IsFixedSize == G!EffectiveScalingMode # G!FREEZE

\* Fault: the early return for a layer without a buffer is missing.
PrepareNoBufferCheck ==
    LET blackOut == (IsProtected /\ ~security[2]) \/ (security[3] /\ ~security[4]) IN
    IF blackOut THEN [kind |-> "black"]
    ELSE [kind |-> "buffer",
          filtering |-> filteringRequested \/ IsFixedSize,
          textureTransform |-> TextureTransform]

\* The layer settings returned: none for a layer never drawn into, a black
\* layer for protected or secure content the output cannot show, else the
\* buffer with useFiltering (isFixedSize() forces it) and the transform.
PrepareClientComposition ==
    LET blackOut == (IsProtected /\ ~security[2]) \/ (security[3] /\ ~security[4]) IN
    IF ~hasBuffer THEN [kind |-> "none"]
    ELSE IF blackOut THEN [kind |-> "black"]
    ELSE [kind |-> "buffer",
          filtering |-> filteringRequested \/ IsFixedSize,
          textureTransform |-> TextureTransform]

-----------------------------------------------------------------------------
Init ==
    /\ transform \in {0, G!ROT_90}
    /\ tdi \in BOOLEAN
    /\ displayOrientation \in {0, G!ROT_90}
    /\ sideband = FALSE
    /\ overrideScalingMode = -1
    /\ scaleMode \in {G!FREEZE, 1}
    /\ hasBuffer \in BOOLEAN
    /\ bufW \in Sizes /\ bufH \in Sizes
    /\ activeW \in ActiveSizes /\ activeH \in ActiveSizes
    /\ parentOrientation \in {-1, G!FLIP_H, G!ROT_90}
    /\ \E w \in Windows : winL = w[1] /\ winT = w[2] /\ winW = w[3] /\ winH = w[4]
    /\ security \in SecurityCases
    /\ filteringRequested \in BOOLEAN

Next == UNCHANGED vars

Spec == Init /\ [][Next]_vars

-----------------------------------------------------------------------------
(* Properties.                                                             *)

\* Where a corner p of the window should sample the buffer: the window's
\* position in the buffer, normalised by the buffer size, y flipped to the
\* GL convention, then, for a buffer in display orientation, the display's
\* and then the parent's orientation undone, and GLConsumer's matrix last.
ExpectedSample(p) ==
    LET size == G!GetBufferSize
        inBuffer == <<<<winL + p[1] * winW, size[1]>>, <<winT + p[2] * winH, size[2]>>>>
        flipped == <<inBuffer[1], QAdd(<<1, 1>>, QMul(<<-1, 1>>, inBuffer[2]))>>
        parentUndone == IF tdi /\ parentOrientation >= 0
                        THEN QApply(Lift(G!InverseOrientation(parentOrientation)), flipped)
                        ELSE flipped
        displayUndone == IF tdi
                         THEN QApply(Lift(G!InverseOrientation(displayOrientation)), parentUndone)
                         ELSE parentUndone
    IN QApply(Lift(TexMatrix), displayUndone)

\* prepareClientComposition multiplies its five window matrices and the two
\* inverse orientations in the order that samples, for every corner of the
\* window, the point of the buffer described by ExpectedSample.
TextureMapsWindow ==
    LET settings == PrepareClientComposition IN
    settings.kind = "buffer" =>
        \A p \in {<<<<0, 1>>, <<0, 1>>>>, <<<<1, 1>>, <<0, 1>>>>,
                  <<<<0, 1>>, <<1, 1>>>>, <<<<1, 1>>, <<1, 1>>>>} :
            LET got == QApply(settings.textureTransform, p)
                want == ExpectedSample(<<p[1][1], p[2][1]>>)
            IN QEq(got[1], want[1]) /\ QEq(got[2], want[2])

\* The fallback of lines 229-235 for an invalid buffer size (meant for
\* BufferStateLayer) is never taken for BufferLayer's own getBufferSize:
\* it is invalid only without a buffer, which returned at line 152.
FallbackUnreachable ==
    PrepareClientComposition.kind = "buffer" =>
        G!GetBufferSize[1] >= 0 /\ G!GetBufferSize[2] >= 0

\* Spec section 4.3 (and 7): malformed geometry must not propagate
\* degenerate values; the projection handed to composition is finite.
\* prepareClientComposition guards the buffer size only against an
\* invalid (negative) Rect before dividing by it.
ProjectionFinite ==
    LET settings == PrepareClientComposition IN
    settings.kind = "buffer" => settings.textureTransform # "nonfinite"

=============================================================================
