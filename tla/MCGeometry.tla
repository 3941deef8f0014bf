---------------------------- MODULE MCGeometry -----------------------------
(* Geometry over widths and heights 1 and 2 (so that a swap is visible)    *)
(* and a 3x3 parent bounds rectangle.                                      *)
EXTENDS Geometry

MCParentBounds == <<0, 0, 3, 3>>

=============================================================================
