------------------------ MODULE MCClientComposition -------------------------
(* prepareClientComposition over widths and heights 1 and 2, window       *)
(* offsets 0 and 1, a secure and an unsecured output, and a texture       *)
(* matrix that does not commute with the orientation corrections.         *)
EXTENDS ClientComposition

\* protected usage, supportsProtectedContent, isSecure, targetSettings.isSecure
MCSecurityCases == {<<FALSE, FALSE, TRUE, TRUE>>, <<TRUE, FALSE, FALSE, FALSE>>}

\* Each offset and each size in each coordinate, in every combination of
\* offset and size between x and y.
MCWindows == {<<0, 0, 1, 1>>, <<1, 0, 1, 2>>, <<0, 1, 2, 1>>, <<1, 1, 2, 2>>}

\* GLConsumer's matrix for a buffer rotated by 90 degrees.
MCTexMatrix == G!Rot90
=============================================================================
