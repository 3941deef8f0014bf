--------------------------- MODULE MCCloneLayer ---------------------------
(* Model-checking instance of CloneLayer, with the buffer infos of          *)
(* MCBufferLatch.                                                           *)
EXTENDS CloneLayer, MCBufferLatch
=============================================================================
