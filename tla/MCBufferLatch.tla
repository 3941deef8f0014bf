--------------------------- MODULE MCBufferLatch ---------------------------
(* Model-checking instance of BufferLatch: three frames, two sync points   *)
(* and three buffer infos: a 4x2 RGBA_8888 buffer, the same rotated by     *)
(* ROT_90 (transform 4) and a 2x2 RGBX_8888 (opaque format 2) buffer.      *)
EXTENDS BufferLatch

MCInfos ==
    { [buffer |-> TRUE, crop |-> "full", transform |-> t, scaleMode |-> 0,
       transformToDisplayInverse |-> FALSE, width |-> w, height |-> 2, format |-> f] :
      <<t, w, f>> \in {<<0, 4, 1>>, <<4, 4, 1>>, <<0, 2, 2>>} }

\* One buffer info: the liveness run does not depend on geometry.
MCOneInfo == {CHOOSE i \in MCInfos : i.transform = 0 /\ i.width = 4}

\* Sync points are interchangeable: the ledger orders them by target only.
MCSymmetry == Permutations(SyncPoints)

MCNoBufferInfo ==
    [buffer |-> FALSE, crop |-> "full", transform |-> 0, scaleMode |-> 0,
     transformToDisplayInverse |-> FALSE, width |-> 0, height |-> 0, format |-> 0]
=============================================================================
