---------------------------- MODULE MCLayerLatch -----------------------------
(* An instance of LayerLatch for TLC.                                       *)
EXTENDS LayerLatch

CONSTANT a

(* Four frames of a layer whose buffers may replace one another and may     *)
(* turn out to be of no use.                                                *)
OneLayer == <<a>>
UselessBuffer ==
  {[frames |-> [l \in Layers |-> 4], changes |-> [l \in Layers |-> 0],
    defer |-> {}, ahead |-> {}, odd |-> {"fails", "async"}]}
=============================================================================
