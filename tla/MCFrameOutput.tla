--------------------------- MODULE MCFrameOutput ----------------------------
(* Small instances of FrameOutput for TLC.                                  *)
EXTENDS FrameOutput

(* What device.mk sets: gralloc copies to slot 0, SurfaceFlinger pans to it. *)
Shipped == [zeroCopy |-> FALSE, noPin |-> TRUE, pan |-> TRUE,
            dblBuf |-> FALSE, flipBuf |-> FALSE, panVsync |-> FALSE]

Direct == [Shipped EXCEPT !.zeroCopy = TRUE, !.pan = FALSE]

SoundModes == {Shipped, Direct,
               [Shipped EXCEPT !.dblBuf = TRUE, !.panVsync = TRUE],
               [Shipped EXCEPT !.flipBuf = TRUE]}
=============================================================================
