--------------------------- MODULE MCControlPlane ---------------------------
(* Model of ControlPlane for TLC: two keys share a short channel, so that  *)
(* updates of one key are in the channel, in the overflow lane and pending *)
(* at the same time.                                                       *)
EXTENDS ControlPlane

CONSTANTS k1, k2
MCKeys == {k1, k2}
=============================================================================
