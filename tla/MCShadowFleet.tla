---------------------------- MODULE MCShadowFleet ---------------------------
(* Model of ShadowFleet for TLC: one config that is pruned for its losses  *)
(* or for want of trades, two books and gaps that trigger either side.     *)
(* Time is counted in fill delays.  The gate asks for a trade and a        *)
(* quarter, so that one close is not enough.                               *)
EXTENDS ShadowFleet

CONSTANTS c1, r1

MCConfig(c) ==
  [freshness |-> 1, fillDelay |-> 1, fee |-> 0, cooldown |-> 2, warmup |-> 0,
   threshold |-> 1, maxHold |-> 1,
   stopLoss |-> 2, target |-> <<1, 2>>, trailing |-> <<1, 2>>, maxSpread |-> 1]
MCShrink(d) == 2 ^ d
MCMaxStops == <<1, 2>>
MCBooks == {<<1, 2>>, <<3, 5>>}
MCGaps == {[long |-> 0, short |-> 0], [long |-> 2, short |-> 1], [long |-> 1, short |-> 2]}
=============================================================================
