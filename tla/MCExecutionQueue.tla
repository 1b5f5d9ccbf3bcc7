-------------------------- MODULE MCExecutionQueue --------------------------
(* Model of ExecutionQueue for TLC: two symbols share a one-place channel, *)
(* so that the overflow lane fills, is replaced and is drained.            *)
EXTENDS ExecutionQueue

CONSTANTS s1, s2
MCSymbols == {s1, s2}
=============================================================================
