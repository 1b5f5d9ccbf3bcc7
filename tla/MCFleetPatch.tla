---------------------------- MODULE MCFleetPatch ----------------------------
(* Model of FleetPatch for TLC: two symbols, so that a scope can leave one *)
(* out, and grids of two axes.  Steps of 1 are finer than the rounding, so *)
(* that points meet; the fullest grid has six configs and a limit of four. *)
(* The first axis of Partly names its maximum only: it starts from 0, and  *)
(* a config with a point of 0 is not valid.                                *)
EXTENDS FleetPatch

CONSTANTS s1, s2

Axis(min, max, step) == [min |-> min, max |-> max, step |-> step]

MCDefaultSettings == [enabled |-> TRUE, limit |-> 2, axes |-> <<Axis(2, 3, 1), Axis(2, 2, 2)>>]
Off == [enabled |-> FALSE, axes |-> <<>>]
Broken == [axes |-> <<Axis(0, 4, 0)>>]
Fine == [limit |-> 4, axes |-> <<Axis(2, 6, 1), Axis(2, 4, 2)>>]
Partly == [axes |-> <<[max |-> 0, step |-> 2]>>]

MCSymbols == {s1, s2}
MCIds == {<<a, b>> : a \in {0, 2, 4, 6}, b \in {2, 4}}
MCLowest == <<1, 1>>
MCHighest == <<9, 9>>
MCBatchIds == {<<0, 2>>, <<2, 2>>, <<4, 4>>}
MCDefaultPoints == <<(<<4>>), (<<4>>)>>
MCFiles == {Off, Broken, Missing, Fine, Partly}
SymbolSymmetry == Permutations(MCSymbols)
=============================================================================
