---------------------------- MODULE MCPortfolio -----------------------------
(* Model of Portfolio for TLC: two portfolios that deal two symbols, one   *)
(* each, and streaks of two stop losses (three, if they are slow).         *)
EXTENDS Portfolio

CONSTANTS A, B, blank

MCConfigured == <<A, blank, B, A>>
MCDefaults == <<A, B>>
MCOutcomes == {[pnl |-> 6, stop |-> FALSE], [pnl |-> -6, stop |-> TRUE]}
=============================================================================
