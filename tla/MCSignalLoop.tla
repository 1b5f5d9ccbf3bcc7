---------------------------- MODULE MCSignalLoop ----------------------------
(* Model of SignalLoop for TLC.  Five symbols in words of two bits give a  *)
(* cursor in the middle of a word, words before and after it, and a last   *)
(* word that is not full; the budget covers some ticks and leaves others   *)
(* with a backlog.                                                         *)
EXTENDS SignalLoop
=============================================================================
