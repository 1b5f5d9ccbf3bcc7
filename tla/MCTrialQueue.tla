---------------------------- MODULE MCTrialQueue ----------------------------
(* TrialQueue for TLC; every constant is a number or a set of numbers.     *)
EXTENDS TrialQueue
=============================================================================
