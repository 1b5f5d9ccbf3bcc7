--------------------------- MODULE MCTrialRuntime ---------------------------
(* Model of TrialRuntime for TLC: one symbol, so that a patch either takes *)
(* its fleet or leaves it; two runs, so that one can displace the other;   *)
(* and few requests of each kind, which still meet in every order.         *)
EXTENDS TrialRuntime, TLC

CONSTANTS s1, r1, r2
MCSymbols == {s1}
MCRuns == {r1, r2}
RunSymmetry == Permutations(MCRuns)

(* The candidate history, and the active run read to decide on it, are     *)
(* read by no action that writes anything else: a run whose properties are *)
(* not about them need not tell such states apart.                         *)
WithoutCandidates == <<storeVars, runId, promised, tickPc, tickSym, tickGen, tickTrades,
                       dbVars, actorVars>>
=============================================================================
