----------------------------- MODULE MCDbWriter -----------------------------
(* Values of the constants of DbWriter for TLC: the event loop drains trades *)
(* (quote_ingest::update) and rebalances portfolios, a fleet reload drains   *)
(* trades; the kinds are shared out so that every kind is sent.              *)
EXTENDS DbWriter
CONSTANTS eventLoop, reload
OneEach == [s \in 1 .. Stages |-> 1]
LoopAndReload ==
  [p \in Producers |-> IF p = eventLoop THEN {"snapshot", "both"} ELSE {"trades"}]
=============================================================================
