----------------------------- MODULE MCTrialRunner -----------------------------
(* Two callers, two jobs.  The file of references lists one config twice,  *)
(* one that is missing from the table, and one without trades.             *)
(* A run finds nothing, or trades of a known and of a new config.          *)
EXTENDS TrialRunner

CONSTANTS c1, c2
MCRows == <<[id |-> 2, trades |-> 1, total |-> 0], [id |-> 1, trades |-> 3, total |-> 2],
            [id |-> 2, trades |-> 2, total |-> 0], [id |-> 3, trades |-> 0, total |-> 5]>>
MCRefFiles == {MCRows}
MCFindings == {<<>>, <<[id |-> 1, trades |-> 1, total |-> -1], [id |-> 2, trades |-> 1, total |-> 1]>>}
MCRequests ==
  {[phase |-> "scout", length |-> n, maxRefs |-> 0, maxConfigs |-> 0] : n \in {0, 2}} \cup
  {[phase |-> "forward", length |-> 1, maxRefs |-> 9, maxConfigs |-> 2]}
=============================================================================
