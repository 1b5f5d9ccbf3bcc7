---------------------------- MODULE ConfigPolicy ----------------------------
(***************************************************************************)
(* The decayed windows a fleet keeps for each config, and the gate that    *)
(* decides which configs the API may recommend (src/domain/screener/       *)
(* shadow_fleet.rs: DecayedWindow, ConfigPolicyState).                     *)
(*                                                                         *)
(* The code keeps the same sums over 1, 6 and 24 hours and decides by the  *)
(* 6-hour ones: this is that window.  Its sums fall by e^-(dt/horizon);    *)
(* here they are divided by Shrink(dt), which is exponential too, and a    *)
(* trade weighs Unit, large enough for the quotients to be exact.  Left    *)
(* out: the wins, which only enter the score that orders the               *)
(* recommendations, and the early stops, which are only displayed.         *)
(***************************************************************************)
EXTENDS ShadowTrader, SequencesExt

CONSTANTS
  Shrink(_),        \* what the sums are divided by after a time
  Unit,             \* what a trade weighs when it is observed
  PolicyMinTrades,  \* POLICY_MIN_TRADES_6H, as a weight
  PolicyMaxStops    \* POLICY_MAX_STOP_LOSS_SHARE_6H_PCT, as <<n, d>>

NewWindow == [last |-> None, trades |-> 0, stops |-> 0, pnl |-> 0]

(* The sums at ts; time that goes back changes nothing.                    *)
DecayTo(w, ts) ==
  IF w.last = None THEN [w EXCEPT !.last = [kind |-> "ts", at |-> ts]]
  ELSE IF ts <= w.last.at THEN w
  ELSE LET Decayed(n) == n \div Shrink(ts - w.last.at)
       IN  [last |-> [kind |-> "ts", at |-> ts], trades |-> Decayed(w.trades),
            stops |-> Decayed(w.stops), pnl |-> Decayed(w.pnl)]

ObserveTrade(w, trade) ==
  [DecayTo(w, trade.ts) EXCEPT
     !.trades = @ + Unit, !.pnl = @ + Unit * trade.pnl,
     !.stops = @ + (IF trade.reason = "stop_loss" THEN Unit ELSE 0)]

ObserveTrades(w, trades) == FoldLeft(ObserveTrade, w, trades)

(* The sums as they would be now, for a wall clock that may be behind the  *)
(* window; nothing is stored.                                              *)
MetricsAt(w, now) == DecayTo(w, now)

(* score_and_gate's early returns.                                         *)
GateReason(w, now) ==
  LET m == MetricsAt(w, now)
  IN  CASE m.trades < PolicyMinTrades -> "min_trades"
        [] m.trades >= PolicyMinTrades /\ m.pnl <= 0 -> "expectancy"
        [] /\ m.trades >= PolicyMinTrades /\ m.pnl > 0
           /\ m.stops * PolicyMaxStops[2] > m.trades * PolicyMaxStops[1] -> "stop_loss_share"
        [] OTHER -> "ok"
=============================================================================
