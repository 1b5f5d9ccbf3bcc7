---------------------------- MODULE ShadowTrader ----------------------------
(***************************************************************************)
(* One paper trader (src/domain/screener/shadow_trader.rs): its state is a *)
(* record, and tick_with_context a function from that record, the quotes   *)
(* and the gap signals to the next record.                                 *)
(*                                                                         *)
(* Prices, P&L and signals are small integers (one unit stands for some    *)
(* basis points); a config is a record of the thresholds and delays of     *)
(* TraderConfig.  The averages detect_gap takes over the price samples are *)
(* abstracted: what it compares with the threshold, the gap above its      *)
(* baseline in each direction, is an input, 0 while there are too few      *)
(* samples.                                                                *)
(***************************************************************************)
EXTENDS Integers, Sequences

CONSTANTS
  Runs,    \* run ids
  NoRun,   \* no run is active
  ChurnHold  \* EARLY_STOP_CHURN_HOLD_MS

ASSUME RunAssumption == NoRun \notin Runs

RunIds == Runs \cup {NoRun}

(* No position, no pending order, no timestamp yet.                        *)
None == [kind |-> "none"]
Larger(a, b) == IF a > b THEN a ELSE b
Smaller(a, b) == IF a < b THEN a ELSE b
Distance(a, b) == IF a > b THEN a - b ELSE b - a

NewTrader ==
  [position |-> None, pending |-> None, completed |-> <<>>, runIds |-> <<>>,
   pnl |-> 0, session |-> 0, wins |-> 0, start |-> None, cooldownUntil |-> 0]

IsFresh(cfg, ts, quote) == Distance(ts, quote.ts) <= cfg.freshness

-----------------------------------------------------------------------------
(* Fills.                                                                  *)

(* What a position is worth at the gate quote.                             *)
Unrealized(pos, gate) ==
  IF pos.dir = "long" THEN gate.bid - pos.price ELSE pos.price - gate.ask

EntryPrice(dir, gate) == IF dir = "long" THEN gate.ask ELSE gate.bid

OpenPosition(order, ts, gate) ==
  [kind |-> "position", dir |-> order.dir, price |-> EntryPrice(order.dir, gate),
   entry |-> ts, spike |-> order.spike, run |-> order.run,
   peak |-> 0, breakeven |-> FALSE]

ClosedTrade(cfg, order, ts, gate) ==
  LET pos == order.pos
  IN  [pnl |-> Unrealized(pos, gate) - 2 * cfg.fee, ts |-> ts, entry |-> pos.entry,
       reason |-> order.reason, dir |-> pos.dir,
       churn |-> order.reason = "stop_loss" /\ ts - pos.entry <= ChurnHold]

(* fill_exit drops trades from the front while they are older than the     *)
(* window.                                                                 *)
Outdated(trades, cutoff) ==
  LET Stale(n) == n <= Len(trades) /\ \A i \in 1 .. n : trades[i].ts < cutoff
  IN  CHOOSE n \in 0 .. Len(trades) : Stale(n) /\ ~Stale(n + 1)

(* fill_exit's bookkeeping.  The run ids are a deque of their own, trimmed *)
(* in step with the trades.                                                *)
Book(cfg, window, t, trade, run) ==
  LET trades == Append(t.completed, trade)
      n == Outdated(trades, trade.ts - window)
  IN  [t EXCEPT !.completed = SubSeq(trades, n + 1, Len(trades)),
                !.runIds = SubSeq(Append(t.runIds, run), n + 1, Len(trades)),
                !.pnl = @ + trade.pnl, !.session = @ + 1,
                !.wins = @ + (IF trade.pnl > 0 THEN 1 ELSE 0),
                !.cooldownUntil = trade.ts + cfg.cooldown]

(* A pending order is filled at the first gate-fresh tick a fill delay     *)
(* after it fired.                                                         *)
TryFill(cfg, window, t, ts, gate) ==
  LET order == t.pending
      taken == [t EXCEPT !.pending = None]
  IN  CASE order = None -> t
        [] order # None /\ ts < order.fire + cfg.fillDelay -> t
        [] order.kind = "exit" /\ ts >= order.fire + cfg.fillDelay ->
             Book(cfg, window, taken, ClosedTrade(cfg, order, ts, gate), order.pos.run)
        [] order.kind = "entry" /\ ts >= order.fire + cfg.fillDelay ->
             [taken EXCEPT !.position = OpenPosition(order, ts, gate)]

-----------------------------------------------------------------------------
(* Exits and entries.                                                      *)

NoReason == "none"

(* determine_exit_reason; before breakeven only the stop and the timeout   *)
(* count, after it the entry price and the trailing take come first.       *)
ExitReason(cfg, pos, unrealized, hold) ==
  CASE pos.breakeven /\ unrealized <= 0 -> "breakeven"
    [] pos.breakeven /\ unrealized > 0
         /\ unrealized * cfg.trailing[2] <= pos.peak * cfg.trailing[1] -> "trailing_take"
    [] ~pos.breakeven /\ unrealized <= -cfg.stopLoss -> "stop_loss"
    [] OTHER -> IF hold >= cfg.maxHold THEN "timeout" ELSE NoReason

TryExit(cfg, t, ts, gate) ==
  IF t.position = None THEN t
  ELSE LET unrealized == Unrealized(t.position, gate)
           pos == [t.position EXCEPT
                     !.peak = Larger(@, unrealized),
                     !.breakeven = @ \/ unrealized * cfg.target[2]
                                          >= t.position.spike * cfg.target[1]]
           reason == ExitReason(cfg, pos, unrealized, ts - pos.entry)
       IN  IF reason = NoReason THEN [t EXCEPT !.position = pos]
           ELSE [t EXCEPT !.position = None,
                          !.pending = [kind |-> "exit", fire |-> ts, pos |-> pos,
                                       reason |-> reason]]

(* detect_gap: a direction signals when its gap exceeds its baseline by    *)
(* the threshold; the stronger of two wins, long on a tie.                 *)
GapSignals(cfg, gap) == {d \in {"long", "short"} : gap[d] > 0 /\ gap[d] >= cfg.threshold}
DetectGap(cfg, gap) ==
  IF GapSignals(cfg, gap) = {"long", "short"} /\ gap["short"] <= gap["long"] THEN {"long"}
  ELSE IF GapSignals(cfg, gap) = {"long", "short"} THEN {"short"}
  ELSE GapSignals(cfg, gap)

(* Mutation of MayEnter: the cooldown is not waited for.                   *)
MayEnter_InCooldown(cfg, t, ts, gate) ==
  /\ t.position = None /\ t.pending = None
  /\ cfg.maxSpread > 0 => gate.ask - gate.bid <= cfg.maxSpread

(* try_entry's early returns.                                              *)
MayEnter(cfg, t, ts, gate) ==
  /\ t.position = None /\ t.pending = None /\ ts >= t.cooldownUntil
  /\ cfg.maxSpread > 0 => gate.ask - gate.bid <= cfg.maxSpread

TryEntry(cfg, t, ts, gate, gap, run) ==
  IF ~MayEnter(cfg, t, ts, gate) \/ DetectGap(cfg, gap) = {} THEN t
  ELSE LET dir == CHOOSE d \in DetectGap(cfg, gap) : TRUE
       IN  [t EXCEPT !.pending = [kind |-> "entry", fire |-> ts, dir |-> dir,
                                  spike |-> gap[dir], run |-> run]]

-----------------------------------------------------------------------------
(* The tick.                                                               *)

(* Mutation of ExitLifecycle: exits wait for both quotes to be fresh.      *)
ExitLifecycle_BothFresh(cfg, window, t, ts, binance, gate) ==
  LET filled == TryFill(cfg, window, t, ts, gate)
  IN  IF ~(IsFresh(cfg, ts, gate) /\ IsFresh(cfg, ts, binance)) THEN t
      ELSE IF filled.pending # None THEN filled
      ELSE TryExit(cfg, filled, ts, gate)

(* Fills and exits look at the gate quote alone; an order that keeps       *)
(* waiting ends the tick.                                                  *)
ExitLifecycle(cfg, window, t, ts, binance, gate) ==
  LET filled == TryFill(cfg, window, t, ts, gate)
  IN  IF ~IsFresh(cfg, ts, gate) THEN t
      ELSE IF filled.pending # None THEN filled
      ELSE TryExit(cfg, filled, ts, gate)

TickTrader(cfg, window, trader, ts, binance, gate, gap, run) ==
  LET t == IF trader.start = None
           THEN [trader EXCEPT !.start = [kind |-> "ts", at |-> ts]] ELSE trader
      u == ExitLifecycle(cfg, window, t, ts, binance, gate)
  IN  IF \/ u.pending # None
         \/ ~IsFresh(cfg, ts, binance) \/ ~IsFresh(cfg, ts, gate)
         \/ ts - t.start.at < cfg.warmup
      THEN u
      ELSE TryEntry(cfg, u, ts, gate, gap, run)
=============================================================================
