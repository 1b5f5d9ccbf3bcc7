---------------------------- MODULE ShadowFleet -----------------------------
(***************************************************************************)
(* One symbol's quotes and its fleet of paper traders: ScreenerStore::     *)
(* update ingests a quote and, once both exchanges have quoted, ticks      *)
(* every active trader and drains the trades they closed, all under the    *)
(* symbol's entry lock (src/domain/screener/: quote_ingest.rs, state.rs,   *)
(* shadow_fleet.rs, clock_offset.rs).                                      *)
(*                                                                         *)
(* A tick carries the corrected timestamp of the quote that caused it: the *)
(* exchange's event time plus the median offset of that exchange, so that  *)
(* successive ticks may go back in time when the other exchange is behind  *)
(* or a median falls.  Left out: the display trader (a trader nobody       *)
(* drains) and its charts, and patches of the configs, which TrialRuntime  *)
(* and FleetPatch model.                                                   *)
(***************************************************************************)
EXTENDS ConfigPolicy, FiniteSets

CONSTANTS
  Configs,     \* the fleet: a set of config ids
  Config(_),   \* the TraderConfig of each
  Window,      \* window_ms
  PruneTrades, \* PRUNE_MIN_TRADES
  PruneLoss,   \* a trader that lost more than this per trade is pruned
  PruneIdle,   \* PRUNE_INACTIVE_MS
  Books, Gaps, \* quotes of the gate and gaps above the baseline
  Offsets,     \* medians of the clock offset estimators
  MaxTs, MaxRecomputes, MaxSwitches
               \* bounds: event times, changes of a median and of the run

(* TraderConfig::validate.                                                 *)
ASSUME FleetAssumption ==
  /\ IsFiniteSet(Configs) /\ Window \in Nat /\ Offsets \subseteq Int
  /\ \A c \in Configs :
       LET cfg == Config(c)
       IN  /\ {cfg.fillDelay, cfg.cooldown} \subseteq Nat
           /\ {cfg.freshness, cfg.maxHold} \subseteq Nat \ {0}

Exchanges == {"binance", "gate"}

(* Event times, and what they are corrected to.                            *)
Times == (1 .. MaxTs) \cup {ev + m : ev \in 1 .. MaxTs, m \in Offsets}

(* Between two of them the decay is exponential, and exact for a trade.    *)
ASSUME DecayAssumption ==
  /\ MaxTs \in Nat /\ PolicyMinTrades \in Nat /\ Unit \in Nat \ {0} /\ Shrink(0) = 1
  /\ \A s, t \in Times : s <= t =>
       /\ Shrink(t - s) \in Nat \ {0} /\ Unit % Shrink(t - s) = 0
       /\ \A u \in Times : t <= u => Shrink(u - s) = Shrink(u - t) * Shrink(t - s)

VARIABLES
  quotes,      \* SymbolState.binance, .gate
  eventTs,     \* SymbolState.binance_event_ts_ms, .gate_event_ts_ms
  offset,      \* cached_median_ms of each estimator
  recomputes, switches,  \* bounds: changes of a median and of the run
  runId,       \* current_run_id
  traders, disabled, lastSession, active, firstTick,
  policy,      \* the decayed window of each config
  reported,    \* the trades handed to handle_drained_fleet_trades, per config
  decided      \* history: the run that was active at each trader's last entry

fleetVars == <<traders, disabled, lastSession, active, firstTick, policy,
               reported, decided>>
vars == <<quotes, eventTs, offset, recomputes, switches, runId, fleetVars>>

Init ==
  /\ quotes = [x \in Exchanges |-> None] /\ eventTs = [x \in Exchanges |-> 0]
  /\ offset = [x \in Exchanges |-> 0] /\ recomputes = 0
  /\ runId = NoRun /\ switches = 0
  /\ traders = [c \in Configs |-> NewTrader] /\ disabled = {}
  /\ lastSession = [c \in Configs |-> 0] /\ active = Cardinality(Configs)
  /\ firstTick = None /\ policy = [c \in Configs |-> NewWindow]
  /\ reported = [c \in Configs |-> <<>>]
  /\ decided = [c \in Configs |-> NoRun]

-----------------------------------------------------------------------------
(* One trader's part of tick_all.                                          *)

Report(run, trade) == [entry |-> trade.entry, ts |-> trade.ts, run |-> run]

(* Mutation of Counted: counts from the front of the deque.                *)
Counted_FromFront(old, t) == old

(* The trades closed since `old` were counted: the last ones of a deque    *)
(* that keeps those of the window only.                                    *)
Counted(old, t) == Larger(0, Len(t.completed) - (t.session - old))

NewTrades(old, t) == SubSeq(t.completed, Counted(old, t) + 1, Len(t.completed))

(* Mutation of NewReports: the trades carry the run that is active now.    *)
NewReports_CurrentRun(old, t) ==
  LET from == Counted(old, t)
  IN  [i \in 1 .. Len(t.completed) - from |-> Report(runId, t.completed[from + i])]

NewReports(old, t) ==
  LET from == Counted(old, t)
  IN  [i \in 1 .. Len(t.completed) - from |-> Report(t.runIds[from + i], t.completed[from + i])]

Unprofitable(t) == t.session >= PruneTrades /\ t.pnl < -(PruneLoss * t.session)

(* Whether tick_all disables a trader it has ticked.                       *)
Prunes(old, t, elapsed) ==
  IF t.session > old THEN Unprofitable(t) ELSE t.session = 0 /\ elapsed >= PruneIdle

Ticked(ts, gap) ==
  [c \in Configs |->
     IF c \in disabled THEN traders[c]
     ELSE TickTrader(Config(c), Window, traders[c], ts, quotes'["binance"], quotes'["gate"],
                     gap, runId)]

Enters(t, u) == u.pending.kind = "entry" /\ u.pending # t.pending

(* tick_all and drain_trades: every trader that is not disabled is ticked  *)
(* and pruned on its own, and the trades it closed weigh in its policy.    *)
TickAll(ts, next) ==
  LET first == IF firstTick = None THEN [kind |-> "ts", at |-> ts] ELSE firstTick
      closed == {c \in Configs \ disabled : next[c].session > lastSession[c]}
      pruned == {c \in Configs \ disabled : Prunes(lastSession[c], next[c], ts - first.at)}
  IN  /\ firstTick' = first
      /\ policy' = [c \in Configs |->
           IF c \in closed THEN ObserveTrades(policy[c], NewTrades(lastSession[c], next[c]))
           ELSE policy[c]]
      /\ traders' = next
      /\ reported' = [c \in Configs |->
           IF c \in closed THEN reported[c] \o NewReports(lastSession[c], next[c])
           ELSE reported[c]]
      /\ lastSession' = [c \in Configs |->
           IF c \in closed THEN next[c].session ELSE lastSession[c]]
      /\ disabled' = disabled \cup pruned /\ active' = active - Cardinality(pruned)
      /\ decided' = [c \in Configs |->
           IF Enters(traders[c], next[c]) THEN runId ELSE decided[c]]

-----------------------------------------------------------------------------
(* A quote.                                                                *)

Latest == Larger(eventTs["binance"], eventTs["gate"])

(* ingest_quote goes by the event time, never by the corrected one.        *)
Accepts(x, ev) == ev >= eventTs[x]

(* The estimator observes every valid quote, a rejected one too, and       *)
(* recomputes its median now and then; the quote is rejected when the      *)
(* exchange has already sent a later one.                                  *)
RejectedQuote(x, ev) ==
  /\ ~Accepts(x, ev)
  /\ UNCHANGED <<quotes, eventTs, runId, fleetVars>>

(* The first exchange to quote only fills its side of the book.            *)
PartialBook(x, ev, quote) ==
  /\ Accepts(x, ev) /\ \E y \in Exchanges \ {x} : quotes[y] = None
  /\ quotes' = [quotes EXCEPT ![x] = quote] /\ eventTs' = [eventTs EXCEPT ![x] = ev]
  /\ UNCHANGED <<runId, fleetVars>>

FullBook(x, ev, quote, gap) ==
  /\ Accepts(x, ev) /\ \A y \in Exchanges \ {x} : quotes[y] # None
  /\ quotes' = [quotes EXCEPT ![x] = quote] /\ eventTs' = [eventTs EXCEPT ![x] = ev]
  /\ \E next \in {Ticked(quote.ts, gap)} : TickAll(quote.ts, next)
  /\ UNCHANGED runId

(* The prices of the gate; those of binance only show in the gap.          *)
QuotesOf(x, ts) ==
  IF x = "gate"
  THEN {[kind |-> "quote", ts |-> ts, bid |-> b[1], ask |-> b[2]] : b \in Books}
  ELSE {[kind |-> "quote", ts |-> ts]}

(* corrected_exchange_ms observes the quote and may recompute the median.  *)
Corrected(x, m) ==
  /\ m # offset[x] => recomputes < MaxRecomputes
  /\ recomputes' = IF m = offset[x] THEN recomputes ELSE recomputes + 1
  /\ offset' = [offset EXCEPT ![x] = m]

(* ScreenerStore::update.                                                  *)
Update(x) ==
  \E ev \in Larger(1, eventTs[x] - 1) .. Smaller(Latest + 1, MaxTs), m \in Offsets :
    /\ Corrected(x, m) /\ UNCHANGED switches
    /\ \/ RejectedQuote(x, ev)
       \/ \E quote \in QuotesOf(x, ev + m) :
            \/ PartialBook(x, ev, quote)
            \/ \E gap \in Gaps : FullBook(x, ev, quote, gap)

(* set_run_id, by the trial runtime between two updates.                   *)
SetRunId ==
  \E r \in RunIds :
    /\ switches < MaxSwitches /\ switches' = switches + 1
    /\ runId' = r
    /\ UNCHANGED <<quotes, eventTs, offset, recomputes, fleetVars>>

Next == (\E x \in Exchanges : Update(x)) \/ SetRunId

Spec == Init /\ [][Next]_vars

-----------------------------------------------------------------------------
(* Properties.                                                             *)

OrderOK(t) ==
  t.pending = None \/ (t.pending.kind = "entry" /\ t.pending.run \in RunIds)
                   \/ (t.pending.kind = "exit" /\ t.pending.pos.run \in RunIds)

(* Types; and a trader has a position or an order, never both.             *)
TypeOK ==
  /\ runId \in RunIds /\ disabled \subseteq Configs
  /\ active = Cardinality(Configs \ disabled)
  /\ \A c \in Configs :
       /\ traders[c].position = None \/ traders[c].pending = None
       /\ OrderOK(traders[c])
       /\ Len(traders[c].runIds) = Len(traders[c].completed)
       /\ lastSession[c] \in Nat /\ decided[c] \in RunIds

(* The clock of a config's policy when n of its trades were observed, of   *)
(* which a later one may carry an earlier time.                            *)
Clock(r, n) == Max({r[i].ts : i \in 1 .. n})

(* The weight the closed trades should have in their config's policy: each *)
(* as much as the time since it was observed has left of it.               *)
Left(r, i) == Unit \div Shrink(Clock(r, Len(r)) - Clock(r, i))

Weighed(r) == FoldLeft(LAMBDA sum, i : sum + Left(r, i), 0, [i \in 1 .. Len(r) |-> i])

(* The deque is the end of what was drained.                               *)
DrainedOnce ==
  \A c \in Configs :
    /\ Len(reported[c]) = traders[c].session
    /\ \A i \in 1 .. Len(traders[c].completed) :
         LET skipped == Len(reported[c]) - Len(traders[c].completed)
             trade == traders[c].completed[i]
         IN  /\ reported[c][skipped + i].entry = trade.entry
             /\ reported[c][skipped + i].ts = trade.ts

(* Every trade a trader closes is drained once and weighs in its config's  *)
(* policy once, although tick_all looks for it by counting back from the   *)
(* end of a deque that is trimmed while trades are added; and whatever the *)
(* wall clock says when the gate is asked, which may be behind the         *)
(* corrected time of the last trade, it recommends no config on fewer      *)
(* closes than it asks for.                                                *)
EveryCloseReported ==
  /\ DrainedOnce
  /\ \A c \in Configs :
       /\ policy[c].trades = Weighed(reported[c])
       /\ \A now \in 1 .. MaxTs :
            GateReason(policy[c], now) = "ok" => Len(reported[c]) * Unit >= PolicyMinTrades

(* A trade belongs to the run that was active when its entry was decided,  *)
(* whatever runs come and go until it is filled, closed and drained.       *)
ReportedUnderEntryRun ==
  [][\A c \in Configs : Len(reported'[c]) > Len(reported[c]) =>
       reported'[c][Len(reported'[c])].run = decided[c]]_vars

(* "Exit lifecycle is gate-side only; stale opposite side must not freeze  *)
(* fills/timeouts" (tick_with_context): after a tick with a fresh gate     *)
(* quote no active trader holds a position beyond its maximum hold time.   *)
NoPositionOutlivesItsHold ==
  [][\A x \in Exchanges, c \in Configs \ disabled :
       /\ quotes'[x] # quotes[x] /\ \A y \in Exchanges : quotes'[y] # None
       /\ IsFresh(Config(c), quotes'[x].ts, quotes'["gate"])
       /\ traders'[c].position # None
       => quotes'[x].ts - traders'[c].position.entry < Config(c).maxHold]_vars

(* A tick of the trader has a fresh gate quote, so it goes back by no more *)
(* than twice the freshness and the change of the gate's median; this is   *)
(* less than the cooldown and the two fill delays from exit to exit.       *)
Outlasts(cfg) ==
  \A m, n \in Offsets : 2 * cfg.freshness + (m - n) < cfg.cooldown + 2 * cfg.fillDelay

(* Trades of a trader have different natural keys (entry and exit time),   *)
(* so that neither the deduplication of drained trades nor the unique      *)
(* index of the table drops one, even though ticks go back in time, if the *)
(* cooldown outlasts that; otherwise two trades may have the same key.     *)
NaturalKeysDiffer ==
  \A c \in Configs : Outlasts(Config(c)) =>
    \A i, j \in 1 .. Len(reported[c]) :
      i # j => \/ reported[c][i].entry # reported[c][j].entry
               \/ reported[c][i].ts # reported[c][j].ts
=============================================================================
