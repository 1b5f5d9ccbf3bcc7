------------------------------ MODULE Portfolio ------------------------------
(***************************************************************************)
(* The portfolio runtime of ScreenerStore (src/domain/screener/mod.rs):    *)
(* the control-plane worker accounts closed trades to candidates, guards   *)
(* and paper portfolios, the event loop's scheduler reassigns symbols, a   *)
(* fresh start resets it all, and a restart restores what was persisted.   *)
(*                                                                         *)
(* The runtime has a mutex; the candidates' accumulators are read and      *)
(* written outside it, and a snapshot taken under it is handed to the      *)
(* database writer after its release.  The writer itself is DbWriter: here *)
(* what is handed to it is persisted.                                      *)
(***************************************************************************)
EXTENDS PortfolioEngine

CONSTANTS
  Symbols,
  RebalanceInterval, HistoryCap,  \* PORTFOLIO_REBALANCE_INTERVAL_MS, ..._HISTORY_CAP
  Outcomes,     \* [pnl, stop] of closed trades
  MaxHold,      \* positions are held at most this long (max_hold_ms)
  MaxNow, MaxEvents,
  MaxResets     \* bounds: events are trades and resets: fresh starts, restarts, prunes

ASSUME TradesAssumption ==
  /\ Symbols \subseteq Nat /\ IsFiniteSet(Symbols)
  /\ Outcomes \subseteq [pnl : Int, stop : BOOLEAN]

(* The assignments remembered reach back further than a position is held,  *)
(* even when a fresh start makes the next one come early.                  *)
ASSUME HistoryIsLongEnough ==
  /\ MaxNow \in Nat
  /\ RebalanceInterval \in Nat \ {0} /\ HistoryCap \in Nat /\ MaxHold \in Nat
  /\ (HistoryCap - 2) * RebalanceInterval + 1 >= MaxHold

VARIABLES
  now,
  accumulators,    \* trade_accumulators: [closed, won, lost, pnl]
  (* portfolio_runtime, under its mutex                                     *)
  guards, assignment, history, lastRebalance, paper,
  (* the worker in handle_drained_fleet_trades                              *)
  workerPc, drained, workerSnapshot,
  (* the scheduler in maybe_rebalance_portfolios                            *)
  schedPc, candidates, schedSnapshot,
  (* the database                                                           *)
  db,
  (* histories: since when the fleets trade, all assignments, who changed   *)
  (* the runtime last; bounds                                               *)
  since, everAssigned, newest, left

runtimeVars == <<guards, assignment, history, lastRebalance, paper>>
workerVars == <<workerPc, drained, workerSnapshot>>
schedVars == <<schedPc, candidates, schedSnapshot>>
histVars == <<since, everAssigned, newest, left>>
portfolioVars == <<now, accumulators, runtimeVars, workerVars, schedVars, db, histVars>>

NoTrades == [closed |-> 0, won |-> 0, lost |-> 0, pnl |-> 0]
NoPaper == [p \in Portfolios |-> NoTrades]
NoSnapshot == [by |-> "none", guards |-> [s \in Symbols |-> NoGuard], assignment |-> Unassigned,
               paper |-> NoPaper, at |-> Never]

PortfolioInit ==
  /\ now = 0 /\ accumulators = [s \in Symbols |-> NoTrades]
  /\ guards = [s \in Symbols |-> NoGuard] /\ assignment = Unassigned
  /\ history = <<>> /\ lastRebalance = Never /\ paper = NoPaper
  /\ workerPc = "idle" /\ drained = <<>> /\ workerSnapshot = NoSnapshot
  /\ schedPc = "idle" /\ candidates = {} /\ schedSnapshot = NoSnapshot
  /\ db = [snapshot |-> NoSnapshot,
           trades |-> [s \in Symbols |-> [ts \in 0 .. MaxNow |-> [closed |-> 0, pnl |-> 0]]]]
  /\ since = 0 /\ everAssigned = <<>> /\ newest = "none"
  /\ left = [events |-> MaxEvents, resets |-> MaxResets]

CostsAReset ==
  /\ left.resets > 0 /\ left.events > 0
  /\ left' = [left EXCEPT !.resets = @ - 1, !.events = @ - 1]

(* Time is counted in rebalance intervals (two minutes); what the threads  *)
(* do takes none of it.                                                    *)
Advance ==
  /\ workerPc = "idle" /\ schedPc = "idle"
  /\ now < MaxNow /\ now' = now + 1
  /\ UNCHANGED <<accumulators, runtimeVars, workerVars, schedVars, db, histVars>>

(* portfolio_snapshot_records of the runtime after this step.              *)
Snapshot(by, at) ==
  [by |-> by, guards |-> guards', assignment |-> assignment', paper |-> paper',
   at |-> at]

-----------------------------------------------------------------------------
(* handle_drained_fleet_trades.                                            *)

Profit(trades) == FoldLeft(LAMBDA sum, t : sum + t.pnl, 0, trades)

(* collapse_candidate_events: the trades of a symbol that close together   *)
(* are one event with their average profit.                                *)
Collapsed(closed, profit) == profit \div closed

(* A candidate observes an event, observe_with_first_observed_ts; and      *)
(* paper money a trade, observe_trade.                                     *)
Observed(acc, pnl) ==
  [closed |-> acc.closed + 1, pnl |-> acc.pnl + pnl,
   won |-> acc.won + (IF pnl > 0 THEN 1 ELSE 0),
   lost |-> acc.lost + (IF pnl < 0 THEN 1 ELSE 0)]
PaperTrade(money, trade) == Observed(money, trade.pnl)

Mine(trades) ==
  FoldLeft(LAMBDA kept, t : IF t.mine THEN Append(kept, t) ELSE kept, <<>>, trades)

(* Trades of a symbol that its fleet closed now.  filter_active_run_trades *)
(* keeps those of the current run, which are `mine`.                       *)
WorkerObserve(s, trades) ==
  /\ workerPc = "idle" /\ left.events >= Len(trades)
  /\ left' = [left EXCEPT !.events = @ - Len(trades)]
  /\ drained' = trades
  /\ accumulators' = IF Mine(trades) = <<>> THEN accumulators
                     ELSE [accumulators EXCEPT ![s] =
                             Observed(@, Collapsed(Len(Mine(trades)), Profit(Mine(trades))))]
  /\ workerPc' = "record"
  /\ UNCHANGED <<now, runtimeVars, workerSnapshot, schedVars, db,
                 since, everAssigned, newest>>

(* Mutation of OwnersAtEntry: the snapshot at the entry itself is skipped. *)
OwnersAtEntry_Strict(trade) ==
  LET owned == {i \in DOMAIN history :
                  history[i].at < trade.entry /\ Owners(history[i].assignment, trade.symbol) # {}}
  IN  IF owned = {} THEN {} ELSE Owners(history[Max(owned)].assignment, trade.symbol)

(* owner_at_entry_portfolio_id: the last snapshot up to the entry in which *)
(* somebody owned the symbol.                                              *)
OwnersAtEntry(trade) ==
  LET owned == {i \in DOMAIN history :
                  history[i].at <= trade.entry /\ Owners(history[i].assignment, trade.symbol) # {}}
  IN  IF owned = {} THEN {} ELSE Owners(history[Max(owned)].assignment, trade.symbol)

(* The owner at the entry, or else the one that owns the symbol now.       *)
Credited(trade) ==
  IF OwnersAtEntry(trade) # {} THEN OwnersAtEntry(trade) ELSE Owners(assignment, trade.symbol)

GuardsAfter(before, trades) ==
  FoldLeft(LAMBDA g, t : [g EXCEPT ![t.symbol] = Guarded(@, t, t.ts)], before, trades)
RecordGuards(trades) == guards' = GuardsAfter(guards, trades)

PaperAfter(before, p, trades) ==
  FoldLeft(LAMBDA money, t : IF p \in Credited(t) THEN PaperTrade(money, t) ELSE money,
           before, trades)
RecordPaper(trades) == paper' = [p \in Portfolios |-> PaperAfter(paper[p], p, trades)]

(* Mutation of Changes: only paper money makes a snapshot.                 *)
Changes_PaperOnly == paper' # paper

Changes == guards' # guards \/ paper' # paper

WorkerRecord ==
  /\ workerPc = "record"
  /\ RecordGuards(Mine(drained)) /\ RecordPaper(Mine(drained))
  /\ UNCHANGED <<assignment, history, lastRebalance>>
  /\ IF Changes
     THEN workerSnapshot' = Snapshot("worker", Last(Mine(drained)).ts) /\ newest' = "worker"
     ELSE UNCHANGED <<workerSnapshot, newest>>
  /\ workerPc' = "send"
  /\ UNCHANGED <<now, accumulators, drained, schedVars, db, since, everAssigned, left>>

(* insert_trades_tx: the trades of a drain are of one symbol and time.     *)
WithTrades(saved, trades) ==
  LET t == Head(trades)
  IN  [saved EXCEPT !.trades[t.symbol][t.ts] =
         [closed |-> @.closed + Len(trades), pnl |-> @.pnl + Profit(trades)]]

(* The trades and the snapshot are one command, and one transaction        *)
(* (replace_portfolio_snapshot_with_trades_v1).                            *)
WithBoth(saved, snapshot, trades) ==
  [WithTrades(saved, trades) EXCEPT !.snapshot = snapshot]

WorkerSend ==
  /\ workerPc = "send"
  /\ db' = IF workerSnapshot = NoSnapshot THEN WithTrades(db, drained)
           ELSE WithBoth(db, workerSnapshot, drained)
  /\ workerPc' = "idle" /\ drained' = <<>> /\ workerSnapshot' = NoSnapshot
  /\ UNCHANGED <<now, accumulators, runtimeVars, schedVars, histVars>>

(* prune_symbol_catalog_with_limits takes the candidate history along.     *)
Prune(s) ==
  /\ accumulators[s] # NoTrades
  /\ CostsAReset
  /\ accumulators' = [accumulators EXCEPT ![s] = NoTrades]
  /\ UNCHANGED <<now, runtimeVars, workerVars, schedVars, db, since, everAssigned, newest>>

-----------------------------------------------------------------------------
(* maybe_rebalance_portfolios.                                             *)

Due(at) == lastRebalance = Never \/ at - lastRebalance >= RebalanceInterval

CandidateStats(s) ==
  [symbol |-> s, age |-> now, closed |-> accumulators[s].closed, pnl |-> accumulators[s].pnl,
   won |-> accumulators[s].won, lost |-> accumulators[s].lost]

(* global_candidate_stats, once the interval is over.                      *)
SchedCollect ==
  /\ schedPc = "idle" /\ Due(now)
  /\ candidates' = {CandidateStats(s) : s \in {x \in Symbols : accumulators[x] # NoTrades}}
  /\ schedPc' = "assign"
  /\ UNCHANGED <<now, accumulators, runtimeVars, workerVars, schedSnapshot, db, histVars>>

(* record_assignment_snapshot.                                             *)
Recorded(hist, at, assigned) ==
  LET kept == IF hist # <<>> /\ Last(hist).at = at THEN Front(hist) ELSE hist
      next == Append(kept, [at |-> at, assignment |-> assigned])
  IN  IF Len(next) > HistoryCap THEN Tail(next) ELSE next

(* The candidates are those collected, the guards those of this moment.    *)
SchedAssign ==
  /\ schedPc = "assign"
  /\ IF Due(now)
     THEN /\ assignment' = Assignment(candidates, guards, now)
          /\ lastRebalance' = now
          /\ history' = Recorded(history, now, assignment')
          /\ everAssigned' = Append(everAssigned, Last(history'))
          /\ UNCHANGED <<guards, paper>>
          /\ schedSnapshot' = Snapshot("scheduler", now) /\ newest' = "scheduler"
          /\ schedPc' = "send"
     ELSE /\ schedPc' = "idle"
          /\ UNCHANGED <<runtimeVars, schedSnapshot, everAssigned, newest>>
  /\ candidates' = {}
  /\ UNCHANGED <<now, accumulators, workerVars, db, since, left>>

(* replace_portfolio_snapshot_v1.                                          *)
WithSnapshot(saved, snapshot) == [saved EXCEPT !.snapshot = snapshot]

SchedSend ==
  /\ schedPc = "send"
  /\ db' = WithSnapshot(db, schedSnapshot)
  /\ schedPc' = "idle" /\ schedSnapshot' = NoSnapshot
  /\ UNCHANGED <<now, accumulators, runtimeVars, workerVars, candidates, histVars>>

-----------------------------------------------------------------------------
(* post_forward_fresh_start, after it replaced the fleets: no rows are     *)
(* restored, the new run id drops the candidates' history, the assignments *)
(* remembered stay, and nothing is persisted.                              *)
FreshStart ==
  /\ CostsAReset
  /\ assignment' = Unassigned /\ guards' = [s \in Symbols |-> NoGuard]
  /\ lastRebalance' = Never /\ paper' = NoPaper /\ UNCHANGED history
  /\ accumulators' = [s \in Symbols |-> NoTrades]
  /\ since' = now /\ newest' = "fresh start"
  /\ everAssigned' = Append(everAssigned, [at |-> now, assignment |-> Unassigned])
  /\ UNCHANGED <<now, workerVars, schedVars, db>>

(* load_portfolio_candidate_history: over the trades of every run, those   *)
(* of a symbol that closed together make an event.                         *)
Replayed(events) ==
  FoldLeft(LAMBDA acc, event : IF event.closed = 0 THEN acc
                               ELSE Observed(acc, Collapsed(event.closed, event.pnl)),
           NoTrades, events)
Accumulated(trades) ==
  [s \in Symbols |-> Replayed([i \in 1 .. MaxNow + 1 |-> trades[s][i - 1]])]

(* load_portfolio_state_v1, .._guards_v1 and .._paper_state_v1: the rows   *)
(* carry the time of the snapshot they were written by.                    *)
Loaded(saved) == [guards |-> saved.guards, assignment |-> saved.assignment,
                  paper |-> saved.paper, at |-> saved.at]

(* The process dies and starts: init_screener_persistence and              *)
(* restore_portfolio_runtime_v1_from_db_rows_with_paper.                   *)
Restart ==
  /\ CostsAReset
  /\ LET saved == Loaded(db.snapshot)
     IN  /\ guards' = saved.guards /\ assignment' = saved.assignment /\ paper' = saved.paper
         /\ lastRebalance' = saved.at
         /\ history' = IF saved.at = Never THEN <<>>
                       ELSE Recorded(<<>>, saved.at, saved.assignment)
         /\ everAssigned' = <<[at |-> now, assignment |-> saved.assignment]>>
         /\ newest' = db.snapshot.by
  /\ accumulators' = Accumulated(db.trades)
  /\ workerPc' = "idle" /\ drained' = <<>> /\ workerSnapshot' = NoSnapshot
  /\ schedPc' = "idle" /\ candidates' = {} /\ schedSnapshot' = NoSnapshot
  /\ since' = now
  /\ UNCHANGED <<now, db>>

(* The trades that closed now: of the current run, whose fleets trade      *)
(* since its fresh start or the restart, and after a fresh start perhaps   *)
(* of a run before; of two, one won and one lost.                          *)
Drains(s) ==
  {t \in [symbol : {s}, pnl : {o.pnl : o \in Outcomes}, stop : BOOLEAN,
           entry : since .. now, ts : {now}, mine : BOOLEAN] :
     /\ [pnl |-> t.pnl, stop |-> t.stop] \in Outcomes /\ now - t.entry <= MaxHold
     /\ t.mine \/ left.resets < MaxResets}

PortfolioNext ==
  \/ Advance
  \/ \E s \in Symbols :
       \/ \E t \in Drains(s) : WorkerObserve(s, <<t>>)
       \/ \E t \in Drains(s), o \in Outcomes :
            t.pnl > 0 /\ o.pnl < 0 /\ WorkerObserve(s, <<t, [t EXCEPT !.pnl = o.pnl, !.stop = o.stop]>>)
       \/ Prune(s)
  \/ WorkerRecord \/ WorkerSend
  \/ SchedCollect \/ SchedAssign \/ SchedSend
  \/ FreshStart \/ Restart

PortfolioSpec == PortfolioInit /\ [][PortfolioNext]_portfolioVars

-----------------------------------------------------------------------------
(* Properties.                                                             *)

Guards == [streak : 0 .. LongStreak - 1, first : Never .. MaxNow, until : Int]
Lists == [shortlist : Seq(Symbols), active : Seq(Symbols)]

(* Every variable has its type: a streak ends before it is long.           *)
PortfolioTypeOK ==
  /\ now \in 0 .. MaxNow
  /\ accumulators \in [Symbols -> [closed : Nat, won : Nat, lost : Nat, pnl : Int]]
  /\ guards \in [Symbols -> Guards] /\ db.snapshot.guards \in [Symbols -> Guards]
  /\ assignment \in [Portfolios -> Lists] /\ DOMAIN paper = Portfolios
  /\ lastRebalance \in Never .. MaxNow
  /\ Len(history) <= HistoryCap
  /\ \A i \in DOMAIN history : history[i].assignment \in [Portfolios -> Lists]
  /\ workerPc \in {"idle", "record", "send"} /\ schedPc \in {"idle", "assign", "send"}

(* assign_without_overlap: whatever the race, the restarts and the fresh   *)
(* starts do, no symbol is in two portfolios or twice in one, and what a   *)
(* portfolio trades is on its own shortlist.                               *)
NoOverlap ==
  \A held \in {assignment, db.snapshot.assignment} :
    /\ \A p, q \in Portfolios : \A i \in DOMAIN held[p].shortlist, j \in DOMAIN held[q].shortlist :
         held[p].shortlist[i] = held[q].shortlist[j] => p = q /\ i = j
    /\ \A p \in Portfolios :
         /\ Range(held[p].active) \subseteq Range(held[p].shortlist)
         /\ Len(held[p].shortlist) <= ShortlistSize /\ Len(held[p].active) <= MaxActive

(* A rebalance gives no portfolio a symbol that cools down, even when its  *)
(* cooldown began after the candidates were collected (can_reenter).       *)
CooldownRespected ==
  [][SchedAssign /\ assignment' # assignment =>
       \A s \in Symbols :
         CoolsDown(guards[s], now) => \A p \in Portfolios : s \notin Range(assignment'[p].shortlist)]_portfolioVars

(* The assignment that was in force at a time.                             *)
InForce(at) ==
  LET before == {i \in DOMAIN everAssigned : everAssigned[i].at <= at}
  IN  IF before = {} THEN Unassigned ELSE everAssigned[Max(before)].assignment

(* What a drain counts for a portfolio: the trades whose symbol it owned   *)
(* at their entry, and at most those besides that nobody owned.            *)
CountsOwned(p) ==
  LET mine == Mine(drained)
      ownedBy(t) == Owners(InForce(t.entry), t.symbol)
      sure == {i \in DOMAIN mine : p \in ownedBy(mine[i])}
      open == {i \in DOMAIN mine : ownedBy(mine[i]) = {}}
  IN  paper'[p].closed - paper[p].closed \in Cardinality(sure) .. Cardinality(sure) + Cardinality(open)

(* Paper money follows the owner at the entry (owner_at_entry_portfolio_id)*)
(* however many rebalances the position outlived: a trade of a symbol that *)
(* a portfolio owned at its entry is that portfolio's, and nobody else's.  *)
PaperFollowsTheEntry ==
  [][WorkerRecord => \A p \in Portfolios : CountsOwned(p)]_portfolioVars

(* Once the snapshots taken are persisted, and in the order they were      *)
(* taken, a restart finds the guards, the assignment and the paper money   *)
(* of the running process: each change of them took a snapshot.  (A fresh  *)
(* start takes none.)                                                      *)
SettledIsDurable ==
  workerPc # "send" /\ schedPc # "send" /\ db.snapshot.by = newest =>
    /\ db.snapshot.guards = guards
    /\ db.snapshot.assignment = assignment /\ db.snapshot.paper = paper
=============================================================================
