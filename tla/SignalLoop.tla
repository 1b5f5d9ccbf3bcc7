----------------------------- MODULE SignalLoop -----------------------------
(***************************************************************************)
(* The signal side of the event loop: src/event_loop_runtime.rs receives a *)
(* batch of book tickers from one exchange, marks its strategy symbols as  *)
(* pending, and then lets handle_signal_tick (src/event_loop_core.rs) check*)
(* at most SIGNAL_CHECK_BUDGET_PER_TICK of the pending symbols.            *)
(*                                                                         *)
(* PendingSymbolSet is a bitset of words, a separate count and a cursor    *)
(* that makes the scan fair.  All three are modelled, because pop_first    *)
(* trusts the count and trusts its scan to have seen every bit.            *)
(*                                                                         *)
(* Left out: prices.  What check_signal decides changes nothing here; its  *)
(* decisions are the intents ExecutionQueue is offered.  The batch's       *)
(* updates of the screener are what ControlPlane is offered.               *)
(***************************************************************************)
EXTENDS Naturals, FiniteSets

CONSTANTS
  NumSymbols,  \* strategy symbols; their ids are 0 .. NumSymbols - 1
  WordBits,    \* bits of a word of the set, 64 in the code
  Budget       \* SIGNAL_CHECK_BUDGET_PER_TICK

ASSUME SizeAssumption ==
  NumSymbols \in Nat \ {0} /\ WordBits \in Nat \ {0} /\ Budget \in Nat \ {0}

SymbolIds == 0 .. NumSymbols - 1
Sides == {"binance", "gate"}

VARIABLES
  bits,      \* PendingSymbolSet.words, as the set of ids whose bit is set
  words,     \* the number of words allocated
  len,       \* PendingSymbolSet.len
  cursor,    \* next_cursor_symbol
  stages,    \* the domain of symbol_stage_timestamps
  gauge,     \* health.runtime_signal_backlog_depth
  health,    \* the exchange's connected flag: "unknown", "up" or "down"
  pc, budget \* the loop: "idle", or in "signal" with checks left to make

setVars == <<bits, words, len, cursor>>
signalVars == <<setVars, stages, gauge, health, pc, budget>>

SignalInit ==
  /\ bits = {} /\ words = 0 /\ len = 0 /\ cursor = 0
  /\ stages = {} /\ gauge = 0
  /\ health = [side \in Sides |-> "unknown"]
  /\ pc = "idle" /\ budget = 0

-----------------------------------------------------------------------------
(* PendingSymbolSet.                                                       *)

(* The least element of a set of numbers, as a set; empty for the empty    *)
(* set.                                                                    *)
Lowest(ids) == {id \in ids : \A other \in ids : id <= other}

WordOf(id) == id \div WordBits
TotalBits == words * WordBits

(* Mutation of NewlySet: a bit that is set already is counted again.       *)
NewlySet_All(ids) == ids

(* The ids whose bit insert() finds clear: only those are counted.         *)
NewlySet(ids) == ids \ bits

(* insert() of every id of a batch: the words grow to hold the largest.    *)
InsertAll(ids) ==
  /\ bits' = bits \cup ids
  /\ len' = len + Cardinality(NewlySet(ids))
  /\ words' \in Lowest({n \in words .. NumSymbols : \A id \in ids : WordOf(id) < n})
  /\ UNCHANGED cursor

(* Mutation of Ahead: the mask of the first word starts after the cursor.  *)
Ahead_Strict(start) == {id \in bits : id > start}

(* pop_first scans upwards from the cursor to the last word, and then the  *)
(* words before the cursor's word.                                         *)
Ahead(start) == {id \in bits : id >= start}
Behind(start) == {id \in bits : WordOf(id) < WordOf(start)}
Scan ==
  LET start == cursor % TotalBits
  IN  IF Ahead(start) # {} THEN Lowest(Ahead(start)) ELSE Lowest(Behind(start))

Lowered(n) == IF n = 0 THEN 0 ELSE n - 1

Popped(id) ==
  /\ bits' = bits \ {id}
  /\ len' = Lowered(len)
  /\ cursor' = IF id + 1 >= TotalBits THEN 0 ELSE id + 1
  /\ UNCHANGED words

(* pop_first returns None: the count says empty, or the scan found no bit. *)
PoppedNothing ==
  /\ len' = 0 /\ cursor' = 0
  /\ UNCHANGED <<bits, words>>

NothingToPop == len = 0 \/ TotalBits = 0 \/ Scan = {}

-----------------------------------------------------------------------------
(* The event loop.                                                         *)

(* record_stage_timestamps_for_batch: when it came, was parsed and stored.  *)
StampStages(ids) == stages' = stages \cup ids

(* handle_exchange_tick: recv_book_ticker() returned a ticker, and `ids`   *)
(* are the strategy symbols of it and of the tickers drained with it; none *)
(* when no ticker is of a strategy symbol.                                 *)
ExchangeTick(side, ids) ==
  /\ pc = "idle" /\ health[side] # "down"
  /\ health' = [health EXCEPT ![side] = "up"]
  /\ InsertAll(ids)
  /\ StampStages(ids)
  /\ gauge' = len'
  /\ pc' = "signal" /\ budget' = Budget

(* recv_book_ticker() failed: its channel is closed, for good and with     *)
(* nothing left to drain.  The signal tick follows all the same.           *)
ExchangeError(side) ==
  /\ pc = "idle"
  /\ health' = [health EXCEPT ![side] = "down"]
  /\ pc' = "signal" /\ budget' = Budget
  /\ UNCHANGED <<setVars, stages, gauge>>

(* handle_signal_tick returns at once when the set says it is empty.       *)
NothingPending ==
  /\ pc = "signal" /\ budget = Budget /\ len = 0
  /\ pc' = "idle" /\ budget' = 0
  /\ UNCHANGED <<setVars, stages, gauge, health>>

InLoop == pc = "signal" /\ ~(budget = Budget /\ len = 0)

(* One turn of the loop: pop a symbol, check its signal and take its       *)
(* timestamps.                                                             *)
CheckSymbol ==
  /\ InLoop /\ budget > 0 /\ ~NothingToPop
  /\ \E id \in Scan : Popped(id) /\ stages' = stages \ {id}
  /\ budget' = budget - 1
  /\ UNCHANGED <<gauge, health, pc>>

(* The loop breaks on None ...                                             *)
ScanExhausted ==
  /\ InLoop /\ budget > 0 /\ NothingToPop
  /\ PoppedNothing
  /\ gauge' = len'
  /\ pc' = "idle" /\ budget' = 0
  /\ UNCHANGED <<stages, health>>

(* ... or ends with its budget.                                            *)
BudgetExhausted ==
  /\ InLoop /\ budget = 0
  /\ gauge' = len
  /\ pc' = "idle"
  /\ UNCHANGED <<setVars, stages, health, budget>>

HandleSignalTick == NothingPending \/ CheckSymbol \/ ScanExhausted \/ BudgetExhausted

SignalNext ==
  \/ \E side \in Sides, ids \in SUBSET SymbolIds : ExchangeTick(side, ids)
  \/ \E side \in Sides : ExchangeError(side)
  \/ HandleSignalTick

(* The signal tick is straight-line code of the loop's task; when the next *)
(* batch arrives is up to the exchanges.                                   *)
SignalSpec == SignalInit /\ [][SignalNext]_signalVars /\ WF_signalVars(HandleSignalTick)

-----------------------------------------------------------------------------
(* Properties.                                                             *)

(* Types; every set bit is in an allocated word.                           *)
SignalTypeOK ==
  /\ bits \in SUBSET SymbolIds /\ stages \in SUBSET SymbolIds
  /\ words \in 0 .. NumSymbols /\ \A id \in bits : WordOf(id) < words
  /\ len \in Nat /\ cursor \in Nat /\ gauge \in Nat
  /\ health \in [Sides -> {"unknown", "up", "down"}]
  /\ pc \in {"idle", "signal"} /\ budget \in 0 .. Budget

(* The count the loop trusts never promises a symbol that is not there:    *)
(* while it is positive a pop can succeed or has lost a bit, it cannot     *)
(* report a backlog of symbols nobody marked.                              *)
BacklogNeverOverstated == len <= Cardinality(bits)

(* A symbol has receive and update timestamps exactly while it waits for   *)
(* its check, so that every check yields a latency sample and none is      *)
(* measured from the timestamps of an earlier check.                       *)
StagesMatchBacklog == stages = bits

(* Between ticks the health endpoint shows the count, on every path        *)
(* through the handlers: early return, error, break and spent budget.      *)
GaugeCurrent == pc = "idle" => gauge = len

(* With a budget that exceeds the number of strategy symbols, the count is *)
(* exact at every step ...                                                 *)
BacklogExact == len = Cardinality(bits)

(* ... and every tick checks all that is pending and rewinds the cursor.   *)
TickDrains == pc = "idle" => bits = {} /\ cursor = 0

(* While fewer symbols are pending than the budget has checks (always so   *)
(* in the deployed configuration), every marked symbol is checked, with no *)
(* further tick of either exchange, although pop_first never looks at the  *)
(* bits below the cursor in the cursor's own word.                         *)
EveryMarkedChecked ==
  [](Cardinality(bits) < Budget) => \A id \in SymbolIds : (id \in bits) ~> (id \notin bits)

=============================================================================
