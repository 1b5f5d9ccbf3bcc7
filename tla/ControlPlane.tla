---------------------------- MODULE ControlPlane ----------------------------
(***************************************************************************)
(* The hand-off of market-data updates from the event loop to the screener *)
(* (src/event_loop_control.rs).  ControlPlaneTx::try_enqueue offers an     *)
(* update to a bounded channel and, when that is full, parks it in an      *)
(* overflow lane that keeps the latest update of each (symbol, exchange).  *)
(* A worker on its own OS thread collects updates in a pending map, merges *)
(* the overflow lane into it and flushes the map to the screener when it   *)
(* is large enough or the flush interval fires.                            *)
(*                                                                         *)
(* An update is its key, a (symbol, exchange) pair, and its version: the   *)
(* k-th update the event loop offers for a key has version k, and exchange *)
(* timestamps grow with it.                                                *)
(***************************************************************************)
EXTENDS Naturals, Sequences, FiniteSets

CONSTANTS
  Keys,        \* (symbol, exchange) pairs
  Capacity,    \* queue_capacity
  MaxBatch,    \* max_batch: pending entries that force a flush
  MaxUpdates   \* bound: updates the event loop offers in total

ASSUME ConfigAssumption == Capacity \in Nat \ {0} /\ MaxBatch \in Nat \ {0}
ASSUME BoundAssumption == MaxUpdates \in Nat

Updates == [key : Keys, ver : Nat]

VARIABLES
  queue,       \* the bounded channel
  overflow,    \* overflow_latest_by_symbol: one update per key
  queueDepth,  \* queue_depth
  dropped,     \* health.runtime_control_dropped_updates
  txPc, txUpdate,   \* the event loop in try_enqueue; txUpdate holds 0 or 1 updates
  workerPc, pending, \* the worker and its coalescing map: one update per key
  quote,       \* the screener's stored version per key, 0 = none
  offered,     \* history: last version offered per key
  applied,     \* history: updates handed to ScreenerStore::update
  spilled      \* history: has the overflow lane ever been used?

laneVars   == <<queue, overflow, queueDepth>>
txVars     == <<txPc, txUpdate, offered>>
workerVars == <<workerPc, pending, quote, applied>>
vars == <<laneVars, dropped, txVars, workerVars, spilled>>

Init ==
  /\ queue = <<>> /\ overflow = {} /\ queueDepth = 0 /\ dropped = 0
  /\ txPc = "idle" /\ txUpdate = {}
  /\ workerPc = "starting" /\ pending = {}
  /\ quote = [k \in Keys |-> 0]
  /\ offered = [k \in Keys |-> 0]
  /\ applied = 0 /\ spilled = FALSE

(* decrement_saturating                                                    *)
Decremented(depth) == IF depth = 0 THEN 0 ELSE depth - 1

(* HashMap::insert of every update of `new` into a map keyed by `key`, and *)
(* the entries it replaces.                                                *)
Replaced(map, new) == {u \in map : \E n \in new : n.key = u.key}

(* Mutation of Inserted: entry().or_insert() in place of insert().         *)
Inserted_KeepsFirst(map, new) == map \cup (new \ Replaced(new, map))

Inserted(map, new) == (map \ Replaced(map, new)) \cup new

ReceiverGone == workerPc \in {"failed", "stopped"}

-----------------------------------------------------------------------------
(* The event loop.                                                         *)

TotalOffered == Cardinality({kv \in Keys \X (1..MaxUpdates) : kv[2] <= offered[kv[1]]})

Offer(k) ==
  /\ txPc = "idle" /\ TotalOffered < MaxUpdates
  /\ offered' = [offered EXCEPT ![k] = @ + 1]
  /\ txUpdate' = {[key |-> k, ver |-> offered'[k]]}
  /\ txPc' = "reserve"
  /\ UNCHANGED <<laneVars, dropped, workerVars, spilled>>

TxReserve ==
  /\ txPc = "reserve"
  /\ queueDepth' = queueDepth + 1
  /\ txPc' = "send"
  /\ UNCHANGED <<queue, overflow, dropped, txUpdate, offered, workerVars, spilled>>

TxTrySend ==
  /\ txPc = "send"
  /\ \/ /\ ~ReceiverGone /\ Len(queue) < Capacity
        /\ \E u \in txUpdate : queue' = Append(queue, u)
        /\ txPc' = "idle" /\ txUpdate' = {}
     \/ /\ ~ReceiverGone /\ Len(queue) >= Capacity
        /\ txPc' = "full" /\ UNCHANGED <<queue, txUpdate>>
     \/ /\ ReceiverGone
        /\ txPc' = "closed" /\ UNCHANGED <<queue, txUpdate>>
  /\ UNCHANGED <<overflow, queueDepth, dropped, offered, workerVars, spilled>>

(* Both failures give the reservation back; a closed channel loses the     *)
(* update.                                                                 *)
TxUndo ==
  /\ queueDepth' = Decremented(queueDepth)
  /\ \/ txPc = "full" /\ txPc' = "park" /\ UNCHANGED <<dropped, txUpdate>>
     \/ /\ txPc = "closed" /\ txPc' = "idle"
        /\ txUpdate' = {} /\ dropped' = dropped + 1
  /\ UNCHANGED <<queue, overflow, offered, workerVars, spilled>>

TxPark ==
  /\ txPc = "park"
  /\ overflow' = Inserted(overflow, txUpdate)
  /\ dropped' = dropped + Cardinality(Replaced(overflow, txUpdate))
  /\ txPc' = "idle" /\ txUpdate' = {} /\ spilled' = TRUE
  /\ UNCHANGED <<queue, queueDepth, offered, workerVars>>

(* The sender is dropped with the event loop.                              *)
TxClose ==
  /\ txPc = "idle"
  /\ txPc' = "gone"
  /\ UNCHANGED <<laneVars, dropped, txUpdate, offered, workerVars, spilled>>

TryEnqueue == TxReserve \/ TxTrySend \/ TxUndo \/ TxPark

-----------------------------------------------------------------------------
(* The worker thread.                                                      *)

(* The thread builds its runtime; when that fails it returns and the       *)
(* receiver, with all that is queued, is gone.                             *)
WorkerStart ==
  /\ workerPc = "starting"
  /\ \/ workerPc' = "select" /\ UNCHANGED queue
     \/ workerPc' = "failed" /\ queue' = <<>>
  /\ UNCHANGED <<overflow, queueDepth, dropped, txVars, pending, quote, applied, spilled>>

(* recv() and queue_pending_update: nobody else sees the pending map.      *)
WorkerRecv ==
  /\ workerPc = "select" /\ queue # <<>>
  /\ pending' = Inserted(pending, {Head(queue)})
  /\ dropped' = dropped + Cardinality(Replaced(pending, {Head(queue)}))
  /\ queue' = Tail(queue)
  /\ workerPc' = "received"
  /\ UNCHANGED <<overflow, queueDepth, txVars, quote, applied, spilled>>

WorkerDecrement ==
  /\ workerPc = "received"
  /\ queueDepth' = Decremented(queueDepth)
  /\ workerPc' = "drain"
  /\ UNCHANGED <<queue, overflow, dropped, txVars, pending, quote, applied, spilled>>

(* drain_overflow_updates: the overflow lane overwrites what is pending.   *)
DrainOverflow ==
  /\ pending' = Inserted(pending, overflow)
  /\ dropped' = dropped + Cardinality(Replaced(pending, overflow))
  /\ overflow' = {}

WorkerDrain ==
  /\ workerPc = "drain"
  /\ DrainOverflow
  /\ workerPc' = IF Cardinality(pending') >= MaxBatch THEN "flush" ELSE "select"
  /\ UNCHANGED <<queue, queueDepth, txVars, quote, applied, spilled>>

(* Mutation of WorkerTick: the flush interval only flushes.                *)
WorkerTick_NoDrain ==
  /\ workerPc = "select"
  /\ workerPc' = "flush"
  /\ UNCHANGED <<laneVars, dropped, txVars, pending, quote, applied, spilled>>

WorkerTick ==
  /\ workerPc = "select"
  /\ DrainOverflow
  /\ workerPc' = "flush"
  /\ UNCHANGED <<queue, queueDepth, txVars, quote, applied, spilled>>

(* recv() yields None: the channel is empty and its sender dropped.        *)
WorkerClosed ==
  /\ workerPc = "select" /\ queue = <<>> /\ txPc = "gone"
  /\ DrainOverflow
  /\ workerPc' = "lastFlush"
  /\ UNCHANGED <<queue, queueDepth, txVars, quote, applied, spilled>>

(* SymbolState::ingest_quote rejects a quote older than the stored one.    *)
Accepts(u) == u.ver >= quote[u.key]

ApplyUpdate(u) ==
  /\ quote' = IF Accepts(u) THEN [quote EXCEPT ![u.key] = u.ver] ELSE quote
  /\ applied' = applied + 1

(* apply_control_update, in the arbitrary order of the map's drain.        *)
WorkerApply ==
  /\ workerPc \in {"flush", "lastFlush"}
  /\ \/ \E u \in pending :
          /\ pending' = pending \ {u}
          /\ ApplyUpdate(u)
          /\ UNCHANGED workerPc
     \/ /\ pending = {}
        /\ workerPc' = IF workerPc = "flush" THEN "select" ELSE "stopped"
        /\ UNCHANGED <<pending, quote, applied>>
  /\ UNCHANGED <<laneVars, dropped, txVars, spilled>>

Worker ==
  \/ WorkerStart \/ WorkerRecv \/ WorkerDecrement \/ WorkerDrain
  \/ WorkerTick \/ WorkerClosed \/ WorkerApply

-----------------------------------------------------------------------------
(* Both sides ended: the event loop is gone and the worker with it.        *)
Ended == ReceiverGone /\ txPc = "gone" /\ UNCHANGED vars

Next == (\E k \in Keys : Offer(k)) \/ TryEnqueue \/ TxClose \/ Worker \/ Ended

(* try_enqueue never blocks.  The worker thread keeps running; tokio's     *)
(* select! polls its branches in random order, so neither a busy channel   *)
(* nor a short flush interval starves the other branch.                    *)
Fairness ==
  /\ WF_vars(TryEnqueue)
  /\ WF_vars(Worker)
  /\ SF_vars(WorkerRecv) /\ SF_vars(WorkerTick)

Spec == Init /\ [][Next]_vars /\ Fairness

-----------------------------------------------------------------------------
(* Properties.                                                             *)

OnePerKey(map) == \A u, v \in map : u.key = v.key => u = v

(* Types, and that the maps hold one update per key.                       *)
TypeOK ==
  /\ queue \in Seq(Updates) /\ Len(queue) <= Capacity
  /\ overflow \in SUBSET Updates /\ OnePerKey(overflow)
  /\ pending \in SUBSET Updates /\ OnePerKey(pending)
  /\ queueDepth \in Nat /\ dropped \in Nat /\ applied \in Nat
  /\ txPc \in {"idle", "reserve", "send", "full", "closed", "park", "gone"}
  /\ txUpdate \in SUBSET Updates
  /\ workerPc \in {"starting", "select", "received", "drain", "flush", "lastFlush",
                   "stopped", "failed"}
  /\ quote \in [Keys -> Nat] /\ offered \in [Keys -> Nat]
  /\ spilled \in BOOLEAN

(* "Reserve depth before try_send to avoid producer/consumer drift": the   *)
(* counter is the queue's length plus the operations in flight on either   *)
(* side, as long as the receiver was not torn down with its queue.         *)
DepthNeverDrifts ==
  workerPc # "failed" =>
    queueDepth = Len(queue) + (IF txPc \in {"send", "full", "closed"} THEN 1 ELSE 0)
                            + (IF workerPc = "received" THEN 1 ELSE 0)

(* Every update offered is in one lane, was handed to the screener or was  *)
(* counted as dropped, exactly once: coalescing pressure is observable.    *)
EveryUpdateAccounted ==
  workerPc # "failed" =>
    TotalOffered = Cardinality(txUpdate) + Len(queue) + Cardinality(overflow)
                   + Cardinality(pending) + applied + dropped

(* Nothing is on its way.                                                  *)
Quiescent ==
  /\ txPc \in {"idle", "gone"} /\ workerPc \in {"select", "stopped"}
  /\ queue = <<>> /\ overflow = {} /\ pending = {}

(* While the overflow lane is not used, coalescing and batching lose no    *)
(* latest value: at rest the screener has the last update of every key.    *)
LatestWinsWithoutOverflow ==
  (Quiescent /\ ~spilled) => \A k \in Keys : quote[k] = offered[k]

(* "latest update wins inside a flush window" and "Overflow lane preserves *)
(* per-exchange latest updates for same symbol under queue pressure": at   *)
(* rest the screener has the last update of every key, overflow or not.    *)
LatestWins == Quiescent => \A k \in Keys : quote[k] = offered[k]

(* Although a newer update can overtake an older one through the overflow  *)
(* lane, the screener's quote of a key never goes back in time.            *)
QuoteNeverGoesBack == [][\A k \in Keys : quote'[k] >= quote[k]]_vars

(* Every key that was offered an update gets one applied, also when the    *)
(* channel fell silent right after a full try_send parked its update.      *)
EveryKeyApplied ==
  \A k \in Keys : (offered[k] > 0) ~> (quote[k] > 0 \/ workerPc = "failed")

=============================================================================
