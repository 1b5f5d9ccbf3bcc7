-------------------------- MODULE MarketDataProofs --------------------------
(* Theorems about what a ticker goes through: ControlPlane, the updates of  *)
(* the screener, for any set of keys and any capacity, batch size and bound *)
(* on the updates; SignalLoop, the pending symbols, for every number of     *)
(* symbols, word width and budget; LeadLag, the strategy, for any symbols,  *)
(* clocks, windows, limits and books.  The three share no state.            *)
EXTENDS ControlPlane, SignalLoop, LeadLag, FiniteSetTheorems, WellFoundedInduction, TLAPS

-----------------------------------------------------------------------------
(* ControlPlane.                                                            *)

(* Types, with what they rest on: the event loop has at most one update in  *)
(* hand, and the maps are finite.                                           *)
TypeInv ==
  /\ TypeOK
  /\ \A u, v \in txUpdate : u = v
  /\ IsFiniteSet(txUpdate) /\ IsFiniteSet(overflow) /\ IsFiniteSet(pending)

(* Inserting into a map keyed by `key` leaves one update per key, and what  *)
(* is replaced can be counted.                                              *)
LEMMA InsertedMap ==
  ASSUME NEW map \in SUBSET Updates, OnePerKey(map), IsFiniteSet(map),
         NEW new \in SUBSET Updates, OnePerKey(new), IsFiniteSet(new)
  PROVE  /\ Inserted(map, new) \in SUBSET Updates
         /\ OnePerKey(Inserted(map, new))
         /\ IsFiniteSet(Inserted(map, new))
         /\ Cardinality(Replaced(map, new)) \in Nat
<1>1. IsFiniteSet(Replaced(map, new))
  BY FS_Subset DEF Replaced
<1>2. Cardinality(Replaced(map, new)) \in Nat
  BY <1>1, FS_CardinalityType
<1>3. IsFiniteSet(map \ Replaced(map, new))
  BY FS_Difference
<1>4. IsFiniteSet(Inserted(map, new))
  BY <1>3, FS_Union DEF Inserted
<1>5. OnePerKey(Inserted(map, new))
  BY DEF OnePerKey, Inserted, Replaced
<1> QED BY <1>2, <1>4, <1>5 DEF Inserted

LEMMA TypeInit == Init => TypeInv
<1> SUFFICES ASSUME Init PROVE TypeInv
  OBVIOUS
<1>1. queue \in Seq(Updates) /\ Len(queue) <= Capacity
  BY ConfigAssumption DEF Init
<1>2. OnePerKey(overflow) /\ OnePerKey(pending)
  BY DEF Init, OnePerKey
<1>3. IsFiniteSet(txUpdate) /\ IsFiniteSet(overflow) /\ IsFiniteSet(pending)
  BY FS_EmptySet DEF Init
<1> QED BY <1>1, <1>2, <1>3 DEF Init, TypeInv, TypeOK

LEMMA TypeStep == TypeInv /\ [Next]_vars => TypeInv'
<1> SUFFICES ASSUME TypeInv, [Next]_vars PROVE TypeInv'
  OBVIOUS
<1> USE ConfigAssumption DEF TypeInv, TypeOK
<1>0. OnePerKey({}) /\ IsFiniteSet({}) /\ OnePerKey(txUpdate)
  BY FS_EmptySet DEF OnePerKey
<1>1. ASSUME NEW k \in Keys, Offer(k) PROVE TypeInv'
  <2>1. offered' \in [Keys -> Nat]
    BY <1>1 DEF Offer
  <2>2. txUpdate' = {[key |-> k, ver |-> offered'[k]]}
    BY <1>1 DEF Offer
  <2>3. txUpdate' \in SUBSET Updates /\ \A u, v \in txUpdate' : u = v
    BY <2>1, <2>2 DEF Updates
  <2>4. IsFiniteSet(txUpdate')
    BY <2>2, FS_Singleton
  <2> QED BY <1>1, <2>1, <2>3, <2>4 DEF Offer, laneVars, workerVars
<1>2. CASE TxReserve
  BY <1>2 DEF TxReserve, workerVars
<1>3. CASE TxTrySend
  <2>1. CASE UNCHANGED <<queue, txUpdate>>
    BY <1>3, <2>1 DEF TxTrySend, workerVars
  <2>2. CASE /\ Len(queue) < Capacity /\ txUpdate' = {} /\ txPc' = "idle"
             /\ \E u \in txUpdate : queue' = Append(queue, u)
    <3>1. queue' \in Seq(Updates) /\ Len(queue') <= Capacity
      BY <2>2
    <3> QED BY <1>0, <1>3, <2>2, <3>1 DEF TxTrySend, workerVars
  <2> QED BY <1>3, <2>1, <2>2 DEF TxTrySend
<1>4. CASE TxUndo
  <2>1. queueDepth' \in Nat
    BY <1>4 DEF TxUndo, Decremented
  <2>2. txUpdate' = txUpdate \/ txUpdate' = {}
    BY <1>4 DEF TxUndo
  <2>3. dropped' \in Nat /\ txPc' \in {"park", "idle"}
    BY <1>4 DEF TxUndo
  <2>4. UNCHANGED <<queue, overflow, offered, workerVars, spilled>>
    BY <1>4 DEF TxUndo
  <2> QED BY <1>0, <2>1, <2>2, <2>3, <2>4 DEF workerVars, OnePerKey
<1>5. CASE TxPark
  <2>1. /\ overflow' \in SUBSET Updates /\ OnePerKey(overflow)' /\ IsFiniteSet(overflow')
        /\ dropped' \in Nat
    BY <1>0, <1>5, InsertedMap DEF TxPark, OnePerKey
  <2> QED BY <1>0, <1>5, <2>1 DEF TxPark, workerVars
<1>6. CASE TxClose
  BY <1>6 DEF TxClose, laneVars, workerVars
<1>7. CASE WorkerStart
  <2>0. <<>> \in Seq(Updates) /\ Len(<<>>) <= Capacity
    OBVIOUS
  <2>1. queue' \in Seq(Updates) /\ Len(queue') <= Capacity
    <3>1. queue' = queue \/ queue' = <<>>
      BY <1>7 DEF WorkerStart
    <3>2. CASE queue' = queue
      BY <3>2
    <3>3. CASE queue' = <<>>
      BY <2>0, <3>3 DEF TypeOK
    <3> QED BY <3>1, <3>2, <3>3
  <2>2. workerPc' \in {"select", "failed"}
    BY <1>7 DEF WorkerStart
  <2>3. UNCHANGED <<overflow, queueDepth, dropped, txVars, pending, quote, applied, spilled>>
    BY <1>7 DEF WorkerStart
  <2> QED BY <2>1, <2>2, <2>3 DEF txVars, OnePerKey
<1>8. CASE WorkerRecv
  <2>1. Head(queue) \in Updates /\ Tail(queue) \in Seq(Updates) /\ Len(Tail(queue)) <= Capacity
    BY <1>8 DEF WorkerRecv
  <2>2. OnePerKey({Head(queue)}) /\ IsFiniteSet({Head(queue)})
    BY FS_Singleton DEF OnePerKey
  <2>3. /\ pending' \in SUBSET Updates /\ OnePerKey(pending)' /\ IsFiniteSet(pending')
        /\ dropped' \in Nat
    <3> DEFINE new == {Head(queue)}
    <3>1. new \in SUBSET Updates /\ OnePerKey(new) /\ IsFiniteSet(new)
      BY <2>1, <2>2
    <3>2. pending' = Inserted(pending, new)
          /\ dropped' = dropped + Cardinality(Replaced(pending, new))
      BY <1>8 DEF WorkerRecv
    <3> HIDE DEF new
    <3>3. /\ Inserted(pending, new) \in SUBSET Updates /\ IsFiniteSet(Inserted(pending, new))
          /\ OnePerKey(Inserted(pending, new)) /\ Cardinality(Replaced(pending, new)) \in Nat
      BY <3>1, InsertedMap
    <3> QED BY <3>2, <3>3 DEF OnePerKey
  <2> QED BY <1>8, <2>1, <2>3 DEF WorkerRecv, txVars
<1>9. CASE WorkerDecrement
  BY <1>9 DEF WorkerDecrement, Decremented, txVars
<1>10. ASSUME DrainOverflow
       PROVE  /\ pending' \in SUBSET Updates /\ OnePerKey(pending)' /\ IsFiniteSet(pending')
              /\ dropped' \in Nat
              /\ overflow' \in SUBSET Updates /\ OnePerKey(overflow)' /\ IsFiniteSet(overflow')
  <2>1. /\ overflow \in SUBSET Updates /\ OnePerKey(overflow) /\ IsFiniteSet(overflow)
        /\ pending \in SUBSET Updates /\ OnePerKey(pending) /\ IsFiniteSet(pending)
        /\ dropped \in Nat
    BY <1>0 DEF TypeInv, TypeOK
  <2>2. /\ Inserted(pending, overflow) \in SUBSET Updates /\ IsFiniteSet(Inserted(pending, overflow))
        /\ OnePerKey(Inserted(pending, overflow)) /\ Cardinality(Replaced(pending, overflow)) \in Nat
    BY <2>1, InsertedMap
  <2>3. pending' = Inserted(pending, overflow) /\ overflow' = {}
        /\ dropped' = dropped + Cardinality(Replaced(pending, overflow))
    BY <1>10 DEF DrainOverflow
  <2>4. IsFiniteSet({})
    BY FS_EmptySet
  <2> QED BY <2>1, <2>2, <2>3, <2>4 DEF OnePerKey
<1>11. CASE WorkerDrain
  BY <1>10, <1>11 DEF WorkerDrain, txVars
<1>12. CASE WorkerTick
  BY <1>10, <1>12 DEF WorkerTick, txVars
<1>13. CASE WorkerClosed
  BY <1>10, <1>13 DEF WorkerClosed, txVars
<1>14. CASE WorkerApply
  <2>1. CASE UNCHANGED <<pending, quote, applied>>
    BY <1>14, <2>1 DEF WorkerApply, ApplyUpdate, laneVars, txVars
  <2>2. ASSUME NEW u \in pending, pending' = pending \ {u}, applied' = applied + 1,
               quote' = IF Accepts(u) THEN [quote EXCEPT ![u.key] = u.ver] ELSE quote
        PROVE  TypeInv'
    <3>1. pending' \in SUBSET Updates /\ OnePerKey(pending)'
      BY <2>2 DEF OnePerKey
    <3>2. IsFiniteSet(pending')
      BY <2>2, FS_Subset
    <3>3. quote' \in [Keys -> Nat]
      BY <2>2 DEF Updates
    <3>4. UNCHANGED <<laneVars, dropped, txVars, spilled>>
      BY <1>14 DEF WorkerApply, ApplyUpdate
    <3>5. workerPc' \in {"select", "stopped", "flush", "lastFlush"}
      BY <1>14 DEF WorkerApply, ApplyUpdate
    <3>6. applied' \in Nat
      BY <2>2
    <3> QED BY <3>1, <3>2, <3>3, <3>4, <3>5, <3>6 DEF OnePerKey, laneVars, txVars
  <2> QED BY <1>14, <2>1, <2>2 DEF WorkerApply, ApplyUpdate
<1>15. CASE UNCHANGED vars
  BY <1>15 DEF vars, laneVars, txVars, workerVars
<1> QED BY <1>1, <1>2, <1>3, <1>4, <1>5, <1>6, <1>7, <1>8, <1>9, <1>11, <1>12, <1>13, <1>14, <1>15
        DEF Next, TryEnqueue, Worker, Ended

(* Types, and that neither the overflow lane nor the worker's map ever      *)
(* holds two updates of one key.                                            *)
THEOREM TypeCorrect == Spec => []TypeOK
<1>1. TypeInv => TypeOK
  BY DEF TypeInv
<1> QED BY <1>1, TypeInit, TypeStep, PTL DEF Spec

-----------------------------------------------------------------------------
(* Reserving before try_send, undoing after its failure and decrementing    *)
(* after recv keep the counter exact, in any interleaving of the threads.   *)
THEOREM DepthExact == Spec => []DepthNeverDrifts
<1>1. Init => DepthNeverDrifts
  BY DEF Init, DepthNeverDrifts
<1>2. TypeInv /\ DepthNeverDrifts /\ [Next]_vars => DepthNeverDrifts'
  <2> SUFFICES ASSUME TypeOK, txUpdate \in SUBSET Updates, DepthNeverDrifts, [Next]_vars
               PROVE  DepthNeverDrifts'
    BY DEF TypeInv, TypeOK
  <2> USE DEF DepthNeverDrifts
  <2>0. queue \in Seq(Updates) /\ Len(queue) \in Nat /\ queueDepth \in Nat
    BY DEF TypeOK
  <2>1. ASSUME NEW k \in Keys, Offer(k) PROVE DepthNeverDrifts'
    BY <2>1 DEF Offer, laneVars, workerVars
  <2>2. CASE TxReserve
    BY <2>0, <2>2 DEF TxReserve, workerVars
  <2>3. CASE TxTrySend
    <3>1. ASSUME NEW u \in txUpdate, queue' = Append(queue, u), txPc' = "idle"
          PROVE  DepthNeverDrifts'
      <4>1. Len(queue') = Len(queue) + 1
        BY <2>0, <3>1
      <4> QED BY <2>0, <2>3, <3>1, <4>1 DEF TxTrySend, workerVars
    <3>2. CASE txPc' \in {"full", "closed"} /\ queue' = queue
      BY <2>3, <3>2 DEF TxTrySend, workerVars
    <3> QED BY <2>3, <3>1, <3>2 DEF TxTrySend
  <2>4. CASE TxUndo
    <3>1. txPc \in {"full", "closed"} /\ txPc' \in {"park", "idle"}
          /\ queue' = queue /\ workerPc' = workerPc /\ queueDepth' = Decremented(queueDepth)
      BY <2>4 DEF TxUndo, workerVars
    <3>2. CASE workerPc = "failed"
      BY <3>1, <3>2
    <3>3. CASE workerPc # "failed"
      <4>1. queueDepth = Len(queue) + 1 + (IF workerPc = "received" THEN 1 ELSE 0)
        BY <3>1, <3>3
      <4>2. queueDepth # 0 /\ queueDepth' = queueDepth - 1
        BY <2>0, <3>1, <4>1 DEF Decremented
      <4>3. queueDepth' = Len(queue) + (IF workerPc = "received" THEN 1 ELSE 0)
        BY <2>0, <4>1, <4>2
      <4>4. txPc' \notin {"send", "full", "closed"} /\ Len(queue') = Len(queue)
        BY <3>1
      <4>5. queueDepth' = Len(queue') + 0 + (IF workerPc' = "received" THEN 1 ELSE 0)
        BY <2>0, <3>1, <4>3, <4>4
      <4> QED BY <4>4, <4>5
    <3> QED BY <3>2, <3>3
  <2>5. CASE TxPark \/ TxClose
    BY <2>5 DEF TxPark, TxClose, laneVars, workerVars
  <2>6. CASE WorkerStart
    BY <2>6 DEF WorkerStart, txVars
  <2>7. CASE WorkerRecv
    <3>1. Len(queue) = Len(queue') + 1
      <4>1. queue # <<>> /\ queue' = Tail(queue)
        BY <2>7 DEF WorkerRecv
      <4> QED BY <2>0, <4>1
    <3>2. Len(queue') \in Nat
      BY <2>0, <2>7 DEF WorkerRecv
    <3>3. workerPc = "select" /\ workerPc' = "received" /\ UNCHANGED <<queueDepth, txPc>>
      BY <2>7 DEF WorkerRecv, txVars
    <3> QED BY <2>0, <3>1, <3>2, <3>3
  <2>8. CASE WorkerDecrement
    BY <2>0, <2>8 DEF WorkerDecrement, Decremented, txVars
  <2>9. CASE WorkerDrain \/ WorkerTick \/ WorkerClosed
    BY <2>9 DEF WorkerDrain, WorkerTick, WorkerClosed, txVars
  <2>10. CASE WorkerApply
    BY <2>10 DEF WorkerApply, ApplyUpdate, laneVars, txVars
  <2>11. CASE UNCHANGED vars
    BY <2>11 DEF vars, laneVars, txVars, workerVars
  <2> QED BY <2>1, <2>2, <2>3, <2>4, <2>5, <2>6, <2>7, <2>8, <2>9, <2>10, <2>11
          DEF Next, TryEnqueue, Worker, Ended
<1> QED BY <1>1, <1>2, TypeInit, TypeStep, PTL DEF Spec

-----------------------------------------------------------------------------
(* Whatever order the two lanes deliver a key's updates in, the quote the   *)
(* screener stores for it never goes back.                                  *)
THEOREM QuotesMonotone == Spec => QuoteNeverGoesBack
<1>1. TypeInv /\ [Next]_vars => [\A k \in Keys : quote'[k] >= quote[k]]_vars
  <2> SUFFICES ASSUME TypeOK, [Next]_vars PROVE \A k \in Keys : quote'[k] >= quote[k]
    BY DEF TypeInv
  <2>1. quote \in [Keys -> Nat] /\ pending \in SUBSET Updates
    BY DEF TypeOK
  <2>2. CASE quote' = quote
    BY <2>1, <2>2
  <2>3. ASSUME NEW u \in pending,
               quote' = IF Accepts(u) THEN [quote EXCEPT ![u.key] = u.ver] ELSE quote
        PROVE  \A k \in Keys : quote'[k] >= quote[k]
    BY <2>1, <2>3 DEF Accepts, Updates
  <2>4. CASE WorkerApply
    BY <2>2, <2>3, <2>4 DEF WorkerApply, ApplyUpdate
  <2>5. CASE ~WorkerApply
    <3>1. ASSUME NEW k \in Keys, Offer(k) PROVE quote' = quote
      BY <3>1 DEF Offer, workerVars
    <3>2. TryEnqueue \/ TxClose => quote' = quote
      BY DEF TryEnqueue, TxReserve, TxTrySend, TxUndo, TxPark, TxClose, workerVars
    <3>3. Worker => quote' = quote
      BY <2>5 DEF Worker, WorkerStart, WorkerRecv, WorkerDecrement, WorkerDrain, WorkerTick,
                  WorkerClosed
    <3>4. UNCHANGED vars => quote' = quote
      BY DEF vars, workerVars
    <3> QED BY <2>2, <3>1, <3>2, <3>3, <3>4 DEF Next, Ended
  <2> QED BY <2>4, <2>5
<1> QED BY <1>1, TypeInit, TypeStep, PTL DEF Spec, QuoteNeverGoesBack

-----------------------------------------------------------------------------
(* Where the last update of a key is while the overflow lane is unused: in  *)
(* the event loop's hand, in the channel with no other of the key behind    *)
(* it, in the worker's map with none in the channel, or in the screener     *)
(* with none on its way.                                                    *)
Queued(k) == {i \in DOMAIN queue : queue[i].key = k}
Mapped(k) == {u \in pending : u.key = k}

InHand(k) == \E u \in txUpdate : u.key = k /\ u.ver = offered[k]
InChannel(k) == \E i \in Queued(k) : queue[i].ver = offered[k] /\ \A j \in Queued(k) : j <= i
InMap(k) == Queued(k) = {} /\ \E u \in Mapped(k) : u.ver = offered[k]
InScreener(k) == Queued(k) = {} /\ Mapped(k) = {} /\ quote[k] = offered[k]

(* No lane and no map holds a version that was not offered.                 *)
NotFromTheFuture ==
  /\ \A u \in txUpdate : u.ver = offered[u.key]
  /\ \A u \in overflow \cup pending : u.ver <= offered[u.key]
  /\ \A i \in DOMAIN queue : queue[i].ver <= offered[queue[i].key]
  /\ \A k \in Keys : quote[k] <= offered[k]

(* The event loop's hand is empty between calls, and the receiver goes only *)
(* after the sender unless the worker never started.                        *)
HandsInv ==
  /\ txPc \in {"idle", "gone"} => txUpdate = {}
  /\ txPc = "closed" => workerPc = "failed"
  /\ workerPc \in {"lastFlush", "stopped"} => txPc = "gone" /\ queue = <<>>

OrderInv ==
  ~spilled /\ workerPc # "failed" =>
    /\ overflow = {}
    /\ \A k \in Keys : InHand(k) \/ InChannel(k) \/ InMap(k) \/ InScreener(k)

LatestInv == HandsInv /\ NotFromTheFuture /\ OrderInv

LEMMA NothingInserted ==
  ASSUME NEW map PROVE Inserted(map, {}) = map
BY DEF Inserted, Replaced

LEMMA HandsStep == TypeInv /\ HandsInv /\ [Next]_vars => HandsInv'
<1> SUFFICES ASSUME TypeInv, HandsInv, [Next]_vars PROVE HandsInv'
  OBVIOUS
<1> USE DEF HandsInv
<1>1. ASSUME NEW k \in Keys, Offer(k) PROVE HandsInv'
  BY <1>1 DEF Offer, laneVars, workerVars
<1>2. CASE TryEnqueue
  BY <1>2 DEF TryEnqueue, TxReserve, TxTrySend, TxUndo, TxPark, ReceiverGone, workerVars
<1>3. CASE TxClose
  BY <1>3 DEF TxClose, laneVars, workerVars
<1>4. CASE WorkerStart \/ WorkerRecv \/ WorkerDecrement \/ WorkerDrain \/ WorkerTick
  BY <1>4 DEF WorkerStart, WorkerRecv, WorkerDecrement, WorkerDrain, WorkerTick, txVars
<1>5. CASE WorkerClosed \/ WorkerApply
  BY <1>5 DEF WorkerClosed, WorkerApply, txVars, laneVars
<1>6. CASE UNCHANGED vars
  BY <1>6 DEF vars, laneVars, txVars, workerVars
<1> QED BY <1>1, <1>2, <1>3, <1>4, <1>5, <1>6 DEF Next, Worker, Ended

(* What a drain and a flush take from the overflow lane adds no version.    *)
LEMMA DrainedVersions ==
  ASSUME DrainOverflow
  PROVE  overflow' \cup pending' \subseteq overflow \cup pending
BY DEF DrainOverflow, Inserted

LEMMA FutureStep == TypeInv /\ HandsInv /\ NotFromTheFuture /\ [Next]_vars => NotFromTheFuture'
<1> SUFFICES ASSUME TypeInv, HandsInv, NotFromTheFuture, [Next]_vars PROVE NotFromTheFuture'
  OBVIOUS
<1> USE DEF NotFromTheFuture
<1>0. /\ queue \in Seq(Updates) /\ txUpdate \in SUBSET Updates
      /\ overflow \in SUBSET Updates /\ pending \in SUBSET Updates
      /\ quote \in [Keys -> Nat] /\ offered \in [Keys -> Nat]
  BY DEF TypeInv, TypeOK
<1>1. ASSUME NEW k \in Keys, Offer(k) PROVE NotFromTheFuture'
  <2>1. offered' = [offered EXCEPT ![k] = @ + 1] /\ UNCHANGED <<laneVars, workerVars>>
    BY <1>1 DEF Offer
  <2>2. \A j \in Keys : offered'[j] >= offered[j]
    BY <1>0, <2>1
  <2>3. \A u \in txUpdate' : u.ver = offered'[u.key]
    BY <1>1 DEF Offer
  <2>4. \A u \in overflow' \cup pending' : u.ver <= offered'[u.key]
    BY <1>0, <2>1, <2>2 DEF Updates, laneVars, workerVars
  <2>5. \A i \in DOMAIN queue' : queue'[i].ver <= offered'[queue'[i].key]
    <3> SUFFICES ASSUME NEW i \in DOMAIN queue PROVE queue[i].ver <= offered'[queue[i].key]
      BY <2>1 DEF laneVars
    <3>1. queue[i] \in Updates /\ queue[i].ver <= offered[queue[i].key]
      BY <1>0
    <3>2. offered[queue[i].key] \in Nat /\ offered'[queue[i].key] \in Nat /\ queue[i].ver \in Nat
      BY <1>0, <2>1, <3>1 DEF Updates
    <3> QED BY <2>2, <3>1, <3>2 DEF Updates
  <2>6. \A j \in Keys : quote'[j] <= offered'[j]
    BY <1>0, <2>1, <2>2 DEF workerVars
  <2> QED BY <2>3, <2>4, <2>5, <2>6
<1>2. CASE TxReserve \/ TxUndo \/ TxClose
  BY <1>2 DEF TxReserve, TxUndo, TxClose, workerVars, laneVars
<1>3. CASE TxTrySend
  <2>1. CASE UNCHANGED <<queue, txUpdate>>
    BY <1>3, <2>1 DEF TxTrySend, workerVars
  <2>2. ASSUME NEW u \in txUpdate, queue' = Append(queue, u), txUpdate' = {}
        PROVE  NotFromTheFuture'
    <3>1. \A i \in DOMAIN queue' : queue'[i] = IF i = Len(queue) + 1 THEN u ELSE queue[i]
      BY <1>0, <2>2
    <3>2. DOMAIN queue' = 1 .. Len(queue) + 1 /\ DOMAIN queue = 1 .. Len(queue)
      BY <1>0, <2>2
    <3>3. u.ver = offered[u.key] /\ offered[u.key] \in Nat
      BY <1>0 DEF Updates
    <3>4. \A i \in DOMAIN queue' : queue'[i].ver <= offered[queue'[i].key]
      BY <3>1, <3>2, <3>3
    <3> QED BY <1>3, <2>2, <3>4 DEF TxTrySend, workerVars
  <2> QED BY <1>3, <2>1, <2>2 DEF TxTrySend
<1>4. CASE TxPark
  <2>1. overflow' \subseteq overflow \cup txUpdate
    BY <1>4 DEF TxPark, Inserted
  <2>2. \A u \in txUpdate : u.ver = offered[u.key] /\ u.ver \in Nat
    BY <1>0 DEF Updates
  <2>3. \A u \in overflow' \cup pending : u.ver <= offered[u.key]
    BY <2>1, <2>2
  <2> QED BY <1>4, <2>3 DEF TxPark, workerVars
<1>5. CASE WorkerStart
  BY <1>5 DEF WorkerStart, txVars
<1>6. CASE WorkerRecv
  <2>1. queue # <<>> /\ queue' = Tail(queue) /\ pending' \subseteq pending \cup {Head(queue)}
    BY <1>6 DEF WorkerRecv, Inserted
  <2>2. Head(queue) = queue[1] /\ 1 \in DOMAIN queue
    BY <1>0, <2>1
  <2>3. \A i \in DOMAIN queue' : i + 1 \in DOMAIN queue /\ queue'[i] = queue[i + 1]
    BY <1>0, <2>1
  <2>4. \A i \in DOMAIN queue' : queue'[i].ver <= offered[queue'[i].key]
    BY <2>3
  <2>5. \A u \in overflow \cup pending' : u.ver <= offered[u.key]
    BY <2>1, <2>2
  <2>6. UNCHANGED <<overflow, txUpdate, offered, quote>>
    BY <1>6 DEF WorkerRecv, txVars
  <2> QED BY <2>4, <2>5, <2>6
<1>7. CASE WorkerDecrement
  BY <1>7 DEF WorkerDecrement, txVars
<1>8. CASE WorkerDrain \/ WorkerTick \/ WorkerClosed
  <2>1. overflow' \cup pending' \subseteq overflow \cup pending
    BY <1>8, DrainedVersions DEF WorkerDrain, WorkerTick, WorkerClosed
  <2> QED BY <1>8, <2>1 DEF WorkerDrain, WorkerTick, WorkerClosed, txVars
<1>9. CASE WorkerApply
  <2>1. UNCHANGED <<queue, overflow, txUpdate, offered>> /\ pending' \subseteq pending
    BY <1>9 DEF WorkerApply, laneVars, txVars
  <2>2. \A k \in Keys : quote'[k] <= offered[k]
    <3>1. ASSUME NEW u \in pending, ApplyUpdate(u) PROVE \A k \in Keys : quote'[k] <= offered[k]
      <4>1. u.ver <= offered[u.key] /\ u.key \in Keys
        BY <1>0 DEF Updates
      <4> QED BY <1>0, <3>1, <4>1 DEF ApplyUpdate
    <3> QED BY <1>9, <3>1 DEF WorkerApply
  <2> QED BY <2>1, <2>2
<1>10. CASE UNCHANGED vars
  BY <1>10 DEF vars, laneVars, txVars, workerVars
<1> QED BY <1>1, <1>2, <1>3, <1>4, <1>5, <1>6, <1>7, <1>8, <1>9, <1>10 DEF Next, TryEnqueue, Worker, Ended

Somewhere(k) == InHand(k) \/ InChannel(k) \/ InMap(k) \/ InScreener(k)

LEMMA OrderStep ==
  TypeInv /\ HandsInv /\ NotFromTheFuture /\ OrderInv /\ [Next]_vars => OrderInv'
<1> SUFFICES ASSUME TypeInv, HandsInv, NotFromTheFuture, OrderInv, [Next]_vars,
                    ~spilled', workerPc' # "failed"
             PROVE  overflow' = {} /\ \A k \in Keys : Somewhere(k)'
  BY DEF OrderInv, Somewhere
<1>0. /\ queue \in Seq(Updates) /\ txUpdate \in SUBSET Updates
      /\ overflow \in SUBSET Updates /\ pending \in SUBSET Updates
      /\ quote \in [Keys -> Nat] /\ offered \in [Keys -> Nat]
      /\ OnePerKey(pending) /\ \A u, v \in txUpdate : u = v
  BY DEF TypeInv, TypeOK
<1>00. ~spilled /\ workerPc # "failed"
  <2>1. ASSUME NEW k \in Keys, Offer(k) PROVE ~spilled /\ workerPc # "failed"
    BY <2>1 DEF Offer, workerVars
  <2>2. TryEnqueue \/ TxClose => ~spilled /\ workerPc # "failed"
    BY DEF TryEnqueue, TxReserve, TxTrySend, TxUndo, TxPark, TxClose, workerVars
  <2>3. Worker => ~spilled /\ workerPc # "failed"
    BY DEF Worker, WorkerStart, WorkerRecv, WorkerDecrement, WorkerDrain, WorkerTick,
           WorkerClosed, WorkerApply
  <2>4. UNCHANGED vars => ~spilled /\ workerPc # "failed"
    BY DEF vars, workerVars
  <2> QED BY <2>1, <2>2, <2>3, <2>4 DEF Next, Ended
<1>000. overflow = {} /\ \A k \in Keys : Somewhere(k)
  BY <1>00 DEF OrderInv, Somewhere
<1> DEFINE Kept == overflow' = {} /\ \A k \in Keys : Somewhere(k)'
<1>1. ASSUME NEW key \in Keys, Offer(key) PROVE Kept
  <2>1. /\ UNCHANGED <<queue, overflow, pending, quote>> /\ txUpdate = {}
        /\ offered' = [offered EXCEPT ![key] = @ + 1]
        /\ txUpdate' = {[key |-> key, ver |-> offered'[key]]}
    BY <1>1 DEF Offer, laneVars, workerVars, HandsInv
  <2>2. InHand(key)'
    BY <2>1 DEF InHand
  <2>3. ASSUME NEW k \in Keys, k # key PROVE Somewhere(k)'
    <3>1. offered'[k] = offered[k] /\ ~InHand(k)
      BY <1>0, <2>1, <2>3 DEF InHand
    <3>2. Queued(k)' = Queued(k) /\ Mapped(k)' = Mapped(k)
      BY <2>1 DEF Queued, Mapped
    <3> QED BY <1>000, <2>1, <3>1, <3>2 DEF Somewhere, InChannel, InMap, InScreener
  <2> QED BY <1>000, <2>1, <2>2, <2>3 DEF Somewhere
<1>2. ASSUME UNCHANGED <<queue, overflow, pending, quote, txUpdate, offered>> PROVE Kept
  <2>1. \A k \in Keys : Queued(k)' = Queued(k) /\ Mapped(k)' = Mapped(k)
    BY <1>2 DEF Queued, Mapped
  <2> QED BY <1>000, <1>2, <2>1 DEF Somewhere, InHand, InChannel, InMap, InScreener
<1>3. CASE TxReserve \/ TxClose
  BY <1>2, <1>3 DEF TxReserve, TxClose, workerVars, laneVars
<1>4. CASE TxTrySend
  <2>1. CASE UNCHANGED <<queue, txUpdate>>
    BY <1>2, <1>4, <2>1 DEF TxTrySend, workerVars
  <2>2. ASSUME NEW u \in txUpdate, queue' = Append(queue, u) PROVE Kept
    <3>1. UNCHANGED <<overflow, pending, quote, offered>>
      BY <1>4 DEF TxTrySend, workerVars
    <3>2. DOMAIN queue = 1 .. Len(queue) /\ DOMAIN queue' = 1 .. Len(queue) + 1 /\ Len(queue) \in Nat
      BY <1>0, <2>2
    <3>3. queue'[Len(queue) + 1] = u /\ \A i \in DOMAIN queue : queue'[i] = queue[i]
      BY <1>0, <2>2, <3>2
    <3>4. u.ver = offered[u.key] /\ u.key \in Keys
      BY <1>0 DEF NotFromTheFuture, Updates
    <3>5. InChannel(u.key)'
      BY <3>1, <3>2, <3>3, <3>4 DEF InChannel, Queued
    <3>6. ASSUME NEW k \in Keys, k # u.key PROVE Somewhere(k)'
      <4>1. Queued(k)' = Queued(k) /\ Mapped(k)' = Mapped(k)
        BY <3>1, <3>2, <3>3, <3>6 DEF Queued, Mapped
      <4>2. ~InHand(k)
        BY <1>0, <3>6 DEF InHand
      <4>3. InChannel(k) => InChannel(k)'
        BY <3>1, <3>3, <4>1 DEF InChannel, Queued
      <4> QED BY <1>000, <3>1, <4>1, <4>2, <4>3 DEF Somewhere, InMap, InScreener
    <3> QED BY <1>000, <3>1, <3>5, <3>6 DEF Somewhere
  <2> QED BY <1>4, <2>1, <2>2 DEF TxTrySend
<1>5. CASE TxUndo
  <2>1. txPc # "closed"
    BY <1>00 DEF HandsInv
  <2> QED BY <1>2, <1>5, <2>1 DEF TxUndo, workerVars
<1>6. CASE TxPark
  BY <1>6 DEF TxPark
<1>7. CASE WorkerStart
  BY <1>2, <1>7 DEF WorkerStart, txVars
<1>8. CASE WorkerRecv
  <2> DEFINE u == Head(queue)
  <2>1. queue # <<>> /\ queue' = Tail(queue) /\ pending' = Inserted(pending, {u})
        /\ UNCHANGED <<overflow, txUpdate, offered, quote>>
    BY <1>8 DEF WorkerRecv, txVars
  <2>2. 1 \in DOMAIN queue /\ queue[1] = u /\ u \in Updates
    BY <1>0, <2>1
  <2>3. /\ DOMAIN queue \in SUBSET Int /\ \A i \in DOMAIN queue : i >= 1
        /\ \A i \in DOMAIN queue' : i + 1 \in DOMAIN queue /\ queue'[i] = queue[i + 1]
        /\ \A i \in DOMAIN queue : i # 1 => i - 1 \in DOMAIN queue' /\ queue'[i - 1] = queue[i]
        /\ DOMAIN queue' \in SUBSET Int /\ \A i \in DOMAIN queue' : i >= 1
    BY <1>0, <2>1
  <2>4. \A v \in pending' : v = u \/ (v \in pending /\ v.key # u.key)
    BY <2>1 DEF Inserted, Replaced
  <2>5. u \in pending' /\ \A v \in pending : v.key # u.key => v \in pending'
    BY <2>1 DEF Inserted, Replaced
  <2> HIDE DEF u
  <2>6. ASSUME NEW k \in Keys PROVE Somewhere(k)'
    <3>1. CASE InHand(k)
      BY <2>1, <3>1 DEF Somewhere, InHand
    <3>2. CASE InChannel(k)
      <4>1. PICK i \in Queued(k) : queue[i].ver = offered[k] /\ \A j \in Queued(k) : j <= i
        BY <3>2 DEF InChannel
      <4>2. CASE i = 1
        <5>1. u.key = k /\ u.ver = offered'[k]
          BY <2>1, <2>2, <4>1, <4>2 DEF Queued
        <5>2. \A j \in Queued(k)' : j + 1 \in Queued(k) /\ j \in Int /\ j >= 1
          BY <2>3 DEF Queued
        <5>3. Queued(k)' = {}
          BY <4>1, <4>2, <5>2
        <5> QED BY <2>5, <5>1, <5>3 DEF Somewhere, InMap, Mapped
      <4>3. CASE i # 1
        <5>1. i - 1 \in Queued(k)' /\ queue'[i - 1].ver = offered'[k]
          BY <2>1, <2>3, <4>1, <4>3 DEF Queued
        <5>2. \A j \in Queued(k)' : j + 1 \in Queued(k) /\ j \in Int /\ i \in Int
          BY <2>3 DEF Queued
        <5>3. \A j \in Queued(k)' : j <= i - 1
          BY <4>1, <5>2
        <5> QED BY <5>1, <5>3 DEF Somewhere, InChannel
      <4> QED BY <4>2, <4>3
    <3>3. CASE Queued(k) = {}
      <4>1. k # u.key
        BY <2>2, <3>3 DEF Queued
      <4>2. Queued(k)' = {}
        BY <2>3, <3>3 DEF Queued
      <4>3. Mapped(k)' = Mapped(k)
        BY <2>4, <2>5, <4>1 DEF Mapped
      <4> QED BY <1>000, <2>1, <3>1, <3>2, <4>2, <4>3 DEF Somewhere, InMap, InScreener
    <3> QED BY <1>000, <3>1, <3>2, <3>3 DEF Somewhere, InMap, InScreener
  <2> QED BY <1>000, <2>1, <2>6
<1>9. CASE WorkerDecrement
  BY <1>2, <1>9 DEF WorkerDecrement, txVars
<1>10. CASE WorkerDrain \/ WorkerTick \/ WorkerClosed
  <2>1. pending' = pending /\ overflow' = overflow
    BY <1>10, <1>000, NothingInserted DEF WorkerDrain, WorkerTick, WorkerClosed, DrainOverflow
  <2> QED BY <1>2, <1>10, <2>1 DEF WorkerDrain, WorkerTick, WorkerClosed, txVars
<1>11. CASE WorkerApply
  <2>1. UNCHANGED <<queue, overflow, txUpdate, offered>>
    BY <1>11 DEF WorkerApply, laneVars, txVars
  <2>2. CASE UNCHANGED <<pending, quote>>
    BY <1>2, <2>1, <2>2
  <2>3. ASSUME NEW u \in pending, pending' = pending \ {u}, ApplyUpdate(u) PROVE Kept
    <3>1. u.key \in Keys /\ u.ver \in Nat
      BY <1>0 DEF Updates
    <3>2. \A k \in Keys : Queued(k)' = Queued(k)
      BY <2>1 DEF Queued
    <3>3. ASSUME NEW k \in Keys, k # u.key PROVE Somewhere(k)'
      <4>1. Mapped(k)' = Mapped(k) /\ quote'[k] = quote[k]
        BY <1>0, <2>3, <3>1, <3>3 DEF Mapped, ApplyUpdate
      <4> QED BY <1>000, <2>1, <3>2, <4>1 DEF Somewhere, InHand, InChannel, InMap, InScreener
    <3>4. Somewhere(u.key)'
      <4>1. Mapped(u.key) = {u} /\ Mapped(u.key)' = {}
        BY <1>0, <2>3 DEF Mapped, OnePerKey
      <4>2. CASE InHand(u.key) \/ InChannel(u.key)
        BY <2>1, <3>1, <3>2, <4>2 DEF Somewhere, InHand, InChannel
      <4>3. CASE InMap(u.key)
        <5>1. u.ver = offered[u.key]
          BY <4>1, <4>3 DEF InMap
        <5>2. quote'[u.key] = u.ver
          BY <1>0, <2>3, <3>1, <5>1 DEF ApplyUpdate, Accepts, NotFromTheFuture
        <5> QED BY <2>1, <3>1, <3>2, <4>1, <4>3, <5>1, <5>2 DEF Somewhere, InMap, InScreener
      <4> QED BY <1>000, <3>1, <4>1, <4>2, <4>3 DEF Somewhere, InScreener
    <3> QED BY <1>000, <2>1, <3>3, <3>4
  <2> QED BY <1>11, <2>2, <2>3 DEF WorkerApply
<1>12. CASE UNCHANGED vars
  BY <1>2, <1>12 DEF vars, laneVars, txVars, workerVars
<1> QED BY <1>1, <1>3, <1>4, <1>5, <1>6, <1>7, <1>8, <1>9, <1>10, <1>11, <1>12
        DEF Next, TryEnqueue, Worker, Ended

(* While the overflow lane is not used, the channel, the batching and the   *)
(* coalescing lose no latest value: when nothing is on its way the screener *)
(* has the last update of every key.                                        *)
THEOREM LatestWinsInOrder == Spec => []LatestWinsWithoutOverflow
<1>1. Init => LatestInv
  <2>1. Init => HandsInv /\ NotFromTheFuture
    BY DEF Init, HandsInv, NotFromTheFuture
  <2>2. Init => OrderInv
    BY DEF Init, OrderInv, InScreener, Queued, Mapped
  <2> QED BY <2>1, <2>2 DEF LatestInv
<1>2. TypeInv /\ LatestInv /\ [Next]_vars => LatestInv'
  BY HandsStep, FutureStep, OrderStep DEF LatestInv
<1>3. LatestInv => LatestWinsWithoutOverflow
  BY DEF LatestInv, HandsInv, OrderInv, LatestWinsWithoutOverflow, Quiescent,
         InHand, InChannel, InMap, InScreener, Queued, Mapped
<1> QED BY <1>1, <1>2, <1>3, TypeInit, TypeStep, PTL DEF Spec

-----------------------------------------------------------------------------
(* Where every update offered is.                                           *)

AllOffered == {kv \in Keys \X (1 .. MaxUpdates) : kv[2] <= offered[kv[1]]}

(* What was offered can be counted.                                         *)
AccountInv ==
  /\ IsFiniteSet(AllOffered) /\ \A k \in Keys : offered[k] <= MaxUpdates
  /\ EveryUpdateAccounted

(* Inserting moves each update into the map; what it replaces is counted.   *)
LEMMA InsertedMoves ==
  ASSUME NEW map, IsFiniteSet(map), NEW new, IsFiniteSet(new), NEW count \in Nat
  PROVE  LET total == count + Cardinality(Replaced(map, new))
         IN  /\ Cardinality(Inserted(map, new)) \in Nat /\ total \in Nat
             /\ Cardinality(Inserted(map, new)) + total = Cardinality(map) + Cardinality(new) + count
<1> DEFINE gone == Replaced(map, new)
           kept == map \ gone
<1>1. gone \in SUBSET map /\ map \cap gone = gone /\ kept \cap new = {}
  BY DEF Replaced
<1>2. IsFiniteSet(gone)
  BY <1>1, FS_Subset
<1> HIDE DEF gone
<1>3. IsFiniteSet(kept) /\ Cardinality(kept) = Cardinality(map) - Cardinality(gone)
  BY <1>1, FS_Difference
<1> HIDE DEF kept
<1>4. /\ IsFiniteSet(kept \cup new)
      /\ Cardinality(kept \cup new) = Cardinality(kept) + Cardinality(new) - Cardinality(kept \cap new)
  BY <1>3, FS_Union
<1>5. Cardinality(kept \cap new) = 0
  BY <1>1, FS_EmptySet
<1>6. /\ Cardinality(map) \in Nat /\ Cardinality(new) \in Nat /\ Cardinality(gone) \in Nat
      /\ Cardinality(kept) \in Nat /\ Cardinality(kept \cup new) \in Nat
  BY <1>2, <1>3, <1>4, FS_CardinalityType
<1>7. Cardinality(kept \cup new) + Cardinality(gone) = Cardinality(map) + Cardinality(new)
  BY <1>3, <1>4, <1>5, <1>6
<1>8. Inserted(map, new) = kept \cup new
  BY DEF Inserted, kept, gone
<1> QED BY <1>6, <1>7, <1>8 DEF gone

(* The updates of a key are as many as their last version says.             *)
LEMMA OfferedOfKey ==
  ASSUME TypeInv, AccountInv, NEW k \in Keys
  PROVE  TotalOffered \in Nat /\ offered[k] <= TotalOffered
<1> DEFINE n == offered[k]
           column == {<<k, v>> : v \in 1 .. n}
           f == [v \in 1 .. n |-> <<k, v>>]
<1>1. n \in Nat /\ n <= MaxUpdates /\ MaxUpdates \in Nat
  BY BoundAssumption DEF TypeInv, TypeOK, AccountInv
<1>2. column \in SUBSET AllOffered
  <2>1. ASSUME NEW v \in 1 .. n PROVE <<k, v>> \in AllOffered
    <3>1. v \in 1 .. MaxUpdates /\ v <= n
      BY <1>1
    <3> QED BY <3>1 DEF AllOffered
  <2> QED BY <2>1
<1>3. ExistsBijection(1 .. n, column)
  <2>1. f \in [1 .. n -> column] /\ \A v \in 1 .. n : f[v] = <<k, v>>
    OBVIOUS
  <2>2. \A c \in column : \E v \in 1 .. n : f[v] = c
    OBVIOUS
  <2>3. \A v, w \in 1 .. n : f[v] = f[w] => v = w
    OBVIOUS
  <2> HIDE DEF f, n, column
  <2>4. f \in Bijection(1 .. n, column)
    BY <2>1, <2>2, <2>3 DEF Bijection, Injection, Surjection, IsInjective
  <2> QED BY <2>4 DEF ExistsBijection
<1> HIDE DEF n, column
<1>4. IsFiniteSet(1 .. n) /\ Cardinality(1 .. n) = n
  BY <1>1, FS_Interval
<1>5. Cardinality(column) = n
  BY <1>3, <1>4, FS_Bijection
<1>6. IsFiniteSet(AllOffered) /\ TotalOffered = Cardinality(AllOffered)
  BY DEF AccountInv, TotalOffered, AllOffered
<1>7. Cardinality(column) <= Cardinality(AllOffered) /\ Cardinality(AllOffered) \in Nat
  BY <1>2, <1>6, FS_Subset, FS_CardinalityType
<1> QED BY <1>5, <1>6, <1>7 DEF n

LEMMA OffersOne ==
  ASSUME TypeInv, AccountInv, NEW k \in Keys, Offer(k)
  PROVE  /\ IsFiniteSet(AllOffered') /\ TotalOffered' = TotalOffered + 1
         /\ \A j \in Keys : offered'[j] <= MaxUpdates
<1> DEFINE next == offered[k] + 1
           pair == <<k, next>>
<1>1. /\ offered \in [Keys -> Nat] /\ MaxUpdates \in Nat
      /\ \A j \in Keys : offered[j] <= MaxUpdates /\ offered[j] \in Nat
  BY BoundAssumption DEF TypeInv, TypeOK, AccountInv
<1>2. offered[k] < MaxUpdates
  BY <1>1, OfferedOfKey DEF Offer
<1>3. \A j \in Keys : offered'[j] = IF j = k THEN next ELSE offered[j]
  BY <1>1 DEF Offer
<1>4. next \in 1 .. MaxUpdates /\ ~(next <= offered[k])
      /\ \A v \in 1 .. MaxUpdates : v <= next <=> v <= offered[k] \/ v = next
  BY <1>1, <1>2
<1> HIDE DEF next
<1>5. pair \notin AllOffered
  BY <1>4 DEF AllOffered
<1>6. AllOffered' = AllOffered \cup {pair}
  <2>1. ASSUME NEW j \in Keys, NEW v \in 1 .. MaxUpdates
        PROVE  v <= offered'[j] <=> v <= offered[j] \/ <<j, v>> = pair
    BY <1>3, <1>4
  <2>2. \A kv \in Keys \X (1 .. MaxUpdates) :
          kv[2] <= offered'[kv[1]] <=> kv[2] <= offered[kv[1]] \/ kv = pair
    BY <2>1
  <2>3. pair \in Keys \X (1 .. MaxUpdates)
    BY <1>4
  <2> HIDE DEF pair
  <2> QED BY <2>2, <2>3 DEF AllOffered
<1> HIDE DEF pair
<1>7. IsFiniteSet(AllOffered)
  BY DEF AccountInv
<1>8. /\ IsFiniteSet(AllOffered \cup {pair})
      /\ Cardinality(AllOffered \cup {pair}) = Cardinality(AllOffered) + 1
  BY <1>5, <1>7, FS_AddElement
<1>9. TotalOffered = Cardinality(AllOffered) /\ TotalOffered' = Cardinality(AllOffered')
  BY DEF TotalOffered, AllOffered
<1>10. \A j \in Keys : offered'[j] <= MaxUpdates
  BY <1>1, <1>3, <1>4
<1> QED BY <1>6, <1>8, <1>9, <1>10

LEMMA AccountStep == TypeInv /\ TypeInv' /\ HandsInv /\ AccountInv /\ [Next]_vars => AccountInv'
<1> SUFFICES ASSUME TypeInv, TypeInv', HandsInv, AccountInv, [Next]_vars PROVE AccountInv'
  OBVIOUS
<1> DEFINE lane == Len(queue)
<1>0. /\ IsFiniteSet(txUpdate) /\ IsFiniteSet(overflow) /\ IsFiniteSet(pending)
      /\ Cardinality(txUpdate) \in Nat /\ Cardinality(overflow) \in Nat /\ Cardinality(pending) \in Nat
      /\ queue \in Seq(Updates) /\ lane \in Nat /\ applied \in Nat /\ dropped \in Nat
      /\ TotalOffered \in Nat
  <2>1. IsFiniteSet(txUpdate) /\ IsFiniteSet(overflow) /\ IsFiniteSet(pending)
    BY DEF TypeInv
  <2>2. TotalOffered = Cardinality(AllOffered) /\ IsFiniteSet(AllOffered)
    BY DEF TotalOffered, AllOffered, AccountInv
  <2>3. queue \in Seq(Updates) /\ applied \in Nat /\ dropped \in Nat
    BY DEF TypeInv, TypeOK
  <2> QED BY <2>1, <2>2, <2>3, FS_CardinalityType
<1>00. /\ Cardinality(txUpdate) \in Nat /\ Cardinality(overflow) \in Nat /\ Cardinality(pending) \in Nat
       /\ lane \in Nat /\ applied \in Nat /\ dropped \in Nat
  BY <1>0
(* The step moves one update, or some, from one place to another.           *)
<1>1. ASSUME offered' = offered,
             workerPc' # "failed" => workerPc # "failed",
             workerPc # "failed" /\ workerPc' # "failed" =>
               Cardinality(txUpdate') + lane' + Cardinality(overflow') + Cardinality(pending')
                   + applied' + dropped'
                 = Cardinality(txUpdate) + lane + Cardinality(overflow) + Cardinality(pending)
                   + applied + dropped
      PROVE  AccountInv'
  <2>1. AllOffered' = AllOffered /\ TotalOffered' = TotalOffered
    BY <1>1 DEF AllOffered, TotalOffered
  <2>2. IsFiniteSet(AllOffered') /\ \A k \in Keys : offered'[k] <= MaxUpdates
    BY <1>1, <2>1 DEF AccountInv
  <2>3. EveryUpdateAccounted'
    BY <1>1, <2>1 DEF AccountInv, EveryUpdateAccounted
  <2> QED BY <2>2, <2>3 DEF AccountInv
<1>2. ASSUME NEW k \in Keys, Offer(k) PROVE AccountInv'
  <2>1. txUpdate = {} /\ txUpdate' = {[key |-> k, ver |-> offered'[k]]}
    BY <1>2 DEF Offer, HandsInv
  <2>2. Cardinality(txUpdate) = 0 /\ Cardinality(txUpdate') = 1
    BY <2>1, FS_EmptySet, FS_Singleton
  <2>3. UNCHANGED <<queue, overflow, pending, applied, dropped, workerPc>>
    BY <1>2 DEF Offer, laneVars, workerVars
  <2>4. EveryUpdateAccounted'
    <3>1. TotalOffered' = TotalOffered + 1
      BY <1>2, OffersOne DEF AccountInv
    <3>2. workerPc # "failed" =>
            TotalOffered = 0 + lane + Cardinality(overflow) + Cardinality(pending) + applied + dropped
      BY <2>2 DEF AccountInv, EveryUpdateAccounted
    <3>3. workerPc # "failed" =>
            TotalOffered + 1
              = 1 + lane + Cardinality(overflow) + Cardinality(pending) + applied + dropped
      <4> HIDE DEF lane
      <4> QED BY <1>00, <3>2
    <3> QED BY <2>2, <2>3, <3>1, <3>3 DEF EveryUpdateAccounted
  <2> QED BY <1>2, <2>4, OffersOne DEF AccountInv
<1>3. CASE UNCHANGED <<offered, txUpdate, queue, overflow, pending, applied, dropped, workerPc>>
  BY <1>1, <1>3
<1>4. CASE TxReserve \/ TxClose
  BY <1>3, <1>4 DEF TxReserve, TxClose, laneVars, workerVars
<1>5. CASE TxTrySend
  <2>1. UNCHANGED <<offered, overflow, pending, applied, dropped, workerPc>>
    BY <1>5 DEF TxTrySend, workerVars
  <2>2. CASE UNCHANGED <<queue, txUpdate>>
    BY <1>3, <2>1, <2>2
  <2>3. ASSUME NEW u \in txUpdate, queue' = Append(queue, u), txUpdate' = {} PROVE AccountInv'
    <3>1. txUpdate = {u}
      BY <2>3 DEF TypeInv
    <3>2. Cardinality(txUpdate) = 1 /\ Cardinality(txUpdate') = 0
      BY <2>3, <3>1, FS_EmptySet, FS_Singleton
    <3>3. lane' = lane + 1
      <4>1. u \in Updates
        BY <2>3 DEF TypeInv, TypeOK
      <4> QED BY <1>0, <2>3, <4>1
    <3> QED BY <1>0, <1>1, <2>1, <3>2, <3>3
  <2> QED BY <1>5, <2>2, <2>3 DEF TxTrySend
<1>6. CASE TxUndo
  <2>1. UNCHANGED <<offered, queue, overflow, pending, applied, workerPc>>
    BY <1>6 DEF TxUndo, workerVars
  <2>2. CASE UNCHANGED <<dropped, txUpdate>>
    BY <1>3, <2>1, <2>2
  <2>3. CASE txPc = "closed"
    BY <1>1, <2>1, <2>3 DEF HandsInv
  <2> QED BY <1>6, <2>2, <2>3 DEF TxUndo
<1>7. CASE TxPark
  <2>1. UNCHANGED <<offered, queue, pending, applied, workerPc>>
    BY <1>7 DEF TxPark, workerVars
  <2>2. /\ overflow' = Inserted(overflow, txUpdate) /\ txUpdate' = {}
        /\ dropped' = dropped + Cardinality(Replaced(overflow, txUpdate))
    BY <1>7 DEF TxPark
  <2>3. Cardinality(txUpdate') = 0
    BY <2>2, FS_EmptySet
  <2>4. Cardinality(overflow') + dropped' = Cardinality(overflow) + Cardinality(txUpdate) + dropped
        /\ Cardinality(overflow') \in Nat /\ dropped' \in Nat
    BY <1>0, <2>2, InsertedMoves
  <2>5. Cardinality(txUpdate') + lane + Cardinality(overflow') + Cardinality(pending)
            + applied + dropped'
          = Cardinality(txUpdate) + lane + Cardinality(overflow) + Cardinality(pending)
            + applied + dropped
    <3> HIDE DEF lane
    <3> QED BY <1>00, <2>3, <2>4
  <2> QED BY <1>1, <2>1, <2>5
<1>8. CASE WorkerStart
  <2>1. UNCHANGED <<offered, txUpdate, overflow, pending, applied, dropped>> /\ workerPc # "failed"
    BY <1>8 DEF WorkerStart, txVars
  <2>2. queue' = queue \/ workerPc' = "failed"
    BY <1>8 DEF WorkerStart
  <2> QED BY <1>1, <2>1, <2>2
<1>9. CASE WorkerRecv
  <2> DEFINE u == Head(queue)
  <2>1. /\ UNCHANGED <<offered, txUpdate, overflow, applied>> /\ workerPc # "failed"
        /\ queue # << >> /\ queue' = Tail(queue)
        /\ pending' = Inserted(pending, {u})
        /\ dropped' = dropped + Cardinality(Replaced(pending, {u}))
    BY <1>9 DEF WorkerRecv, txVars
  <2>2. lane = lane' + 1 /\ lane' \in Nat
    BY <1>0, <2>1
  <2> HIDE DEF u
  <2>3. IsFiniteSet({u}) /\ Cardinality({u}) = 1
    BY FS_Singleton
  <2>4. Cardinality(pending') + dropped' = Cardinality(pending) + 1 + dropped
        /\ Cardinality(pending') \in Nat /\ dropped' \in Nat
    BY <1>0, <2>1, <2>3, InsertedMoves
  <2>5. Cardinality(txUpdate) + lane' + Cardinality(overflow) + Cardinality(pending')
            + applied + dropped'
          = Cardinality(txUpdate) + lane + Cardinality(overflow) + Cardinality(pending)
            + applied + dropped
    <3> HIDE DEF lane
    <3> QED BY <1>00, <2>2, <2>4
  <2> QED BY <1>1, <2>1, <2>5
<1>10. CASE WorkerDecrement
  BY <1>1, <1>10 DEF WorkerDecrement, txVars
<1>11. ASSUME DrainOverflow, UNCHANGED <<queue, queueDepth, txVars, quote, applied, spilled>>,
              workerPc # "failed"
       PROVE  AccountInv'
  <2>1. UNCHANGED <<offered, txUpdate, queue, applied>>
    BY <1>11 DEF txVars
  <2>2. /\ pending' = Inserted(pending, overflow) /\ overflow' = {}
        /\ dropped' = dropped + Cardinality(Replaced(pending, overflow))
    BY <1>11 DEF DrainOverflow
  <2>3. Cardinality(overflow') = 0
    BY <2>2, FS_EmptySet
  <2>4. Cardinality(pending') + dropped' = Cardinality(pending) + Cardinality(overflow) + dropped
        /\ Cardinality(pending') \in Nat /\ dropped' \in Nat
    BY <1>0, <2>2, InsertedMoves
  <2>5. Cardinality(txUpdate) + lane + Cardinality(overflow') + Cardinality(pending')
            + applied + dropped'
          = Cardinality(txUpdate) + lane + Cardinality(overflow) + Cardinality(pending)
            + applied + dropped
    <3> HIDE DEF lane
    <3> QED BY <1>00, <2>3, <2>4
  <2> QED BY <1>1, <1>11, <2>1, <2>5
<1>12. CASE WorkerDrain \/ WorkerTick \/ WorkerClosed
  BY <1>11, <1>12 DEF WorkerDrain, WorkerTick, WorkerClosed
<1>13. CASE WorkerApply
  <2>1. /\ UNCHANGED <<offered, txUpdate, queue, overflow, dropped>>
        /\ workerPc # "failed" /\ workerPc' # "failed"
    BY <1>13 DEF WorkerApply, laneVars, txVars
  <2>2. CASE UNCHANGED <<pending, applied>>
    BY <1>1, <2>1, <2>2
  <2>3. ASSUME NEW u \in pending, pending' = pending \ {u}, applied' = applied + 1 PROVE AccountInv'
    <3>1. Cardinality(pending') = Cardinality(pending) - 1 /\ Cardinality(pending) > 0
      <4>1. IsFiniteSet(pending \ {u}) /\ Cardinality(pending \ {u}) = Cardinality(pending) - 1
        BY <1>0, FS_RemoveElement
      <4>2. Cardinality(pending \ {u}) \in Nat
        BY <4>1, FS_CardinalityType
      <4> QED BY <1>0, <2>3, <4>1, <4>2
    <3>2. lane' = lane
      BY <2>1
    <3>3. Cardinality(txUpdate) + lane + Cardinality(overflow) + Cardinality(pending')
              + applied' + dropped
            = Cardinality(txUpdate) + lane + Cardinality(overflow) + Cardinality(pending)
              + applied + dropped
      <4> HIDE DEF lane
      <4> QED BY <1>00, <2>3, <3>1
    <3> QED BY <1>1, <2>1, <3>2, <3>3
  <2> QED BY <1>13, <2>2, <2>3 DEF WorkerApply, ApplyUpdate
<1>14. CASE UNCHANGED vars
  BY <1>3, <1>14 DEF vars, laneVars, txVars, workerVars
<1> QED BY <1>2, <1>4, <1>5, <1>6, <1>7, <1>8, <1>9, <1>10, <1>12, <1>13, <1>14
        DEF Next, TryEnqueue, Worker, Ended

(* No update vanishes and none is counted twice: unless the worker never    *)
(* started, whatever was offered to the control plane is in one lane, was   *)
(* handed to the screener, or was counted once as replaced.                 *)
THEOREM UpdatesAccounted == Spec => []EveryUpdateAccounted
<1>1. Init => HandsInv /\ AccountInv
  <2> SUFFICES ASSUME Init PROVE HandsInv /\ AccountInv
    OBVIOUS
  <2>1. AllOffered = {}
    <3>1. \A kv \in Keys \X (1 .. MaxUpdates) : ~(kv[2] <= offered[kv[1]])
      BY BoundAssumption DEF Init
    <3> QED BY <3>1 DEF AllOffered
  <2>2. IsFiniteSet(AllOffered) /\ TotalOffered = 0 /\ Cardinality({}) = 0
    BY <2>1, FS_EmptySet DEF TotalOffered, AllOffered
  <2>3. EveryUpdateAccounted
    BY <2>2 DEF Init, EveryUpdateAccounted
  <2>4. \A k \in Keys : offered[k] <= MaxUpdates
    BY BoundAssumption DEF Init
  <2> QED BY <2>2, <2>3, <2>4 DEF Init, HandsInv, AccountInv
<1>2. TypeInv /\ TypeInv' /\ HandsInv /\ AccountInv /\ [Next]_vars => HandsInv' /\ AccountInv'
  BY HandsStep, AccountStep
<1>3. AccountInv => EveryUpdateAccounted
  BY DEF AccountInv
<1> QED BY <1>1, <1>2, <1>3, TypeInit, TypeStep, PTL DEF Spec

-----------------------------------------------------------------------------
(* SignalLoop.                                                              *)

(* A non-empty set of natural numbers has a least element: a scan that     *)
(* covers a set bit finds one.                                             *)
LEMMA LeastExists ==
  ASSUME NEW S \in SUBSET Nat, S # {}
  PROVE  Lowest(S) # {}
<1>1. PICK x \in S : \A y \in S : ~(<<y, x>> \in OpToRel(<, Nat))
  BY WFMin, NatLessThanWellFounded
<1>2. \A y \in S : ~(y < x)
  BY <1>1 DEF OpToRel
<1>3. QED
  BY <1>2 DEF Lowest

LEMMA SymbolsFinite ==
  /\ IsFiniteSet(SymbolIds) /\ Cardinality(SymbolIds) = NumSymbols
  /\ SymbolIds \subseteq Nat
  BY FS_Interval, SizeAssumption DEF SymbolIds

(* Sets of symbols are finite and not larger than NumSymbols.              *)
LEMMA SymbolSet ==
  ASSUME NEW S \in SUBSET SymbolIds
  PROVE  /\ IsFiniteSet(S) /\ Cardinality(S) \in 0 .. NumSymbols
         /\ S \in SUBSET Nat
<1>1. IsFiniteSet(S) /\ Cardinality(S) <= NumSymbols
  BY SymbolsFinite, FS_Subset
<1>2. Cardinality(S) \in Nat
  BY <1>1, FS_CardinalityType
<1>3. QED
  BY <1>1, <1>2, SymbolsFinite, SizeAssumption

(* Marking a batch adds to the count what it adds to the set.              *)
LEMMA MarkingCounts ==
  ASSUME NEW S \in SUBSET SymbolIds, NEW ids \in SUBSET SymbolIds
  PROVE  Cardinality(S \cup ids) = Cardinality(S) + Cardinality(ids \ S)
<1>1. IsFiniteSet(S) /\ IsFiniteSet(ids \ S)
  BY SymbolSet
<1>2. Cardinality(S) \in Nat /\ Cardinality(ids \ S) \in Nat
  BY SymbolSet
<1>3. S \cup (ids \ S) = S \cup ids /\ S \cap (ids \ S) = {}
  OBVIOUS
<1>4. Cardinality(S \cup (ids \ S))
        = Cardinality(S) + Cardinality(ids \ S) - Cardinality(S \cap (ids \ S))
  BY <1>1, FS_Union
<1>5. Cardinality(S \cap (ids \ S)) = 0
  BY <1>3, FS_EmptySet
<1>6. Cardinality(S \cup ids) = Cardinality(S) + Cardinality(ids \ S) - 0
  BY <1>3, <1>4, <1>5
<1>7. QED
  BY <1>2, <1>6

(* Every variable keeps its type, and no bit lies outside the words.       *)
THEOREM SignalTypes == SignalSpec => []SignalTypeOK
<1> USE SizeAssumption
<1>1. SignalInit => SignalTypeOK
  BY DEF SignalInit, SignalTypeOK, SymbolIds
<1>2. SignalTypeOK /\ [SignalNext]_signalVars => SignalTypeOK'
  <2> SUFFICES ASSUME SignalTypeOK, [SignalNext]_signalVars PROVE SignalTypeOK'
    OBVIOUS
  <2> USE DEF SignalTypeOK, setVars
  <2>1. ASSUME NEW side \in Sides, NEW ids \in SUBSET SymbolIds, ExchangeTick(side, ids)
        PROVE  SignalTypeOK'
    <3>1. /\ bits' = bits \cup ids /\ stages' = stages \cup ids
          /\ len' = len + Cardinality(ids \ bits) /\ gauge' = len' /\ cursor' = cursor
          /\ pc' = "signal" /\ budget' = Budget
          /\ health' = [health EXCEPT ![side] = "up"]
      BY <2>1 DEF ExchangeTick, StampStages, InsertAll, NewlySet
    <3>2. /\ words' \in words .. NumSymbols /\ \A id \in ids : WordOf(id) < words'
      BY <2>1 DEF ExchangeTick, StampStages, InsertAll, Lowest
    <3>3. Cardinality(ids \ bits) \in Nat
      BY SymbolSet
    <3>4. \A id \in ids \cup bits : WordOf(id) \in Nat
      BY DEF SymbolIds, WordOf
    <3>5. \A id \in bits' : (WordOf(id))' < words'
      BY <3>1, <3>2, <3>4 DEF WordOf
    <3>6. QED
      BY <3>1, <3>2, <3>3, <3>5
  <2>2. ASSUME NEW side \in Sides, ExchangeError(side) PROVE SignalTypeOK'
    BY <2>2 DEF ExchangeError, WordOf
  <2>3. CASE NothingPending
    BY <2>3 DEF NothingPending, WordOf
  <2>4. CASE CheckSymbol
    <3>1. PICK id \in Scan : Popped(id) /\ stages' = stages \ {id}
      BY <2>4 DEF CheckSymbol
    <3>2. id \in SymbolIds
      BY DEF Scan, Lowest, Ahead, Behind
    <3>3. id \in Nat
      BY <3>2 DEF SymbolIds
    <3>4. cursor' \in Nat /\ len' \in Nat /\ bits' = bits \ {id} /\ words' = words
      BY <3>1, <3>3 DEF Popped, Lowered
    <3>5. budget' \in 0 .. Budget /\ UNCHANGED <<gauge, health, pc>>
      BY <2>4 DEF CheckSymbol
    <3>6. \A b \in bits' : (WordOf(b))' < words'
      BY <3>4 DEF WordOf
    <3>7. QED
      BY <3>1, <3>4, <3>5, <3>6
  <2>5. CASE ScanExhausted
    BY <2>5 DEF ScanExhausted, PoppedNothing, WordOf
  <2>6. CASE BudgetExhausted
    BY <2>6 DEF BudgetExhausted, WordOf
  <2>7. CASE UNCHANGED signalVars
    BY <2>7 DEF signalVars, WordOf
  <2>8. QED
    BY <2>1, <2>2, <2>3, <2>4, <2>5, <2>6, <2>7 DEF SignalNext, HandleSignalTick
<1>3. QED
  BY <1>1, <1>2, PTL DEF SignalSpec

(* What a step does to the set, the count and the timestamps, whatever the *)
(* action: it marks a batch, pops one symbol, gives up or leaves them.     *)
LEMMA StepKinds ==
  ASSUME SignalTypeOK, [SignalNext]_signalVars
  PROVE  \/ \E ids \in SUBSET SymbolIds :
              /\ bits' = bits \cup ids /\ stages' = stages \cup ids
              /\ len' = len + Cardinality(ids \ bits)
         \/ \E id \in bits :
              bits' = bits \ {id} /\ stages' = stages \ {id} /\ len' = Lowered(len)
         \/ bits' = bits /\ stages' = stages /\ len' \in {0, len}
<1>1. ASSUME NEW side \in Sides, NEW ids \in SUBSET SymbolIds, ExchangeTick(side, ids)
      PROVE  bits' = bits \cup ids /\ stages' = stages \cup ids
             /\ len' = len + Cardinality(ids \ bits)
  BY <1>1 DEF ExchangeTick, StampStages, InsertAll, NewlySet
<1>2. ASSUME NEW side \in Sides, ExchangeError(side)
      PROVE  bits' = bits /\ stages' = stages /\ len' \in {0, len}
  BY <1>2 DEF ExchangeError, setVars
<1>3. CASE CheckSymbol
  <2>1. PICK id \in Scan : Popped(id) /\ stages' = stages \ {id}
    BY <1>3 DEF CheckSymbol
  <2>2. id \in bits
    BY DEF Scan, Lowest, Ahead, Behind
  <2>3. QED
    BY <2>1, <2>2 DEF Popped
<1>4. CASE NothingPending \/ ScanExhausted \/ BudgetExhausted \/ UNCHANGED signalVars
  BY <1>4 DEF NothingPending, ScanExhausted, BudgetExhausted, PoppedNothing, signalVars, setVars
<1>5. QED
  BY <1>1, <1>2, <1>3, <1>4 DEF SignalNext, HandleSignalTick

(* For every budget the count never exceeds the number of set bits.        *)
THEOREM NeverOverstated == SignalSpec => []BacklogNeverOverstated
<1>1. SignalInit => BacklogNeverOverstated
  BY FS_EmptySet DEF SignalInit, BacklogNeverOverstated
<1>2. SignalTypeOK /\ BacklogNeverOverstated /\ [SignalNext]_signalVars => BacklogNeverOverstated'
  <2> SUFFICES ASSUME SignalTypeOK, BacklogNeverOverstated, [SignalNext]_signalVars
               PROVE  len' <= Cardinality(bits')
    BY DEF BacklogNeverOverstated
  <2>1. /\ bits \in SUBSET SymbolIds /\ IsFiniteSet(bits) /\ Cardinality(bits) \in Nat
        /\ len \in Nat /\ len <= Cardinality(bits)
    BY SymbolSet DEF SignalTypeOK, BacklogNeverOverstated
  <2>2. ASSUME NEW ids \in SUBSET SymbolIds, bits' = bits \cup ids,
               len' = len + Cardinality(ids \ bits)
        PROVE  len' <= Cardinality(bits')
    <3>1. Cardinality(ids \ bits) \in Nat
      BY SymbolSet
    <3>2. Cardinality(bits') = Cardinality(bits) + Cardinality(ids \ bits)
      BY Zenon, <2>1, <2>2, MarkingCounts
    <3>3. QED
      BY <2>1, <2>2, <3>1, <3>2
  <2>3. ASSUME NEW id \in bits, bits' = bits \ {id}, len' = Lowered(len)
        PROVE  len' <= Cardinality(bits')
    <3>1. Cardinality(bits \ {id}) = Cardinality(bits) - 1 /\ Cardinality(bits \ {id}) \in Nat
      BY <2>1, FS_RemoveElement, FS_CardinalityType
    <3>2. QED
      BY <2>1, <2>3, <3>1 DEF Lowered
  <2>4. ASSUME bits' = bits, len' \in {0, len} PROVE len' <= Cardinality(bits')
    BY <2>1, <2>4
  <2>5. QED
    BY <2>2, <2>3, <2>4, StepKinds
<1>3. QED
  BY <1>1, <1>2, SignalTypes, PTL DEF SignalSpec

(* For every budget a symbol has timestamps exactly while it is pending.   *)
THEOREM StagesMatch == SignalSpec => []StagesMatchBacklog
<1>1. SignalInit => StagesMatchBacklog
  BY DEF SignalInit, StagesMatchBacklog
<1>2. SignalTypeOK /\ StagesMatchBacklog /\ [SignalNext]_signalVars => StagesMatchBacklog'
  BY StepKinds DEF StagesMatchBacklog
<1>3. QED
  BY <1>1, <1>2, SignalTypes, PTL DEF SignalSpec

(* A tick is under way: every pending symbol is at or above the cursor,    *)
(* the count is exact, and the budget left exceeds the number of pending   *)
(* symbols.  Between ticks nothing is pending and the cursor is rewound.   *)
DrainInv ==
  /\ SignalTypeOK
  /\ len = Cardinality(bits)
  /\ pc = "idle" => bits = {} /\ cursor = 0
  /\ pc = "signal" =>
       /\ \A id \in bits : id >= cursor
       /\ budget > Cardinality(bits)
       /\ cursor = 0 \/ cursor < TotalBits
       /\ bits = {} /\ budget = Budget => cursor = 0

(* While the cursor is below every set bit, a scan finds one.              *)
LEMMA ScanFinds ==
  ASSUME SignalTypeOK, bits # {}, \A id \in bits : id >= cursor,
         cursor = 0 \/ cursor < TotalBits
  PROVE  TotalBits # 0 /\ Scan = Lowest(bits) /\ Lowest(bits) # {}
<1> USE SizeAssumption
<1>1. bits \in SUBSET Nat /\ words \in Nat /\ cursor \in Nat
  BY SymbolsFinite DEF SignalTypeOK
<1>2. PICK id \in bits : WordOf(id) < words
  BY DEF SignalTypeOK
<1>3. WordOf(id) \in Nat
  BY <1>1 DEF WordOf
<1>4. words >= 1
  BY <1>1, <1>2, <1>3
<1>5. TotalBits \in Nat /\ TotalBits # 0
  BY <1>1, <1>4 DEF TotalBits
<1>6. cursor % TotalBits = cursor
  BY <1>1, <1>5
<1>7. Ahead(cursor) = bits
  BY DEF Ahead
<1>8. QED
  BY <1>1, <1>5, <1>6, <1>7, LeastExists DEF Scan

(* With a budget above the number of symbols, the count is exact at every  *)
(* step, every tick checks all pending symbols, and rewinds the cursor.    *)
THEOREM EveryTickDrains ==
  ASSUME Budget > NumSymbols
  PROVE  SignalSpec => [](BacklogExact /\ TickDrains)
<1> USE SizeAssumption
<1>1. SignalInit => DrainInv
  BY FS_EmptySet DEF SignalInit, DrainInv, SignalTypeOK, SymbolIds
<1>2. DrainInv /\ SignalTypeOK' /\ [SignalNext]_signalVars => DrainInv'
  <2> SUFFICES ASSUME DrainInv, SignalTypeOK', [SignalNext]_signalVars PROVE DrainInv'
    OBVIOUS
  <2>0. /\ SignalTypeOK /\ bits \in SUBSET SymbolIds /\ IsFiniteSet(bits)
        /\ Cardinality(bits) \in 0 .. NumSymbols /\ len = Cardinality(bits)
        /\ SymbolIds \subseteq Nat /\ cursor \in Nat /\ budget \in Nat
    BY SymbolSet, SymbolsFinite DEF DrainInv, SignalTypeOK
  <2>1. ASSUME NEW side \in Sides, NEW ids \in SUBSET SymbolIds, ExchangeTick(side, ids)
        PROVE  DrainInv'
    <3>1. /\ bits' = bits \cup ids /\ len' = len + Cardinality(ids \ bits)
          /\ cursor' = cursor /\ pc' = "signal" /\ budget' = Budget
      BY <2>1 DEF ExchangeTick, StampStages, InsertAll, NewlySet
    <3>2. cursor = 0
      BY <2>1 DEF ExchangeTick, StampStages, DrainInv
    <3>3. len' = Cardinality(bits')
      BY <2>0, <3>1, MarkingCounts
    <3>4. Cardinality(bits') \in 0 .. NumSymbols /\ bits' \in SUBSET Nat
      BY <2>0, <3>1, SymbolSet
    <3>5. Budget > Cardinality(bits')
      BY <3>4
    <3>6. QED
      BY <3>1, <3>2, <3>3, <3>4, <3>5 DEF DrainInv
  <2>2. ASSUME NEW side \in Sides, ExchangeError(side) PROVE DrainInv'
    <3>1. /\ bits = {} /\ cursor = 0 /\ pc' = "signal" /\ budget' = Budget
          /\ UNCHANGED setVars
      BY <2>2 DEF ExchangeError, DrainInv
    <3>2. Budget > Cardinality(bits)
      BY <2>0
    <3>3. QED
      BY <2>0, <3>1, <3>2 DEF DrainInv, setVars, TotalBits
  <2>3. CASE NothingPending
    <3>1. len = 0 /\ budget = Budget /\ pc = "signal" /\ pc' = "idle" /\ UNCHANGED setVars
      BY <2>3 DEF NothingPending
    <3>2. bits = {}
      BY <2>0, <3>1, FS_EmptySet
    <3>3. cursor = 0
      BY <3>1, <3>2 DEF DrainInv
    <3>4. QED
      BY <2>0, <3>1, <3>2, <3>3 DEF DrainInv, setVars
  <2>4. CASE CheckSymbol
    <3>1. PICK id \in Scan : Popped(id)
      BY <2>4 DEF CheckSymbol
    <3>2. /\ pc = "signal" /\ pc' = "signal" /\ len # 0 /\ budget' = budget - 1
          /\ budget > 0
      BY <2>4 DEF CheckSymbol, InLoop, NothingToPop
    <3>3. bits # {}
      BY <2>0, <3>2, FS_EmptySet
    <3>4. Scan = Lowest(bits)
      BY <2>0, <3>2, <3>3, ScanFinds DEF DrainInv
    <3>5. id \in bits /\ id \in Nat /\ \A b \in bits : id <= b
      BY <2>0, <3>1, <3>4 DEF Lowest
    <3>6. /\ bits' = bits \ {id} /\ len' = Lowered(len) /\ words' = words
          /\ cursor' = IF id + 1 >= TotalBits THEN 0 ELSE id + 1
      BY <3>1 DEF Popped
    <3>7. Cardinality(bits') = Cardinality(bits) - 1
      BY <2>0, <3>5, <3>6, FS_RemoveElement
    <3>8. len' = Cardinality(bits')
      BY <2>0, <3>2, <3>6, <3>7 DEF Lowered
    <3>9. \A b \in bits' : b >= cursor'
      BY <2>0, <3>5, <3>6
    <3>10. budget > Cardinality(bits)
      BY <3>2 DEF DrainInv
    <3>11. budget' > Cardinality(bits') /\ budget' # Budget
      BY <2>0, <3>2, <3>7, <3>10 DEF SignalTypeOK
    <3>12. TotalBits \in Nat
      BY <2>0 DEF TotalBits, SignalTypeOK
    <3>13. TotalBits' = TotalBits
      BY <3>6 DEF TotalBits
    <3>14. cursor' = 0 \/ cursor' < TotalBits'
      BY <3>5, <3>6, <3>12, <3>13
    <3>15. QED
      BY <3>2, <3>8, <3>9, <3>11, <3>14 DEF DrainInv
  <2>5. CASE ScanExhausted
    <3>1. pc = "signal" /\ NothingToPop /\ PoppedNothing /\ pc' = "idle"
      BY <2>5 DEF ScanExhausted, InLoop
    <3>2. bits = {}
      <4>1. CASE len = 0
        BY <2>0, <4>1, FS_EmptySet
      <4>2. CASE bits # {}
        BY <2>0, <3>1, <4>1, <4>2, ScanFinds DEF DrainInv, NothingToPop
      <4>3. QED
        BY <4>1, <4>2
    <3>3. QED
      BY <3>1, <3>2, FS_EmptySet DEF DrainInv, PoppedNothing
  <2>6. CASE BudgetExhausted
    <3>1. budget = 0 /\ pc = "signal"
      BY <2>6 DEF BudgetExhausted, InLoop
    <3>2. QED
      BY <2>0, <3>1 DEF DrainInv
  <2>7. CASE UNCHANGED signalVars
    BY <2>7 DEF signalVars, setVars, DrainInv, TotalBits
  <2>8. QED
    BY <2>1, <2>2, <2>3, <2>4, <2>5, <2>6, <2>7 DEF SignalNext, HandleSignalTick
<1>3. DrainInv => BacklogExact /\ TickDrains
  BY DEF DrainInv, BacklogExact, TickDrains
<1>4. QED
  BY <1>1, <1>2, <1>3, SignalTypes, PTL DEF SignalSpec

-----------------------------------------------------------------------------
(* LeadLag.                                                                 *)

(* A book that was received is one the exchanges send.                       *)
Sound(book) ==
  book.local > 0 =>
    book.bid \in Nat \ {0} /\ book.ask \in Nat \ {0} /\ book.bid <= book.ask

BooksSound ==
  /\ books = [e \in Exchanges |-> [s \in Symbols |-> books[e][s]]]
  /\ \A e \in Exchanges, s \in Symbols : Sound(books[e][s])

SpreadInv == BooksSound /\ SignalIsTradable

LEMMA SpreadInit == LeadLagInit => SpreadInv
<1> SUFFICES ASSUME LeadLagInit PROVE SpreadInv
  OBVIOUS
<1>1. books = [e \in Exchanges |-> [s \in Symbols |-> NoBook]] /\ signal = NoSignal
  BY DEF LeadLagInit
<1>2. Sound(NoBook)
  BY DEF Sound, NoBook
<1>3. BooksSound
  BY <1>1, <1>2 DEF BooksSound
<1> QED BY <1>1, <1>3 DEF SpreadInv, SignalIsTradable

LEMMA Routed == Primary \in Exchanges /\ Hedge \in Exchanges
BY TwoExchanges DEF Primary, Hedge, Routing

LEMMA SpreadIsPositive == MinSpread \in Nat /\ MinSpread >= 25
BY QuotesAreSound DEF MinSpread

(* A leg above any positive spread gains.                                    *)
LEMMA LegGains ==
  ASSUME NEW bid \in Nat, NEW ask \in Nat \ {0}, ((bid - ask) * 10000) \div ask >= 1
  PROVE  bid > ask
<1> SUFFICES ASSUME bid <= ask PROVE FALSE
  OBVIOUS
<1> DEFINE a == (bid - ask) * 10000
           q == a \div ask
<1>1. a \in Int /\ a <= 0
  OBVIOUS
<1> HIDE DEF a
<1>2. q \in Int /\ q * ask <= a
  BY <1>1
<1>3. q >= 1
  BY DEF a
<1> HIDE DEF q
<1>4. q * ask >= ask
  BY <1>2, <1>3
<1> QED BY <1>1, <1>2, <1>4

LEMMA SpreadStep == SpreadInv /\ [LeadLagNext]_leadLagVars => SpreadInv'
<1> SUFFICES ASSUME SpreadInv, [LeadLagNext]_leadLagVars PROVE SpreadInv'
  OBVIOUS
<1>1. ASSUME UNCHANGED <<books, signal>> PROVE SpreadInv'
  BY <1>1 DEF SpreadInv, BooksSound, Sound, SignalIsTradable
<1>2. CASE Advance
  BY <1>1, <1>2 DEF Advance
<1>3. ASSUME NEW e \in Exchanges, NEW s \in Symbols, NEW received \in Books, NEW late \in 0 .. Jitter,
             UpdateBook(e, s, received, late)
      PROVE  SpreadInv'
  <2> DEFINE book == [bid |-> received.bid, ask |-> received.ask,
                      exchange |-> now - late + Skew[e], local |-> now]
  <2>1. books' = [books EXCEPT ![e][s] = book] /\ signal' = signal
    BY <1>3 DEF UpdateBook
  <2>2. Sound(book)
    BY QuotesAreSound DEF Sound
  <2> HIDE DEF book
  <2>3. BooksSound'
    BY <2>1, <2>2 DEF SpreadInv, BooksSound
  <2> QED BY <2>1, <2>3 DEF SpreadInv, SignalIsTradable
<1>4. ASSUME NEW s \in Symbols, CheckSignal(s) PROVE SpreadInv'
  <2> DEFINE primary == books[Primary][s]
             hedge == books[Hedge][s]
             up == Leg(primary, hedge)
             down == Leg(hedge, primary)
             spread == IF up >= down THEN up ELSE down
             decided == [symbol |-> s, leader |-> primary, lagger |-> hedge,
                         direction |-> IF up >= down THEN "long" ELSE "short"]
  <2>1. UNCHANGED books
    BY <1>4 DEF CheckSignal
  <2>2. signal' = IF Comparable(primary, hedge) /\ spread >= MinSpread THEN decided ELSE NoSignal
    BY <1>4 DEF CheckSignal
  <2>3. BooksSound'
    BY <2>1 DEF SpreadInv, BooksSound, Sound
  <2>4. CASE Comparable(primary, hedge) /\ spread >= MinSpread
    <3>1. /\ primary.bid \in Nat \ {0} /\ primary.ask \in Nat \ {0} /\ primary.bid <= primary.ask
          /\ hedge.bid \in Nat \ {0} /\ hedge.ask \in Nat \ {0} /\ hedge.bid <= hedge.ask
      BY <2>4, Routed DEF Comparable, SpreadInv, BooksSound, Sound
    <3>2. up \in Int /\ down \in Int
      BY <3>1 DEF Leg
    <3>3. CASE up >= down
      <4>1. ((primary.bid - hedge.ask) * 10000) \div hedge.ask >= 1
        BY <2>4, <3>2, <3>3, SpreadIsPositive DEF Leg
      <4>2. primary.bid > hedge.ask
        BY <3>1, <4>1, LegGains
      <4>3. hedge.bid < primary.ask
        BY <3>1, <4>2
      <4>4. signal'.direction = "long" /\ signal'.leader = primary /\ signal'.lagger = hedge
        BY <2>2, <2>4, <3>3
      <4> QED BY <2>3, <4>2, <4>3, <4>4 DEF SpreadInv, SignalIsTradable
    <3>4. CASE ~(up >= down)
      <4>1. ((hedge.bid - primary.ask) * 10000) \div primary.ask >= 1
        BY <2>4, <3>2, <3>4, SpreadIsPositive DEF Leg
      <4>2. hedge.bid > primary.ask
        <5>1. hedge.bid \in Nat /\ primary.ask \in Nat \ {0}
          BY <3>1
        <5> HIDE DEF hedge, primary
        <5> QED BY <4>1, <5>1, LegGains
      <4>3. primary.bid < hedge.ask
        BY <3>1, <4>2
      <4>4. signal'.direction = "short" /\ signal'.leader = primary /\ signal'.lagger = hedge
        BY <2>2, <2>4, <3>4
      <4> QED BY <2>3, <4>2, <4>3, <4>4 DEF SpreadInv, SignalIsTradable
    <3> QED BY <3>3, <3>4
  <2>5. CASE ~(Comparable(primary, hedge) /\ spread >= MinSpread)
    BY <2>2, <2>3, <2>5 DEF SpreadInv, SignalIsTradable
  <2> QED BY <2>4, <2>5
<1>5. CASE UNCHANGED leadLagVars
  BY <1>1, <1>5 DEF leadLagVars
<1> QED BY <1>2, <1>3, <1>4, <1>5 DEF LeadLagNext

(* Whatever the clocks, limits and configured threshold, a signal's own leg  *)
(* gains: its bid is above the other exchange's ask.                         *)
THEOREM SignalsGain == LeadLagSpec => []SignalIsTradable
<1>1. SpreadInv => SignalIsTradable
  BY DEF SpreadInv
<1> QED BY SpreadInit, SpreadStep, <1>1, PTL DEF LeadLagSpec

(* A finite set of numbers has a least and a greatest one.                   *)
LEMMA Extremes ==
  ASSUME NEW S \in SUBSET Int, IsFiniteSet(S), S # {}
  PROVE  /\ \E m \in S : \A x \in S : m <= x
         /\ \E m \in S : \A x \in S : x <= m
<1> DEFINE below(m) == {x \in S : x < m}
           above(m) == {x \in S : x > m}
<1>1. ASSUME NEW U \in SUBSET S PROVE IsFiniteSet(U) /\ Cardinality(U) \in Nat
  BY FS_Subset, FS_CardinalityType
<1>2. \E m \in S : \A x \in S : Cardinality(below(m)) <= Cardinality(below(x))
  <2> DEFINE counts == {Cardinality(below(x)) : x \in S}
  <2>1. counts \in SUBSET Nat /\ counts # {}
    BY <1>1
  <2>2. PICK least \in counts : \A y \in counts : least <= y
    BY <2>1, LeastExists DEF Lowest
  <2> QED BY <2>2
<1>3. \E m \in S : \A x \in S : Cardinality(above(m)) <= Cardinality(above(x))
  <2> DEFINE counts == {Cardinality(above(x)) : x \in S}
  <2>1. counts \in SUBSET Nat /\ counts # {}
    BY <1>1
  <2>2. PICK least \in counts : \A y \in counts : least <= y
    BY <2>1, LeastExists DEF Lowest
  <2> QED BY <2>2
<1>4. ASSUME NEW U \in SUBSET S, NEW V \in SUBSET U, NEW x \in U, x \notin V
      PROVE  Cardinality(V) < Cardinality(U)
  <2>1. IsFiniteSet(U) /\ V \in SUBSET U /\ V # U
    BY <1>1, <1>4
  <2>2. Cardinality(V) <= Cardinality(U) /\ Cardinality(U) # Cardinality(V)
    BY Zenon, <2>1, FS_Subset
  <2>3. Cardinality(V) \in Nat /\ Cardinality(U) \in Nat
    BY <1>1, <2>1
  <2> QED BY <2>2, <2>3
<1>5. PICK m \in S : \A x \in S : Cardinality(below(m)) <= Cardinality(below(x))
  BY <1>2
<1>6. ASSUME NEW x \in S, x < m PROVE FALSE
  <2>1. \A y \in S : y \in Int
    OBVIOUS
  <2>2. x \in below(m) /\ x \notin below(x) /\ \A y \in below(x) : y \in below(m)
    BY <1>6, <2>1
  <2>3. below(x) \in SUBSET below(m) /\ below(m) \in SUBSET S
    BY <2>2
  <2> HIDE DEF below
  <2>4. Cardinality(below(x)) < Cardinality(below(m))
    BY <2>2, <2>3, <1>4
  <2>5. Cardinality(below(x)) \in Nat /\ Cardinality(below(m)) \in Nat
    BY <2>3, <1>1
  <2> QED BY <2>4, <2>5, <1>5
<1>7. PICK n \in S : \A x \in S : Cardinality(above(n)) <= Cardinality(above(x))
  BY <1>3
<1>8. ASSUME NEW x \in S, x > n PROVE FALSE
  <2>1. \A y \in S : y \in Int
    OBVIOUS
  <2>2. x \in above(n) /\ x \notin above(x) /\ \A y \in above(x) : y \in above(n)
    BY <1>8, <2>1
  <2>3. above(x) \in SUBSET above(n) /\ above(n) \in SUBSET S
    BY <2>2
  <2> HIDE DEF above
  <2>4. Cardinality(above(x)) < Cardinality(above(n))
    BY <2>2, <2>3, <1>4
  <2>5. Cardinality(above(x)) \in Nat /\ Cardinality(above(n)) \in Nat
    BY <2>3, <1>1
  <2> QED BY <2>4, <2>5, <1>7
<1> QED BY <1>6, <1>8

(* The median is one of the samples.                                         *)
LEMMA MedianIsASample ==
  ASSUME NEW samples \in Seq(Int), samples # <<>>
  PROVE  \E i \in DOMAIN samples : Median(samples) = samples[i]
<1> DEFINE upTo(m) == {i \in DOMAIN samples : samples[i] <= m}
           many == {m \in Range(samples) : Cardinality(upTo(m)) > Len(samples) \div 2}
<1>1. /\ Len(samples) \in Nat /\ Len(samples) >= 1 /\ DOMAIN samples = 1 .. Len(samples)
      /\ Len(samples) > Len(samples) \div 2
  OBVIOUS
<1>2. Range(samples) = {samples[i] : i \in DOMAIN samples}
  BY DEF Range
<1>3. Range(samples) \in SUBSET Int /\ Range(samples) # {}
  BY <1>1, <1>2
<1>4. IsFiniteSet(DOMAIN samples) /\ Cardinality(DOMAIN samples) = Len(samples)
  <2> DEFINE n == Len(samples)
  <2>1. n \in Int /\ n >= 1 /\ 1 \in Int
    BY <1>1
  <2> HIDE DEF n
  <2>2. IsFiniteSet(1 .. n) /\ Cardinality(1 .. n) = n
    BY <2>1, FS_Interval
  <2> QED BY <1>1, <2>2 DEF n
<1>5. IsFiniteSet(Range(samples))
  <2>1. samples \in Surjection(DOMAIN samples, Range(samples))
    BY <1>2 DEF Surjection
  <2> QED BY <2>1, <1>4, FS_Surjection
<1>6. PICK top \in Range(samples) : \A x \in Range(samples) : x <= top
  BY <1>3, <1>5, Extremes
<1>7. upTo(top) = DOMAIN samples
  BY <1>2, <1>6
<1>8. top \in many
  BY <1>1, <1>4, <1>6, <1>7
<1>9. IsFiniteSet(many) /\ many \in SUBSET Int
  BY <1>3, <1>5, FS_Subset
<1>10. \E m \in many : \A x \in many : m <= x
  BY <1>8, <1>9, Extremes
<1>11. Median(samples) = Min(many)
  BY DEF Median
<1>12. Min(many) \in many
  BY <1>10 DEF Min
<1> QED BY <1>2, <1>11, <1>12

(* How far off an exchange's clock a difference can be.                      *)
Offsets(e) == {n \in Int : -Skew[e] <= n /\ n <= Jitter - Skew[e]}

(* A clock that has seen a ticker holds differences of that exchange only,   *)
(* and its cached median is one such, however old it is.                     *)
ClockKnown(e) ==
  /\ offsets[e].samples \in Seq(Offsets(e))
  /\ offsets[e].samples # <<>> => offsets[e].median \in Offsets(e)

(* A book was stamped by its exchange's clock, at most the jitter before it  *)
(* was received, and its receipt was observed by the clock.                  *)
Stamped(e, book, offset) ==
  book.local > 0 =>
    /\ book.local \in Int /\ book.exchange \in Int
    /\ book.exchange - Skew[e] <= book.local /\ book.local - Jitter <= book.exchange - Skew[e]
    /\ offset.samples # <<>>

BooksStamped ==
  /\ books = [e \in Exchanges |-> [s \in Symbols |-> books[e][s]]]
  /\ \A e \in Exchanges, s \in Symbols : Stamped(e, books[e][s], offsets[e])

ClockInv ==
  /\ now \in Int /\ now >= Start
  /\ offsets = [e \in Exchanges |-> offsets[e]]
  /\ \A e \in Exchanges : ClockKnown(e)
  /\ BooksStamped /\ LeaderIsNewer

LEMMA ClockInit == LeadLagInit => ClockInv
<1> SUFFICES ASSUME LeadLagInit PROVE ClockInv
  OBVIOUS
<1>1. /\ books = [e \in Exchanges |-> [s \in Symbols |-> NoBook]] /\ signal = NoSignal
      /\ now = Start /\ offsets = [e \in Exchanges |-> NoOffset]
  BY DEF LeadLagInit
<1>2. ASSUME NEW e \in Exchanges PROVE Stamped(e, NoBook, NoOffset)
  BY DEF Stamped, NoBook
<1>3. BooksStamped
  BY <1>1, <1>2 DEF BooksStamped
<1>4. ASSUME NEW e \in Exchanges PROVE ClockKnown(e)
  <2>1. offsets[e].samples = <<>>
    BY <1>1 DEF NoOffset
  <2> QED BY <2>1 DEF ClockKnown
<1> QED BY <1>1, <1>3, <1>4, ClocksAreSteady DEF ClockInv, LeaderIsNewer

(* A ticker that is at most the jitter old is observed: the clock holds      *)
(* samples, and what it held before remains of this exchange.                *)
LEMMA ObservedKnows ==
  ASSUME NEW e \in Exchanges, ClockKnown(e), NEW late \in 0 .. Jitter,
         now \in Int, now >= Start, now > 0
  PROVE  LET seen == Observed(offsets[e], now, now - late + Skew[e])
         IN  /\ seen.samples \in Seq(Offsets(e)) /\ seen.samples # <<>>
             /\ seen.median \in Offsets(e)
<1> DEFINE stamped == now - late + Skew[e]
           sample == Sample(now, stamped)
           old == offsets[e].samples
           samples == Windowed(Append(old, sample))
           seen == Observed(offsets[e], now, stamped)
<1>1. Skew[e] \in Int /\ Jitter \in Nat /\ late \in Int /\ Start + Skew[e] - Jitter > 0 /\ Start \in Nat
  BY ClocksAreSteady
<1>2. stamped \in Int /\ stamped > 0 /\ sample = late - Skew[e]
  BY <1>1 DEF Sample
<1>3. sample \in -MaxSample .. MaxSample
  BY <1>2, ClocksAreSteady
<1>4. sample \in Offsets(e)
  BY <1>1, <1>2 DEF Offsets
<1>5. old \in Seq(Offsets(e))
  BY DEF ClockKnown
<1> HIDE DEF sample, old, stamped
<1>6. /\ Append(old, sample) \in Seq(Offsets(e)) /\ Len(Append(old, sample)) = Len(old) + 1
      /\ Len(old) \in Nat
  BY <1>4, <1>5
<1>7. samples \in Seq(Offsets(e)) /\ Len(samples) \in Nat
  BY <1>6 DEF Windowed
<1>8. Len(samples) >= 1 /\ (Len(samples) # 1 => Len(old) >= 1)
  <2>1. CASE Len(old) + 1 > Window
    <3>1. Len(samples) = Len(old)
      BY <1>6, <2>1 DEF Windowed
    <3> QED BY <3>1, <1>6, <2>1, SamplesAreKept
  <2>2. CASE ~(Len(old) + 1 > Window)
    BY <1>6, <2>2 DEF Windowed
  <2> QED BY <2>1, <2>2
<1>9. samples # <<>>
  BY <1>8
<1>10. Median(samples) \in Offsets(e)
  <2>1. Offsets(e) \in SUBSET Int
    BY DEF Offsets
  <2>2. samples \in Seq(Int)
    BY <1>7, <2>1
  <2> HIDE DEF samples
  <2>3. PICK i \in DOMAIN samples : Median(samples) = samples[i]
    BY <1>9, <2>2, MedianIsASample
  <2> QED BY <2>3, <1>7
<1>11. old # <<>> => offsets[e].median \in Offsets(e)
  BY DEF ClockKnown, old
<1>12. ~(now <= 0 \/ stamped <= 0 \/ sample \notin -MaxSample .. MaxSample)
  BY <1>2, <1>3
<1> HIDE DEF samples
<1>13. seen = IF Len(samples) = 1 \/ offsets[e].pending + 1 >= RecomputeEvery
              THEN [samples |-> samples, median |-> Median(samples), pending |-> 0]
              ELSE [samples |-> samples, median |-> offsets[e].median, pending |-> offsets[e].pending + 1]
  BY <1>12 DEF Observed, samples, sample, old
<1>14. seen.samples = samples /\ seen.median \in Offsets(e)
  <2>1. CASE Len(samples) = 1 \/ offsets[e].pending + 1 >= RecomputeEvery
    BY <2>1, <1>10, <1>13
  <2>2. CASE ~(Len(samples) = 1 \/ offsets[e].pending + 1 >= RecomputeEvery)
    <3>1. old # <<>>
      BY <1>8, <2>2
    <3> QED BY <2>2, <3>1, <1>11, <1>13
  <2> QED BY <2>1, <2>2
<1> QED BY <1>7, <1>9, <1>14 DEF stamped

LEMMA ClockStep == ClockInv /\ [LeadLagNext]_leadLagVars => ClockInv'
<1> SUFFICES ASSUME ClockInv, [LeadLagNext]_leadLagVars PROVE ClockInv'
  OBVIOUS
<1>1. ASSUME UNCHANGED <<books, signal, offsets>>, now' \in Int, now' >= Start PROVE ClockInv'
  BY <1>1 DEF ClockInv, BooksStamped, Stamped, ClockKnown, LeaderIsNewer
<1>2. CASE Advance
  BY <1>1, <1>2, ClocksAreSteady DEF Advance, ClockInv
<1>3. ASSUME NEW e \in Exchanges, NEW s \in Symbols, NEW received \in Books, NEW late \in 0 .. Jitter,
             UpdateBook(e, s, received, late)
      PROVE  ClockInv'
  <2> DEFINE stamped == now - late + Skew[e]
             book == [bid |-> received.bid, ask |-> received.ask,
                      exchange |-> stamped, local |-> now]
             seen == Observed(offsets[e], now, stamped)
  <2>1. /\ books' = [books EXCEPT ![e][s] = book] /\ signal' = signal /\ now' = now
        /\ offsets' = [offsets EXCEPT ![e] = seen]
    BY <1>3 DEF UpdateBook
  <2>2. now \in Int /\ now >= Start /\ ClockKnown(e)
    BY DEF ClockInv
  <2>3. /\ seen.samples \in Seq(Offsets(e))
        /\ seen.samples # <<>> => seen.median \in Offsets(e)
        /\ offsets[e].samples # <<>> => seen.samples # <<>>
        /\ now > 0 => seen.samples # <<>>
    <3>1. CASE now > 0
      BY <2>2, <3>1, ObservedKnows
    <3>2. CASE ~(now > 0)
      <4>1. seen = offsets[e]
        BY <2>2, <3>2 DEF Observed
      <4> QED BY <2>2, <3>2, <4>1 DEF ClockKnown
    <3> QED BY <3>1, <3>2
  <2>4. Skew[e] \in Int /\ Jitter \in Nat /\ late \in Int
    BY ClocksAreSteady
  <2> HIDE DEF seen
  <2>5. offsets' = [x \in Exchanges |-> offsets'[x]] /\ offsets'[e] = seen
        /\ \A x \in Exchanges : x # e => offsets'[x] = offsets[x]
    BY <2>1 DEF ClockInv
  <2>6. ASSUME NEW x \in Exchanges PROVE ClockKnown(x)'
    <3>1. CASE x = e
      BY <2>3, <2>5, <3>1 DEF ClockKnown
    <3>2. CASE x # e
      BY <2>5, <3>2 DEF ClockInv, ClockKnown
    <3> QED BY <3>1, <3>2
  <2>7. \A x \in Exchanges : offsets[x].samples # <<>> => offsets'[x].samples # <<>>
    BY <2>3, <2>5
  <2>8. Stamped(e, book, seen)
    <3>1. book.local = now /\ book.exchange = now - late + Skew[e]
      OBVIOUS
    <3> HIDE DEF book
    <3> QED BY <2>2, <2>3, <2>4, <3>1 DEF Stamped
  <2> HIDE DEF book
  <2>9. ASSUME NEW x \in Exchanges, NEW y \in Symbols PROVE Stamped(x, books[x][y], offsets[x])'
    <3>1. CASE x = e /\ y = s
      <4>1. books'[x][y] = book
        BY <2>1, <3>1 DEF ClockInv, BooksStamped
      <4> QED BY <2>8, <2>5, <3>1, <4>1
    <3>2. CASE ~(x = e /\ y = s)
      <4>1. books'[x][y] = books[x][y]
        BY <2>1, <3>2 DEF ClockInv, BooksStamped
      <4>2. Stamped(x, books[x][y], offsets[x])
        BY DEF ClockInv, BooksStamped
      <4>3. Stamped(x, books[x][y], offsets'[x])
        BY <2>7, <4>2 DEF Stamped
      <4> QED BY <4>1, <4>3
    <3> QED BY <3>1, <3>2
  <2>10. books' = [x \in Exchanges |-> [y \in Symbols |-> books'[x][y]]]
    BY <2>1 DEF ClockInv, BooksStamped
  <2>11. BooksStamped'
    BY <2>9, <2>10 DEF BooksStamped
  <2>12. LeaderIsNewer'
    BY <2>1 DEF ClockInv, LeaderIsNewer
  <2> QED BY <2>1, <2>2, <2>5, <2>6, <2>11, <2>12 DEF ClockInv
<1>4. ASSUME NEW s \in Symbols, CheckSignal(s) PROVE ClockInv'
  <2> DEFINE primary == books[Primary][s]
             hedge == books[Hedge][s]
  <2>1. UNCHANGED <<now, books, offsets>>
    BY <1>4 DEF CheckSignal
  <2>2. \/ /\ Comparable(primary, hedge)
           /\ signal'.leader = primary /\ signal'.lagger = hedge
        \/ signal' = NoSignal
    BY <1>4 DEF CheckSignal
  <2>3. ASSUME Comparable(primary, hedge) PROVE primary.local + 2 * Jitter >= hedge.local
    <3> DEFINE p == Primary
               h == Hedge
    <3>1. p \in Exchanges /\ h \in Exchanges
      BY Routed
    <3>2. Stamped(p, primary, offsets[p]) /\ Stamped(h, hedge, offsets[h]) /\ ClockKnown(p) /\ ClockKnown(h)
      BY <3>1 DEF ClockInv, BooksStamped
    <3>3. primary.local > 0 /\ hedge.local > 0
      BY <2>3 DEF Comparable
    <3>4. primary.exchange + offsets[p].median >= hedge.exchange + offsets[h].median
      BY <2>3 DEF Comparable, Corrected
    <3>5. /\ Skew[p] \in Int /\ Skew[h] \in Int /\ Jitter \in Nat
          /\ offsets[p].median \in Offsets(p) /\ offsets[h].median \in Offsets(h)
      BY <3>1, <3>2, <3>3, ClocksAreSteady DEF Stamped, ClockKnown
    <3>6. /\ primary.exchange - Skew[p] <= primary.local /\ primary.local \in Int
          /\ hedge.local - Jitter <= hedge.exchange - Skew[h] /\ hedge.local \in Int
          /\ primary.exchange \in Int /\ hedge.exchange \in Int
      BY <3>2, <3>3 DEF Stamped
    <3> HIDE DEF primary, hedge, p, h
    <3> QED BY <3>4, <3>5, <3>6 DEF Offsets
  <2>4. LeaderIsNewer'
    BY <2>2, <2>3 DEF LeaderIsNewer
  <2> QED BY <2>1, <2>4 DEF ClockInv, BooksStamped, Stamped, ClockKnown
<1>5. CASE UNCHANGED leadLagVars
  BY <1>1, <1>5 DEF leadLagVars, ClockInv
<1> QED BY <1>2, <1>3, <1>4, <1>5 DEF LeadLagNext

(* However the clocks are set, whatever the window and however seldom the    *)
(* median is computed anew: no signal follows a hedge quote that was         *)
(* received more than twice the jitter after the primary's.                  *)
THEOREM LeadersLead == LeadLagSpec => []LeaderIsNewer
<1>1. ClockInv => LeaderIsNewer
  BY DEF ClockInv
<1> QED BY ClockInit, ClockStep, <1>1, PTL DEF LeadLagSpec
=============================================================================
