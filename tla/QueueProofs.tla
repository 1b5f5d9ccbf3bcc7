----------------------------- MODULE QueueProofs -----------------------------
(* Theorems about the two hand-offs through bounded channels: the order    *)
(* intents (ExecutionQueue), for every capacity, streak, set of symbols    *)
(* and every pair MaxAge < Cooldown; the batches of trades and snapshots   *)
(* (DbWriter), for any number of producers, flushers and channels, any     *)
(* capacities and any bound on the sequence numbers.                       *)
EXTENDS ExecutionQueue, DbWriter, FiniteSetTheorems, SequenceTheorems, TLAPS

-----------------------------------------------------------------------------
(* ExecutionQueue.                                                         *)

(* Every variable keeps its type: in particular the counters stay natural  *)
(* numbers and an intent is in hand exactly where the control flow of      *)
(* try_enqueue and of the worker says so.                                  *)
THEOREM TypeCorrect == Spec => []TypeOK
<1> USE ConfigAssumption, BoundAssumption, NoIntentAssumption
<1>1. Init => TypeOK
  <2> SUFFICES ASSUME Init PROVE TypeOK
    OBVIOUS
  <2>1. queue \in Seq(Intents) /\ overflow \in SUBSET Intents
    BY DEF Init
  <2>2. txIntent \in {NoIntent} /\ workerIntent \in {NoIntent}
    BY DEF Init
  <2>3. QED
    BY <2>1, <2>2 DEF Init, TypeOK, Never
<1>2. TypeOK /\ [Next]_vars => TypeOK'
  <2> SUFFICES ASSUME TypeOK, [Next]_vars PROVE TypeOK'
    OBVIOUS
  <2> USE DEF TypeOK, sharedVars, counters, txVars, workerVars, Never
  <2>1. ASSUME NEW s \in Symbols, Decide(s) PROVE TypeOK'
    BY <2>1 DEF Decide, TxGoto, Intents
  <2>2. CASE TxCheckKillSwitch
    BY <2>2 DEF TxCheckKillSwitch, TxGoto, TxReturn
  <2>3. CASE TxReserve
    BY <2>3 DEF TxReserve, TxGoto
  <2>4. CASE TxPublishReserved
    BY <2>4 DEF TxPublishReserved, TxGoto
  <2>5. CASE TxTrySend
    <3>1. txIntent \in Intents
      BY <2>5 DEF TxTrySend
    <3>2. queue' \in Seq(Intents)
      BY <2>5, <3>1 DEF TxTrySend
    <3>3. QED
      BY <2>5, <3>1, <3>2 DEF TxTrySend, TxGoto, TxReturn
  <2>6. CASE TxUndoReserve
    BY <2>6 DEF TxUndoReserve, TxGoto, Decremented
  <2>7. CASE TxReload
    BY <2>7 DEF TxReload, TxGoto
  <2>8. CASE TxRepublish
    BY <2>8 DEF TxRepublish, TxGoto
  <2>9. CASE TxOverflow
    BY <2>9 DEF TxOverflow, TxReturn
  <2>10. CASE WorkerPopOverflow
    BY <2>10 DEF WorkerPopOverflow, WorkerGoto
  <2>11. CASE WorkerRecv
    <3>1. Head(queue) \in Intents /\ Tail(queue) \in Seq(Intents)
      BY <2>11 DEF WorkerRecv
    <3>2. QED
      BY <2>11, <3>1 DEF WorkerRecv, WorkerGoto
  <2>12. CASE WorkerDecrement
    BY <2>12 DEF WorkerDecrement, WorkerGoto, Decremented
  <2>13. CASE WorkerLoadDepth
    BY <2>13 DEF WorkerLoadDepth, WorkerGoto
  <2>14. CASE WorkerPublishDepth
    BY <2>14 DEF WorkerPublishDepth, WorkerGoto
  <2>15. CASE WorkerFlushTick
    BY <2>15 DEF WorkerFlushTick, WorkerGoto, MaybeRecover
  <2>16. CASE WorkerProcess
    BY <2>16 DEF WorkerProcess, WorkerGoto, MaybeRecover
  <2>17. CASE WorkerSent
    BY <2>17 DEF WorkerSent, WorkerGoto
  <2>18. CASE WorkerSendTimeout
    <3>1. killSwitch' \in BOOLEAN
      BY <2>18 DEF WorkerSendTimeout
    <3>2. recoverAt' \in Nat \cup {Never} /\ lastTrip' \in Nat \cup {Never}
      <4>1. now + Cooldown \in Nat
        OBVIOUS
      <4>2. QED
        BY <2>18, <4>1 DEF WorkerSendTimeout
    <3>3. streak' \in Nat /\ timeouts' \in Nat
      BY <2>18 DEF WorkerSendTimeout
    <3>4. workerPc' = "top" /\ workerIntent' = NoIntent
      BY <2>18 DEF WorkerSendTimeout, WorkerGoto
    <3>5. UNCHANGED <<now, queue, overflow, queueDepth, depthGauge, dropped, sent, txVars,
                      workerDepth, decided>>
      BY <2>18 DEF WorkerSendTimeout
    <3>6. QED
      BY <3>1, <3>2, <3>3, <3>4, <3>5
  <2>19. CASE TimePasses
    BY <2>19 DEF TimePasses
  <2>20. CASE UNCHANGED vars
    BY <2>20 DEF vars
  <2>21. QED
    BY <2>1, <2>2, <2>3, <2>4, <2>5, <2>6, <2>7, <2>8, <2>9, <2>10, <2>11, <2>12,
       <2>13, <2>14, <2>15, <2>16, <2>17, <2>18, <2>19, <2>20
       DEF Next, TryEnqueue, Worker
<1>3. QED
  BY <1>1, <1>2, PTL DEF Spec

(* Reserving before try_send keeps the counter equal to the queue's length *)
(* plus the reservations in flight on either side, so that the saturating  *)
(* decrements of try_enqueue and of the worker never hit zero.             *)
THEOREM DepthExact == Spec => []DepthNeverDrifts
<1>1. Init => DepthNeverDrifts
  BY DEF Init, DepthNeverDrifts, TxReserved, WorkerUncounted
<1>2. TypeOK /\ DepthNeverDrifts /\ [Next]_vars => DepthNeverDrifts'
  <2> SUFFICES ASSUME TypeOK, DepthNeverDrifts, [Next]_vars PROVE DepthNeverDrifts'
    OBVIOUS
  <2>0. Len(queue) \in Nat /\ queueDepth \in Nat
    BY DEF TypeOK
  <2> USE <2>0 DEF DepthNeverDrifts, TxReserved, WorkerUncounted, sharedVars, txVars,
                   workerVars
  <2>1. ASSUME NEW s \in Symbols, Decide(s) PROVE DepthNeverDrifts'
    BY <2>1 DEF Decide, TxGoto
  <2>2. CASE TxCheckKillSwitch
    BY <2>2 DEF TxCheckKillSwitch, TxGoto, TxReturn
  <2>3. CASE TxReserve
    BY <2>3 DEF TxReserve, TxGoto
  <2>4. CASE TxPublishReserved
    BY <2>4 DEF TxPublishReserved, TxGoto
  <2>5. CASE TxTrySend
    <3>1. txIntent \in Intents /\ queue \in Seq(Intents)
      BY <2>5 DEF TxTrySend, TypeOK
    <3>2. UNCHANGED <<queueDepth, workerPc>> /\ txPc = "send"
      BY <2>5 DEF TxTrySend
    <3>3. CASE queue' = Append(queue, txIntent) /\ TxReturn
      <4>1. Len(queue') = Len(queue) + 1 /\ txPc' = "idle"
        BY <3>1, <3>3 DEF TxReturn
      <4>2. QED
        BY <3>2, <4>1
    <3>4. CASE TxGoto("undo") /\ UNCHANGED queue
      BY <3>2, <3>4 DEF TxGoto
    <3>5. QED
      BY <2>5, <3>3, <3>4 DEF TxTrySend
  <2>6. CASE TxUndoReserve
    BY <2>6 DEF TxUndoReserve, TxGoto, Decremented
  <2>7. CASE TxReload
    BY <2>7 DEF TxReload, TxGoto
  <2>8. CASE TxRepublish
    BY <2>8 DEF TxRepublish, TxGoto
  <2>9. CASE TxOverflow
    BY <2>9 DEF TxOverflow, TxReturn
  <2>10. CASE WorkerPopOverflow
    BY <2>10 DEF WorkerPopOverflow, WorkerGoto
  <2>11. CASE WorkerRecv
    <3>1. queue \in Seq(Intents) /\ queue # <<>>
      BY <2>11 DEF WorkerRecv, TypeOK
    <3>2. Len(queue') = Len(queue) - 1
      BY <2>11, <3>1 DEF WorkerRecv
    <3>3. UNCHANGED <<queueDepth, txPc>> /\ workerPc = "select" /\ workerPc' = "decrement"
      BY <2>11 DEF WorkerRecv, WorkerGoto
    <3>4. QED
      BY <3>2, <3>3
  <2>12. CASE WorkerDecrement
    BY <2>12 DEF WorkerDecrement, WorkerGoto, Decremented
  <2>13. CASE WorkerLoadDepth
    BY <2>13 DEF WorkerLoadDepth, WorkerGoto
  <2>14. CASE WorkerPublishDepth
    BY <2>14 DEF WorkerPublishDepth, WorkerGoto
  <2>15. CASE WorkerFlushTick
    BY <2>15 DEF WorkerFlushTick, WorkerGoto
  <2>16. CASE WorkerProcess
    BY <2>16 DEF WorkerProcess, WorkerGoto
  <2>17. CASE WorkerSent
    BY <2>17 DEF WorkerSent, WorkerGoto
  <2>18. CASE WorkerSendTimeout
    BY <2>18 DEF WorkerSendTimeout, WorkerGoto
  <2>19. CASE TimePasses
    BY <2>19 DEF TimePasses
  <2>20. CASE UNCHANGED vars
    BY <2>20 DEF vars
  <2>21. QED
    BY <2>1, <2>2, <2>3, <2>4, <2>5, <2>6, <2>7, <2>8, <2>9, <2>10, <2>11, <2>12,
       <2>13, <2>14, <2>15, <2>16, <2>17, <2>18, <2>19, <2>20
       DEF Next, TryEnqueue, Worker
<1>3. QED
  BY <1>1, <1>2, TypeCorrect, PTL DEF Spec

(* The overflow lane never holds two intents of one symbol.                *)
THEOREM OverflowOnePerSymbol == Spec => []OverflowBounded
<1>1. Init => OverflowBounded
  BY DEF Init, OverflowBounded
<1>2. OverflowBounded /\ [Next]_vars => OverflowBounded'
  <2> SUFFICES ASSUME OverflowBounded, [Next]_vars PROVE OverflowBounded'
    OBVIOUS
  <2>1. CASE TxOverflow
    BY <2>1 DEF TxOverflow, OverflowBounded, SameSymbol
  <2>2. CASE WorkerPopOverflow
    BY <2>2 DEF WorkerPopOverflow, OverflowBounded
  <2>3. CASE UNCHANGED overflow
    BY <2>3 DEF OverflowBounded
  <2>4. UNCHANGED overflow \/ TxOverflow \/ WorkerPopOverflow
    BY DEF Next, TryEnqueue, Worker, vars, sharedVars, Decide, TxCheckKillSwitch,
           TxReserve, TxPublishReserved, TxTrySend, TxUndoReserve, TxReload,
           TxRepublish, WorkerRecv, WorkerDecrement, WorkerLoadDepth,
           WorkerPublishDepth, WorkerFlushTick, WorkerProcess, WorkerSent,
           WorkerSendTimeout, TimePasses
  <2>5. QED
    BY <2>1, <2>2, <2>3, <2>4
<1>3. QED
  BY <1>1, <1>2, PTL DEF Spec

(* What ties the kill switch to the clock: it is on exactly while a        *)
(* recovery is scheduled, one cooldown after the last trip, and when it is *)
(* off the last cooldown is over.                                          *)
TripInv ==
  /\ killSwitch <=> recoverAt # Never
  /\ recoverAt # Never => lastTrip # Never /\ recoverAt = lastTrip + Cooldown
  /\ lastTrip # Never /\ recoverAt = Never => now >= lastTrip + Cooldown
  /\ NoPreTripIntentSent

(* An intent that is being sent was decided after the last trip: it is at  *)
(* most MaxAge old, and sending resumed at least Cooldown > MaxAge after   *)
(* the trip.                                                               *)
THEOREM NothingSurvivesTrip == Spec => []NoPreTripIntentSent
<1> USE ConfigAssumption DEF Never
<1>1. Init => TripInv
  BY DEF Init, TripInv, NoPreTripIntentSent
<1>2. TypeOK /\ TripInv /\ [Next]_vars => TripInv'
  <2> SUFFICES ASSUME TypeOK, TripInv, [Next]_vars PROVE TripInv'
    OBVIOUS
  <2>0. /\ now \in Nat /\ recoverAt \in Nat \cup {-1} /\ lastTrip \in Nat \cup {-1}
        /\ killSwitch \in BOOLEAN
    BY DEF TypeOK
  <2>1. CASE WorkerProcess
    <3>1. workerIntent \in Intents /\ workerIntent.at \in Nat
      BY <2>1 DEF WorkerProcess, TypeOK, Intents
    <3>2. UNCHANGED <<now, lastTrip>>
      BY <2>1 DEF WorkerProcess
    <3>3. /\ killSwitch' <=> recoverAt' # Never
          /\ recoverAt' # Never => lastTrip # Never /\ recoverAt' = lastTrip + Cooldown
          /\ lastTrip # Never /\ recoverAt' = Never => now >= lastTrip + Cooldown
      BY <2>0, <2>1 DEF WorkerProcess, MaybeRecover, CooldownOver, TripInv
    <3>4. NoPreTripIntentSent'
      <4>1. CASE workerPc' # "sending"
        BY <4>1 DEF NoPreTripIntentSent
      <4>2. CASE workerPc' = "sending"
        <5>1. ~killSwitch' /\ ~IsStale(workerIntent) /\ workerIntent' = workerIntent
          BY <2>1, <4>2 DEF WorkerProcess, WorkerGoto
        <5>2. lastTrip # Never => now >= lastTrip + Cooldown
          BY <3>3, <5>1
        <5>3. lastTrip # Never => workerIntent.at > lastTrip
          BY <2>0, <3>1, <5>1, <5>2 DEF IsStale
        <5>4. QED
          BY <3>2, <5>1, <5>3 DEF NoPreTripIntentSent
      <4>3. QED
        BY <4>1, <4>2
    <3>5. QED
      BY <3>2, <3>3, <3>4 DEF TripInv
  <2>2. CASE WorkerSendTimeout
    <3>1. workerPc' = "top" /\ ~killSwitch
      BY <2>2 DEF WorkerSendTimeout, WorkerGoto, TripInv, NoPreTripIntentSent
    <3>2. CASE killSwitch' /\ recoverAt' = now + Cooldown /\ lastTrip' = now
      BY <2>0, <3>1, <3>2 DEF TripInv, NoPreTripIntentSent
    <3>3. CASE UNCHANGED <<killSwitch, recoverAt, lastTrip>>
      BY <2>0, <2>2, <3>1, <3>3 DEF TripInv, NoPreTripIntentSent, WorkerSendTimeout
    <3>4. QED
      BY <2>2, <3>2, <3>3 DEF WorkerSendTimeout
  <2>3. CASE WorkerFlushTick
    <3>1. UNCHANGED <<now, lastTrip>> /\ workerPc' = "load"
      BY <2>3 DEF WorkerFlushTick, WorkerGoto
    <3>2. QED
      BY <2>0, <2>3, <3>1
         DEF WorkerFlushTick, MaybeRecover, CooldownOver, TripInv, NoPreTripIntentSent
  <2>4. CASE TimePasses
    BY <2>0, <2>4 DEF TimePasses, TripInv, NoPreTripIntentSent, sharedVars, workerVars
  <2>5. CASE /\ UNCHANGED <<now, killSwitch, recoverAt, lastTrip>>
             /\ workerPc' # "sending" \/ UNCHANGED <<workerPc, workerIntent>>
    BY <2>5 DEF TripInv, NoPreTripIntentSent
  <2>6. ASSUME NEW s \in Symbols, Decide(s) PROVE TripInv'
    BY <2>5, <2>6 DEF Decide, sharedVars, workerVars
  <2>7. CASE TryEnqueue
    BY <2>5, <2>7 DEF TryEnqueue, TxCheckKillSwitch, TxReserve, TxPublishReserved,
                      TxTrySend, TxUndoReserve, TxReload, TxRepublish, TxOverflow,
                      sharedVars, workerVars
  <2>8. CASE WorkerPopOverflow \/ WorkerRecv \/ WorkerDecrement \/ WorkerLoadDepth
             \/ WorkerPublishDepth \/ WorkerSent
    BY <2>5, <2>8 DEF WorkerPopOverflow, WorkerRecv, WorkerDecrement, WorkerLoadDepth,
                      WorkerPublishDepth, WorkerSent, WorkerGoto, sharedVars
  <2>9. CASE UNCHANGED vars
    BY <2>5, <2>9 DEF vars, sharedVars, workerVars
  <2>10. QED
    BY <2>1, <2>2, <2>3, <2>4, <2>6, <2>7, <2>8, <2>9 DEF Next, Worker
<1>3. TripInv => NoPreTripIntentSent
  BY DEF TripInv
<1>4. QED
  BY <1>1, <1>2, <1>3, TypeCorrect, PTL DEF Spec

-----------------------------------------------------------------------------
(* Where every decided intent is.                                          *)

(* The overflow lane stays finite, so that its intents can be counted.      *)
AccountInv == IsFiniteSet(overflow) /\ EveryIntentAccounted

(* Each hand holds nothing or one intent.                                   *)
LEMMA Hands ==
  ASSUME TypeOK
  PROVE  /\ txPc = "idle" => InHand(txIntent) = 0
         /\ txPc # "idle" => InHand(txIntent) = 1
         /\ workerPc \in {"top", "select"} => InHand(workerIntent) = 0
         /\ workerPc \in {"decrement", "process", "sending"} => InHand(workerIntent) = 1
         /\ InHand(NoIntent) = 0 /\ \A i \in Intents : InHand(i) = 1
         /\ InHand(txIntent) \in Nat /\ InHand(workerIntent) \in Nat
BY NoIntentAssumption DEF TypeOK, InHand

LEMMA AccountStep ==
  ASSUME TypeOK, TypeOK', OverflowBounded, AccountInv, [Next]_vars
  PROVE  AccountInv'
<1>0. /\ decided \in Nat /\ dropped \in Nat /\ sent \in Nat /\ timeouts \in Nat
      /\ Len(queue) \in Nat /\ queue \in Seq(Intents) /\ overflow \in SUBSET Intents
      /\ Cardinality(overflow) \in Nat
  <2>1. Cardinality(overflow) \in Nat
    BY FS_CardinalityType DEF AccountInv
  <2>2. queue \in Seq(Intents) /\ overflow \in SUBSET Intents
    BY DEF TypeOK
  <2>3. decided \in Nat /\ dropped \in Nat /\ sent \in Nat /\ timeouts \in Nat
    BY DEF TypeOK
  <2> QED BY <2>1, <2>2, <2>3
<1> USE DEF AccountInv, EveryIntentAccounted
<1>1. ASSUME UNCHANGED <<decided, queue, overflow, dropped, sent, timeouts, txIntent, workerIntent>>
      PROVE  AccountInv'
  BY <1>1 DEF InHand
<1>2. ASSUME NEW s \in Symbols, Decide(s) PROVE AccountInv'
  <2>1. InHand(txIntent) = 0 /\ InHand(txIntent)' = 1
    <3>1. txIntent' \in Intents
      BY <1>2 DEF Decide, TypeOK, Intents
    <3> QED BY <1>2, <3>1, Hands, NoIntentAssumption DEF Decide, InHand
  <2>2. decided' = decided + 1
        /\ UNCHANGED <<queue, overflow, dropped, sent, timeouts, workerIntent>>
    BY <1>2 DEF Decide, sharedVars, counters, workerVars
  <2> QED BY <1>0, <2>1, <2>2, Hands DEF InHand
<1>3. CASE TxCheckKillSwitch
  <2>1. UNCHANGED <<decided, queue, overflow, sent, timeouts, workerIntent>>
    BY <1>3 DEF TxCheckKillSwitch, sharedVars, workerVars
  <2>2. CASE UNCHANGED <<dropped, txIntent>>
    BY <1>1, <2>1, <2>2
  <2>3. CASE dropped' = dropped + 1 /\ TxReturn
    <3>1. InHand(txIntent) = 1 /\ InHand(txIntent)' = 0
      BY <1>3, <2>3, Hands DEF TxCheckKillSwitch, TxReturn, InHand
    <3> QED BY <1>0, <2>1, <2>3, <3>1, Hands DEF InHand
  <2> QED BY <1>3, <2>2, <2>3 DEF TxCheckKillSwitch
<1>4. CASE TxReserve \/ TxPublishReserved \/ TxUndoReserve \/ TxReload \/ TxRepublish
  BY <1>1, <1>4 DEF TxReserve, TxPublishReserved, TxUndoReserve, TxReload, TxRepublish,
                    sharedVars, counters, workerVars
<1>5. CASE TxTrySend
  <2>1. UNCHANGED <<decided, overflow, dropped, sent, timeouts, workerIntent>>
    BY <1>5 DEF TxTrySend, counters, workerVars
  <2>2. CASE UNCHANGED <<queue, txIntent>>
    BY <1>1, <2>1, <2>2
  <2>3. CASE queue' = Append(queue, txIntent) /\ TxReturn
    <3>1. InHand(txIntent) = 1 /\ InHand(txIntent)' = 0 /\ txIntent \in Intents
      BY <1>5, <2>3, Hands DEF TxTrySend, TxReturn, InHand, TypeOK
    <3>2. Len(queue') = Len(queue) + 1
      BY <1>0, <2>3, <3>1
    <3> QED BY <1>0, <2>1, <3>1, <3>2, Hands DEF InHand
  <2> QED BY <1>5, <2>2, <2>3 DEF TxTrySend
<1>6. CASE TxOverflow
  <2> DEFINE replaced == {i \in overflow : SameSymbol(i, txIntent)}
  <2>1. /\ UNCHANGED <<decided, queue, sent, timeouts, workerIntent>>
        /\ overflow' = (overflow \ replaced) \cup {txIntent}
        /\ dropped' = IF replaced = {} THEN dropped ELSE dropped + 1
    BY <1>6 DEF TxOverflow, workerVars
  <2>2. InHand(txIntent) = 1 /\ InHand(txIntent)' = 0
    BY <1>6, Hands DEF TxOverflow, TxReturn, InHand
  <2>3. txIntent \notin overflow \ replaced
    BY DEF SameSymbol
  <2>4. CASE replaced = {}
    <3>1. overflow' = overflow \cup {txIntent} /\ txIntent \notin overflow
      BY <2>1, <2>3, <2>4
    <3>2. IsFiniteSet(overflow') /\ Cardinality(overflow') = Cardinality(overflow) + 1
      BY <3>1, FS_AddElement
    <3> QED BY <1>0, <2>1, <2>2, <2>4, <3>2, Hands DEF InHand
  <2>5. ASSUME NEW i \in replaced PROVE AccountInv'
    <3>1. replaced = {i}
      BY <2>5 DEF OverflowBounded, SameSymbol
    <3>2. IsFiniteSet(overflow \ {i}) /\ Cardinality(overflow \ {i}) = Cardinality(overflow) - 1
      BY <2>5, FS_RemoveElement
    <3>3. overflow' = (overflow \ {i}) \cup {txIntent} /\ txIntent \notin overflow \ {i}
      BY <2>1, <2>3, <3>1
    <3>4. IsFiniteSet(overflow') /\ Cardinality(overflow') = Cardinality(overflow \ {i}) + 1
      BY <3>2, <3>3, FS_AddElement
    <3>5. Cardinality(overflow') = Cardinality(overflow) /\ dropped' = dropped + 1
      BY <1>0, <2>1, <2>5, <3>2, <3>4
    <3> QED BY <1>0, <2>1, <2>2, <3>4, <3>5, Hands DEF InHand
  <2> QED BY <2>4, <2>5
<1>7. CASE WorkerPopOverflow
  <2>1. UNCHANGED <<decided, queue, dropped, sent, timeouts, txIntent>> /\ InHand(workerIntent) = 0
    BY <1>7, Hands DEF WorkerPopOverflow, counters, txVars
  <2>2. CASE UNCHANGED <<overflow, workerIntent>>
    BY <1>1, <2>1, <2>2
  <2>3. ASSUME NEW i \in overflow, overflow' = overflow \ {i}, workerIntent' = i
        PROVE  AccountInv'
    <3>1. IsFiniteSet(overflow') /\ Cardinality(overflow') = Cardinality(overflow) - 1
      BY <2>3, FS_RemoveElement
    <3>2. InHand(workerIntent)' = 1
      BY <1>0, <2>3, Hands DEF InHand
    <3> QED BY <1>0, <2>1, <3>1, <3>2, Hands DEF InHand
  <2> QED BY <1>7, <2>2, <2>3 DEF WorkerPopOverflow
<1>8. CASE WorkerRecv
  <2>1. /\ UNCHANGED <<decided, overflow, dropped, sent, timeouts, txIntent>>
        /\ InHand(workerIntent) = 0 /\ queue # <<>>
        /\ queue' = Tail(queue) /\ workerIntent' = Head(queue)
    BY <1>8, Hands DEF WorkerRecv, counters, txVars
  <2>2. Len(queue') = Len(queue) - 1 /\ Head(queue) \in Intents
    BY <1>0, <2>1
  <2>3. InHand(workerIntent)' = 1
    BY <2>1, <2>2, Hands DEF InHand
  <2> QED BY <1>0, <2>1, <2>2, <2>3, Hands DEF InHand
<1>9. CASE WorkerDecrement \/ WorkerLoadDepth \/ WorkerPublishDepth \/ WorkerFlushTick \/ TimePasses
  BY <1>1, <1>9 DEF WorkerDecrement, WorkerLoadDepth, WorkerPublishDepth, WorkerFlushTick,
                    TimePasses, sharedVars, counters, txVars, workerVars
<1>10. CASE WorkerProcess
  <2>1. UNCHANGED <<decided, queue, overflow, sent, timeouts, txIntent>>
    BY <1>10 DEF WorkerProcess, txVars
  <2>2. CASE UNCHANGED <<dropped, workerIntent>>
    BY <1>1, <2>1, <2>2
  <2>3. CASE dropped' = dropped + 1 /\ workerIntent' = NoIntent
    <3>1. InHand(workerIntent) = 1 /\ InHand(workerIntent)' = 0
      BY <1>10, <2>3, Hands DEF WorkerProcess, InHand
    <3> QED BY <1>0, <2>1, <2>3, <3>1, Hands DEF InHand
  <2> QED BY <1>10, <2>2, <2>3 DEF WorkerProcess
<1>11. CASE WorkerSent \/ WorkerSendTimeout
  <2>1. /\ UNCHANGED <<decided, queue, overflow, dropped, txIntent>>
        /\ \/ sent' = sent + 1 /\ timeouts' = timeouts
           \/ sent' = sent /\ timeouts' = timeouts + 1
    BY <1>11 DEF WorkerSent, WorkerSendTimeout, sharedVars, txVars
  <2>2. InHand(workerIntent) = 1 /\ InHand(workerIntent)' = 0
    BY <1>11, Hands DEF WorkerSent, WorkerSendTimeout, InHand
  <2>3. InHand(txIntent)' = InHand(txIntent) /\ InHand(txIntent) \in Nat
    BY <2>1, Hands DEF InHand
  <2>4. CASE sent' = sent + 1 /\ timeouts' = timeouts
    BY <1>0, <2>1, <2>2, <2>3, <2>4
  <2>5. CASE sent' = sent /\ timeouts' = timeouts + 1
    BY <1>0, <2>1, <2>2, <2>3, <2>5
  <2> QED BY <2>1, <2>4, <2>5
<1>12. CASE UNCHANGED vars
  BY <1>1, <1>12 DEF vars, sharedVars, counters, txVars, workerVars
<1> QED BY <1>2, <1>3, <1>4, <1>5, <1>6, <1>7, <1>8, <1>9, <1>10, <1>11, <1>12
        DEF Next, TryEnqueue, Worker

(* No intent vanishes and none is counted twice: every intent decided is in *)
(* one hand or lane, or was counted once as dropped, sent or timed out,     *)
(* whatever the interleaving of the two tasks.                              *)
THEOREM IntentsAccounted == Spec => []EveryIntentAccounted
<1>1. Init => AccountInv
  BY FS_EmptySet DEF Init, AccountInv, EveryIntentAccounted, InHand
<1>2. TypeOK /\ TypeOK' /\ OverflowBounded /\ AccountInv /\ [Next]_vars => AccountInv'
  BY AccountStep
<1>3. AccountInv => EveryIntentAccounted
  BY DEF AccountInv
<1> QED BY <1>1, <1>2, <1>3, TypeCorrect, OverflowOnePerSymbol, PTL DEF Spec

-----------------------------------------------------------------------------
(* DbWriter.                                                               *)

(* What one more, one less or no command at one index leaves of a function  *)
(* of sequences.                                                            *)
LEMMA AppendTyped ==
  ASSUME NEW D, NEW C, NEW ch \in [D -> Seq(C)], NEW i, NEW x \in C
  PROVE  [ch EXCEPT ![i] = Append(@, x)] \in [D -> Seq(C)]
<1>1. \A d \in D : ch[d] \in Seq(C) /\ Append(ch[d], x) \in Seq(C)
  OBVIOUS
<1> QED BY <1>1

LEMMA EmptyTyped ==
  ASSUME NEW D, NEW C, NEW ch \in [D -> Seq(C)], NEW i
  PROVE  [ch EXCEPT ![i] = << >>] \in [D -> Seq(C)]
<1>1. << >> \in Seq(C)
  OBVIOUS
<1> QED BY <1>1

(* The part of the types the other invariants rest on.                      *)
ChannelTypes ==
  /\ nextSeq \in Nat /\ enqueuedSeq \in Nat /\ snapshot \in Nat
  /\ sending \in [Producers -> SUBSET Batches]
  /\ flushTarget \in [Flushers -> Nat]
  /\ channel \in [1 .. Stages -> Seq(Batches \cup Flushes)]
  /\ \A s \in Staging : channel[s] \in Seq(Batches)
  /\ holding \in [Staging -> SUBSET Batches]
  /\ forwarding \in [Staging -> BOOLEAN]

LEMMA ChannelTypesInit == WriterInit => ChannelTypes
BY ChannelAssumption DEF WriterInit, ChannelTypes, Staging

(* What a forwarder waits to send is a batch of its own.                    *)
LEMMA WaitingBatches ==
  ASSUME ChannelTypes, NEW s \in Staging
  PROVE  WaitingOf(s) \subseteq Batches
<1>1. s - 1 \in 1 .. Stages /\ ChannelCapacity[s - 1] \in Nat
  BY ChannelAssumption DEF Staging
<1>2. channel[s - 1] \in Seq(Batches \cup Flushes)
  BY <1>1 DEF ChannelTypes
<1>3. ASSUME NEW k \in {i \in ChannelCapacity[s - 1] + 1 .. Len(channel[s - 1]) :
                          channel[s - 1][i].kind # "flush"}
      PROVE  channel[s - 1][k] \in Batches
  <2>1. k \in 1 .. Len(channel[s - 1])
    BY <1>1, <1>2
  <2>2. channel[s - 1][k] \in Batches \cup Flushes
    BY <1>2, <2>1
  <2> QED BY <1>3, <2>2 DEF Flushes
<1> QED BY <1>3 DEF WaitingOf

LEMMA ReturnedBatches ==
  ASSUME ChannelTypes, NEW s \in 1 .. Stages
  PROVE  Returned(s) \in [Staging -> SUBSET Batches]
<1>1. CASE s = Stages
  BY <1>1 DEF Returned, ChannelTypes
<1>2. CASE s # Stages
  <2>1. s + 1 \in Staging
    BY <1>2, ChannelAssumption DEF Staging
  <2> QED BY <1>2, <2>1, WaitingBatches DEF Returned, ChannelTypes
<1> QED BY <1>1, <1>2

(* The head of the primary channel is a batch when its kind is one.         *)
LEMMA ReceivedIsBatch ==
  ASSUME ChannelTypes, channel[1] # << >>, Received.kind # "flush"
  PROVE  Received \in Batches
<1>1. channel[1] \in Seq(Batches \cup Flushes)
  BY ChannelAssumption DEF ChannelTypes
<1> QED BY <1>1 DEF Received, Flushes

LEMMA ChannelTypesStep == ChannelTypes /\ [WriterNext]_writerVars => ChannelTypes'
<1> SUFFICES ASSUME ChannelTypes, [WriterNext]_writerVars PROVE ChannelTypes'
  OBVIOUS
<1> USE ChannelAssumption DEF ChannelTypes
<1>1. ASSUME NEW p \in Producers, Producer(p) PROVE ChannelTypes'
  <2>1. ASSUME NEW k \in Sends[p], Allocate(p, k) PROVE ChannelTypes'
    <3>1. k \in Kinds
      BY SendsAssumption
    <3>2. {[kind |-> k, seq |-> nextSeq + 1]} \in SUBSET Batches
      BY <3>1 DEF Batches
    <3> QED BY <2>1, <3>2 DEF Allocate, stagingVars, databaseVars, flushVars
  <2>2. CASE TrySendPlaced(p)
    <3>1. PICK b \in sending[p] : channel' = [channel EXCEPT ![attempt[p]] = Append(@, b)]
      BY <2>2 DEF TrySendPlaced
    <3>2. b \in Batches
      BY <3>1
    <3>3. channel' \in [1 .. Stages -> Seq(Batches \cup Flushes)]
      BY <3>1, <3>2, AppendTyped
    <3>4. \A t \in Staging : channel'[t] \in Seq(Batches)
      BY <3>1, <3>2 DEF Staging
    <3> QED BY <2>2, <3>3, <3>4 DEF TrySendPlaced, databaseVars, flushVars
  <2>3. CASE TrySendFull(p)
    BY <2>3 DEF TrySendFull, stagingVars, databaseVars, flushVars
  <2>4. CASE TrySendDropped(p)
    BY <2>4 DEF TrySendDropped, GiveUp, stagingVars, databaseVars, flushVars
  <2>5. CASE MarkEnqueued(p)
    <3>1. enqueuedSeq' \in Nat
      BY <2>5 DEF MarkEnqueued, Batches
    <3> QED BY <2>5, <3>1 DEF MarkEnqueued, GiveUp, stagingVars, databaseVars, flushVars
  <2> QED BY <1>1, <2>1, <2>2, <2>3, <2>4, <2>5 DEF Producer
<1>2. ASSUME NEW f \in Flushers, Flush(f) PROVE ChannelTypes'
  <2>1. CASE FlushLoad(f)
    BY <2>1 DEF FlushLoad, producerVars, stagingVars, databaseVars
  <2>2. CASE FlushSend(f)
    <3>1. [kind |-> "flush", target |-> flushTarget[f], done |-> f] \in Flushes
      BY DEF Flushes
    <3>2. channel' \in [1 .. Stages -> Seq(Batches \cup Flushes)]
      BY <2>2, <3>1, AppendTyped DEF FlushSend
    <3>3. \A t \in Staging : channel'[t] = channel[t]
      BY <2>2 DEF FlushSend, Staging
    <3> QED BY <2>2, <3>2, <3>3 DEF FlushSend, producerVars, databaseVars
  <2>3. CASE FlushClosed(f)
    BY <2>3 DEF FlushClosed, producerVars, stagingVars, databaseVars
  <2> QED BY <1>2, <2>1, <2>2, <2>3 DEF Flush
<1>3. ASSUME NEW s \in Staging, Forwarder(s) PROVE ChannelTypes'
  <2>0. s \in 1 .. Stages /\ s - 1 \in 1 .. Stages /\ s - 1 # s
    BY DEF Staging
  <2>1. CASE ForwarderRecv(s)
    <3>1. Head(channel[s]) \in Batches /\ Tail(channel[s]) \in Seq(Batches)
      BY <2>1 DEF ForwarderRecv
    <3>2. Tail(channel[s]) \in Seq(Batches \cup Flushes)
      BY <2>0, <2>1 DEF ForwarderRecv
    <3>3. channel' \in [1 .. Stages -> Seq(Batches \cup Flushes)]
      BY <2>0, <2>1, <3>2 DEF ForwarderRecv
    <3>4. \A t \in Staging : channel'[t] \in Seq(Batches)
      BY <2>0, <2>1, <3>1 DEF ForwarderRecv, Staging
    <3>5. holding' \in [Staging -> SUBSET Batches]
      BY <2>1, <3>1 DEF ForwarderRecv
    <3> QED BY <2>1, <3>3, <3>4, <3>5 DEF ForwarderRecv, producerVars, databaseVars, flushVars
  <2>2. CASE ForwarderSend(s)
    <3>1. PICK b \in holding[s] : channel' = [channel EXCEPT ![s - 1] = Append(@, b)]
      BY <2>2 DEF ForwarderSend
    <3>2. b \in Batches
      BY <3>1
    <3>3. channel' \in [1 .. Stages -> Seq(Batches \cup Flushes)]
      <4> DEFINE below == s - 1
      <4>1. channel' = [channel EXCEPT ![below] = Append(@, b)] /\ b \in Batches \cup Flushes
        BY <3>1, <3>2
      <4> HIDE DEF below
      <4> QED BY <4>1, AppendTyped
    <3>4. ASSUME NEW t \in Staging PROVE channel'[t] \in Seq(Batches)
      <4>1. channel[t] \in Seq(Batches) /\ Append(channel[t], b) \in Seq(Batches)
        BY <3>2
      <4>2. channel'[t] = channel[t] \/ channel'[t] = Append(channel[t], b)
        <5>1. t \in DOMAIN channel
          BY DEF Staging
        <5> QED BY <3>1, <5>1
      <4> QED BY <4>1, <4>2
    <3> QED BY <2>2, <3>3, <3>4 DEF ForwarderSend, producerVars, databaseVars, flushVars
  <2>3. CASE ForwarderFails(s)
    <3>1. channel' \in [1 .. Stages -> Seq(Batches \cup Flushes)]
      BY <2>3, EmptyTyped DEF ForwarderFails, Lost
    <3>2. \A t \in Staging : channel'[t] \in Seq(Batches)
      BY <2>3 DEF ForwarderFails, Lost, Staging
    <3>3. holding' \in [Staging -> SUBSET Batches]
      BY <2>0, <2>3, ReturnedBatches DEF ForwarderFails
    <3> QED BY <2>3, <3>1, <3>2, <3>3
            DEF ForwarderFails, producerVars, databaseVars, flushVars
  <2>4. CASE ForwarderEnds(s)
    BY <2>4 DEF ForwarderEnds, producerVars, databaseVars, flushVars
  <2> QED BY <1>3, <2>1, <2>2, <2>3, <2>4 DEF Forwarder
<1>4. CASE Open
  BY <1>4 DEF Open, producerVars, flushVars, stagingVars, databaseVars
<1>5. CASE OpenFails
  <2>1. channel' \in [1 .. Stages -> Seq(Batches \cup Flushes)]
    BY <1>5, EmptyTyped DEF OpenFails, Lost
  <2>2. \A t \in Staging : channel'[t] \in Seq(Batches)
    BY <1>5 DEF OpenFails, Lost, Staging
  <2>3. holding' \in [Staging -> SUBSET Batches]
    BY <1>5, ReturnedBatches DEF OpenFails
  <2> QED BY <1>5, <2>1, <2>2, <2>3 DEF OpenFails, producerVars, databaseVars
<1>6. ASSUME NEW k, Receive(k), snapshot' \in Nat PROVE ChannelTypes'
  <2>1. Tail(channel[1]) \in Seq(Batches \cup Flushes)
    BY <1>6 DEF Receive
  <2>2. channel' \in [1 .. Stages -> Seq(Batches \cup Flushes)]
    BY <1>6, <2>1 DEF Receive
  <2>3. \A t \in Staging : channel'[t] = channel[t]
    BY <1>6 DEF Receive, Staging
  <2> QED BY <1>6, <2>2, <2>3 DEF Receive, producerVars
<1>7. CASE RecvTrades
  BY <1>6, <1>7 DEF RecvTrades
<1>8. CASE RecvSnapshot
  <2>1. snapshot' \in Nat
    BY <1>8, ReceivedIsBatch DEF RecvSnapshot, Receive, Batches
  <2> QED BY <1>6, <1>8, <2>1 DEF RecvSnapshot
<1>9. CASE RecvBoth
  <2>1. snapshot' \in Nat
    BY <1>9, ReceivedIsBatch DEF RecvBoth, Receive, Batches
  <2> QED BY <1>6, <1>9, <2>1 DEF RecvBoth
<1>10. CASE RecvFlush
  BY <1>6, <1>10 DEF RecvFlush
<1>11. CASE RecvClosed
  BY <1>11 DEF RecvClosed, producerVars, stagingVars
<1>12. CASE IntervalTick
  BY <1>12 DEF IntervalTick, producerVars, stagingVars
<1>13. CASE DropHandles
  BY <1>13 DEF DropHandles, producerVars, flushVars, stagingVars, databaseVars
<1>14. CASE UNCHANGED writerVars
  BY <1>14 DEF writerVars, producerVars, flushVars, stagingVars, databaseVars
<1> QED BY <1>1, <1>2, <1>3, <1>4, <1>5, <1>7, <1>8, <1>9, <1>10, <1>11, <1>12, <1>13, <1>14
        DEF WriterNext, WriterRecv, Ended

-----------------------------------------------------------------------------
(* A snapshot in the database is only replaced by one with a higher number. *)
THEOREM SnapshotOrder == WriterSpec => SnapshotNeverOlder
<1>1. ChannelTypes /\ [WriterNext]_writerVars => [snapshot' >= snapshot]_snapshot
  <2> SUFFICES ASSUME ChannelTypes, [WriterNext]_writerVars
               PROVE  snapshot' >= snapshot \/ snapshot' = snapshot
    OBVIOUS
  <2>1. snapshot \in Nat
    BY DEF ChannelTypes
  <2>2. CASE RecvSnapshot
    BY <2>1, <2>2, ReceivedIsBatch DEF RecvSnapshot, Receive, Replaces, Batches
  <2>3. CASE RecvBoth
    BY <2>1, <2>3, ReceivedIsBatch DEF RecvBoth, Receive, Replaces, Batches
  <2>4. CASE ~RecvSnapshot /\ ~RecvBoth
    <3>1. ASSUME NEW p \in Producers, Producer(p) PROVE snapshot' = snapshot
      BY <3>1 DEF Producer, Allocate, TrySendPlaced, TrySendFull, TrySendDropped,
                  MarkEnqueued, databaseVars
    <3>2. ASSUME NEW f \in Flushers, Flush(f) PROVE snapshot' = snapshot
      BY <3>2 DEF Flush, FlushLoad, FlushSend, FlushClosed, databaseVars
    <3>3. ASSUME NEW s \in Staging, Forwarder(s) PROVE snapshot' = snapshot
      BY <3>3 DEF Forwarder, ForwarderRecv, ForwarderSend, ForwarderFails, ForwarderEnds,
                  databaseVars
    <3>4. Open \/ OpenFails \/ DropHandles => snapshot' = snapshot
      BY DEF Open, OpenFails, DropHandles, databaseVars
    <3>5. RecvTrades \/ RecvFlush \/ RecvClosed \/ IntervalTick => snapshot' = snapshot
      BY DEF RecvTrades, RecvFlush, RecvClosed, IntervalTick
    <3>6. UNCHANGED writerVars => snapshot' = snapshot
      BY DEF writerVars, databaseVars
    <3> QED BY <2>4, <3>1, <3>2, <3>3, <3>4, <3>5, <3>6 DEF WriterNext, WriterRecv, Ended
  <2> QED BY <2>2, <2>3, <2>4
<1> QED BY <1>1, ChannelTypesInit, ChannelTypesStep, PTL DEF WriterSpec, SnapshotNeverOlder
-----------------------------------------------------------------------------
(* Plain trades stay in the buffer until a write succeeds.                  *)
Survive ==
  worker \in {"opening", "running"} =>
    /\ worker = "opening" => observed = {}
    /\ \A b \in observed : b.kind = "trades" => b.seq \in buffer \cup disk

LEMMA SurviveStep == Survive /\ [WriterNext]_writerVars => Survive'
<1> SUFFICES ASSUME Survive, [WriterNext]_writerVars PROVE Survive'
  OBVIOUS
<1>1. ASSUME NEW p \in Producers, Producer(p) PROVE Survive'
  BY <1>1 DEF Survive, Producer, Allocate, TrySendPlaced, TrySendFull, TrySendDropped,
              MarkEnqueued, databaseVars, receiverVars
<1>2. ASSUME NEW f \in Flushers, Flush(f) PROVE Survive'
  BY <1>2 DEF Survive, Flush, FlushLoad, FlushSend, FlushClosed, databaseVars, receiverVars
<1>3. ASSUME NEW s \in Staging, Forwarder(s) PROVE Survive'
  BY <1>3 DEF Survive, Forwarder, ForwarderRecv, ForwarderSend, ForwarderFails,
              ForwarderEnds, databaseVars, receiverVars
<1>4. CASE Open
  BY <1>4 DEF Survive, Open, databaseVars
<1>5. CASE OpenFails
  BY <1>5 DEF Survive, OpenFails
<1>6. CASE RecvTrades
  <2>1. worker = "running" /\ worker' = "running" /\ observed' = observed \cup {Received}
    BY <1>6 DEF RecvTrades, Receive, Observe
  <2>2. buffer \cup {Received.seq} \cup disk \subseteq buffer' \cup disk'
    BY <1>6 DEF RecvTrades, WriteTrades, Unwritten, Written
  <2> QED BY <2>1, <2>2 DEF Survive
<1>7. CASE RecvSnapshot
  <2>1. worker = "running" /\ worker' = "running" /\ observed' = observed \cup {Received}
        /\ Received.kind = "snapshot"
    BY <1>7 DEF RecvSnapshot, Receive, Observe
  <2>2. buffer \cup disk \subseteq buffer' \cup disk'
    BY <1>7 DEF RecvSnapshot, WriteTrades, Unwritten, Written
  <2> QED BY <2>1, <2>2 DEF Survive
<1>8. CASE RecvBoth
  <2>1. worker = "running" /\ worker' = "running" /\ observed' = observed \cup {Received}
        /\ Received.kind = "both"
    BY <1>8 DEF RecvBoth, Receive, Observe
  <2>2. buffer \cup disk \subseteq buffer' \cup disk'
    BY <1>8 DEF RecvBoth, Unwritten, Written
  <2> QED BY <2>1, <2>2 DEF Survive
<1>9. CASE RecvFlush
  <2>1. worker = "running" /\ worker' = "running" /\ observed' = observed
    BY <1>9 DEF RecvFlush, Receive
  <2>2. buffer \cup disk \subseteq buffer' \cup disk'
    BY <1>9 DEF RecvFlush, WriteTrades, Unwritten, Written
  <2> QED BY <2>1, <2>2 DEF Survive
<1>10. CASE RecvClosed
  BY <1>10 DEF Survive, RecvClosed
<1>11. CASE IntervalTick
  <2>1. buffer \cup disk \subseteq buffer' \cup disk'
    BY <1>11 DEF IntervalTick, WriteTrades, Unwritten, Written
  <2> QED BY <1>11, <2>1 DEF Survive, IntervalTick
<1>12. CASE DropHandles
  BY <1>12 DEF Survive, DropHandles, databaseVars, receiverVars
<1>13. CASE UNCHANGED writerVars
  BY <1>13 DEF Survive, writerVars, databaseVars, receiverVars
<1> QED BY <1>1, <1>2, <1>3, <1>4, <1>5, <1>6, <1>7, <1>8, <1>9, <1>10, <1>11, <1>12, <1>13
        DEF WriterNext, WriterRecv, Ended

(* No failed write loses trades of a plain batch while the writer runs.     *)
THEOREM NoTradeLost == WriterSpec => []TradesSurvive
<1>1. WriterInit => Survive
  BY DEF WriterInit, Survive
<1>2. Survive => TradesSurvive
  BY DEF Survive, TradesSurvive
<1> QED BY <1>1, <1>2, SurviveStep, PTL DEF WriterSpec

-----------------------------------------------------------------------------
(* The channels close from the last to the first.  A call in progress holds *)
(* a handle; a forwarder ends only when it and all behind it have drained,  *)
(* and the writer stops only when every forwarder has.                      *)
HandlesHeld ==
  ~handles => /\ \A p \in Producers : producerPc[p] = "idle"
              /\ \A f \in Flushers : flushPc[f] \in {"idle", "returned"}
Drained(s) == ~forwarding[s] /\ channel[s] = << >> /\ holding[s] = {}
DrainInOrder ==
  worker # "failed" =>
    /\ \A s \in Staging : ~forwarding[s] =>
         ~handles /\ \A t \in Staging : t >= s => Drained(t)
    /\ worker = "stopped" =>
         ~handles /\ channel[1] = << >> /\ \A t \in Staging : Drained(t)
ShutdownInv == HandlesHeld /\ DrainInOrder

LEMMA ShutdownInit == WriterInit => ShutdownInv
BY DEF WriterInit, ShutdownInv, HandlesHeld, DrainInOrder, Staging

LEMMA HandlesHeldStep == HandlesHeld /\ [WriterNext]_writerVars => HandlesHeld'
<1> SUFFICES ASSUME HandlesHeld, [WriterNext]_writerVars PROVE HandlesHeld'
  OBVIOUS
<1> USE DEF HandlesHeld
<1>1. ASSUME NEW p \in Producers, Producer(p) PROVE HandlesHeld'
  BY <1>1 DEF Producer, Allocate, TrySendPlaced, TrySendFull, TrySendDropped, MarkEnqueued,
              flushVars
<1>2. ASSUME NEW f \in Flushers, Flush(f) PROVE HandlesHeld'
  BY <1>2 DEF Flush, FlushLoad, FlushSend, FlushClosed, producerVars
<1>3. ASSUME NEW s \in Staging, Forwarder(s) PROVE HandlesHeld'
  BY <1>3 DEF Forwarder, ForwarderRecv, ForwarderSend, ForwarderFails, ForwarderEnds,
              producerVars, flushVars
<1>4. ASSUME NEW fs, Return(fs), UNCHANGED <<producerPc, handles>> PROVE HandlesHeld'
  BY <1>4 DEF Return
<1>5. CASE Open \/ DropHandles
  BY <1>5 DEF Open, DropHandles, producerVars, flushVars
<1>6. CASE OpenFails
  BY <1>4, <1>6 DEF OpenFails, producerVars
<1>7. CASE WriterRecv
  BY <1>4, <1>7 DEF WriterRecv, RecvTrades, RecvSnapshot, RecvBoth, RecvFlush, RecvClosed,
                    Receive, CompleteReadyFlushes, producerVars
<1>8. CASE IntervalTick
  BY <1>4, <1>8 DEF IntervalTick, CompleteReadyFlushes, producerVars
<1>9. CASE UNCHANGED writerVars
  BY <1>9 DEF writerVars, producerVars, flushVars
<1> QED BY <1>1, <1>2, <1>3, <1>5, <1>6, <1>7, <1>8, <1>9 DEF WriterNext, Ended

LEMMA DrainInOrderStep == ShutdownInv /\ ChannelTypes /\ [WriterNext]_writerVars => DrainInOrder'
<1> SUFFICES ASSUME HandlesHeld, DrainInOrder, ChannelTypes, [WriterNext]_writerVars
             PROVE  DrainInOrder'
  BY DEF ShutdownInv
<1> USE ChannelAssumption
<1>0. \A s \in Staging : s \in 2 .. Stages /\ s \in Int
  BY DEF Staging
(* While a handle is left, every forwarder and the writer go on.            *)
<1>1. ASSUME handles, UNCHANGED <<forwarding, worker>> PROVE DrainInOrder'
  BY <1>1 DEF DrainInOrder, Drained
<1>2. ASSUME NEW p \in Producers, Producer(p) PROVE DrainInOrder'
  <2>1. handles
    BY <1>2 DEF HandlesHeld, Producer, Allocate, TrySendPlaced, TrySendFull, TrySendDropped,
                MarkEnqueued
  <2>2. UNCHANGED <<forwarding, worker>>
    BY <1>2 DEF Producer, Allocate, TrySendPlaced, TrySendFull, TrySendDropped, MarkEnqueued,
                stagingVars, receiverVars
  <2> QED BY <1>1, <2>1, <2>2
<1>3. ASSUME NEW f \in Flushers, Flush(f) PROVE DrainInOrder'
  <2>1. handles
    BY <1>3 DEF HandlesHeld, Flush, FlushLoad, FlushSend, FlushClosed
  <2>2. UNCHANGED <<forwarding, worker>>
    BY <1>3 DEF Flush, FlushLoad, FlushSend, FlushClosed, stagingVars, receiverVars
  <2> QED BY <1>1, <2>1, <2>2
<1>4. ASSUME NEW s \in Staging, Forwarder(s), worker # "failed" PROVE DrainInOrder'
  <2>1. CASE ForwarderRecv(s)
    <3>1. forwarding[s]
      BY <2>1 DEF ForwarderRecv, ForwarderIdle
    <3>2. worker # "stopped" /\ UNCHANGED <<forwarding, worker, handles>>
      BY <1>4, <2>1, <3>1 DEF ForwarderRecv, DrainInOrder, Drained, receiverVars
    <3>3. ASSUME NEW t \in Staging, ~forwarding[t], NEW u \in Staging, u >= t
          PROVE  Drained(u)'
      <4>1. Drained(u) /\ u # s
        BY <1>4, <3>1, <3>3 DEF DrainInOrder, Drained
      <4>2. channel'[u] = channel[u] /\ holding'[u] = holding[u]
        BY <2>1, <4>1 DEF ForwarderRecv
      <4> QED BY <3>2, <4>1, <4>2 DEF Drained
    <3> QED BY <1>4, <3>2, <3>3 DEF DrainInOrder
  <2>2. CASE ForwarderSend(s)
    <3>1. forwarding[s] /\ worker # "stopped"
      BY <1>0, <1>4, <2>2 DEF ForwarderSend, DrainInOrder, Drained
    <3>2. UNCHANGED <<forwarding, worker, handles>>
      BY <2>2 DEF ForwarderSend, receiverVars
    <3>3. ASSUME NEW t \in Staging, ~forwarding[t], NEW u \in Staging, u >= t
          PROVE  Drained(u)'
      <4>1. Drained(u) /\ u # s /\ u # s - 1
        BY <1>0, <1>4, <3>1, <3>3 DEF DrainInOrder, Drained
      <4>2. channel'[u] = channel[u] /\ holding'[u] = holding[u]
        BY <2>2, <4>1 DEF ForwarderSend
      <4> QED BY <3>2, <4>1, <4>2 DEF Drained
    <3> QED BY <1>4, <3>1, <3>2, <3>3 DEF DrainInOrder
  <2>3. CASE ForwarderFails(s)
    <3>1. CASE s - 1 = 1
      BY <1>4, <2>3, <3>1 DEF ForwarderFails, Closed, DrainInOrder, Drained
    <3>2. CASE s - 1 # 1
      <4>1. s - 1 \in Staging /\ s >= s - 1
        BY <1>0, <3>2 DEF Staging
      <4> QED BY <1>4, <2>3, <3>2, <4>1 DEF ForwarderFails, Closed, DrainInOrder, Drained
    <3> QED BY <3>1, <3>2
  <2>4. CASE ForwarderEnds(s)
    <3>1. forwarding[s] /\ ~handles /\ channel[s] = << >> /\ holding[s] = {}
      BY <2>4 DEF ForwarderEnds, ForwarderIdle, SendersGone
    <3>2. worker # "stopped"
      BY <1>4, <3>1 DEF DrainInOrder, Drained
    <3>3. UNCHANGED <<channel, holding, worker, handles>>
      BY <2>4 DEF ForwarderEnds, receiverVars
    <3>4. forwarding' = [forwarding EXCEPT ![s] = FALSE]
      BY <2>4 DEF ForwarderEnds
    <3>5. \A u \in Staging : Drained(u) => Drained(u)'
      BY <3>3, <3>4 DEF Drained, ChannelTypes
    <3>6. Drained(s)'
      BY <3>1, <3>3, <3>4 DEF Drained, ChannelTypes
    <3>7. ASSUME NEW u \in Staging, u > s PROVE Drained(u)
      <4>1. s + 1 \in Staging /\ u >= s + 1
        BY <1>0, <3>7 DEF Staging
      <4>2. ~forwarding[s + 1]
        BY <2>4, <4>1 DEF ForwarderEnds, SendersGone
      <4> QED BY <1>4, <4>1, <4>2 DEF DrainInOrder
    <3>8. ASSUME NEW t \in Staging, ~forwarding'[t], NEW u \in Staging, u >= t
          PROVE  Drained(u)'
      <4>1. CASE t = s
        BY <1>0, <3>5, <3>6, <3>7, <3>8, <4>1
      <4>2. CASE t # s
        BY <1>4, <3>4, <3>5, <3>8, <4>2 DEF DrainInOrder, ChannelTypes
      <4> QED BY <4>1, <4>2
    <3> QED BY <3>1, <3>2, <3>3, <3>8 DEF DrainInOrder
  <2> QED BY <1>4, <2>1, <2>2, <2>3, <2>4 DEF Forwarder
<1>5. ASSUME UNCHANGED <<forwarding, handles, worker, holding>>, worker = "running",
             \A s \in Staging : channel'[s] = channel[s]
      PROVE  DrainInOrder'
  BY <1>5 DEF DrainInOrder, Drained
<1>6. CASE Open
  BY <1>6 DEF Open, DrainInOrder, Drained, stagingVars
<1>7. CASE OpenFails
  BY <1>7 DEF OpenFails, DrainInOrder
<1>8. ASSUME NEW k, Receive(k) PROVE DrainInOrder'
  <2>1. \A s \in Staging : channel'[s] = channel[s]
    BY <1>8 DEF Receive, Staging
  <2> QED BY <1>5, <1>8, <2>1 DEF Receive
<1>9. CASE RecvTrades \/ RecvSnapshot \/ RecvBoth \/ RecvFlush
  BY <1>8, <1>9 DEF RecvTrades, RecvSnapshot, RecvBoth, RecvFlush
<1>10. CASE RecvClosed
  <2>1. worker = "running" /\ channel[1] = << >> /\ ~handles
    BY <1>10 DEF RecvClosed, SendersGone
  <2>2. UNCHANGED <<forwarding, channel, holding, handles>>
    BY <1>10 DEF RecvClosed, stagingVars
  <2>3. ASSUME NEW u \in Staging PROVE Drained(u)
    <3>1. 2 \in Staging /\ u >= 2
      BY <1>0, <2>3 DEF Staging
    <3>2. ~forwarding[2]
      BY <1>10, <3>1 DEF RecvClosed, SendersGone
    <3> QED BY <2>1, <3>1, <3>2 DEF DrainInOrder
  <2> QED BY <2>1, <2>2, <2>3 DEF DrainInOrder, Drained
<1>11. CASE IntervalTick
  BY <1>5, <1>11 DEF IntervalTick, stagingVars
<1>12. CASE DropHandles
  BY <1>12 DEF DropHandles, DrainInOrder, Drained, stagingVars, receiverVars
<1>13. CASE UNCHANGED writerVars
  BY <1>13 DEF writerVars, DrainInOrder, Drained, stagingVars, receiverVars
<1>14. ASSUME NEW s \in Staging, Forwarder(s), worker = "failed" PROVE DrainInOrder'
  BY <1>14 DEF DrainInOrder, Forwarder, ForwarderRecv, ForwarderSend, ForwarderFails,
               ForwarderEnds, receiverVars
<1> QED BY <1>2, <1>3, <1>4, <1>6, <1>7, <1>9, <1>10, <1>11, <1>12, <1>13, <1>14
        DEF WriterNext, WriterRecv, Ended

(* When the writer stops, whatever the number of channels, none of them and *)
(* no forwarder holds a batch.                                              *)
THEOREM NothingLeftBehind == WriterSpec => []ShutdownDrains
<1>1. ShutdownInv => ShutdownDrains
  <2> SUFFICES ASSUME DrainInOrder, worker = "stopped" PROVE Staged = {}
    BY DEF ShutdownInv, ShutdownDrains
  <2>1. channel[1] = << >> /\ \A s \in Staging : channel[s] = << >> /\ holding[s] = {}
    BY DEF DrainInOrder, Drained
  <2>2. \A s \in 1 .. Stages : channel[s] = << >>
    <3>1. \A s \in 1 .. Stages : s = 1 \/ s \in Staging
      BY ChannelAssumption DEF Staging
    <3> QED BY <2>1, <3>1
  <2>3. \A s \in 1 .. Stages : InChannel(s) = {}
    BY <2>2 DEF InChannel
  <2> QED BY <2>1, <2>3 DEF Staged
<1>2. ShutdownInv /\ ChannelTypes /\ [WriterNext]_writerVars => ShutdownInv'
  BY HandlesHeldStep, DrainInOrderStep DEF ShutdownInv
<1> QED BY <1>1, <1>2, ShutdownInit, ChannelTypesInit, ChannelTypesStep, PTL DEF WriterSpec

-----------------------------------------------------------------------------
(* What was dropped is counted.                                             *)

(* The batches among the commands of a channel.                             *)
Plain(c) == {c[k] : k \in {i \in 1 .. Len(c) : c[i].kind # "flush"}}
OfCommand(x) == IF x.kind = "flush" THEN {} ELSE {x}

LEMMA PlainAppend ==
  ASSUME NEW C, NEW c \in Seq(C), NEW x \in C
  PROVE  Plain(Append(c, x)) = Plain(c) \cup OfCommand(x)
<1>1. Append(c, x) \in Seq(C) /\ Len(Append(c, x)) = Len(c) + 1 /\ Len(c) \in Nat
  OBVIOUS
<1>2. \A k \in 1 .. Len(c) + 1 : Append(c, x)[k] = IF k = Len(c) + 1 THEN x ELSE c[k]
  OBVIOUS
<1> DEFINE d == Append(c, x)
<1> HIDE DEF d
<1>3. ASSUME NEW b \in Plain(d) PROVE b \in Plain(c) \cup OfCommand(x)
  <2>1. PICK k \in 1 .. Len(d) : d[k].kind # "flush" /\ b = d[k]
    BY DEF Plain
  <2> QED BY <1>1, <1>2, <2>1 DEF Plain, OfCommand, d
<1>4. ASSUME NEW b \in Plain(c) PROVE b \in Plain(d)
  <2>1. PICK k \in 1 .. Len(c) : c[k].kind # "flush" /\ b = c[k]
    BY DEF Plain
  <2>2. k \in 1 .. Len(d) /\ d[k] = c[k]
    BY <1>1, <1>2 DEF d
  <2> QED BY <2>1, <2>2 DEF Plain
<1>5. ASSUME NEW b \in OfCommand(x) PROVE b \in Plain(d)
  <2>1. b = x /\ x.kind # "flush"
    BY DEF OfCommand
  <2>2. Len(d) \in 1 .. Len(d) /\ d[Len(d)] = x
    BY <1>1, <1>2 DEF d
  <2> QED BY <2>1, <2>2 DEF Plain
<1>6. Plain(d) = Plain(c) \cup OfCommand(x)
  BY <1>3, <1>4, <1>5
<1> QED BY <1>6 DEF d

LEMMA PlainTail ==
  ASSUME NEW C, NEW c \in Seq(C), c # << >>
  PROVE  Plain(c) = OfCommand(Head(c)) \cup Plain(Tail(c))
<1>1. Len(c) \in Nat /\ Len(c) >= 1 /\ Head(c) = c[1] /\ Len(Tail(c)) = Len(c) - 1
  OBVIOUS
<1>2. \A k \in 1 .. Len(c) - 1 : Tail(c)[k] = c[k + 1]
  OBVIOUS
<1> DEFINE d == Tail(c)
<1> HIDE DEF d
<1>3. ASSUME NEW b \in Plain(c) PROVE b \in OfCommand(c[1]) \cup Plain(d)
  <2>1. PICK k \in 1 .. Len(c) : c[k].kind # "flush" /\ b = c[k]
    BY DEF Plain
  <2>2. CASE k = 1
    BY <2>1, <2>2 DEF OfCommand
  <2>3. CASE k # 1
    <3>1. k - 1 \in 1 .. Len(d) /\ d[k - 1] = c[k]
      BY <1>1, <1>2, <2>3 DEF d
    <3> QED BY <2>1, <3>1 DEF Plain
  <2> QED BY <2>2, <2>3
<1>4. ASSUME NEW b \in Plain(d) PROVE b \in Plain(c)
  <2>1. PICK k \in 1 .. Len(d) : d[k].kind # "flush" /\ b = d[k]
    BY DEF Plain
  <2>2. k + 1 \in 1 .. Len(c) /\ c[k + 1] = d[k]
    BY <1>1, <1>2 DEF d
  <2> QED BY <2>1, <2>2 DEF Plain
<1>5. ASSUME NEW b \in OfCommand(c[1]) PROVE b \in Plain(c)
  BY <1>1 DEF OfCommand, Plain
<1>6. Plain(c) = OfCommand(c[1]) \cup Plain(d)
  BY <1>3, <1>4, <1>5
<1> QED BY <1>1, <1>6 DEF d

(* A batch is staged in a channel or held by a forwarder.                   *)
At(b, ch, hold) == \/ \E s \in 1 .. Stages : b \in Plain(ch[s])
                   \/ \E s \in Staging : b \in hold[s]

LEMMA StagedMember ==
  ASSUME NEW b
  PROVE  /\ b \in Staged <=> At(b, channel, holding)
         /\ b \in Staged' <=> At(b, channel', holding')
<1>1. \A s : InChannel(s) = Plain(channel[s]) /\ InChannel(s)' = Plain(channel'[s])
  BY DEF InChannel, Plain
<1>2. b \in Staged <=> \/ \E s \in 1 .. Stages : b \in InChannel(s)
                       \/ \E s \in Staging : b \in holding[s]
  BY DEF Staged
<1>3. b \in Staged' <=> \/ \E s \in 1 .. Stages : b \in InChannel(s)'
                        \/ \E s \in Staging : b \in holding'[s]
  BY DEF Staged
<1> QED BY <1>1, <1>2, <1>3 DEF At

(* While the database opened, no forwarder has two batches in hand, a       *)
(* producer that tries has one, and nobody else has its number; no two      *)
(* batches accepted have one number, and every number that is not on its    *)
(* way or received was counted.                                             *)
Accepted == Staged \cup observed
Trying(p) == producerPc[p] = "trying"
Live == BatchesIn("trying") \cup Accepted
Gone == (1 .. nextSeq) \ Seqs(Live)

HeldOnce == \A s \in Staging : \A b, c \in holding[s] : b = c
NumberedOnce ==
  \A p \in Producers : Trying(p) =>
    /\ sending[p] # {} /\ \A b, c \in sending[p] : b = c
    /\ \A b \in sending[p] :
         /\ b.seq \notin Seqs(Accepted)
         /\ \A q \in Producers \ {p} : Trying(q) => \A c \in sending[q] : c.seq # b.seq
NumbersApart == \A b, c \in Accepted : b.seq = c.seq => b = c
CountInv ==
  worker # "failed" =>
    /\ HeldOnce /\ NumberedOnce /\ NumbersApart
    /\ Seqs(Live) \subseteq 1 .. nextSeq
    /\ drops = Cardinality(Gone)

LEMMA LiveNumber ==
  ASSUME NEW n
  PROVE  /\ n \in Seqs(Live) <=> \/ \E p \in Producers : Trying(p) /\ \E b \in sending[p] : b.seq = n
                                 \/ n \in Seqs(Accepted)
         /\ n \in Seqs(Live)' <=>
              \/ \E p \in Producers : Trying(p)' /\ \E b \in sending'[p] : b.seq = n
              \/ n \in Seqs(Accepted)'
BY DEF Live, Seqs, BatchesIn, Trying

(* A step that moves accepted batches about changes no count.               *)
LEMMA CountMoves ==
  ASSUME CountInv, worker # "failed", Accepted' = Accepted, HeldOnce',
         UNCHANGED <<nextSeq, drops, sending, producerPc>>
  PROVE  CountInv'
<1>1. Live' = Live
  BY DEF Live, BatchesIn
<1>2. Gone' = Gone
  BY <1>1 DEF Gone, Seqs
<1>3. Seqs(Live)' = Seqs(Live) /\ Seqs(Accepted)' = Seqs(Accepted)
  BY <1>1 DEF Seqs
<1>4. NumberedOnce'
  BY <1>3 DEF CountInv, NumberedOnce, Trying
<1>5. NumbersApart'
  BY DEF CountInv, NumbersApart
<1> QED BY <1>2, <1>3, <1>4, <1>5 DEF CountInv

(* One command more at the end of one channel.                              *)
LEMMA AppendAccepts ==
  ASSUME ChannelTypes, NEW s \in 1 .. Stages, NEW x \in Batches \cup Flushes,
         channel' = [channel EXCEPT ![s] = Append(@, x)], UNCHANGED <<holding, observed>>
  PROVE  Accepted' = Accepted \cup OfCommand(x)
<1>1. channel \in [1 .. Stages -> Seq(Batches \cup Flushes)]
  BY DEF ChannelTypes
<1>2. Plain(channel'[s]) = Plain(channel[s]) \cup OfCommand(x)
  BY <1>1, PlainAppend
<1>3. \A t \in 1 .. Stages : t # s => channel'[t] = channel[t]
  BY <1>1
<1>4. ASSUME NEW b PROVE b \in Staged' <=> b \in Staged \cup OfCommand(x)
  <2>1. At(b, channel', holding') <=> At(b, channel, holding) \/ b \in OfCommand(x)
    BY <1>2, <1>3 DEF At
  <2> QED BY <2>1, StagedMember
<1> QED BY <1>4 DEF Accepted

(* One command less at the head of one channel.                             *)
LEMMA HeadTaken ==
  ASSUME ChannelTypes, NEW s \in 1 .. Stages, channel[s] # << >>,
         channel' = [channel EXCEPT ![s] = Tail(@)], UNCHANGED holding
  PROVE  Staged = Staged' \cup OfCommand(Head(channel[s]))
<1>1. channel \in [1 .. Stages -> Seq(Batches \cup Flushes)]
  BY DEF ChannelTypes
<1>2. Plain(channel[s]) = OfCommand(Head(channel[s])) \cup Plain(channel'[s])
  BY <1>1, PlainTail
<1>3. \A t \in 1 .. Stages : t # s => channel'[t] = channel[t]
  BY <1>1
<1>4. ASSUME NEW b PROVE b \in Staged <=> b \in Staged' \cup OfCommand(Head(channel[s]))
  <2>1. At(b, channel, holding) <=> At(b, channel', holding') \/ b \in OfCommand(Head(channel[s]))
    BY <1>2, <1>3 DEF At
  <2> QED BY <2>1, StagedMember
<1> QED BY <1>4

LEMMA ForwarderCounts ==
  ASSUME ChannelTypes, ShutdownInv, CountInv, NEW s \in Staging, Forwarder(s)
  PROVE  CountInv'
<1> USE ChannelAssumption
<1>0. s \in 1 .. Stages /\ s - 1 \in 1 .. Stages /\ s - 1 # s
  BY DEF Staging
<1>1. worker' = worker
  BY DEF Forwarder, ForwarderRecv, ForwarderSend, ForwarderFails, ForwarderEnds, receiverVars
<1>2. CASE worker = "failed"
  BY <1>1, <1>2 DEF CountInv
<1>3. CASE worker # "failed" /\ ForwarderRecv(s)
  <2> DEFINE h == Head(channel[s])
  <2>1. /\ channel[s] # << >> /\ holding[s] = {}
        /\ channel' = [channel EXCEPT ![s] = Tail(@)]
        /\ holding' = [holding EXCEPT ![s] = {h}]
        /\ UNCHANGED <<nextSeq, drops, sending, producerPc, observed>>
    BY <1>3 DEF ForwarderRecv, ForwarderIdle, producerVars, receiverVars
  <2>2. channel[s] \in Seq(Batches) /\ h \in Batches
    BY <2>1 DEF ChannelTypes
  <2>3. OfCommand(h) = {h}
    BY <2>2 DEF OfCommand, Batches, Kinds
  <2> HIDE DEF h
  <2>4. Plain(channel[s]) = {h} \cup Plain(Tail(channel[s]))
    BY <2>1, <2>2, <2>3, PlainTail DEF h
  <2>5. /\ channel'[s] = Tail(channel[s]) /\ holding'[s] = {h}
        /\ \A t \in 1 .. Stages : t # s => channel'[t] = channel[t]
        /\ \A t \in Staging : t # s => holding'[t] = holding[t]
    BY <1>0, <2>1 DEF ChannelTypes
  <2>6. ASSUME NEW b PROVE b \in Staged' <=> b \in Staged
    <3>1. At(b, channel', holding') <=> At(b, channel, holding)
      BY <1>0, <2>1, <2>4, <2>5 DEF At
    <3> QED BY <3>1, StagedMember
  <2>7. HeldOnce'
    BY <1>3, <2>5 DEF CountInv, HeldOnce
  <2> QED BY <1>3, <2>1, <2>6, <2>7, CountMoves DEF Accepted
<1>4. CASE worker # "failed" /\ ForwarderSend(s)
  <2>1. PICK b \in holding[s] : channel' = [channel EXCEPT ![s - 1] = Append(@, b)]
    BY <1>4 DEF ForwarderSend
  <2>2. /\ holding' = [holding EXCEPT ![s] = {}]
        /\ UNCHANGED <<nextSeq, drops, sending, producerPc, observed>>
    BY <1>4 DEF ForwarderSend, producerVars, receiverVars
  <2>3. b \in Batches /\ OfCommand(b) = {b}
    BY DEF ChannelTypes, OfCommand, Batches, Kinds
  <2>4. holding[s] = {b}
    BY <1>4 DEF CountInv, HeldOnce
  <2> DEFINE r == s - 1
  <2>5. r \in 1 .. Stages /\ channel' = [channel EXCEPT ![r] = Append(@, b)]
    BY <1>0, <2>1
  <2> HIDE DEF r
  <2>6. channel[r] \in Seq(Batches \cup Flushes) /\ b \in Batches \cup Flushes
    BY <2>3, <2>5 DEF ChannelTypes
  <2>7. Plain(Append(channel[r], b)) = Plain(channel[r]) \cup {b}
    BY <2>3, <2>6, PlainAppend
  <2>8. /\ channel'[r] = Append(channel[r], b) /\ holding'[s] = {}
        /\ \A t \in 1 .. Stages : t # r => channel'[t] = channel[t]
        /\ \A t \in Staging : t # s => holding'[t] = holding[t]
    BY <2>2, <2>5 DEF ChannelTypes
  <2>9. ASSUME NEW c PROVE c \in Staged' <=> c \in Staged
    <3>1. At(c, channel', holding') <=> At(c, channel, holding)
      BY <2>4, <2>5, <2>7, <2>8 DEF At
    <3> QED BY <3>1, StagedMember
  <2>10. HeldOnce'
    BY <1>4, <2>8 DEF CountInv, HeldOnce
  <2> QED BY <1>4, <2>2, <2>9, <2>10, CountMoves DEF Accepted
<1>5. ASSUME worker # "failed", ForwarderFails(s) PROVE FALSE
  <2>1. Closed(s - 1) /\ holding[s] # {}
    BY <1>5 DEF ForwarderFails
  <2>2. CASE s - 1 = 1
    BY <1>5, <2>1, <2>2 DEF Closed, ShutdownInv, DrainInOrder, Drained
  <2>3. CASE s - 1 # 1
    <3>1. s - 1 \in Staging /\ s >= s - 1
      BY <1>0, <2>3 DEF Staging
    <3> QED BY <1>5, <2>1, <2>3, <3>1 DEF Closed, ShutdownInv, DrainInOrder, Drained
  <2> QED BY <2>2, <2>3
<1>6. CASE worker # "failed" /\ ForwarderEnds(s)
  <2>1. UNCHANGED <<nextSeq, drops, sending, producerPc, observed, channel, holding>>
    BY <1>6 DEF ForwarderEnds, producerVars, receiverVars
  <2>2. Accepted' = Accepted
    BY <2>1 DEF Accepted, Staged, InChannel
  <2>3. HeldOnce'
    BY <1>6, <2>1 DEF CountInv, HeldOnce
  <2> QED BY <1>6, <2>1, <2>2, <2>3, CountMoves
<1> QED BY <1>2, <1>3, <1>4, <1>5, <1>6 DEF Forwarder

ProducerTypes ==
  /\ producerPc \in [Producers -> {"idle", "trying", "placed"}]
  /\ attempt \in [Producers -> 1 .. Stages]

LEMMA ProducerTypesStep == ProducerTypes /\ [WriterNext]_writerVars => ProducerTypes'
<1> SUFFICES ASSUME ProducerTypes, [WriterNext]_writerVars PROVE ProducerTypes'
  OBVIOUS
<1> USE ChannelAssumption DEF ProducerTypes
<1>1. ASSUME NEW p \in Producers, Producer(p) PROVE ProducerTypes'
  <2>1. ASSUME NEW k \in Sends[p], Allocate(p, k) PROVE ProducerTypes'
    BY <2>1 DEF Allocate
  <2>2. CASE TrySendPlaced(p) \/ MarkEnqueued(p) \/ TrySendDropped(p)
    BY <2>2 DEF TrySendPlaced, MarkEnqueued, TrySendDropped, GiveUp
  <2>3. CASE TrySendFull(p)
    BY <2>3 DEF TrySendFull
  <2> QED BY <1>1, <2>1, <2>2, <2>3 DEF Producer
<1>2. ASSUME UNCHANGED <<producerPc, attempt>> PROVE ProducerTypes'
  BY <1>2
<1>3. ASSUME NEW f \in Flushers, Flush(f) PROVE UNCHANGED <<producerPc, attempt>>
  BY <1>3 DEF Flush, FlushLoad, FlushSend, FlushClosed, producerVars
<1>4. ASSUME NEW s \in Staging, Forwarder(s) PROVE UNCHANGED <<producerPc, attempt>>
  BY <1>4 DEF Forwarder, ForwarderRecv, ForwarderSend, ForwarderFails, ForwarderEnds, producerVars
<1>5. Open \/ OpenFails \/ IntervalTick \/ DropHandles => UNCHANGED <<producerPc, attempt>>
  BY DEF Open, OpenFails, IntervalTick, DropHandles, producerVars
<1>6. WriterRecv => UNCHANGED <<producerPc, attempt>>
  BY DEF WriterRecv, RecvTrades, RecvSnapshot, RecvBoth, RecvFlush, RecvClosed, Receive, producerVars
<1>7. UNCHANGED writerVars => UNCHANGED <<producerPc, attempt>>
  BY DEF writerVars, producerVars
<1> QED BY <1>1, <1>2, <1>3, <1>4, <1>5, <1>6, <1>7 DEF WriterNext, Ended

LEMMA ProducerCounts ==
  ASSUME ChannelTypes, ProducerTypes, CountInv, NEW p \in Producers, Producer(p)
  PROVE  CountInv'
<1> USE DEF Trying
<1>1. UNCHANGED <<worker, observed, holding>>
  BY DEF Producer, Allocate, TrySendPlaced, TrySendFull, TrySendDropped, MarkEnqueued,
         receiverVars, stagingVars
<1> SUFFICES ASSUME worker # "failed" PROVE CountInv'
  BY <1>1 DEF CountInv
<1>2. HeldOnce /\ HeldOnce' /\ NumberedOnce /\ NumbersApart
      /\ Seqs(Live) \subseteq 1 .. nextSeq /\ drops = Cardinality(Gone)
  BY <1>1 DEF CountInv, HeldOnce
<1>3. nextSeq \in Nat /\ \A q \in Producers : sending[q] \subseteq Batches
  BY DEF ChannelTypes
<1>4. ASSUME UNCHANGED channel PROVE Accepted' = Accepted
  BY <1>1, <1>4 DEF Accepted, Staged, InChannel
<1>5. ASSUME NEW k \in Sends[p], Allocate(p, k) PROVE CountInv'
  <2> DEFINE new == [kind |-> k, seq |-> nextSeq + 1]
  <2>1. /\ nextSeq' = nextSeq + 1 /\ producerPc[p] = "idle" /\ drops' = drops
        /\ sending'[p] = {new} /\ Trying(p)' /\ new.seq = nextSeq + 1
        /\ \A q \in Producers : q # p => sending'[q] = sending[q] /\ Trying(q)' = Trying(q)
        /\ channel' = channel
    BY <1>5 DEF Allocate, ChannelTypes, ProducerTypes, stagingVars
  <2> HIDE DEF new
  <2>2. Accepted' = Accepted /\ Seqs(Accepted)' = Seqs(Accepted)
    BY <1>4, <2>1 DEF Seqs
  <2>3. ASSUME NEW n PROVE n \in Seqs(Live)' <=> n \in Seqs(Live) \/ n = nextSeq + 1
    BY <2>1, <2>2, LiveNumber
  <2>4. Seqs(Live)' \subseteq 1 .. nextSeq'
    BY <1>2, <1>3, <2>1, <2>3
  <2>5. Gone' = Gone
    BY <1>2, <1>3, <2>1, <2>3 DEF Gone
  <2>6. nextSeq + 1 \notin Seqs(Live)
    BY <1>2, <1>3
  <2>7. nextSeq + 1 \notin Seqs(Accepted)
        /\ \A q \in Producers : Trying(q) => \A c \in sending[q] : c.seq # nextSeq + 1
    BY <2>6, LiveNumber
  <2>8. NumberedOnce'
    BY <1>2, <2>1, <2>2, <2>7 DEF NumberedOnce
  <2>9. NumbersApart'
    BY <1>2, <2>2 DEF NumbersApart
  <2> QED BY <1>2, <2>1, <2>4, <2>5, <2>8, <2>9 DEF CountInv
<1>6. CASE TrySendPlaced(p)
  <2>1. PICK b \in sending[p] : channel' = [channel EXCEPT ![attempt[p]] = Append(@, b)]
    BY <1>6 DEF TrySendPlaced
  <2>2. /\ Trying(p) /\ ~Trying(p)' /\ UNCHANGED <<nextSeq, drops, sending>>
        /\ \A q \in Producers : q # p => Trying(q)' = Trying(q)
    BY <1>6 DEF TrySendPlaced, ProducerTypes
  <2>3. b \in Batches /\ OfCommand(b) = {b}
    BY <1>3 DEF OfCommand, Batches, Kinds
  <2>4. Accepted' = Accepted \cup {b}
    <3> DEFINE s == attempt[p]
    <3>1. s \in 1 .. Stages /\ channel' = [channel EXCEPT ![s] = Append(@, b)]
      BY <2>1 DEF ProducerTypes
    <3> HIDE DEF s
    <3> QED BY <1>1, <2>3, <3>1, AppendAccepts
  <2>5. \A n : n \in Seqs(Accepted)' <=> n \in Seqs(Accepted) \/ n = b.seq
    BY <2>4 DEF Seqs
  <2>6. sending[p] = {b}
    BY <1>2, <2>2 DEF NumberedOnce
  <2>7. ASSUME NEW n PROVE n \in Seqs(Live)' <=> n \in Seqs(Live)
    BY <2>2, <2>5, <2>6, LiveNumber
  <2>8. Gone' = Gone /\ Seqs(Live)' = Seqs(Live)
    BY <2>2, <2>7 DEF Gone
  <2>9. NumberedOnce'
    BY <1>2, <2>2, <2>5, <2>6 DEF NumberedOnce
  <2>10. b.seq \notin Seqs(Accepted)
    BY <1>2, <2>2 DEF NumberedOnce
  <2>11. NumbersApart'
    BY <1>2, <2>4, <2>10 DEF NumbersApart, Seqs
  <2> QED BY <1>2, <2>2, <2>8, <2>9, <2>11 DEF CountInv
<1>7. CASE TrySendFull(p)
  BY <1>2, <1>4, <1>7, CountMoves DEF TrySendFull, stagingVars
<1>8. CASE TrySendDropped(p)
  <2>1. /\ Trying(p) /\ ~Trying(p)' /\ nextSeq' = nextSeq /\ drops' = drops + 1
        /\ \A q \in Producers : q # p => Trying(q)' = Trying(q) /\ sending'[q] = sending[q]
        /\ channel' = channel
    BY <1>8 DEF TrySendDropped, GiveUp, ProducerTypes, ChannelTypes, stagingVars
  <2>2. Accepted' = Accepted /\ Seqs(Accepted)' = Seqs(Accepted)
    BY <1>4, <2>1 DEF Seqs
  <2>3. PICK b \in sending[p] : sending[p] = {b}
    <3>1. sending[p] # {} /\ \A b, c \in sending[p] : b = c
      BY <1>2, <2>1 DEF NumberedOnce
    <3> QED BY <3>1
  <2>4. /\ b.seq \notin Seqs(Accepted)
        /\ \A q \in Producers \ {p} : Trying(q) => \A c \in sending[q] : c.seq # b.seq
    BY <1>2, <2>1, <2>3 DEF NumberedOnce
  <2>5. ASSUME NEW n PROVE n \in Seqs(Live)' <=> n \in Seqs(Live) /\ n # b.seq
    BY <2>1, <2>2, <2>3, <2>4, LiveNumber
  <2>6. b.seq \in Seqs(Live)
    BY <2>1, <2>3, LiveNumber
  <2>7. Gone' = Gone \cup {b.seq} /\ b.seq \notin Gone
    BY <1>2, <2>1, <2>5, <2>6 DEF Gone
  <2>8. IsFiniteSet(Gone)
    <3>1. IsFiniteSet(1 .. nextSeq) /\ Gone \in SUBSET (1 .. nextSeq)
      BY <1>3, FS_Interval DEF Gone
    <3> QED BY <3>1, FS_Subset
  <2>9. Cardinality(Gone') = Cardinality(Gone) + 1
    BY <2>7, <2>8, FS_AddElement
  <2>10. NumberedOnce'
    BY <1>2, <2>1, <2>2 DEF NumberedOnce
  <2>11. Seqs(Live)' \subseteq 1 .. nextSeq'
    BY <1>2, <2>1, <2>5
  <2>12. NumbersApart'
    BY <1>2, <2>2 DEF NumbersApart
  <2> QED BY <1>2, <2>1, <2>9, <2>10, <2>11, <2>12 DEF CountInv
<1>9. CASE MarkEnqueued(p)
  <2>1. /\ ~Trying(p) /\ ~Trying(p)' /\ UNCHANGED <<nextSeq, drops, channel>>
        /\ \A q \in Producers : q # p => Trying(q)' = Trying(q) /\ sending'[q] = sending[q]
    BY <1>9 DEF MarkEnqueued, GiveUp, ProducerTypes, ChannelTypes, stagingVars
  <2>2. Accepted' = Accepted /\ Seqs(Accepted)' = Seqs(Accepted)
    BY <1>4, <2>1 DEF Seqs
  <2>3. ASSUME NEW n PROVE n \in Seqs(Live)' <=> n \in Seqs(Live)
    BY <2>1, <2>2, LiveNumber
  <2>4. Gone' = Gone /\ Seqs(Live)' = Seqs(Live)
    BY <2>1, <2>3 DEF Gone
  <2>5. NumberedOnce'
    BY <1>2, <2>1, <2>2 DEF NumberedOnce
  <2>6. NumbersApart'
    BY <1>2, <2>2 DEF NumbersApart
  <2> QED BY <1>2, <2>1, <2>4, <2>5, <2>6 DEF CountInv
<1> QED BY <1>5, <1>6, <1>7, <1>8, <1>9 DEF Producer

LEMMA CountStep ==
  ChannelTypes /\ ProducerTypes /\ ShutdownInv /\ CountInv /\ [WriterNext]_writerVars => CountInv'
<1> SUFFICES ASSUME ChannelTypes, ProducerTypes, ShutdownInv, CountInv, [WriterNext]_writerVars
             PROVE  CountInv'
  OBVIOUS
<1>0. 1 \in 1 .. Stages
  BY ChannelAssumption
<1>1. ASSUME UNCHANGED <<nextSeq, drops, sending, producerPc, worker, holding, observed, channel>>
      PROVE  CountInv'
  <2>1. Accepted' = Accepted
    BY <1>1 DEF Accepted, Staged, InChannel
  <2> QED BY <1>1, <2>1, CountMoves DEF CountInv, HeldOnce
<1>2. ASSUME NEW f \in Flushers, Flush(f) PROVE CountInv'
  <2>1. CASE FlushLoad(f) \/ FlushClosed(f)
    BY <1>1, <2>1 DEF FlushLoad, FlushClosed, producerVars, stagingVars, receiverVars
  <2>2. CASE FlushSend(f)
    <3> DEFINE x == [kind |-> "flush", target |-> flushTarget[f], done |-> f]
    <3>1. x \in Batches \cup Flushes /\ OfCommand(x) = {}
      BY DEF Flushes, OfCommand, ChannelTypes
    <3>2. channel' = [channel EXCEPT ![1] = Append(@, x)]
          /\ UNCHANGED <<nextSeq, drops, sending, producerPc, worker, holding, observed>>
      BY <2>2 DEF FlushSend, producerVars, receiverVars
    <3> HIDE DEF x
    <3>3. Accepted' = Accepted
      BY <1>0, <3>1, <3>2, AppendAccepts
    <3> QED BY <3>2, <3>3, CountMoves DEF CountInv, HeldOnce
  <2> QED BY <1>2, <2>1, <2>2 DEF Flush
<1>3. CASE OpenFails
  BY <1>3 DEF OpenFails, CountInv
<1>4. CASE Open
  <2>1. UNCHANGED <<nextSeq, drops, sending, producerPc, holding, observed, channel>>
        /\ worker # "failed"
    BY <1>4 DEF Open, producerVars, stagingVars
  <2>2. Accepted' = Accepted
    BY <2>1 DEF Accepted, Staged, InChannel
  <2> QED BY <2>1, <2>2, CountMoves DEF CountInv, HeldOnce
<1>5. ASSUME NEW kind, Receive(kind),
             observed' = observed \cup OfCommand(Received)
      PROVE  CountInv'
  <2>1. /\ worker = "running" /\ channel[1] # << >>
        /\ channel' = [channel EXCEPT ![1] = Tail(@)]
        /\ UNCHANGED <<nextSeq, drops, sending, producerPc, worker, holding>>
    BY <1>5 DEF Receive, producerVars
  <2>2. Staged = Staged' \cup OfCommand(Received)
    BY <1>0, <2>1, HeadTaken DEF Received
  <2>3. Accepted' = Accepted
    BY <1>5, <2>2 DEF Accepted
  <2> QED BY <2>1, <2>3, CountMoves DEF CountInv, HeldOnce
<1>6. CASE RecvTrades \/ RecvSnapshot \/ RecvBoth
  <2>1. Observe /\ \E kind \in Kinds : Receive(kind)
    BY <1>6 DEF RecvTrades, RecvSnapshot, RecvBoth, Kinds
  <2>2. observed' = observed \cup OfCommand(Received)
    BY <2>1 DEF Observe, OfCommand, Receive, Kinds
  <2> QED BY <1>5, <2>1, <2>2
<1>7. CASE RecvFlush
  <2>1. Receive("flush") /\ observed' = observed \cup OfCommand(Received)
    BY <1>7 DEF RecvFlush, OfCommand, Receive
  <2> QED BY <1>5, <2>1
<1>8. CASE RecvClosed
  <2>1. UNCHANGED <<nextSeq, drops, sending, producerPc, holding, observed, channel>>
        /\ worker # "failed"
    BY <1>8 DEF RecvClosed, producerVars, stagingVars
  <2>2. Accepted' = Accepted
    BY <2>1 DEF Accepted, Staged, InChannel
  <2> QED BY <2>1, <2>2, CountMoves DEF CountInv, HeldOnce
<1>9. CASE IntervalTick \/ DropHandles \/ UNCHANGED writerVars
  BY <1>1, <1>9 DEF IntervalTick, DropHandles, writerVars, producerVars, stagingVars, receiverVars
<1> QED BY <1>2, <1>3, <1>4, <1>6, <1>7, <1>8, <1>9, ProducerCounts, ForwarderCounts
        DEF WriterNext, WriterRecv, Ended

LEMMA CountInitially == WriterInit => ProducerTypes /\ CountInv
<1> SUFFICES ASSUME WriterInit PROVE ProducerTypes /\ CountInv
  OBVIOUS
<1>1. ProducerTypes
  BY ChannelAssumption DEF WriterInit, ProducerTypes
<1>2. \A b : b \notin Staged
  <2>1. Plain(<< >>) = {}
    BY DEF Plain
  <2>2. \A b : ~At(b, channel, holding)
    BY <2>1 DEF WriterInit, At
  <2> QED BY <2>2, StagedMember
<1>3. Accepted = {} /\ \A p \in Producers : ~Trying(p)
  BY <1>2 DEF WriterInit, Accepted, Trying
<1>4. Seqs(Live) = {}
  BY <1>3, LiveNumber DEF Seqs
<1>5. Gone = {}
  BY DEF Gone, WriterInit
<1> QED BY <1>1, <1>3, <1>4, <1>5, FS_EmptySet
       DEF WriterInit, CountInv, HeldOnce, NumberedOnce, NumbersApart

LEMMA ShutdownStep == ShutdownInv /\ ChannelTypes /\ [WriterNext]_writerVars => ShutdownInv'
BY HandlesHeldStep, DrainInOrderStep DEF ShutdownInv

(* While the database opened, DROPPED_BATCHES is exactly the number of      *)
(* batches that are neither tried, nor on their way, nor received, whatever *)
(* channels the producers and the forwarders found full.                    *)
THEOREM DropsExact == WriterSpec => []DropsCounted
<1>1. CountInv => DropsCounted
  BY DEF CountInv, DropsCounted, Gone, Live, Accepted
<1> QED BY <1>1, CountInitially, ShutdownStep, ProducerTypesStep, CountStep, ShutdownInit,
           ChannelTypesInit, ChannelTypesStep, PTL DEF WriterSpec

-----------------------------------------------------------------------------
(* What a flush waits for.                                                  *)

(* A batch numbered n is in the line, the primary channel, before position  *)
(* i.                                                                       *)
InLine(line, n, i) == \E k \in 1 .. i - 1 : line[k].kind # "flush" /\ line[k].seq = n

(* What flush f must see written was received and, trades that it has, is   *)
(* in the database.                                                         *)
Saved(f) ==
  /\ ahead[f] \subseteq Seqs(observed)
  /\ ~writeFailed =>
       \A b \in observed : b.seq \in ahead[f] /\ b.kind # "snapshot" => b.seq \in disk

(* Until a write fails, all trades received are buffered or written; what a *)
(* flush must see is in the primary channel when it joins the line, and     *)
(* before it from then on; it is saved once the command was received.       *)
NothingDiscarded ==
  ~writeFailed => \A b \in observed : b.kind # "snapshot" => b.seq \in buffer \cup disk
CalledInv ==
  \A f \in Flushers :
    flushPc[f] = "called" =>
      \A n \in ahead[f] : n \in Seqs(observed) \/ InLine(channel[1], n, Len(channel[1]) + 1)
LineInv ==
  \A i \in 1 .. Len(channel[1]) : \A f \in Flushers :
    (channel[1][i].kind = "flush" /\ channel[1][i].done = f) =>
      /\ flushPc[f] # "idle"
      /\ \A n \in ahead[f] : n \in Seqs(observed) \/ InLine(channel[1], n, i)
PendingInv ==
  \A r \in pendingFlushes : r.done \in Flushers /\ flushPc[r.done] # "idle" /\ Saved(r.done)
ReturnedInv == \A f \in Flushers : flushPc[f] = "returned" => Saved(f)
FlushTypes ==
  /\ flushPc = [f \in Flushers |-> flushPc[f]]
  /\ ahead = [f \in Flushers |-> ahead[f]]
FlushInv ==
  worker # "failed" =>
    /\ NothingDiscarded /\ CalledInv /\ LineInv /\ PendingInv /\ ReturnedInv

LEMMA FlushTypesStep == FlushTypes /\ [WriterNext]_writerVars => FlushTypes'
<1> SUFFICES ASSUME FlushTypes, [WriterNext]_writerVars PROVE FlushTypes'
  OBVIOUS
<1> USE DEF FlushTypes
<1>1. ASSUME UNCHANGED ahead, NEW fs, Return(fs) \/ UNCHANGED flushPc PROVE FlushTypes'
  BY <1>1 DEF Return
<1>2. ASSUME NEW f \in Flushers, Flush(f) PROVE FlushTypes'
  BY <1>2 DEF Flush, FlushLoad, FlushSend, FlushClosed, Remember
<1>3. ASSUME NEW p \in Producers, Producer(p) PROVE FlushTypes'
  BY <1>1, <1>3 DEF Producer, Allocate, TrySendPlaced, TrySendFull, TrySendDropped, MarkEnqueued,
                    flushVars
<1>4. ASSUME NEW s \in Staging, Forwarder(s) PROVE FlushTypes'
  BY <1>1, <1>4 DEF Forwarder, ForwarderRecv, ForwarderSend, ForwarderFails, ForwarderEnds, flushVars
<1>5. CASE Open \/ DropHandles \/ UNCHANGED writerVars
  BY <1>1, <1>5 DEF Open, DropHandles, writerVars, flushVars
<1>6. CASE OpenFails \/ IntervalTick
  BY <1>1, <1>6 DEF OpenFails, IntervalTick, CompleteReadyFlushes
<1>7. CASE WriterRecv
  BY <1>1, <1>7 DEF WriterRecv, RecvTrades, RecvSnapshot, RecvBoth, RecvFlush, RecvClosed, Receive,
                    CompleteReadyFlushes
<1> QED BY <1>2, <1>3, <1>4, <1>5, <1>6, <1>7 DEF WriterNext, Ended

(* Who is in line stays there, behind the same batches, until it is received. *)
LEMMA InLineAppend ==
  ASSUME NEW C, NEW c \in Seq(C), NEW x \in C, NEW i \in 1 .. Len(c) + 1, NEW n, InLine(c, n, i)
  PROVE  InLine(Append(c, x), n, i) /\ InLine(Append(c, x), n, i + 1)
<1>1. PICK k \in 1 .. i - 1 : c[k].kind # "flush" /\ c[k].seq = n
  BY DEF InLine
<1>2. k \in 1 .. i /\ k \in 1 .. Len(c) /\ Append(c, x)[k] = c[k]
  OBVIOUS
<1> QED BY <1>1, <1>2 DEF InLine

LEMMA InLineTail ==
  ASSUME NEW C, NEW c \in Seq(C), c # << >>, NEW i \in 1 .. Len(c), NEW n, InLine(c, n, i + 1)
  PROVE  InLine(Tail(c), n, i) \/ (Head(c).kind # "flush" /\ Head(c).seq = n)
<1>1. PICK k \in 1 .. i : c[k].kind # "flush" /\ c[k].seq = n
  BY DEF InLine
<1>2. CASE k = 1
  BY <1>1, <1>2
<1>3. CASE k # 1
  <2>1. k - 1 \in 1 .. i - 1 /\ k - 1 \in 1 .. Len(c) - 1
    BY <1>3
  <2>2. Tail(c)[k - 1] = c[k]
    BY <2>1
  <2> QED BY <1>1, <2>1, <2>2 DEF InLine
<1> QED BY <1>2, <1>3

(* A batch that joins the line is behind all that a flush waits for.        *)
LEMMA LineGrows ==
  ASSUME ChannelTypes, CalledInv, LineInv, UNCHANGED <<observed, flushPc, ahead>>,
         \/ channel'[1] = channel[1]
         \/ \E b \in Batches : channel'[1] = Append(channel[1], b)
  PROVE  CalledInv' /\ LineInv'
<1>1. CASE channel'[1] = channel[1]
  BY <1>1 DEF CalledInv, LineInv, InLine, Seqs
<1>2. ASSUME NEW b \in Batches, channel'[1] = Append(channel[1], b) PROVE CalledInv' /\ LineInv'
  <2>1. channel[1] \in Seq(Batches \cup Flushes) /\ b \in Batches \cup Flushes
    BY ChannelAssumption DEF ChannelTypes
  <2>2. /\ Len(channel[1]) \in Nat /\ Len(channel'[1]) = Len(channel[1]) + 1
        /\ \A i \in 1 .. Len(channel[1]) : channel'[1][i] = channel[1][i]
        /\ channel'[1][Len(channel[1]) + 1] = b
    BY <1>2, <2>1
  <2>3. \A n : \A i \in 1 .. Len(channel[1]) + 1 :
          InLine(channel[1], n, i) =>
            InLine(channel'[1], n, i) /\ InLine(channel'[1], n, i + 1)
    BY <1>2, <2>1, InLineAppend
  <2>4. CalledInv'
    BY <2>2, <2>3 DEF CalledInv, Seqs
  <2>5. b.kind # "flush"
    BY DEF Batches, Kinds
  <2>6. LineInv'
    <3> SUFFICES ASSUME NEW i \in 1 .. Len(channel[1]), NEW f \in Flushers,
                        channel[1][i].kind = "flush", channel[1][i].done = f
                 PROVE  /\ flushPc[f] # "idle"
                        /\ \A n \in ahead[f] : n \in Seqs(observed) \/ InLine(channel'[1], n, i)
      BY <2>2, <2>5 DEF LineInv, Seqs
    <3>1. /\ flushPc[f] # "idle"
          /\ \A n \in ahead[f] : n \in Seqs(observed) \/ InLine(channel[1], n, i)
      BY DEF LineInv
    <3>2. i \in 1 .. Len(channel[1]) + 1
      BY <2>2
    <3> QED BY <2>3, <3>1, <3>2
  <2> QED BY <2>4, <2>6
<1> QED BY <1>1, <1>2

(* The line moves up: what was at its head was received.                    *)
LEMMA LineMoves ==
  ASSUME ChannelTypes, CalledInv, LineInv, channel[1] # << >>, channel'[1] = Tail(channel[1]),
         observed' = observed \cup OfCommand(Received), UNCHANGED ahead,
         \A f \in Flushers : /\ flushPc'[f] = "called" => flushPc[f] = "called"
                             /\ flushPc[f] # "idle" => flushPc'[f] # "idle"
  PROVE  CalledInv' /\ LineInv'
<1>1. channel[1] \in Seq(Batches \cup Flushes)
  BY ChannelAssumption DEF ChannelTypes
<1>2. PICK size \in Nat : size = Len(channel'[1])
  <2>1. channel'[1] \in Seq(Batches \cup Flushes)
    BY <1>1
  <2>2. Len(channel'[1]) \in Nat
    BY <2>1
  <2> QED BY <2>2
<1>3. /\ Len(channel[1]) = size + 1
      /\ \A i \in 1 .. size : channel'[1][i] = channel[1][i + 1]
  BY <1>1, <1>2
<1>4. \A n : n \in Seqs(observed) => n \in Seqs(observed)'
  BY DEF Seqs
<1>5. \A n : Received.kind # "flush" /\ Received.seq = n => n \in Seqs(observed)'
  BY DEF OfCommand, Seqs
<1>6. \A n : \A i \in 1 .. size + 1 :
        InLine(channel[1], n, i + 1) => n \in Seqs(observed)' \/ InLine(channel'[1], n, i)
  <2> SUFFICES ASSUME NEW n, NEW i \in 1 .. size + 1, InLine(channel[1], n, i + 1)
               PROVE  n \in Seqs(observed)' \/ InLine(channel'[1], n, i)
    OBVIOUS
  <2>1. i \in 1 .. Len(channel[1])
    BY <1>3
  <2>2. \/ InLine(Tail(channel[1]), n, i)
        \/ Head(channel[1]).kind # "flush" /\ Head(channel[1]).seq = n
    BY <1>1, <2>1, InLineTail
  <2> QED BY <1>5, <2>2 DEF Received
<1>7. CalledInv'
  <2> SUFFICES ASSUME NEW f \in Flushers, flushPc'[f] = "called", NEW n \in ahead[f]
               PROVE  n \in Seqs(observed)' \/ InLine(channel'[1], n, size + 1)
    BY <1>2 DEF CalledInv
  <2>1. n \in Seqs(observed) \/ InLine(channel[1], n, size + 1 + 1)
    BY <1>3 DEF CalledInv
  <2>2. size + 1 \in 1 .. size + 1
    OBVIOUS
  <2> QED BY <1>4, <1>6, <2>1, <2>2
<1>8. LineInv'
  <2> SUFFICES ASSUME NEW i \in 1 .. size, NEW f \in Flushers,
                      channel'[1][i].kind = "flush", channel'[1][i].done = f
               PROVE  /\ flushPc'[f] # "idle"
                      /\ \A n \in ahead[f] : n \in Seqs(observed)' \/ InLine(channel'[1], n, i)
    BY <1>2 DEF LineInv
  <2>1. i + 1 \in 1 .. size + 1 /\ i \in 1 .. size + 1 /\ channel'[1][i] = channel[1][i + 1]
    BY <1>3
  <2>2. /\ flushPc[f] # "idle"
        /\ \A n \in ahead[f] : n \in Seqs(observed) \/ InLine(channel[1], n, i + 1)
    BY <1>3, <2>1 DEF LineInv
  <2> QED BY <1>4, <1>6, <2>1, <2>2
<1> QED BY <1>7, <1>8

LEMMA LineRests ==
  ASSUME CalledInv, LineInv, channel' = channel, observed' = observed, UNCHANGED ahead,
         \A f \in Flushers : /\ flushPc'[f] = "called" => flushPc[f] = "called"
                             /\ flushPc[f] # "idle" => flushPc'[f] # "idle"
  PROVE  CalledInv' /\ LineInv'
<1>1. \A n : n \in Seqs(observed)' <=> n \in Seqs(observed)
  BY DEF Seqs
<1>2. CalledInv'
  BY <1>1 DEF CalledInv
<1>3. LineInv'
  BY <1>1 DEF LineInv
<1> QED BY <1>2, <1>3

(* What is saved stays so: a batch that is received now has no number that  *)
(* was received before.                                                     *)
LEMMA SavedStays ==
  ASSUME NEW f, Saved(f), NumbersApart, ahead'[f] = ahead[f], disk \subseteq disk',
         writeFailed => writeFailed', observed \subseteq observed', observed' \subseteq Accepted
  PROVE  Saved(f)'
<1>1. ahead'[f] \subseteq Seqs(observed)'
  BY DEF Saved, Seqs
<1>2. ASSUME ~writeFailed', NEW b \in observed', b.seq \in ahead[f], b.kind # "snapshot"
      PROVE  b.seq \in disk'
  <2>1. PICK c \in observed : c.seq = b.seq
    BY <1>2 DEF Saved, Seqs
  <2>2. c = b
    BY <2>1 DEF NumbersApart, Accepted
  <2> QED BY <1>2, <2>1, <2>2 DEF Saved
<1> QED BY <1>1, <1>2 DEF Saved

(* A step that writes or not and answers calls whose batches are saved.     *)
Persists ==
  /\ disk \subseteq disk' /\ (writeFailed => writeFailed')
  /\ observed \subseteq observed' /\ observed' \subseteq Accepted
  /\ UNCHANGED ahead

LEMMA AnswersSaved ==
  ASSUME NumbersApart, Persists, PendingInv, ReturnedInv, NEW fs, Return(fs),
         \A f \in fs : f \in Flushers => Saved(f)',
         \A r \in pendingFlushes' \ pendingFlushes :
           r.done \in Flushers /\ flushPc[r.done] # "idle" /\ Saved(r.done)'
  PROVE  /\ PendingInv' /\ ReturnedInv'
         /\ \A f \in Flushers : /\ flushPc'[f] = "called" => flushPc[f] = "called"
                                /\ flushPc[f] # "idle" => flushPc'[f] # "idle"
<1>1. \A f \in Flushers : flushPc'[f] = IF f \in fs THEN "returned" ELSE flushPc[f]
  BY DEF Return
<1>2. \A f : Saved(f) => Saved(f)'
  BY SavedStays DEF Persists
<1>3. ReturnedInv'
  BY <1>1, <1>2 DEF ReturnedInv
<1>4. PendingInv'
  BY <1>1, <1>2 DEF PendingInv
<1> QED BY <1>1, <1>3, <1>4

LEMMA ReadyAreSaved ==
  ASSUME NumbersApart, Persists, PendingInv, ReturnedInv, CompleteReadyFlushes
  PROVE  /\ PendingInv' /\ ReturnedInv'
         /\ \A f \in Flushers : /\ flushPc'[f] = "called" => flushPc[f] = "called"
                                /\ flushPc[f] # "idle" => flushPc'[f] # "idle"
<1> DEFINE ready == {r \in pendingFlushes : r.target <= observedMax'}
<1>1. pendingFlushes' = pendingFlushes \ ready /\ Return({r.done : r \in ready})
  BY DEF CompleteReadyFlushes
<1>2. \A f \in {r.done : r \in ready} : Saved(f)'
  BY SavedStays DEF Persists, PendingInv
<1> HIDE DEF ready
<1> QED BY <1>1, <1>2, AnswersSaved

(* What the writer receives is among the batches accepted.                  *)
LEMMA ReceivedAccepted ==
  ASSUME ChannelTypes, NEW kind, Receive(kind)
  PROVE  OfCommand(Received) \subseteq Accepted
<1>1. 1 \in 1 .. Stages
  BY ChannelAssumption
<1>2. Staged = Staged' \cup OfCommand(Received)
  BY <1>1, HeadTaken DEF Receive, Received
<1> QED BY <1>2 DEF Accepted

LEMMA FlusherStep ==
  ASSUME ChannelTypes, FlushTypes, HandlesHeld, DrainInOrder, worker # "failed", FlushInv,
         NEW f \in Flushers, Flush(f)
  PROVE  FlushInv'
<1>1. /\ NothingDiscarded /\ CalledInv /\ LineInv /\ PendingInv /\ ReturnedInv
      /\ UNCHANGED <<worker, buffer, disk, writeFailed, observed, pendingFlushes>>
  BY DEF FlushInv, Flush, FlushLoad, FlushSend, FlushClosed, databaseVars, receiverVars
<1>2. NothingDiscarded'
  BY <1>1 DEF NothingDiscarded
<1>3. \A n : n \in Seqs(observed)' <=> n \in Seqs(observed)
  BY <1>1 DEF Seqs
<1>4. ASSUME NEW g, ahead'[g] = ahead[g], Saved(g) PROVE Saved(g)'
  BY <1>1, <1>4 DEF Saved, Seqs
<1>5. CASE FlushLoad(f)
  <2>1. /\ flushPc[f] = "idle" /\ flushPc'[f] = "called" /\ channel' = channel
        /\ ahead'[f] = Seqs(InChannel(1) \cup observed)
        /\ \A g \in Flushers : g # f => flushPc'[g] = flushPc[g] /\ ahead'[g] = ahead[g]
    BY <1>5 DEF FlushLoad, Remember, FlushTypes, stagingVars
  <2>2. \A n, i : InLine(channel'[1], n, i) <=> InLine(channel[1], n, i)
    BY <2>1 DEF InLine
  <2>3. \A n \in ahead'[f] : n \in Seqs(observed) \/ InLine(channel[1], n, Len(channel[1]) + 1)
    <3>1. channel[1] \in Seq(Batches \cup Flushes)
      BY ChannelAssumption DEF ChannelTypes
    <3>2. Len(channel[1]) \in Nat
      BY <3>1
    <3> QED BY <2>1, <3>2 DEF Seqs, InChannel, InLine
  <2>4. CalledInv'
    BY <1>1, <1>3, <2>1, <2>2, <2>3 DEF CalledInv
  <2>5. LineInv'
    BY <1>1, <1>3, <2>1, <2>2 DEF LineInv
  <2>6. PendingInv' /\ ReturnedInv'
    BY <1>1, <1>4, <2>1 DEF PendingInv, ReturnedInv
  <2> QED BY <1>2, <2>4, <2>5, <2>6 DEF FlushInv
<1>6. CASE FlushSend(f)
  <2> DEFINE x == [kind |-> "flush", target |-> flushTarget[f], done |-> f]
  <2>1. /\ flushPc[f] = "called" /\ flushPc'[f] = "waiting" /\ ahead' = ahead
        /\ \A g \in Flushers : g # f => flushPc'[g] = flushPc[g]
    BY <1>6 DEF FlushSend, FlushTypes
  <2>2. channel'[1] = Append(channel[1], x) /\ channel[1] \in Seq(Batches \cup Flushes)
    BY <1>6, ChannelAssumption DEF FlushSend, ChannelTypes
  <2>3. x \in Batches \cup Flushes /\ x.kind = "flush" /\ x.done = f
    BY DEF Flushes, ChannelTypes
  <2> HIDE DEF x
  <2>4. PICK size \in Nat : size = Len(channel[1])
    BY <2>2
  <2>5. /\ Len(channel'[1]) = size + 1 /\ channel'[1][size + 1] = x
        /\ \A i \in 1 .. size : channel'[1][i] = channel[1][i]
    BY <2>2, <2>4
  <2>6. \A n : \A i \in 1 .. size + 1 :
          InLine(channel[1], n, i) =>
            InLine(channel'[1], n, i) /\ InLine(channel'[1], n, i + 1)
    BY <2>2, <2>3, <2>4, InLineAppend
  <2>7. CalledInv'
    BY <1>1, <1>3, <2>1, <2>4, <2>5, <2>6 DEF CalledInv
  <2>8. \A n \in ahead[f] : n \in Seqs(observed) \/ InLine(channel[1], n, size + 1)
    BY <1>1, <2>1, <2>4 DEF CalledInv
  <2>9. ASSUME NEW i \in 1 .. size, NEW g \in Flushers, channel[1][i].kind = "flush",
               channel[1][i].done = g
        PROVE  /\ flushPc'[g] # "idle"
               /\ \A n \in ahead[g] : n \in Seqs(observed) \/ InLine(channel[1], n, i)
    BY <1>1, <2>1, <2>4, <2>9 DEF LineInv
  <2>10. LineInv'
    <3> SUFFICES ASSUME NEW i \in 1 .. size + 1, NEW g \in Flushers, channel'[1][i].kind = "flush",
                        channel'[1][i].done = g
                 PROVE  /\ flushPc'[g] # "idle"
                        /\ \A n \in ahead[g] : n \in Seqs(observed) \/ InLine(channel'[1], n, i)
      BY <1>3, <2>1, <2>5 DEF LineInv
    <3>1. CASE i = size + 1
      BY <2>1, <2>3, <2>5, <2>6, <2>8, <3>1
    <3>2. CASE i # size + 1
      <4>1. i \in 1 .. size /\ channel'[1][i] = channel[1][i]
        BY <2>5, <3>2
      <4> QED BY <2>6, <2>9, <4>1
    <3> QED BY <3>1, <3>2
  <2>11. PendingInv' /\ ReturnedInv'
    BY <1>1, <1>4, <2>1 DEF PendingInv, ReturnedInv
  <2> QED BY <1>2, <2>7, <2>10, <2>11 DEF FlushInv
<1>7. ASSUME FlushClosed(f) PROVE FALSE
  <2>1. flushPc[f] = "called" /\ worker = "stopped"
    BY <1>7 DEF FlushClosed, Closed
  <2> QED BY <2>1 DEF HandlesHeld, DrainInOrder
<1> QED BY <1>5, <1>6, <1>7 DEF Flush

LEMMA WriterFlushes ==
  ASSUME ChannelTypes, CountInv, worker # "failed", FlushInv, WriterRecv \/ IntervalTick
  PROVE  FlushInv'
<1> USE DEF Kinds
<1>1. NumbersApart /\ NothingDiscarded /\ CalledInv /\ LineInv /\ PendingInv /\ ReturnedInv
  BY DEF CountInv, FlushInv
<1>2. observed \subseteq Accepted /\ 1 \in 1 .. Stages
  BY ChannelAssumption DEF Accepted
<1>3. ASSUME NEW kind, Receive(kind)
      PROVE  /\ channel[1] # << >> /\ channel'[1] = Tail(channel[1]) /\ UNCHANGED ahead
             /\ Received.kind = kind /\ OfCommand(Received) \subseteq Accepted
  BY <1>2, <1>3, ReceivedAccepted DEF Receive, ChannelTypes
(* A batch.                                                                 *)
<1>4. ASSUME NEW kind \in Kinds, Receive(kind), Observe, disk \subseteq disk',
             writeFailed => writeFailed',
             CompleteReadyFlushes \/ UNCHANGED <<pendingFlushes, flushPc>>, NothingDiscarded'
      PROVE  FlushInv'
  <2>1. OfCommand(Received) = {Received} /\ observed' = observed \cup OfCommand(Received)
    BY <1>3, <1>4 DEF OfCommand, Observe
  <2>2. Persists
    BY <1>2, <1>3, <1>4, <2>1 DEF Persists
  <2>3. /\ PendingInv' /\ ReturnedInv'
        /\ \A f \in Flushers : /\ flushPc'[f] = "called" => flushPc[f] = "called"
                               /\ flushPc[f] # "idle" => flushPc'[f] # "idle"
    <3>1. CASE CompleteReadyFlushes
      BY <1>1, <2>2, <3>1, ReadyAreSaved
    <3>2. CASE UNCHANGED <<pendingFlushes, flushPc>>
      <4>1. \A f : Saved(f) => Saved(f)'
        BY <1>1, <2>2, SavedStays DEF Persists
      <4> QED BY <1>1, <3>2, <4>1 DEF PendingInv, ReturnedInv
    <3> QED BY <1>4, <3>1, <3>2
  <2>4. CalledInv' /\ LineInv'
    BY <1>1, <1>3, <1>4, <2>1, <2>3, LineMoves
  <2> QED BY <1>4, <2>3, <2>4 DEF FlushInv
<1>5. CASE RecvTrades
  <2>1. Receive("trades") /\ Observe /\ UNCHANGED snapshot
        /\ (CompleteReadyFlushes \/ UNCHANGED <<pendingFlushes, flushPc>>)
    BY <1>5 DEF RecvTrades
  <2>2. /\ disk \subseteq disk' /\ (writeFailed => writeFailed')
        /\ ~writeFailed' => buffer \cup {Received.seq} \cup disk \subseteq buffer' \cup disk'
    BY <1>5 DEF RecvTrades, WriteTrades, Written, Unwritten
  <2>3. NothingDiscarded'
    BY <1>1, <2>1, <2>2 DEF NothingDiscarded, Observe
  <2> QED BY <1>4, <2>1, <2>2, <2>3
<1>6. CASE RecvSnapshot
  <2>1. Receive("snapshot") /\ Observe /\ CompleteReadyFlushes
    BY <1>6 DEF RecvSnapshot
  <2>2. /\ disk \subseteq disk' /\ (writeFailed => writeFailed')
        /\ buffer \cup disk \subseteq buffer' \cup disk'
    BY <1>6 DEF RecvSnapshot, WriteTrades, Written, Unwritten
  <2>3. Received.kind = "snapshot"
    BY <1>3, <2>1
  <2>4. NothingDiscarded'
    BY <1>1, <2>1, <2>2, <2>3 DEF NothingDiscarded, Observe
  <2> QED BY <1>4, <2>1, <2>2, <2>4
<1>7. CASE RecvBoth
  <2>1. Receive("both") /\ Observe /\ CompleteReadyFlushes
    BY <1>7 DEF RecvBoth
  <2>2. /\ disk \subseteq disk' /\ (writeFailed => writeFailed')
        /\ ~writeFailed' => buffer \cup {Received.seq} \cup disk \subseteq buffer' \cup disk'
    BY <1>7 DEF RecvBoth, Written, Unwritten
  <2>3. NothingDiscarded'
    BY <1>1, <2>1, <2>2 DEF NothingDiscarded, Observe
  <2> QED BY <1>4, <2>1, <2>2, <2>3
(* A flush command: all it waits for was received before it.                *)
<1>8. CASE RecvFlush
  <2>1. PICK ok \in BOOLEAN : WriteTrades(buffer, ok)
    BY <1>8 DEF RecvFlush
  <2>2. /\ disk \subseteq disk' /\ (writeFailed => writeFailed')
        /\ buffer \cup disk \subseteq buffer' \cup disk'
        /\ ~writeFailed' => buffer \cup disk \subseteq disk'
    BY <2>1 DEF WriteTrades, Written, Unwritten
  <2>3. Receive("flush") /\ observed' = observed /\ OfCommand(Received) = {}
    BY <1>3, <1>8 DEF RecvFlush, OfCommand
  <2>4. Persists
    BY <1>2, <1>3, <2>2, <2>3 DEF Persists
  <2>5. PICK g \in Flushers :
          /\ g = Received.done /\ channel[1][1] = Received /\ 1 \in 1 .. Len(channel[1])
          /\ Received.kind = "flush"
    <3>1. channel[1] \in Seq(Batches \cup Flushes) /\ channel[1] # << >> /\ Received.kind = "flush"
      BY <1>2, <1>3, <2>3 DEF ChannelTypes
    <3>2. Received \in Batches \cup Flushes /\ channel[1][1] = Received /\ 1 \in 1 .. Len(channel[1])
      BY <3>1 DEF Received
    <3> QED BY <3>1, <3>2 DEF Batches, Flushes
  <2>6. flushPc[g] # "idle" /\ ahead[g] \subseteq Seqs(observed)
    <3>1. \A n : ~InLine(channel[1], n, 1)
      BY DEF InLine
    <3> QED BY <1>1, <2>5, <3>1 DEF LineInv
  <2>7. Saved(g)'
    BY <1>1, <1>3, <2>2, <2>3, <2>6 DEF Saved, NothingDiscarded, Seqs
  <2>8. /\ PendingInv' /\ ReturnedInv'
        /\ \A f \in Flushers : /\ flushPc'[f] = "called" => flushPc[f] = "called"
                               /\ flushPc[f] # "idle" => flushPc'[f] # "idle"
    <3>1. CASE observedMax >= Received.target
      <4>1. Return({g}) /\ pendingFlushes' = pendingFlushes
        BY <1>8, <2>5, <3>1 DEF RecvFlush
      <4> QED BY <1>1, <2>4, <2>7, <4>1, AnswersSaved
    <3>2. CASE ~(observedMax >= Received.target)
      <4>1. /\ pendingFlushes' = pendingFlushes \cup {[target |-> Received.target, done |-> g]}
            /\ flushPc' = flushPc
        BY <1>8, <2>5, <3>2 DEF RecvFlush
      <4>2. \A f : Saved(f) => Saved(f)'
        BY <1>1, <2>4, SavedStays DEF Persists
      <4>3. PendingInv'
        BY <1>1, <2>5, <2>6, <2>7, <4>1, <4>2 DEF PendingInv
      <4>4. ReturnedInv'
        BY <1>1, <4>1, <4>2 DEF ReturnedInv
      <4> QED BY <4>1, <4>3, <4>4
    <3> QED BY <3>1, <3>2
  <2>9. CalledInv' /\ LineInv'
    <3>1. observed' = observed \cup OfCommand(Received)
      BY <2>3
    <3>2. channel[1] # << >> /\ channel'[1] = Tail(channel[1]) /\ UNCHANGED ahead
      BY <1>3, <2>3
    <3> QED BY <1>1, <2>8, <3>1, <3>2, LineMoves
  <2>10. NothingDiscarded'
    BY <1>1, <2>2, <2>3 DEF NothingDiscarded
  <2> QED BY <2>8, <2>9, <2>10 DEF FlushInv
<1>9. CASE RecvClosed
  <2> DEFINE fs == {r.done : r \in pendingFlushes}
  <2>1. /\ observed' = observed /\ channel' = channel /\ UNCHANGED ahead
        /\ pendingFlushes' = {} /\ Return(fs)
    BY <1>9 DEF RecvClosed, stagingVars
  <2>2. /\ disk \subseteq disk' /\ (writeFailed => writeFailed')
        /\ ~writeFailed' => buffer \cup disk \subseteq disk'
    BY <1>9 DEF RecvClosed, Written
  <2>3. Persists
    BY <1>2, <2>1, <2>2 DEF Persists
  <2>4. \A f \in fs : Saved(f)'
    BY <1>1, <2>3, SavedStays DEF Persists, PendingInv
  <2> HIDE DEF fs
  <2>5. /\ PendingInv' /\ ReturnedInv'
        /\ \A f \in Flushers : /\ flushPc'[f] = "called" => flushPc[f] = "called"
                               /\ flushPc[f] # "idle" => flushPc'[f] # "idle"
    BY <1>1, <2>1, <2>3, <2>4, AnswersSaved
  <2>6. CalledInv' /\ LineInv'
    BY <1>1, <2>1, <2>5, LineRests
  <2>7. NothingDiscarded'
    BY <1>1, <2>1, <2>2 DEF NothingDiscarded
  <2> QED BY <2>5, <2>6, <2>7 DEF FlushInv
<1>10. CASE IntervalTick
  <2>1. /\ observed' = observed /\ channel' = channel /\ UNCHANGED ahead /\ CompleteReadyFlushes
    BY <1>10 DEF IntervalTick, stagingVars
  <2>2. /\ disk \subseteq disk' /\ (writeFailed => writeFailed')
        /\ buffer \cup disk \subseteq buffer' \cup disk'
    BY <1>10 DEF IntervalTick, WriteTrades, Written, Unwritten
  <2>3. Persists
    BY <1>2, <2>1, <2>2 DEF Persists
  <2>4. /\ PendingInv' /\ ReturnedInv'
        /\ \A f \in Flushers : /\ flushPc'[f] = "called" => flushPc[f] = "called"
                               /\ flushPc[f] # "idle" => flushPc'[f] # "idle"
    BY <1>1, <2>1, <2>3, ReadyAreSaved
  <2>5. CalledInv' /\ LineInv'
    BY <1>1, <2>1, <2>4, LineRests
  <2>6. NothingDiscarded'
    BY <1>1, <2>1, <2>2 DEF NothingDiscarded
  <2> QED BY <2>4, <2>5, <2>6 DEF FlushInv
<1> QED BY <1>5, <1>6, <1>7, <1>8, <1>9, <1>10 DEF WriterRecv

LEMMA FlushStep ==
  ChannelTypes /\ ProducerTypes /\ FlushTypes /\ ShutdownInv /\ CountInv /\ FlushInv
    /\ [WriterNext]_writerVars => FlushInv'
<1> SUFFICES ASSUME ChannelTypes, ProducerTypes, FlushTypes, HandlesHeld, DrainInOrder, CountInv,
                    FlushInv, [WriterNext]_writerVars
             PROVE  FlushInv'
  BY DEF ShutdownInv
<1> USE ChannelAssumption
<1>1. worker = "failed" => worker' = "failed"
  BY DEF WriterNext, Producer, Allocate, TrySendPlaced, TrySendFull, TrySendDropped, MarkEnqueued,
         Flush, FlushLoad, FlushSend, FlushClosed, Forwarder, ForwarderRecv, ForwarderSend,
         ForwarderFails, ForwarderEnds, Open, OpenFails, WriterRecv, RecvTrades, RecvSnapshot,
         RecvBoth, RecvFlush, RecvClosed, Receive, IntervalTick, DropHandles, Ended, writerVars,
         receiverVars
<1>2. CASE worker = "failed"
  BY <1>1, <1>2 DEF FlushInv
<1> SUFFICES ASSUME worker # "failed" PROVE FlushInv'
  BY <1>2
(* A step that at most appends a batch to the primary channel.              *)
<1>3. ASSUME UNCHANGED <<flushVars, databaseVars, pendingFlushes, observed>>,
             \/ channel'[1] = channel[1]
             \/ \E b \in Batches : channel'[1] = Append(channel[1], b)
      PROVE  FlushInv'
  <2>1. UNCHANGED <<buffer, disk, writeFailed, observed, pendingFlushes, flushPc, ahead>>
    BY <1>3 DEF flushVars, databaseVars
  <2>2. CalledInv' /\ LineInv'
    BY <1>3, <2>1, LineGrows DEF FlushInv
  <2>3. \A f : Saved(f) => Saved(f)'
    BY <2>1 DEF Saved, Seqs
  <2>4. PendingInv' /\ ReturnedInv' /\ NothingDiscarded'
    BY <2>1, <2>3 DEF FlushInv, PendingInv, ReturnedInv, NothingDiscarded
  <2> QED BY <2>2, <2>4 DEF FlushInv
<1>4. ASSUME NEW p \in Producers, Producer(p) PROVE FlushInv'
  <2>1. UNCHANGED <<flushVars, databaseVars, pendingFlushes, observed>>
    BY <1>4 DEF Producer, Allocate, TrySendPlaced, TrySendFull, TrySendDropped, MarkEnqueued,
                receiverVars
  <2>2. CASE TrySendPlaced(p)
    <3>1. PICK b \in sending[p] : channel' = [channel EXCEPT ![attempt[p]] = Append(@, b)]
      BY <2>2 DEF TrySendPlaced
    <3>2. b \in Batches /\ 1 \in 1 .. Stages
      BY DEF ChannelTypes
    <3>3. channel'[1] = IF attempt[p] = 1 THEN Append(channel[1], b) ELSE channel[1]
      BY <3>1, <3>2 DEF ChannelTypes
    <3> QED BY <1>3, <2>1, <3>2, <3>3
  <2>3. CASE ~TrySendPlaced(p)
    <3>1. channel' = channel
      BY <1>4, <2>3 DEF Producer, Allocate, TrySendFull, TrySendDropped, MarkEnqueued, stagingVars
    <3> QED BY <1>3, <2>1, <3>1
  <2> QED BY <2>2, <2>3
<1>5. ASSUME NEW s \in Staging, Forwarder(s) PROVE FlushInv'
  <2>1. UNCHANGED <<flushVars, databaseVars, pendingFlushes, observed>>
    BY <1>5 DEF Forwarder, ForwarderRecv, ForwarderSend, ForwarderFails, ForwarderEnds, receiverVars
  <2>2. 1 \in 1 .. Stages /\ s # 1
    BY DEF Staging
  <2>3. CASE ForwarderSend(s)
    <3>1. PICK b \in holding[s] : channel' = [channel EXCEPT ![s - 1] = Append(@, b)]
      BY <2>3 DEF ForwarderSend
    <3>2. b \in Batches
      BY DEF ChannelTypes
    <3>3. channel'[1] = channel[1] \/ channel'[1] = Append(channel[1], b)
      BY <2>2, <3>1 DEF ChannelTypes
    <3> QED BY <1>3, <2>1, <3>2, <3>3
  <2>4. CASE ~ForwarderSend(s)
    <3>1. channel'[1] = channel[1]
      BY <1>5, <2>2, <2>4
         DEF Forwarder, ForwarderRecv, ForwarderFails, ForwarderEnds, Lost, ChannelTypes
    <3> QED BY <1>3, <2>1, <3>1
  <2> QED BY <2>3, <2>4
<1>6. CASE Open \/ DropHandles \/ UNCHANGED writerVars
  <2>1. UNCHANGED <<flushVars, databaseVars, pendingFlushes, observed>> /\ channel' = channel
    BY <1>6 DEF Open, DropHandles, writerVars, stagingVars, receiverVars
  <2> QED BY <1>3, <2>1
<1>7. CASE OpenFails
  BY <1>7 DEF OpenFails, FlushInv
<1> QED BY <1>4, <1>5, <1>6, <1>7, FlusherStep, WriterFlushes DEF WriterNext, Ended

(* When a flush returns, all that was in the primary channel or past it at  *)
(* the call was received, and its trades are in the database unless a write *)
(* failed, for any channels, producers and flushes.                         *)
THEOREM FlushesPersist == WriterSpec => []FlushPersistsPrimary
<1>1. WriterInit => FlushTypes /\ FlushInv
  BY ChannelAssumption
     DEF WriterInit, FlushTypes, FlushInv, NothingDiscarded, CalledInv, LineInv, PendingInv,
         ReturnedInv
<1>2. FlushInv => FlushPersistsPrimary
  BY DEF FlushInv, FlushPersistsPrimary, ReturnedInv, Saved
<1>3. WriterSpec => [](ChannelTypes /\ ProducerTypes /\ ShutdownInv /\ CountInv)
  BY CountInitially, ShutdownStep, ProducerTypesStep, CountStep, ShutdownInit, ChannelTypesInit,
     ChannelTypesStep, PTL DEF WriterSpec
<1> QED BY <1>1, <1>2, <1>3, FlushTypesStep, FlushStep, PTL DEF WriterSpec
=============================================================================
