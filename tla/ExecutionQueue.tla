--------------------------- MODULE ExecutionQueue ---------------------------
(***************************************************************************)
(* The order-intent hand-off of src/event_loop_execution.rs: the event     *)
(* loop offers intents with ExecutionQueueTx::try_enqueue, a tokio task    *)
(* (run_execution_worker) sends them under a timeout, and a kill switch    *)
(* blocks both sides after a streak of timeouts.                           *)
(*                                                                         *)
(* Two threads share the bounded channel, an overflow lane under a mutex   *)
(* (the latest intent of each symbol), the atomic depth counter, the       *)
(* health gauges and the kill-switch flag.  Every atomic access, channel   *)
(* operation or critical section that the other thread can observe is a    *)
(* step of its own.                                                        *)
(***************************************************************************)
EXTENDS Integers, Sequences, FiniteSets

CONSTANTS
  Symbols,       \* symbols a signal can be about
  NoIntent,      \* "no intent in hand"
  Capacity,      \* queue_capacity of the channel
  TimeoutStreak, \* kill_switch_timeout_streak
  Cooldown,      \* kill_switch_cooldown_ms, in clock units
  MaxAge,        \* max_intent_age_ms, in clock units
  MaxIntents,    \* bound: number of intents ever decided
  MaxTime        \* bound: the clock stops here

Intents == [sym : Symbols, at : Nat]

(* The limits ExecutionConfig::from_env enforces (max(1)), and the relation *)
(* its defaults have: an intent expires (250 ms) long before the kill       *)
(* switch recovers (5000 ms).                                               *)
ASSUME ConfigAssumption ==
  /\ Capacity \in Nat \ {0}
  /\ TimeoutStreak \in Nat \ {0}
  /\ MaxAge \in Nat \ {0}
  /\ Cooldown \in Nat
  /\ MaxAge < Cooldown
ASSUME BoundAssumption == MaxIntents \in Nat /\ MaxTime \in Nat
ASSUME NoIntentAssumption == NoIntent \notin Intents

VARIABLES
  now,          \* wall clock
  queue,        \* the bounded channel
  overflow,     \* overflow_latest_by_symbol: at most one intent per symbol
  queueDepth,   \* queue_depth: the atomic counter both threads update
  depthGauge,   \* health.runtime_execution_queue_depth
  killSwitch,   \* health.runtime_execution_kill_switch_active
  dropped, sent, timeouts,  \* the health counters
  txPc, txIntent, txDepth,  \* event-loop thread inside try_enqueue
  workerPc, workerIntent, workerDepth,  \* worker task
  streak,       \* consecutive_timeouts
  recoverAt,    \* kill_switch_recover_at_ns, or Never
  decided,      \* history: intents decided so far
  lastTrip      \* history: when the kill switch last tripped, or Never

sharedVars == <<queue, overflow, queueDepth, depthGauge, killSwitch>>
counters   == <<dropped, sent, timeouts>>
txVars     == <<txPc, txIntent, txDepth>>
workerVars == <<workerPc, workerIntent, workerDepth, streak, recoverAt, lastTrip>>
vars == <<now, sharedVars, counters, txVars, workerVars, decided>>

Never == -1

Init ==
  /\ now = 0
  /\ queue = <<>> /\ overflow = {}
  /\ queueDepth = 0 /\ depthGauge = 0
  /\ killSwitch = FALSE
  /\ dropped = 0 /\ sent = 0 /\ timeouts = 0
  /\ txPc = "idle" /\ txIntent = NoIntent /\ txDepth = 0
  /\ workerPc = "top" /\ workerIntent = NoIntent /\ workerDepth = 0
  /\ streak = 0 /\ recoverAt = Never
  /\ decided = 0 /\ lastTrip = Never

(* decrement_saturating: one successful compare-exchange on a u64.         *)
Decremented(depth) == IF depth = 0 THEN 0 ELSE depth - 1

-----------------------------------------------------------------------------
(* The event-loop thread: a signal is decided, then offered.               *)

TxGoto(pc) == txPc' = pc
TxReturn == txPc' = "idle" /\ txIntent' = NoIntent

Decide(s) ==
  /\ txPc = "idle" /\ decided < MaxIntents
  /\ txIntent' = [sym |-> s, at |-> now]
  /\ decided' = decided + 1
  /\ TxGoto("check")
  /\ UNCHANGED <<now, sharedVars, counters, txDepth, workerVars>>

TxCheckKillSwitch ==
  /\ txPc = "check"
  /\ \/ killSwitch /\ dropped' = dropped + 1 /\ TxReturn
     \/ ~killSwitch /\ TxGoto("reserve") /\ UNCHANGED <<dropped, txIntent>>
  /\ UNCHANGED <<now, sharedVars, sent, timeouts, txDepth, workerVars, decided>>

(* fetch_add before try_send, so that the worker never decrements an       *)
(* intent that was not yet counted.                                        *)
TxReserve ==
  /\ txPc = "reserve"
  /\ queueDepth' = queueDepth + 1
  /\ txDepth' = queueDepth + 1
  /\ TxGoto("publish")
  /\ UNCHANGED <<now, queue, overflow, depthGauge, killSwitch, counters, txIntent,
                 workerVars, decided>>

TxPublishReserved ==
  /\ txPc = "publish"
  /\ depthGauge' = txDepth /\ txDepth' = 0
  /\ TxGoto("send")
  /\ UNCHANGED <<now, queue, overflow, queueDepth, killSwitch, counters, txIntent,
                 workerVars, decided>>

TxTrySend ==
  /\ txPc = "send"
  /\ \/ /\ Len(queue) < Capacity
        /\ queue' = Append(queue, txIntent)
        /\ TxReturn
     \/ /\ Len(queue) >= Capacity
        /\ TxGoto("undo")
        /\ UNCHANGED <<queue, txIntent>>
  /\ UNCHANGED <<now, overflow, queueDepth, depthGauge, killSwitch, counters, txDepth,
                 workerVars, decided>>

(* Mutation of TxUndoReserve: a failed try_send keeps its reservation.     *)
TxUndoReserve_Leaks ==
  /\ txPc = "undo"
  /\ TxGoto("reload")
  /\ UNCHANGED <<now, sharedVars, counters, txIntent, txDepth, workerVars, decided>>

TxUndoReserve ==
  /\ txPc = "undo"
  /\ queueDepth' = Decremented(queueDepth)
  /\ TxGoto("reload")
  /\ UNCHANGED <<now, queue, overflow, depthGauge, killSwitch, counters, txIntent,
                 txDepth, workerVars, decided>>

TxReload ==
  /\ txPc = "reload"
  /\ txDepth' = queueDepth
  /\ TxGoto("republish")
  /\ UNCHANGED <<now, sharedVars, counters, txIntent, workerVars, decided>>

TxRepublish ==
  /\ txPc = "republish"
  /\ depthGauge' = txDepth /\ txDepth' = 0
  /\ TxGoto("overflow")
  /\ UNCHANGED <<now, queue, overflow, queueDepth, killSwitch, counters, txIntent,
                 workerVars, decided>>

SameSymbol(i, j) == i.sym = j.sym

(* Mutation of TxOverflow: the replaced intent is not counted as dropped.  *)
TxOverflow_Uncounted ==
  /\ txPc = "overflow"
  /\ overflow' = {i \in overflow : ~SameSymbol(i, txIntent)} \cup {txIntent}
  /\ TxReturn
  /\ UNCHANGED <<now, queue, queueDepth, depthGauge, killSwitch, counters,
                 txDepth, workerVars, decided>>

TxOverflow ==
  /\ txPc = "overflow"
  /\ LET replaced == {i \in overflow : SameSymbol(i, txIntent)} IN
     /\ overflow' = (overflow \ replaced) \cup {txIntent}
     /\ dropped' = IF replaced = {} THEN dropped ELSE dropped + 1
  /\ TxReturn
  /\ UNCHANGED <<now, queue, queueDepth, depthGauge, killSwitch, sent, timeouts,
                 txDepth, workerVars, decided>>

TryEnqueue ==
  \/ TxCheckKillSwitch \/ TxReserve \/ TxPublishReserved \/ TxTrySend
  \/ TxUndoReserve \/ TxReload \/ TxRepublish \/ TxOverflow

-----------------------------------------------------------------------------
(* The worker task.                                                        *)

WorkerGoto(pc) == workerPc' = pc

(* pop_overflow_intent: the map's iteration order is arbitrary.            *)
WorkerPopOverflow ==
  /\ workerPc = "top"
  /\ \/ \E i \in overflow :
          /\ overflow' = overflow \ {i}
          /\ workerIntent' = i
          /\ WorkerGoto("process")
     \/ /\ overflow = {}
        /\ WorkerGoto("select")
        /\ UNCHANGED <<overflow, workerIntent>>
  /\ UNCHANGED <<now, queue, queueDepth, depthGauge, killSwitch, counters, txVars,
                 workerDepth, streak, recoverAt, lastTrip, decided>>

WorkerRecv ==
  /\ workerPc = "select" /\ queue # <<>>
  /\ workerIntent' = Head(queue)
  /\ queue' = Tail(queue)
  /\ WorkerGoto("decrement")
  /\ UNCHANGED <<now, overflow, queueDepth, depthGauge, killSwitch, counters, txVars,
                 workerDepth, streak, recoverAt, lastTrip, decided>>

WorkerDecrement ==
  /\ workerPc = "decrement"
  /\ queueDepth' = Decremented(queueDepth)
  /\ WorkerGoto("load")
  /\ UNCHANGED <<now, queue, overflow, depthGauge, killSwitch, counters, txVars,
                 workerIntent, workerDepth, streak, recoverAt, lastTrip, decided>>

WorkerLoadDepth ==
  /\ workerPc = "load"
  /\ workerDepth' = queueDepth
  /\ WorkerGoto("publish")
  /\ UNCHANGED <<now, sharedVars, counters, txVars, workerIntent, streak, recoverAt,
                 lastTrip, decided>>

(* After a received intent the worker goes on to process it, after a flush *)
(* tick back to the top of the loop.                                       *)
WorkerPublishDepth ==
  /\ workerPc = "publish"
  /\ depthGauge' = workerDepth /\ workerDepth' = 0
  /\ WorkerGoto(IF workerIntent = NoIntent THEN "top" ELSE "process")
  /\ UNCHANGED <<now, queue, overflow, queueDepth, killSwitch, counters, txVars,
                 workerIntent, streak, recoverAt, lastTrip, decided>>

(* maybe_recover_kill_switch                                               *)
CooldownOver == recoverAt # Never /\ now >= recoverAt
MaybeRecover ==
  /\ killSwitch' = (killSwitch /\ ~CooldownOver)
  /\ recoverAt' = IF CooldownOver THEN Never ELSE recoverAt

(* Mutation of WorkerFlushTick: it does not look at the kill switch.       *)
WorkerFlushTick_NoRecovery ==
  /\ workerPc = "select"
  /\ WorkerGoto("load")
  /\ UNCHANGED <<now, sharedVars, counters, txVars, workerIntent, workerDepth, streak,
                 recoverAt, lastTrip, decided>>

WorkerFlushTick ==
  /\ workerPc = "select"
  /\ MaybeRecover
  /\ WorkerGoto("load")
  /\ UNCHANGED <<now, queue, overflow, queueDepth, depthGauge, counters, txVars,
                 workerIntent, workerDepth, streak, lastTrip, decided>>

(* Mutation of IsStale: the age limit reaches into the cooldown.           *)
IsStale_Lenient(i) == now - i.at > MaxAge + 1

IsStale(i) == now - i.at > MaxAge

(* process_intent up to the send: recover, then drop if blocked or stale.  *)
WorkerProcess ==
  /\ workerPc = "process"
  /\ MaybeRecover
  /\ \/ /\ killSwitch' \/ IsStale(workerIntent)
        /\ dropped' = dropped + 1
        /\ workerIntent' = NoIntent
        /\ WorkerGoto("top")
     \/ /\ ~killSwitch' /\ ~IsStale(workerIntent)
        /\ WorkerGoto("sending")
        /\ UNCHANGED <<dropped, workerIntent>>
  /\ UNCHANGED <<now, queue, overflow, queueDepth, depthGauge, sent, timeouts, txVars,
                 workerDepth, streak, lastTrip, decided>>

WorkerSent ==
  /\ workerPc = "sending"
  /\ streak' = 0
  /\ sent' = sent + 1
  /\ workerIntent' = NoIntent
  /\ WorkerGoto("top")
  /\ UNCHANGED <<now, sharedVars, dropped, timeouts, txVars, workerDepth, recoverAt,
                 lastTrip, decided>>

(* The timeout elapses; the streak is never reset by a recovery, only by a *)
(* successful send.                                                        *)
WorkerSendTimeout ==
  /\ workerPc = "sending"
  /\ streak' = streak + 1
  /\ timeouts' = timeouts + 1
  /\ \/ /\ streak' >= TimeoutStreak
        /\ killSwitch' = TRUE
        /\ recoverAt' = now + Cooldown
        /\ lastTrip' = now
     \/ /\ streak' < TimeoutStreak
        /\ UNCHANGED <<killSwitch, recoverAt, lastTrip>>
  /\ workerIntent' = NoIntent
  /\ WorkerGoto("top")
  /\ UNCHANGED <<now, queue, overflow, queueDepth, depthGauge, dropped, sent, txVars,
                 workerDepth, decided>>

Worker ==
  \/ WorkerPopOverflow \/ WorkerRecv \/ WorkerDecrement \/ WorkerLoadDepth
  \/ WorkerPublishDepth \/ WorkerFlushTick \/ WorkerProcess
  \/ WorkerSent \/ WorkerSendTimeout

-----------------------------------------------------------------------------
TimePasses ==
  /\ now < MaxTime
  /\ now' = now + 1
  /\ UNCHANGED <<sharedVars, counters, txVars, workerVars, decided>>

Next == (\E s \in Symbols : Decide(s)) \/ TryEnqueue \/ Worker \/ TimePasses

(* try_enqueue never blocks, so a call that started finishes; the worker   *)
(* task is always runnable (its flush interval fires again and again).     *)
Fairness == WF_vars(TryEnqueue) /\ WF_vars(Worker)

Spec == Init /\ [][Next]_vars /\ Fairness

-----------------------------------------------------------------------------
(* Properties.                                                             *)

TypeOK ==
  /\ now \in Nat
  /\ queue \in Seq(Intents) /\ overflow \in SUBSET Intents
  /\ queueDepth \in Nat /\ depthGauge \in Nat
  /\ killSwitch \in BOOLEAN
  /\ dropped \in Nat /\ sent \in Nat /\ timeouts \in Nat
  /\ txPc \in {"idle", "check", "reserve", "publish", "send", "undo", "reload",
               "republish", "overflow"}
  /\ txIntent \in IF txPc = "idle" THEN {NoIntent} ELSE Intents
  /\ txDepth \in Nat
  /\ workerPc \in {"top", "select", "decrement", "load", "publish", "process", "sending"}
  /\ workerIntent \in IF workerPc \in {"top", "select"} THEN {NoIntent}
                      ELSE IF workerPc \in {"load", "publish"} THEN Intents \cup {NoIntent}
                      ELSE Intents
  /\ workerDepth \in Nat
  /\ streak \in Nat
  /\ recoverAt \in Nat \cup {Never} /\ lastTrip \in Nat \cup {Never}
  /\ decided \in Nat

(* The depth counter never drifts: whatever the interleaving of enqueue,   *)
(* failed enqueue and dequeue, it is the queue's length plus the intents   *)
(* counted but not (or no longer) in it.  In particular the saturating     *)
(* decrement never saturates.                                              *)
TxReserved == IF txPc \in {"publish", "send", "undo"} THEN 1 ELSE 0
WorkerUncounted == IF workerPc = "decrement" THEN 1 ELSE 0
DepthNeverDrifts == queueDepth = Len(queue) + TxReserved + WorkerUncounted

(* No intent vanishes: each one decided is in hand, queued, parked in the  *)
(* overflow lane, or was counted exactly once as dropped, sent or timed    *)
(* out, also when it lost its overflow slot to a newer one.                *)
InHand(i) == IF i = NoIntent THEN 0 ELSE 1
EveryIntentAccounted ==
  decided = dropped + sent + timeouts + Len(queue) + Cardinality(overflow)
            + InHand(txIntent) + InHand(workerIntent)

(* The overflow lane holds one intent per symbol, so that a slow exchange  *)
(* cannot make it grow without bound.                                      *)
OverflowBounded == \A i, j \in overflow : i.sym = j.sym => i = j

(* No order decided before a trip of the kill switch goes out after it     *)
(* recovered: a blocked intent may wait in the queue, in the overflow lane *)
(* or inside a try_enqueue that passed its check just before the trip, but *)
(* it has expired by the time sending resumes.                             *)
NoPreTripIntentSent ==
  workerPc = "sending" => ~killSwitch /\ (lastTrip # Never => workerIntent.at > lastTrip)

(* Once its cooldown is over the kill switch is lifted, also when nothing  *)
(* is enqueued any more (the switch itself blocks all new intents).        *)
KillSwitchRecovers == (killSwitch /\ CooldownOver) ~> ~killSwitch

(* "Queue-depth telemetry is consistent under enqueue/dequeue/failure      *)
(* races" (cp6 evidence): when traffic ceases the published gauge settles  *)
(* on the real depth, although each thread publishes values it read        *)
(* earlier and can overwrite a newer one.                                  *)
GaugeSettles == <>[](depthGauge = Len(queue))

=============================================================================
