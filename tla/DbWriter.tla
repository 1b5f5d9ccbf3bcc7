------------------------------ MODULE DbWriter ------------------------------
(***************************************************************************)
(* The database writer of src/infrastructure/db.rs.  Producers hand over   *)
(* batches with send*(), which never wait: a batch goes to the first       *)
(* channel of a chain (primary, overflow, retry, spillover, backpressure)  *)
(* with room.  One task per staging channel forwards its batches to the    *)
(* channel before it, and the writer task receives from the primary        *)
(* channel, buffers trades and writes them and the portfolio snapshots to  *)
(* SQLite.  flush_all() waits until the writer has seen what was enqueued. *)
(*                                                                         *)
(* Every atomic access and channel operation is a step, and so is a whole  *)
(* iteration of the writer's loop, which shares nothing but the channels.  *)
(* A command is its sequence number and kind: what the rows hold is left   *)
(* out, and so are the logs and the OVERFLOWED_BATCHES and watchdog gauges *)
(* that nothing in this file reads back.                                   *)
(***************************************************************************)
EXTENDS Integers, Sequences, FiniteSets

CONSTANTS
  Producers,  \* threads that call send*()
  Sends,      \* the kinds of batches each of them sends
  Flushers,   \* tasks that call flush_all(), once each
  Stages,     \* number of channels, the primary included: 5 in the code
  ChannelCapacity,  \* of each: [1 .. Stages -> Nat \ {0}]
  MaxSeq      \* bound: sequence numbers ever allocated

Kinds == {"trades", "snapshot", "both"}

ASSUME SendsAssumption == Sends \in [Producers -> SUBSET Kinds]
ASSUME ChannelAssumption ==
  /\ Stages \in Nat \ {0}
  /\ ChannelCapacity \in [1 .. Stages -> Nat \ {0}]
ASSUME SeqBoundAssumption == MaxSeq \in Nat

Batches == [kind : Kinds, seq : Nat]
Flushes == [kind : {"flush"}, target : Nat, done : Flushers]
Staging == 2 .. Stages

VARIABLES
  nextSeq, enqueuedSeq,    \* next_seq, enqueued_seq
  drops,                   \* DROPPED_BATCHES
  handles,                 \* is a DbWriter handle left?
  sending, attempt, producerPc,  \* producers inside enqueue_command
  flushPc, flushTarget,    \* callers of flush_all
  channel,    \* commands accepted by each channel, in order; those beyond
              \* its capacity are the sends that wait for room
  holding,    \* what each forwarder has received and not yet sent: a set of
              \* at most one batch
  forwarding, \* does the forwarder of a staging channel still run?
  worker,     \* "opening", "running", "stopped", or "failed" to open
  buffer,     \* buf: the batches whose trades wait for a write
  observedMax, pendingFlushes,  \* observed_max_seq, pending_flushes
  snapshot,   \* latest_portfolio_snapshot_seq: the snapshot in the database
  disk,       \* the batches whose trades are in the database
  observed,   \* history: batches the writer has received
  owed, ahead, \* history: the batches enqueued before each flush_all(), and
              \* those of them the primary channel or the writer had
  writeFailed \* history: has a transaction failed?

producerVars == <<nextSeq, enqueuedSeq, sending, attempt, producerPc>>
flushVars    == <<flushPc, flushTarget, owed, ahead>>
stagingVars  == <<channel, holding, forwarding>>
databaseVars == <<buffer, snapshot, disk, writeFailed>>
receiverVars == <<worker, observedMax, pendingFlushes, observed>>
writerVars == <<producerVars, flushVars, stagingVars, databaseVars, receiverVars, drops, handles>>

WriterInit ==
  /\ nextSeq = 0 /\ enqueuedSeq = 0 /\ drops = 0 /\ handles = TRUE
  /\ sending = [p \in Producers |-> {}]
  /\ attempt = [p \in Producers |-> 1]
  /\ producerPc = [p \in Producers |-> "idle"]
  /\ flushPc = [f \in Flushers |-> "idle"]
  /\ flushTarget = [f \in Flushers |-> 0]
  /\ channel = [s \in 1 .. Stages |-> << >>]
  /\ holding = [s \in Staging |-> {}]
  /\ forwarding = [s \in Staging |-> TRUE]
  /\ worker = "opening"
  /\ buffer = {} /\ observedMax = 0 /\ pendingFlushes = {}
  /\ snapshot = 0 /\ disk = {}
  /\ observed = {}
  /\ owed = [f \in Flushers |-> {}] /\ ahead = [f \in Flushers |-> {}]
  /\ writeFailed = FALSE

-----------------------------------------------------------------------------
(* The channels.                                                           *)

(* The receiver of a channel is its forwarder, of the primary the writer.  *)
Closed(s) == IF s = 1 THEN worker \in {"stopped", "failed"} ELSE ~forwarding[s]

(* try_send succeeds only when no earlier send waits for the room: permits *)
(* are handed to waiting senders in order.                                 *)
HasRoom(s) == Len(channel[s]) < ChannelCapacity[s]

(* The batch forwarder s waits to send to the channel before its own.      *)
(* Flush commands wait at the primary as well; they are their callers'.    *)
WaitingOf(s) ==
  {channel[s - 1][k] : k \in {i \in ChannelCapacity[s - 1] + 1 .. Len(channel[s - 1]) :
                                channel[s - 1][i].kind # "flush"}}

(* The receiver of channel s goes away: its commands are dropped with it,  *)
(* and a forwarder that waits to send to it gets its batch back.           *)
Lost(s) == [channel EXCEPT ![s] = << >>]
Returned(s) ==
  IF s = Stages THEN holding ELSE [holding EXCEPT ![s + 1] = @ \cup WaitingOf(s + 1)]

(* Mutation of SendersGone: the handles alone are looked at.               *)
SendersGone_HandlesOnly(s) == ~handles

(* Nobody can send to channel s any more: the handles are dropped and the  *)
(* forwarder of the next channel has ended.                                *)
SendersGone(s) == ~handles /\ \A t \in Staging \cap {s + 1} : ~forwarding[t]

(* Where the batches are.                                                  *)
Seqs(bs) == {b.seq : b \in bs}
InChannel(s) == {channel[s][k] : k \in {i \in 1 .. Len(channel[s]) : channel[s][i].kind # "flush"}}
Staged == UNION ({InChannel(s) : s \in 1 .. Stages} \cup {holding[s] : s \in Staging})
BatchesIn(state) == UNION {sending[p] : p \in {q \in Producers : producerPc[q] = state}}

-----------------------------------------------------------------------------
(* The producers.                                                          *)

(* send, send_portfolio_snapshot_v1 and                                    *)
(* send_portfolio_trades_with_snapshot_v1: a sequence number is taken ...  *)
Allocate(p, k) ==
  /\ handles /\ producerPc[p] = "idle" /\ nextSeq < MaxSeq
  /\ nextSeq' = nextSeq + 1
  /\ sending' = [sending EXCEPT ![p] = {[kind |-> k, seq |-> nextSeq + 1]}]
  /\ attempt' = [attempt EXCEPT ![p] = 1]
  /\ producerPc' = [producerPc EXCEPT ![p] = "trying"]
  /\ UNCHANGED <<enqueuedSeq, flushVars, stagingVars,
                 databaseVars, receiverVars, drops, handles>>

GiveUp(p) ==
  /\ sending' = [sending EXCEPT ![p] = {}]
  /\ producerPc' = [producerPc EXCEPT ![p] = "idle"]

(* ... and the channels are tried in turn.                                 *)
TrySendPlaced(p) ==
  LET s == attempt[p] IN
  /\ producerPc[p] = "trying" /\ ~Closed(s) /\ HasRoom(s)
  /\ \E b \in sending[p] : channel' = [channel EXCEPT ![s] = Append(@, b)]
  /\ producerPc' = [producerPc EXCEPT ![p] = "placed"]
  /\ UNCHANGED <<nextSeq, enqueuedSeq, sending, attempt, flushVars, holding,
                 forwarding, databaseVars, receiverVars, drops, handles>>

TrySendFull(p) ==
  LET s == attempt[p] IN
  /\ producerPc[p] = "trying" /\ ~Closed(s) /\ ~HasRoom(s) /\ s < Stages
  /\ attempt' = [attempt EXCEPT ![p] = s + 1]
  /\ UNCHANGED <<nextSeq, enqueuedSeq, sending, producerPc, flushVars,
                 stagingVars, databaseVars, receiverVars, drops, handles>>

(* Mutation of TrySendDropped: a full last channel drops silently.         *)
TrySendDropped_Uncounted(p) ==
  LET s == attempt[p] IN
  /\ producerPc[p] = "trying"
  /\ Closed(s) \/ (s = Stages /\ ~HasRoom(s))
  /\ GiveUp(p)
  /\ drops' = IF Closed(s) THEN drops + 1 ELSE drops
  /\ UNCHANGED <<nextSeq, enqueuedSeq, attempt, flushVars,
                 stagingVars, databaseVars, receiverVars, handles>>

(* A closed channel ends the attempt, and so does a full last channel.     *)
TrySendDropped(p) ==
  LET s == attempt[p] IN
  /\ producerPc[p] = "trying"
  /\ Closed(s) \/ (s = Stages /\ ~HasRoom(s))
  /\ GiveUp(p)
  /\ drops' = drops + 1
  /\ UNCHANGED <<nextSeq, enqueuedSeq, attempt, flushVars,
                 stagingVars, databaseVars, receiverVars, handles>>

(* mark_enqueued_seq: the compare-and-exchange loop is an atomic maximum.  *)
MarkEnqueued(p) ==
  /\ producerPc[p] = "placed"
  /\ \E b \in sending[p] :
       enqueuedSeq' = IF b.seq > enqueuedSeq THEN b.seq ELSE enqueuedSeq
  /\ GiveUp(p)
  /\ UNCHANGED <<nextSeq, attempt, flushVars, stagingVars, databaseVars,
                 receiverVars, drops, handles>>

Producer(p) ==
  \/ \E k \in Sends[p] : Allocate(p, k)
  \/ TrySendPlaced(p) \/ TrySendFull(p) \/ TrySendDropped(p)
  \/ MarkEnqueued(p)

(* The store that owns the handle goes away, with no call in progress.     *)
DropHandles ==
  /\ handles
  /\ \A p \in Producers : producerPc[p] = "idle"
  /\ \A f \in Flushers : flushPc[f] \in {"idle", "returned"}
  /\ handles' = FALSE
  /\ UNCHANGED <<producerVars, flushVars, stagingVars, databaseVars, receiverVars, drops>>

-----------------------------------------------------------------------------
(* flush_all.                                                              *)

Remember(f) ==
  /\ owed' = [owed EXCEPT ![f] = Seqs((Staged \cup observed) \ BatchesIn("placed"))]
  /\ ahead' = [ahead EXCEPT ![f] = Seqs(InChannel(1) \cup observed)]

FlushLoad(f) ==
  /\ handles /\ flushPc[f] = "idle"
  /\ flushTarget' = [flushTarget EXCEPT ![f] = enqueuedSeq]
  /\ Remember(f)
  /\ flushPc' = [flushPc EXCEPT ![f] = "called"]
  /\ UNCHANGED <<producerVars, stagingVars, databaseVars, receiverVars, drops, handles>>

(* tx.send(..).await takes its place in the primary channel, or waits      *)
(* behind it for room; on a closed channel flush_all returns.              *)
FlushSend(f) ==
  /\ flushPc[f] = "called" /\ ~Closed(1)
  /\ channel' = [channel EXCEPT ![1] =
                   Append(@, [kind |-> "flush", target |-> flushTarget[f], done |-> f])]
  /\ flushPc' = [flushPc EXCEPT ![f] = "waiting"]
  /\ UNCHANGED <<producerVars, flushTarget, owed, ahead, holding, forwarding, databaseVars,
                 receiverVars, drops, handles>>

FlushClosed(f) ==
  /\ flushPc[f] = "called" /\ Closed(1)
  /\ flushPc' = [flushPc EXCEPT ![f] = "returned"]
  /\ UNCHANGED <<producerVars, flushTarget, owed, ahead, stagingVars, databaseVars, receiverVars,
                 drops, handles>>

Flush(f) == FlushLoad(f) \/ FlushSend(f) \/ FlushClosed(f)

(* The calls whose `done` is answered, or dropped, return.                 *)
Return(fs) == flushPc' = [f \in Flushers |-> IF f \in fs THEN "returned" ELSE flushPc[f]]

-----------------------------------------------------------------------------
(* The forwarder of staging channel s.                                     *)

ForwarderIdle(s) == forwarding[s] /\ holding[s] = {} /\ WaitingOf(s) = {}

ForwarderRecv(s) ==
  /\ ForwarderIdle(s) /\ channel[s] # << >>
  /\ holding' = [holding EXCEPT ![s] = {Head(channel[s])}]
  /\ channel' = [channel EXCEPT ![s] = Tail(@)]
  /\ UNCHANGED <<producerVars, flushVars, forwarding, databaseVars, receiverVars, drops,
                 handles>>

ForwarderSend(s) ==
  /\ ~Closed(s - 1)
  /\ \E b \in holding[s] : channel' = [channel EXCEPT ![s - 1] = Append(@, b)]
  /\ holding' = [holding EXCEPT ![s] = {}]
  /\ UNCHANGED <<producerVars, flushVars, forwarding, databaseVars, receiverVars, drops,
                 handles>>

(* The channel before is closed: the batch is counted, the task ends.      *)
ForwarderFails(s) ==
  /\ Closed(s - 1) /\ holding[s] # {}
  /\ drops' = drops + 1
  /\ forwarding' = [forwarding EXCEPT ![s] = FALSE]
  /\ channel' = Lost(s)
  /\ holding' = [Returned(s) EXCEPT ![s] = {}]
  /\ UNCHANGED <<producerVars, flushVars, databaseVars, receiverVars, handles>>

ForwarderEnds(s) ==
  /\ ForwarderIdle(s) /\ channel[s] = << >> /\ SendersGone(s)
  /\ forwarding' = [forwarding EXCEPT ![s] = FALSE]
  /\ UNCHANGED <<producerVars, flushVars, channel, holding, databaseVars, receiverVars,
                 drops, handles>>

Forwarder(s) ==
  ForwarderRecv(s) \/ ForwarderSend(s) \/ ForwarderFails(s) \/ ForwarderEnds(s)

-----------------------------------------------------------------------------
(* The writer task.                                                        *)

Open ==
  /\ worker = "opening" /\ worker' = "running"
  /\ UNCHANGED <<producerVars, flushVars, stagingVars, databaseVars, observedMax,
                 pendingFlushes, observed, drops, handles>>

(* open_db failed: the task returns, and its receiver goes with it.        *)
OpenFails ==
  /\ worker = "opening" /\ worker' = "failed"
  /\ channel' = Lost(1) /\ holding' = Returned(1)
  /\ Return({f \in Flushers : flushPc[f] = "waiting"})
  /\ UNCHANGED <<producerVars, flushTarget, owed, ahead, forwarding, databaseVars, observedMax,
                 pendingFlushes, observed, drops, handles>>

Written(trades, ok) == IF ok THEN trades ELSE {}

(* Mutation of Unwritten: the buffer is cleared on errors, too.            *)
Unwritten_Cleared(trades, ok) == {}

(* flush_trade_buffer: on an error the trades are retained.                *)
Unwritten(trades, ok) == trades \ Written(trades, ok)
WriteTrades(trades, ok) ==
  /\ buffer' = Unwritten(trades, ok)
  /\ disk' = disk \cup Written(trades, ok)
  /\ writeFailed' = (writeFailed \/ (~ok /\ trades # {}))

(* complete_ready_flushes.                                                 *)
CompleteReadyFlushes ==
  LET ready == {r \in pendingFlushes : r.target <= observedMax'}
  IN  /\ pendingFlushes' = pendingFlushes \ ready
      /\ Return({r.done : r \in ready})

(* The command at the head of the primary channel is received.             *)
Received == Head(channel[1])
Receive(kind) ==
  /\ worker = "running" /\ channel[1] # << >> /\ Received.kind = kind
  /\ channel' = [channel EXCEPT ![1] = Tail(@)]
  /\ UNCHANGED <<producerVars, flushTarget, owed, ahead, holding, forwarding, worker, drops,
                 handles>>

Observe ==
  /\ observedMax' = IF Received.seq > observedMax THEN Received.seq ELSE observedMax
  /\ observed' = observed \cup {Received}

(* Trades are buffered; somebody who waits for a flush gets them written.  *)
RecvTrades ==
  /\ Receive("trades") /\ Observe
  /\ IF pendingFlushes = {}
     THEN /\ buffer' = buffer \cup {Received.seq}
          /\ UNCHANGED <<disk, writeFailed, pendingFlushes, flushPc>>
     ELSE /\ \E ok \in BOOLEAN : WriteTrades(buffer \cup {Received.seq}, ok)
          /\ CompleteReadyFlushes
  /\ UNCHANGED snapshot

(* Mutation of Replaces: the sequence number is not looked at.             *)
Replaces_Always(ok) == ok

(* A snapshot replaces the one in the database unless it is older, or its  *)
(* transaction fails.                                                      *)
Replaces(ok) == ok /\ Received.seq > snapshot

RecvSnapshot ==
  /\ Receive("snapshot") /\ Observe
  /\ \E ok, replaced \in BOOLEAN :
       /\ WriteTrades(buffer, ok)
       /\ snapshot' = IF Replaces(replaced) THEN Received.seq ELSE snapshot
  /\ CompleteReadyFlushes

(* A combined command writes its trades with the snapshot, or alone when   *)
(* the snapshot is stale; on an error its trades are gone.                 *)
RecvBoth ==
  /\ Receive("both") /\ Observe
  /\ \E ok, written \in BOOLEAN :
       /\ buffer' = Unwritten(buffer, ok)
       /\ disk' = disk \cup Written(buffer, ok) \cup Written({Received.seq}, written)
       /\ writeFailed' = (writeFailed \/ (~ok /\ buffer # {}) \/ ~written)
       /\ snapshot' = IF Replaces(written) THEN Received.seq ELSE snapshot
  /\ CompleteReadyFlushes

RecvFlush ==
  /\ Receive("flush")
  /\ \E ok \in BOOLEAN : WriteTrades(buffer, ok)
  /\ IF observedMax >= Received.target
     THEN Return({Received.done}) /\ UNCHANGED pendingFlushes
     ELSE /\ pendingFlushes' =
               pendingFlushes \cup {[target |-> Received.target, done |-> Received.done]}
          /\ UNCHANGED flushPc
  /\ UNCHANGED <<observedMax, observed, snapshot>>

(* The loop breaks on a closed channel: what is left is written, or lost.  *)
RecvClosed ==
  /\ worker = "running" /\ channel[1] = << >> /\ SendersGone(1)
  /\ worker' = "stopped"
  /\ \E ok \in BOOLEAN :
       /\ disk' = disk \cup Written(buffer, ok)
       /\ writeFailed' = (writeFailed \/ (~ok /\ buffer # {}))
  /\ buffer' = {}
  /\ pendingFlushes' = {} /\ Return({r.done : r \in pendingFlushes})
  /\ UNCHANGED <<producerVars, flushTarget, owed, ahead, stagingVars, snapshot, observedMax,
                 observed, drops, handles>>

WriterRecv == RecvTrades \/ RecvSnapshot \/ RecvBoth \/ RecvFlush \/ RecvClosed

IntervalTick ==
  /\ worker = "running"
  /\ \E ok \in BOOLEAN : WriteTrades(buffer, ok)
  /\ UNCHANGED observedMax /\ CompleteReadyFlushes
  /\ UNCHANGED <<producerVars, flushTarget, owed, ahead, stagingVars, snapshot, worker, observed,
                 drops, handles>>

-----------------------------------------------------------------------------
(* Everything has ended; any other state with no step left is a deadlock.  *)
Ended ==
  /\ worker \in {"stopped", "failed"} /\ \A s \in Staging : ~forwarding[s]
  /\ ~handles
  /\ UNCHANGED writerVars

WriterNext ==
  \/ \E p \in Producers : Producer(p)
  \/ \E f \in Flushers : Flush(f)
  \/ \E s \in Staging : Forwarder(s)
  \/ Open \/ OpenFails \/ WriterRecv \/ IntervalTick
  \/ DropHandles \/ Ended

(* The runtime polls its tasks: a forwarder or the writer with something   *)
(* to do does it.  Nothing is assumed of producers, timer or transactions. *)
WriterSpec ==
  /\ WriterInit /\ [][WriterNext]_writerVars
  /\ \A s \in Staging : WF_writerVars(Forwarder(s))
  /\ WF_writerVars(Open \/ OpenFails) /\ WF_writerVars(WriterRecv)

-----------------------------------------------------------------------------
(* Properties.                                                             *)

(* Types; no batch waits for room at a channel but the one its forwarder   *)
(* sends, and no forwarder has two batches in hand.                        *)
WriterTypeOK ==
  /\ nextSeq \in 0 .. MaxSeq /\ enqueuedSeq \in 0 .. nextSeq /\ drops \in Nat
  /\ handles \in BOOLEAN /\ writeFailed \in BOOLEAN
  /\ sending \in [Producers -> SUBSET Batches]
  /\ attempt \in [Producers -> 1 .. Stages]
  /\ producerPc \in [Producers -> {"idle", "trying", "placed"}]
  /\ flushPc \in [Flushers -> {"idle", "called", "waiting", "returned"}]
  /\ flushTarget \in [Flushers -> 0 .. nextSeq]
  /\ channel \in [1 .. Stages -> Seq(Batches \cup Flushes)]
  /\ holding \in [Staging -> SUBSET Batches]
  /\ forwarding \in [Staging -> BOOLEAN]
  /\ worker \in {"opening", "running", "stopped", "failed"}
  /\ buffer \subseteq 1 .. nextSeq /\ disk \subseteq 1 .. nextSeq
  /\ observedMax \in 0 .. nextSeq /\ snapshot \in 0 .. nextSeq
  /\ pendingFlushes \subseteq [target : 0 .. nextSeq, done : Flushers]
  /\ observed \subseteq Batches
  /\ owed \in [Flushers -> SUBSET (1 .. nextSeq)]
  /\ ahead \in [Flushers -> SUBSET (1 .. nextSeq)]
  /\ \A s \in Staging : Cardinality(holding[s] \cup WaitingOf(s)) <= 1

(* "Number of trade batches lost because writer queues are saturated or    *)
(* closed": while the database opened, the counter is exactly the number   *)
(* of batches that are neither on their way nor received.                  *)
DropsCounted ==
  worker # "failed" =>
    drops = Cardinality((1 .. nextSeq) \ Seqs(BatchesIn("trying") \cup Staged \cup observed))

(* A failed write never loses buffered trades: what a plain batch brought  *)
(* is waiting or in the database for as long as the writer runs.           *)
TradesSurvive ==
  worker = "running" =>
    \A b \in observed : b.kind = "trades" => b.seq \in buffer \cup disk

(* However the staging channels reorder the commands, the snapshot in the  *)
(* database is never replaced by one that was taken a number earlier.      *)
SnapshotNeverOlder == [][snapshot' >= snapshot]_snapshot

(* When flush_all() returns, every batch that was in the primary channel   *)
(* or past it at the call is in the database, whatever the producers and   *)
(* the forwarders did meanwhile, unless a write failed.                    *)
FlushPersistsPrimary ==
  \A f \in Flushers :
    (flushPc[f] = "returned" /\ worker # "failed" /\ ~writeFailed) =>
      /\ ahead[f] \subseteq Seqs(observed)
      /\ \A b \in observed : (b.seq \in ahead[f] /\ b.kind # "snapshot") => b.seq \in disk

(* What the comment of flush_all() says: it "waits until the writer has    *)
(* observed all trade batches that were enqueued before this call,         *)
(* including those temporarily staged in overflow/retry/spillover/         *)
(* backpressure channels": none of them is still staged when it returns.   *)
FlushObservesAll ==
  \A f \in Flushers :
    (flushPc[f] = "returned" /\ worker # "failed") =>
      \A b \in Staged : b.seq \in owed[f] => b.kind = "snapshot"

(* The writer stops only after everything that was staged has reached it.  *)
ShutdownDrains == worker = "stopped" => Staged = {}

(* flush_all() returns: dropped batches, a database that does not open and *)
(* failing transactions included.                                          *)
FlushReturns ==
  \A f \in Flushers : (flushPc[f] = "waiting") ~> (flushPc[f] = "returned")

=============================================================================
