-------------------------------- MODULE Feed --------------------------------
(***************************************************************************)
(* The market-data connectors (infrastructure/exchanges/binance, gate):    *)
(* one task per socket owns both halves of a WebSocket, forwards what      *)
(* arrives into a bounded channel, writes the subscriptions it is sent,    *)
(* and reconnects and replays them when the connection is lost.  The event *)
(* loop takes a first ticker of an exchange and drains the rest, of which  *)
(* it keeps the latest of each symbol.                                     *)
(*                                                                         *)
(* Binance has several sockets, which share a channel, and a message for   *)
(* each socket's chunk of the symbols; Gate has one socket, and a message  *)
(* per symbol.  Which sockets are opened and what is subscribed on them is *)
(* decided in Startup.  Tickers carry how many quotes of their symbol the  *)
(* connector had received with them.                                       *)
(***************************************************************************)
EXTENDS Naturals, Sequences, FiniteSets, SequencesExt

CONSTANTS
  Sockets,         \* <<exchange, number>>
  Symbols,
  Capacity,        \* configured_msg_channel_capacity, of each exchange
  RegistryMax,     \* SUBSCRIPTION_REGISTRY_MAX
  MaxBackoff,      \* the doublings after which reconnect_delay is 30 s
  MaxQuotes, MaxFailures     \* bounds

Exchanges == {"binance", "gate"}

ASSUME CapacityIsPositive ==
  Capacity \in [Exchanges -> Nat \ {0}] /\ RegistryMax \in Nat \ {0}

Exchange(w) == w[1]

VARIABLES
  started,   \* drain_stale_ticks is over and the event loop runs
  sent,      \* the symbols whose subscription was sent to a socket's task
  (* a socket's task                                                        *)
  pc, outbox, registry, replay, backoff,
  (* its connection: is it up, what does the exchange send on it            *)
  link, live,
  (* an exchange's channel, what its connector received and dropped         *)
  channel, received, dropped,
  book,      \* the quote the event loop has of an exchange's symbol
  failures

taskVars == <<pc, outbox, registry, replay, backoff>>
linkVars == <<link, live>>
channelVars == <<channel, received, dropped>>
feedVars == <<started, sent, taskVars, linkVars, channelVars, book, failures>>

Quotes == FoldSet(LAMBDA at, sum : sum + received[at[1]][at[2]], 0, Exchanges \X Symbols)
NoQuotes == [e \in Exchanges |-> [s \in Symbols |-> 0]]

FeedInit ==
  /\ started = FALSE /\ sent = [w \in Sockets |-> {}]
  /\ pc = [w \in Sockets |-> "closed"]
  /\ outbox = [w \in Sockets |-> <<>>] /\ registry = [w \in Sockets |-> <<>>]
  /\ replay = [w \in Sockets |-> <<>>] /\ backoff = [w \in Sockets |-> 0]
  /\ link = [w \in Sockets |-> "down"] /\ live = [w \in Sockets |-> {}]
  /\ channel = [e \in Exchanges |-> <<>>] /\ received = NoQuotes /\ dropped = NoQuotes
  /\ book = NoQuotes /\ failures = 0

-----------------------------------------------------------------------------
(* What start-up does to a socket.                                         *)

(* spawn_ws_worker, or GateConnector::connect: a connection and its task.  *)
Open(w) ==
  /\ pc[w] = "closed" /\ pc' = [pc EXCEPT ![w] = "select"]
  /\ link' = [link EXCEPT ![w] = "up"]
  /\ UNCHANGED <<started, sent, outbox, registry, replay, backoff, live, channelVars, book,
                 failures>>

(* A subscription goes to the socket's task, which is still alive.         *)
Subscribe(w, message) ==
  /\ pc[w] # "closed"
  /\ outbox' = [outbox EXCEPT ![w] = Append(@, message)]
  /\ sent' = [sent EXCEPT ![w] = @ \cup message]
  /\ UNCHANGED <<started, pc, registry, replay, backoff, linkVars, channelVars, book, failures>>

(* drain_stale_ticks: what came during start-up is thrown away.            *)
DrainStaleTicks ==
  /\ ~started /\ started' = TRUE
  /\ channel' = [e \in Exchanges |-> <<>>]
  /\ UNCHANGED <<sent, taskVars, linkVars, received, dropped, book, failures>>

-----------------------------------------------------------------------------
(* The task of a socket: spawn_ws_worker.                                  *)

(* A text frame arrives: it is stamped and try_send, or counted as dropped.*)
Receive(w, s) ==
  /\ pc[w] = "select" /\ link[w] = "up" /\ s \in live[w]
  /\ LET e == Exchange(w)
     IN  /\ Quotes < MaxQuotes
         /\ received' = [received EXCEPT ![e][s] = @ + 1]
         /\ IF Len(channel[e]) < Capacity[e]
            THEN /\ channel' = [channel EXCEPT ![e] =
                                Append(@, [symbol |-> s, quote |-> received'[e][s]])]
                 /\ UNCHANGED dropped
            ELSE /\ dropped' = [dropped EXCEPT ![e][s] = received'[e][s]]
                 /\ UNCHANGED channel
  /\ backoff' = [backoff EXCEPT ![w] = 0]
  /\ UNCHANGED <<started, sent, pc, outbox, registry, replay, linkVars, book, failures>>

(* Mutation of Registered: what could not be written is not recorded.      *)
Registered_IfWritten(w, message) ==
  IF link[w] = "up" THEN Append(registry[w], message) ELSE registry[w]

(* record_subscription: a message once, and the latest RegistryMax.        *)
Registered(w, message) ==
  IF message \in {registry[w][i] : i \in DOMAIN registry[w]} THEN registry[w]
  ELSE LET next == Append(registry[w], message)
       IN  IF Len(next) > RegistryMax THEN Tail(next) ELSE next

(* A message is recorded and written; a write that fails ends the          *)
(* connection.                                                             *)
Write(w) ==
  /\ pc[w] = "select" /\ outbox[w] # <<>>
  /\ LET message == Head(outbox[w])
     IN  /\ registry' = [registry EXCEPT ![w] = Registered(w, message)]
         /\ live' = IF link[w] = "up" THEN [live EXCEPT ![w] = @ \cup message] ELSE live
  /\ outbox' = [outbox EXCEPT ![w] = Tail(@)]
  /\ pc' = IF link[w] = "up" THEN pc ELSE [pc EXCEPT ![w] = "reconnect"]
  /\ UNCHANGED <<started, sent, replay, backoff, link, channelVars, book, failures>>

(* Close frame, read error or end of the stream.                           *)
NoticeLoss(w) ==
  /\ pc[w] = "select" /\ link[w] = "down"
  /\ pc' = [pc EXCEPT ![w] = "reconnect"]
  /\ UNCHANGED <<started, sent, outbox, registry, replay, backoff, linkVars, channelVars,
                 book, failures>>

LongerBackoff(w) == IF backoff[w] < MaxBackoff THEN backoff[w] + 1 ELSE backoff[w]

(* After the delay the connection is made anew, with no subscription, and  *)
(* the messages recorded are to be replayed.                               *)
Reconnect(w) ==
  /\ pc[w] = "reconnect"
  /\ backoff' = [backoff EXCEPT ![w] = LongerBackoff(w)]
  /\ link' = [link EXCEPT ![w] = "up"] /\ live' = [live EXCEPT ![w] = {}]
  /\ replay' = [replay EXCEPT ![w] = registry[w]]
  /\ pc' = [pc EXCEPT ![w] = "replay"]
  /\ UNCHANGED <<started, sent, outbox, registry, channelVars, book, failures>>

(* connect_async fails: `continue`, to the dead connection and its error.  *)
ReconnectFails(w) ==
  /\ pc[w] = "reconnect" /\ failures < MaxFailures
  /\ failures' = failures + 1
  /\ backoff' = [backoff EXCEPT ![w] = LongerBackoff(w)]
  /\ pc' = [pc EXCEPT ![w] = "select"]
  /\ UNCHANGED <<started, sent, outbox, registry, replay, linkVars, channelVars, book>>

(* One message is replayed, whether its write fails or not.                *)
Replay(w) ==
  /\ pc[w] = "replay"
  /\ IF replay[w] = <<>>
     THEN pc' = [pc EXCEPT ![w] = "select"] /\ UNCHANGED <<replay, live>>
     ELSE /\ live' = IF link[w] = "up"
                     THEN [live EXCEPT ![w] = @ \cup Head(replay[w])] ELSE live
          /\ replay' = [replay EXCEPT ![w] = Tail(@)] /\ UNCHANGED pc
  /\ UNCHANGED <<started, sent, outbox, registry, backoff, link, channelVars, book, failures>>

Task(w) == Write(w) \/ NoticeLoss(w) \/ Reconnect(w) \/ Replay(w)

(* The network: a connection is lost; the task will see an error.          *)
LoseConnection(w) ==
  /\ link[w] = "up" /\ failures < MaxFailures
  /\ failures' = failures + 1
  /\ link' = [link EXCEPT ![w] = "down"]
  /\ UNCHANGED <<started, sent, taskVars, live, channelVars, book>>

-----------------------------------------------------------------------------
(* The event loop.                                                         *)

(* recv_book_ticker: the batch begins with the oldest ticker ...           *)
First(e) == Head(channel[e])

(* upsert_latest_ticker_for_drain: the latest of each symbol.              *)
LatestPerSymbol(tickers) ==
  {tickers[i] : i \in {k \in DOMAIN tickers : \A l \in k + 1 .. Len(tickers) :
                                             tickers[l].symbol # tickers[k].symbol}}

(* Mutation of Drained: of the others the oldest of each symbol is kept.   *)
Drained_Oldest(e) ==
  LET rest == Tail(channel[e])
  IN  {rest[i] : i \in {k \in DOMAIN rest : \A l \in 1 .. k - 1 : rest[l].symbol # rest[k].symbol}}

(* ... and drain_book_tickers takes the latest of each symbol after it.    *)
Drained(e) == LatestPerSymbol(Tail(channel[e]))

(* strategy_symbol_updates_from_batch: the first, then those drained.      *)
LatestOf(e, s) ==
  LET drained == {m \in Drained(e) : m.symbol = s}
  IN  IF drained # {} THEN (CHOOSE m \in drained : TRUE).quote
      ELSE IF First(e).symbol = s THEN First(e).quote ELSE book[e][s]

(* process_exchange_result; the books of symbols that are only screened    *)
(* are those handed to the control plane.                                  *)
Drain(e) ==
  /\ started /\ channel[e] # <<>>
  /\ book' = [book EXCEPT ![e] = [s \in Symbols |-> LatestOf(e, s)]]
  /\ channel' = [channel EXCEPT ![e] = <<>>]
  /\ UNCHANGED <<started, sent, taskVars, linkVars, received, dropped, failures>>

-----------------------------------------------------------------------------
FeedNext ==
  \/ \E e \in Exchanges : Drain(e)
  \/ \E w \in Sockets : Task(w) \/ ReconnectFails(w) \/ LoseConnection(w)
  \/ \E w \in Sockets, s \in Symbols : Receive(w, s)

(* Tokio runs every task that is ready, and a lost connection ends the     *)
(* read half; the exchange is reached again after finitely many failures.  *)
FeedFairness == \A w \in Sockets : WF_feedVars(Task(w))

-----------------------------------------------------------------------------
(* Properties.                                                             *)

Covered(messages) == UNION {messages[i] : i \in DOMAIN messages}

(* Every variable has its type; the channels are bounded.                  *)
FeedTypeOK ==
  /\ started \in BOOLEAN /\ sent \in [Sockets -> SUBSET Symbols]
  /\ pc \in [Sockets -> {"closed", "select", "reconnect", "replay"}]
  /\ backoff \in [Sockets -> 0 .. MaxBackoff]
  /\ link \in [Sockets -> {"up", "down"}] /\ live \in [Sockets -> SUBSET Symbols]
  /\ outbox \in [Sockets -> Seq(SUBSET Symbols)] /\ registry \in [Sockets -> Seq(SUBSET Symbols)]
  /\ replay \in [Sockets -> Seq(SUBSET Symbols)]
  /\ channel \in [Exchanges -> Seq([symbol : Symbols, quote : Nat])]
  /\ \A e \in Exchanges : Len(channel[e]) <= Capacity[e]
  /\ {received, dropped, book} \subseteq [Exchanges -> [Symbols -> Nat]]
  /\ failures \in Nat

(* A socket loses no subscription, however often its connection is lost,   *)
(* while messages are written or replayed too: on a connection that is up, *)
(* what was requested is live, or about to be written or replayed.         *)
SubscriptionsSurvive ==
  \A w \in Sockets :
    link[w] = "up" /\ pc[w] # "reconnect" =>
      sent[w] = live[w] \cup Covered(outbox[w]) \cup Covered(replay[w])

(* When the loop has drained a channel, it has of every symbol in it the   *)
(* last quote received, unless that very quote was dropped for want of     *)
(* room: then it keeps an older one, however many it drains.               *)
BookIsLatest ==
  [][\A e \in Exchanges : Drain(e) => \A s \in Symbols :
       \/ book'[e][s] = received[e][s] \/ dropped[e][s] = received[e][s]
       \/ book'[e][s] = book[e][s] /\ \A i \in DOMAIN channel[e] : channel[e][i].symbol # s]_feedVars
=============================================================================
