------------------------------- MODULE Startup -------------------------------
(***************************************************************************)
(* Start-up (main, runtime_symbols.rs, runtime_setup.rs) down to the feeds *)
(* it leaves running: 24 h tickers of both exchanges are fetched, what is  *)
(* traded and screened is selected from them, both exchanges are           *)
(* connected, and the subscriptions are sent, while the sockets' tasks     *)
(* already receive, lose connections and reconnect.                        *)
(*                                                                         *)
(* Symbols are numbers, in the order of their names.  The screener, the    *)
(* database and the servers that start in between are in other modules.    *)
(***************************************************************************)
EXTENDS Feed

CONSTANTS
  Replies,      \* what the exchanges may answer: [binance, gate : 24 h volumes
                \* of some symbols], of none when the request failed
  MinVolume,    \* MIN_VOLUME_USD
  Fallback,     \* fallback_symbols
  Blacklist,    \* STRATEGY_BLACKLIST and the configured blacklists
  MaxStrategy, MaxScreener,  \* MAX_STRATEGY_SYMBOLS, MAX_SCREENER_SYMBOLS
  HftCore,      \* RUNTIME_PLANE_MODE: no screener
  PerSocket,    \* SYMBOLS_PER_WS
  MaxIds        \* MAX_STRATEGY_SYMBOLS of strategy_symbol_ids.rs

ASSUME PerSocket \in Nat \ {0} /\ MaxStrategy \in Nat \ {0} /\ MaxScreener \in Nat \ {0}

VARIABLES
  boot,          \* how far main has come
  listing,       \* what was fetched
  strategy, screener,   \* strategy_symbols, screener_symbols
  chunksSent, contractsSent,   \* how many subscriptions were sent
  batchFailed    \* subscribe_book_tickers_batch returned an error

symbolVars == <<listing, strategy, screener>>
countVars == <<chunksSent, contractsSent, batchFailed>>
bootVars == <<boot, symbolVars, countVars>>
vars == <<bootVars, feedVars>>

NotFetched == [binance |-> <<>>, gate |-> <<>>]

Init ==
  /\ FeedInit
  /\ boot = "fetch" /\ listing = NotFetched /\ strategy = <<>> /\ screener = <<>>
  /\ chunksSent = 0 /\ contractsSent = 0 /\ batchFailed = FALSE

-----------------------------------------------------------------------------
(* The universe.                                                           *)

(* get_tickers_with_volume: the tickers of enough volume.                  *)
Liquid(reply) == Restrict(reply, {s \in DOMAIN reply : reply[s] >= MinVolume})

(* reconcile_volume_symbols: if an exchange has nothing, neither has.      *)
Reconciled(l) ==
  IF l.binance = <<>> \/ l.gate = <<>> THEN [binance |-> Fallback, gate |-> Fallback]
  ELSE [binance |-> DOMAIN l.binance, gate |-> DOMAIN l.gate]

(* compute_common_symbols.                                                 *)
Common(symbols) == (symbols.binance \cap symbols.gate) \ Blacklist

(* select_runtime_symbols, and the blacklist once more: it also holds for  *)
(* the fallback.                                                           *)
Selected(common) == (IF common = {} THEN Fallback ELSE common) \ Blacklist

(* prioritize_symbols_for_cap: by volume, that of a symbol Gate did not    *)
(* report being zero, and then by name.                                    *)
Prioritized(symbols, l) ==
  LET volume(s) == IF s \in DOMAIN l.gate THEN l.gate[s] ELSE 0
  IN  SetToSortSeq(symbols, LAMBDA a, b :
        volume(a) > volume(b) \/ (volume(a) = volume(b) /\ a < b))

(* apply_symbol_cap.                                                       *)
Capped(symbols, limit) == SubSeq(symbols, 1, IF Len(symbols) > limit THEN limit ELSE Len(symbols))

(* fetch_volume_tickers and all that main computes from them.  A failed    *)
(* fetch is one that returned no ticker.                                   *)
Fetch ==
  /\ boot = "fetch" /\ boot' = "binance"
  /\ \E reply \in Replies :
       listing' = [binance |-> Liquid(reply.binance), gate |-> Liquid(reply.gate)]
  /\ LET universe == Prioritized(Selected(Common(Reconciled(listing'))), listing')
     IN  /\ strategy' = Capped(universe, MaxStrategy)
         /\ screener' = Capped(universe, MaxScreener)
  /\ UNCHANGED <<countVars, feedVars>>

-----------------------------------------------------------------------------
(* Connections and subscriptions.                                          *)

(* merge_subscription_symbols, except on a core that only trades.          *)
Subscribed ==
  IF HftCore THEN strategy
  ELSE strategy \o SelectSeq(screener, LAMBDA s : s \notin Range(strategy))

Chunks == (Len(Subscribed) + PerSocket - 1) \div PerSocket
Chunk(i) == {Subscribed[k] : k \in {x \in DOMAIN Subscribed : (x - 1) \div PerSocket = i - 1}}

BinanceSocket(i) == <<"binance", i>>
GateSocket == <<"gate", 1>>
Opened == {i \in Nat \cap 1 .. Cardinality(Sockets) :
             BinanceSocket(i) \in Sockets /\ pc[BinanceSocket(i)] # "closed"}

(* configure_and_connect_exchanges: Binance, then Gate; either may fail,   *)
(* which ends the program.                                                 *)
ConnectBinance ==
  /\ boot = "binance"
  /\ \/ Open(BinanceSocket(1)) /\ boot' = "gate"
     \/ boot' = "failed" /\ UNCHANGED feedVars
  /\ UNCHANGED <<symbolVars, countVars>>

(* build_strategy_symbol_id_pairs: there is an id for every symbol.        *)
HaveIds(symbols) == Cardinality(Range(symbols)) <= MaxIds

(* set_strategy_symbol_ids follows: every traded symbol gets an id.        *)
ConnectGate ==
  /\ boot = "gate"
  /\ \/ Open(GateSocket) /\ boot' = IF HaveIds(strategy) THEN "sockets" ELSE "failed"
     \/ boot' = "failed" /\ UNCHANGED feedVars
  /\ UNCHANGED <<symbolVars, countVars>>

(* subscribe_book_tickers_batch opens a socket for each chunk but the      *)
(* first; when that fails, it returns and nothing is subscribed.           *)
OpenSocket ==
  /\ boot = "sockets"
  /\ \/ /\ Cardinality(Opened) < Chunks
        /\ \/ Open(BinanceSocket(Cardinality(Opened) + 1)) /\ UNCHANGED <<boot, batchFailed>>
           \/ boot' = "contracts" /\ batchFailed' = TRUE /\ UNCHANGED feedVars
     \/ /\ Cardinality(Opened) >= Chunks
        /\ boot' = "chunks" /\ UNCHANGED <<batchFailed, feedVars>>
  /\ UNCHANGED <<symbolVars, chunksSent, contractsSent>>

(* Mutation of SubscribeChunk: the sockets beyond the first are forgotten. *)
SubscribeChunk_FirstSocket ==
  /\ boot = "chunks"
  /\ IF chunksSent < Chunks
     THEN /\ Subscribe(BinanceSocket(1), Chunk(1))
          /\ chunksSent' = chunksSent + 1 /\ UNCHANGED boot
     ELSE boot' = "contracts" /\ UNCHANGED <<chunksSent, feedVars>>
  /\ UNCHANGED <<symbolVars, contractsSent, batchFailed>>

(* Then one message for each chunk, to the socket of the same number.      *)
SubscribeChunk ==
  /\ boot = "chunks"
  /\ IF chunksSent < Chunks
     THEN /\ Subscribe(BinanceSocket(chunksSent + 1), Chunk(chunksSent + 1))
          /\ chunksSent' = chunksSent + 1 /\ UNCHANGED boot
     ELSE boot' = "contracts" /\ UNCHANGED <<chunksSent, feedVars>>
  /\ UNCHANGED <<symbolVars, contractsSent, batchFailed>>

(* subscribe_gate_symbols: one message per symbol.                         *)
SubscribeContract ==
  /\ boot = "contracts"
  /\ IF contractsSent < Len(Subscribed)
     THEN /\ Subscribe(GateSocket, {Subscribed[contractsSent + 1]})
          /\ contractsSent' = contractsSent + 1 /\ UNCHANGED boot
     ELSE boot' = "ready" /\ UNCHANGED <<contractsSent, feedVars>>
  /\ UNCHANGED <<symbolVars, chunksSent, batchFailed>>

(* drain_stale_ticks, and the event loop begins.                           *)
Run ==
  /\ boot = "ready" /\ boot' = "run"
  /\ DrainStaleTicks
  /\ UNCHANGED <<symbolVars, countVars>>

Boot ==
  \/ Fetch \/ ConnectBinance \/ ConnectGate
  \/ OpenSocket \/ SubscribeChunk \/ SubscribeContract \/ Run

(* A start-up that failed ends the process with all its tasks.             *)
Next ==
  \/ Boot
  \/ boot # "failed" /\ FeedNext /\ UNCHANGED bootVars

(* main is a task too, and every call it awaits has a timeout or an error. *)
Spec == Init /\ [][Next]_vars /\ WF_vars(Boot) /\ FeedFairness

-----------------------------------------------------------------------------
(* Properties.                                                             *)

(* Every variable has its type.                                            *)
TypeOK ==
  /\ FeedTypeOK
  /\ boot \in {"fetch", "binance", "gate", "sockets", "chunks", "contracts", "ready", "run",
               "failed"}
  /\ \A e \in Exchanges : DOMAIN listing[e] \subseteq Symbols
  /\ strategy \in Seq(Symbols) /\ screener \in Seq(Symbols)
  /\ chunksSent \in 0 .. Cardinality(Sockets) /\ contractsSent \in 0 .. Cardinality(Symbols)
  /\ batchFailed \in BOOLEAN

(* What is traded is common to both exchanges and not blacklisted, and     *)
(* nothing eligible that was left out has more volume on Gate.             *)
TradesTheBusiest ==
  LET eligible == Common([e \in Exchanges |-> DOMAIN listing[e]])
  IN  /\ Range(strategy) \cap Blacklist = {}
      /\ eligible # {} =>
           /\ Range(strategy) \subseteq eligible
           /\ \A s \in Range(strategy), other \in eligible \ Range(strategy) :
                listing.gate[other] <= listing.gate[s]
      /\ MaxStrategy <= MaxScreener => Range(strategy) \subseteq Range(screener)

(* Whatever connections are lost while start-up subscribes and afterwards: *)
(* once the loop runs and the exchange can be reached, every symbol that   *)
(* is traded or screened is live for good on both exchanges.  (After the   *)
(* batch failed Binance sends nothing, ever: the error is only logged.)    *)
SubscribedSymbolsAreFed ==
  <>[](boot = "run" => \A s \in Range(Subscribed), e \in Exchanges :
         (e = "binance" /\ batchFailed)
         \/ \E w \in Sockets : Exchange(w) = e /\ s \in live[w])
=============================================================================
