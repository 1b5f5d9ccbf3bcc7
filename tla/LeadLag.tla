------------------------------- MODULE LeadLag ------------------------------
(***************************************************************************)
(* The lead-lag strategy (application/services/lead_lag.rs) as the event   *)
(* loop feeds it: tickers are routed to the primary's or the hedge's book, *)
(* the median of the last differences between local and exchange time      *)
(* corrects each exchange's clock, and a symbol is checked for a signal    *)
(* some time after its book changed.                                       *)
(*                                                                         *)
(* An exchange's clock is a constant `Skew` ahead of the local one, and a  *)
(* ticker is received at most Jitter after it was stamped.                 *)
(***************************************************************************)
EXTENDS Integers, Sequences, FiniteSets, SequencesExt

CONSTANTS
  Symbols, Exchanges,
  Configured, Default, \* [primary, hedge], of the configuration and if it names one twice
  Skew, Jitter,        \* of the exchanges' clocks
  Window,              \* OFFSET_WINDOW_SAMPLES
  RecomputeEvery,      \* OFFSET_RECOMPUTE_INTERVAL
  MaxSample,           \* MAX_OFFSET_SAMPLE_ABS_NS
  MaxQuoteAge, MaxQuoteSkew,   \* max_quote_age_ms, max_quote_skew_ms
  TriggerSpread,       \* trigger_spread_bps, before it is clamped
  Books,               \* [bid, ask], neither crossed nor empty
  Start, MaxNow        \* bounds: of the local time

(* resolve_strategy_exchange_routing.                                      *)
Routing == IF Configured.primary = Configured.hedge THEN Default ELSE Configured
Primary == Routing.primary
Hedge == Routing.hedge

ASSUME TwoExchanges ==
  /\ Exchanges = {Default.primary, Default.hedge} /\ Default.primary # Default.hedge
  /\ {Configured.primary, Configured.hedge} \subseteq Exchanges

ASSUME ClocksAreSteady ==
  /\ Skew \in [Exchanges -> Int] /\ Jitter \in Nat /\ Start \in Nat
  /\ \A e \in Exchanges : Start + Skew[e] - Jitter > 0
  /\ \A e \in Exchanges, late \in 0 .. Jitter : late - Skew[e] \in -MaxSample .. MaxSample

ASSUME SamplesAreKept == Window \in Nat \ {0}

ASSUME QuotesAreSound ==
  /\ TriggerSpread \in Nat
  /\ \A q \in Books : q.bid \in Nat \ {0} /\ q.ask \in Nat \ {0} /\ q.bid <= q.ask

VARIABLES now, books, offsets, signal
leadLagVars == <<now, books, offsets, signal>>

NoBook == [bid |-> 0, ask |-> 0, exchange |-> 0, local |-> 0]
NoOffset == [samples |-> <<>>, median |-> 0, pending |-> 0]
NoSignal == [symbol |-> "none"]

LeadLagInit ==
  /\ now = Start
  /\ books = [e \in Exchanges |-> [s \in Symbols |-> NoBook]]
  /\ offsets = [e \in Exchanges |-> NoOffset]
  /\ signal = NoSignal

Advance ==
  /\ now < MaxNow /\ now' = now + 1 /\ UNCHANGED <<books, offsets, signal>>

-----------------------------------------------------------------------------
(* ExchangeClockOffset.                                                    *)

(* Mutation of Sample: the difference the other way.                       *)
Sample_Swapped(local, exchange) == exchange - local

Sample(local, exchange) == local - exchange

(* recompute_median: the least sample that more than half of them do not   *)
(* exceed, so the upper one of an even number.                             *)
Median(samples) ==
  Min({m \in Range(samples) :
         Cardinality({i \in DOMAIN samples : samples[i] <= m}) > Len(samples) \div 2})

Windowed(samples) == IF Len(samples) > Window THEN Tail(samples) ELSE samples

(* observe: the median is computed of the first sample and then after      *)
(* every RecomputeEvery of them.                                           *)
Observed(offset, local, exchange) ==
  LET sample == Sample(local, exchange)
      samples == Windowed(Append(offset.samples, sample))
  IN  IF local <= 0 \/ exchange <= 0 \/ sample \notin -MaxSample .. MaxSample THEN offset
      ELSE IF Len(samples) = 1 \/ offset.pending + 1 >= RecomputeEvery
      THEN [samples |-> samples, median |-> Median(samples), pending |-> 0]
      ELSE [samples |-> samples, median |-> offset.median, pending |-> offset.pending + 1]

Corrected(e, book) == book.exchange + offsets[e].median

-----------------------------------------------------------------------------
(* A ticker of an exchange is received and routed (flush_strategy_updates, *)
(* role_for_side): update_primary_book, update_hedge_book.                 *)
UpdateBook(e, s, quote, late) ==
  LET stamped == now - late + Skew[e]
  IN  /\ offsets' = [offsets EXCEPT ![e] = Observed(@, now, stamped)]
      /\ books' = [books EXCEPT ![e][s] =
                     [bid |-> quote.bid, ask |-> quote.ask, exchange |-> stamped, local |-> now]]
      /\ UNCHANGED <<now, signal>>

Distance(a, b) == IF a < b THEN b - a ELSE a - b

(* resolve_lead_lag_config: at least 25 and at most 100 basis points.      *)
MinSpread ==
  IF TriggerSpread < 25 THEN 25 ELSE IF TriggerSpread > 100 THEN 100 ELSE TriggerSpread

(* Mutation of Leg: of the two middles, not what can be traded.            *)
Leg_Middles(top, bottom) ==
  ((top.bid + top.ask - bottom.bid - bottom.ask) * 10000) \div (bottom.bid + bottom.ask)

(* directional_spread_bps of one exchange's bid over the other's ask.      *)
Leg(top, bottom) == ((top.bid - bottom.ask) * 10000) \div bottom.ask

(* check_signal's early returns: a book is missing, too old or too far     *)
(* from the other, or the hedge's is newer.                                *)
Comparable(primary, hedge) ==
  /\ primary.local > 0 /\ hedge.local > 0
  /\ MaxQuoteAge > 0 =>
       Distance(now, primary.local) <= MaxQuoteAge /\ Distance(now, hedge.local) <= MaxQuoteAge
  /\ MaxQuoteSkew > 0 => Distance(primary.local, hedge.local) <= MaxQuoteSkew
  /\ Corrected(Primary, primary) >= Corrected(Hedge, hedge)

CheckSignal(s) ==
  LET primary == books[Primary][s]
      hedge == books[Hedge][s]
      up == Leg(primary, hedge)
      down == Leg(hedge, primary)
      spread == IF up >= down THEN up ELSE down
  IN  /\ signal' = IF Comparable(primary, hedge) /\ spread >= MinSpread
                   THEN [symbol |-> s, leader |-> primary, lagger |-> hedge,
                         direction |-> IF up >= down THEN "long" ELSE "short"]
                   ELSE NoSignal
      /\ UNCHANGED <<now, books, offsets>>

LeadLagNext ==
  \/ Advance
  \/ \E e \in Exchanges, s \in Symbols, quote \in Books, late \in 0 .. Jitter :
       UpdateBook(e, s, quote, late)
  \/ \E s \in Symbols : CheckSignal(s)

LeadLagSpec == LeadLagInit /\ [][LeadLagNext]_leadLagVars

-----------------------------------------------------------------------------
(* Properties.                                                             *)

(* Every variable has its type; the samples are those of the window.       *)
LeadLagTypeOK ==
  /\ now \in Start .. MaxNow
  /\ books \in [Exchanges -> [Symbols -> [bid : Int, ask : Int, exchange : Int, local : Int]]]
  /\ \A e \in Exchanges :
       /\ offsets[e].samples \in Seq(Int) /\ Len(offsets[e].samples) <= Window
       /\ offsets[e].median \in Int /\ offsets[e].pending \in 0 .. RecomputeEvery - 1

(* "Binance(primary) is the oracle" (check_signal): however the exchanges' *)
(* clocks are set, and however old the cached median is, no signal is      *)
(* taken from a hedge quote that was received later than the primary's by  *)
(* more than twice the jitter.                                             *)
LeaderIsNewer ==
  signal # NoSignal => signal.leader.local + 2 * Jitter >= signal.lagger.local

(* "no mid-price mixing" (check_signal): a signal can be traded: the leg   *)
(* of its direction gains, and so the other loses.                         *)
SignalIsTradable ==
  signal # NoSignal =>
    IF signal.direction = "long"
    THEN signal.leader.bid > signal.lagger.ask /\ signal.lagger.bid < signal.leader.ask
    ELSE signal.lagger.bid > signal.leader.ask /\ signal.leader.bid < signal.lagger.ask
=============================================================================
