-------------------------- MODULE PaperTradingProofs --------------------------
(* Theorems about paper trading: ShadowFleet, for any finite set of configs, *)
(* delays, windows and clock offsets; Portfolio, for any portfolios, symbols *)
(* and limits.  The two share no state.                                      *)
EXTENDS ShadowFleet, Portfolio, FoldTheorems

-----------------------------------------------------------------------------
(* ShadowFleet.                                                            *)

(* What the state of a trader consists of.                                *)
Reports == [entry : Int, ts : Int, run : RunIds]

IsPosition(p) ==
  /\ {"kind", "dir", "price", "entry", "spike", "run", "peak", "breakeven"} \subseteq DOMAIN p
  /\ p.kind = "position" /\ p.entry \in Int /\ p.run \in RunIds
IsEntry(o) == o.kind = "entry" /\ o.fire \in Int /\ o.run \in RunIds
IsExit(o) == o.kind = "exit" /\ o.fire \in Int /\ IsPosition(o.pos)

(* The deque of closed trades, and their run ids.                          *)
IsBook(t) ==
  /\ \E S : t.completed \in Seq(S)
  /\ t.runIds \in Seq(RunIds) /\ Len(t.runIds) = Len(t.completed)

IsTrader(t) ==
  /\ {"position", "pending", "completed", "runIds", "pnl", "session", "wins", "start",
      "cooldownUntil"} \subseteq DOMAIN t
  /\ t.position = None \/ IsPosition(t.position)
  /\ t.pending = None \/ IsEntry(t.pending) \/ IsExit(t.pending)
  /\ t.position = None \/ t.pending = None
  /\ t.session \in Nat /\ t.cooldownUntil \in Int
  /\ IsBook(t)

(* The deque is the end of what was reported.                              *)
EndOf(t, r) ==
  /\ Len(t.completed) <= Len(r)
  /\ \A i \in 1 .. Len(t.completed) :
       /\ r[Len(r) - Len(t.completed) + i].entry = t.completed[i].entry
       /\ r[Len(r) - Len(t.completed) + i].ts = t.completed[i].ts

(* What a trader has in hand is of the run of its last entry.              *)
RunsKept(t, d) ==
  /\ t.position # None => t.position.run = d
  /\ t.pending.kind = "entry" => t.pending.run = d
  /\ t.pending.kind = "exit" => t.pending.pos.run = d

(* Entry times grow.                                                       *)
KeysGrow(cfg, t, r, ev) ==
  /\ \A i, j \in 1 .. Len(r) : i < j => r[i].entry < r[j].entry
  /\ \A i \in 1 .. Len(r) : r[i].entry < t.cooldownUntil + cfg.fillDelay
  /\ t.position # None =>
       /\ \A i \in 1 .. Len(r) : r[i].entry < t.position.entry
       /\ \E m \in Offsets : t.position.entry <= ev + m + cfg.freshness
  /\ t.pending.kind = "entry" => t.pending.fire >= t.cooldownUntil
  /\ t.pending.kind = "exit" =>
       /\ \A i \in 1 .. Len(r) : r[i].entry < t.pending.pos.entry
       /\ t.pending.pos.entry < t.pending.fire + cfg.cooldown + 2 * cfg.fillDelay

(* A trader t, what was reported of it, the run of its last entry, and the *)
(* event time of the gate quote.  That entry times grow needs a cooldown   *)
(* that outlasts what the clocks may be off.                               *)
TraderInv(cfg, t, r, d, ev) ==
  /\ IsTrader(t) /\ r \in Seq(Reports) /\ t.session = Len(r)
  /\ EndOf(t, r) /\ RunsKept(t, d)
  /\ Outlasts(cfg) => KeysGrow(cfg, t, r, ev)

(* No trade was closed.                                                   *)
SameBooks(t, u) ==
  /\ u.completed = t.completed /\ u.runIds = t.runIds /\ u.session = t.session

(* A trade is appended, and the oldest n are trimmed.                      *)
Booked(t, b, trade, run) ==
  \E n \in 0 .. Len(t.completed) :
    /\ Len(b.completed) = Len(t.completed) + 1 - n
    /\ \A i \in 1 .. Len(t.completed) - n : b.completed[i] = t.completed[n + i]
    /\ b.completed[Len(t.completed) + 1 - n] = trade
    /\ b.runIds[Len(t.completed) + 1 - n] = run

(* The trade closed last is the one of the report e.                       *)
LastClose(t, e) ==
  /\ Len(t.completed) > 0
  /\ t.completed[Len(t.completed)].entry = e.entry /\ t.completed[Len(t.completed)].ts = e.ts
  /\ t.runIds[Len(t.completed)] = e.run

(* The order is taken, before it is filled.                                *)
Taken(t) == [t EXCEPT !.pending = None]

(* One trade is closed, at ts, and reported under the run d.               *)
ClosesOne(cfg, t, r, d, ev, ts) ==
  \E e \in Reports :
    TraderInv(cfg, t, Append(r, e), d, ev) /\ e.run = d /\ e.ts = ts /\ LastClose(t, e)

(* What a tick at ts may do; newRun is the run of the last entry after it.        *)
TickDoes(cfg, t, v, r, d, newRun, ev, ts) ==
  \/ TraderInv(cfg, v, r, newRun, ev) /\ v.session = t.session
  \/ \E e \in Reports :
       TraderInv(cfg, v, Append(r, e), newRun, ev) /\ e.run = d /\ e.ts = ts /\ LastClose(v, e)

-----------------------------------------------------------------------------
LEMMA ConfigTypes ==
  ASSUME NEW c \in Configs
  PROVE  /\ Config(c).fillDelay \in Nat /\ Config(c).cooldown \in Nat
         /\ Config(c).freshness \in Nat /\ Config(c).maxHold \in Nat
         /\ Window \in Nat /\ Offsets \subseteq Int
BY FleetAssumption

(* trim_completed never drops the trade that was just closed: its index is *)
(* the least one that is not stale, or more, and stale ends before it.     *)
LEMMA OutdatedKeepsLast ==
  ASSUME NEW S, NEW trades \in Seq(S), trades # <<>>, NEW cutoff,
         ~(trades[Len(trades)].ts < cutoff)
  PROVE  Outdated(trades, cutoff) \in 0 .. Len(trades) - 1
<1> DEFINE N == Len(trades)
           Stale(n) == n <= N /\ \A i \in 1 .. n : trades[i].ts < cutoff
           Fresh == {n \in Nat : ~Stale(n)}
<1>1. N \in Nat \ {0}
  OBVIOUS
<1>2. Stale(0) /\ ~Stale(N)
  BY <1>1
<1>3. Fresh \in SUBSET Nat /\ N \in Fresh
  BY <1>1, <1>2
<1>4. PICK k \in Fresh : \A b \in Fresh : ~(<<b, k>> \in OpToRel(<, Nat))
  <2>1. IsWellFoundedOn(OpToRel(<, Nat), Nat)
    BY NatLessThanWellFounded
  <2> HIDE DEF Fresh, N
  <2> QED BY <2>1, <1>3, WFMin
<1>5. k \in Nat \ {0}
  BY <1>2
<1>6. k - 1 \in Nat /\ Stale(k - 1) /\ ~Stale((k - 1) + 1)
  <2>1. k - 1 \in Nat /\ (k - 1) + 1 = k /\ k - 1 < k
    BY <1>5
  <2>2. <<k - 1, k>> \in OpToRel(<, Nat)
    BY <2>1 DEF OpToRel
  <2>3. k - 1 \notin Fresh
    BY <1>4, <2>2
  <2> HIDE DEF Stale
  <2> QED BY <2>1, <2>3, <1>4
<1>7. k - 1 \in 0 .. N
  BY <1>1, <1>6
<1> DEFINE n == Outdated(trades, cutoff)
<1>8. n \in 0 .. N /\ Stale(n) /\ ~Stale(n + 1)
  <2>1. n = CHOOSE x \in 0 .. N : Stale(x) /\ ~Stale(x + 1)
    BY DEF Outdated
  <2> HIDE DEF Stale, n
  <2> QED BY <1>6, <1>7, <2>1
<1> HIDE DEF Stale, n
<1>9. n # N
  BY <1>2, <1>8
<1> QED BY <1>1, <1>8, <1>9 DEF n

LEMMA BookEnds ==
  ASSUME NEW c \in Configs, NEW t, IsTrader(t), NEW trade, trade.ts \in Int, NEW run \in RunIds,
         NEW b, b = Book(Config(c), Window, t, trade, run)
  PROVE  /\ IsTrader(b)
         /\ b.position = t.position /\ b.pending = t.pending /\ b.start = t.start
         /\ b.session = t.session + 1
         /\ b.cooldownUntil = trade.ts + Config(c).cooldown
         /\ Booked(t, b, trade, run)
<1> DEFINE N == Len(t.completed)
           trades == Append(t.completed, trade)
           ids == Append(t.runIds, run)
           n == Outdated(trades, trade.ts - Window)
<1>1. PICK S : t.completed \in Seq(S)
  BY DEF IsTrader, IsBook
<1>2. /\ trades \in Seq(S \cup {trade}) /\ Len(trades) = N + 1 /\ trades[N + 1] = trade
      /\ \A i \in 1 .. N : trades[i] = t.completed[i]
      /\ N \in Nat
  BY <1>1
<1>3. /\ ids \in Seq(RunIds) /\ Len(ids) = N + 1 /\ ids[N + 1] = run
  BY <1>1 DEF IsTrader, IsBook
<1>4. /\ b.completed = SubSeq(trades, n + 1, Len(trades))
      /\ b.runIds = SubSeq(ids, n + 1, Len(trades))
      /\ b.position = t.position /\ b.pending = t.pending /\ b.start = t.start
      /\ b.session = t.session + 1
      /\ b.cooldownUntil = trade.ts + Config(c).cooldown
      /\ DOMAIN b = DOMAIN t
  BY DEF Book, IsTrader
<1> HIDE DEF trades, ids
<1>5. n \in 0 .. N
  <2>1. trades # <<>> /\ ~(trades[Len(trades)].ts < trade.ts - Window)
    <3>1. Window \in Nat
      BY ConfigTypes
    <3> QED BY <1>2, <3>1
  <2>2. n \in 0 .. Len(trades) - 1
    BY <1>2, <2>1, OutdatedKeepsLast
  <2> QED BY <1>2, <2>2
<1> HIDE DEF n, N
<1>6. /\ b.completed \in Seq(S \cup {trade}) /\ Len(b.completed) = N + 1 - n
      /\ \A i \in 1 .. N + 1 - n : b.completed[i] = trades[n + i]
  BY <1>2, <1>4, <1>5
<1>7. /\ b.runIds \in Seq(RunIds) /\ Len(b.runIds) = N + 1 - n
      /\ b.runIds[N + 1 - n] = ids[N + 1]
  BY <1>2, <1>3, <1>4, <1>5
<1>8. IsTrader(b)
  <2>1. b.cooldownUntil \in Int /\ b.session \in Nat
    BY <1>4, ConfigTypes DEF IsTrader
  <2> QED BY <1>4, <1>6, <1>7, <2>1 DEF IsTrader, IsBook
<1>9. /\ \A i \in 1 .. N - n : b.completed[i] = t.completed[n + i]
      /\ b.completed[N + 1 - n] = trade /\ b.runIds[N + 1 - n] = run
  BY <1>2, <1>3, <1>5, <1>6, <1>7
<1>10. Booked(t, b, trade, run)
  BY <1>5, <1>6, <1>9 DEF N, Booked
<1> QED BY <1>4, <1>8, <1>10

-----------------------------------------------------------------------------
(* A tick in its three stages.                                             *)

LEMMA ReportTypes ==
  ASSUME NEW r \in Seq(Reports), NEW i \in 1 .. Len(r)
  PROVE  r[i].entry \in Int
<1>1. r[i] \in Reports
  OBVIOUS
<1> QED BY <1>1 DEF Reports

LEMMA KeysLater ==
  ASSUME NEW c \in Configs, NEW t, NEW r, NEW ev \in Int, NEW later \in Int, later >= ev,
         KeysGrow(Config(c), t, r, ev), t.position = None \/ IsPosition(t.position)
  PROVE  KeysGrow(Config(c), t, r, later)
<1>1. ASSUME t.position # None
      PROVE  \E m \in Offsets : t.position.entry <= later + m + Config(c).freshness
  <2>1. PICK m \in Offsets : t.position.entry <= ev + m + Config(c).freshness
    BY <1>1 DEF KeysGrow
  <2>2. t.position.entry \in Int /\ m \in Int /\ Config(c).freshness \in Int
    BY <1>1, ConfigTypes DEF IsPosition
  <2> QED BY <2>1, <2>2
<1> QED BY <1>1 DEF KeysGrow

(* An entry order is filled: a position is opened.                         *)
LEMMA FillEntry ==
  ASSUME NEW c \in Configs, NEW t, NEW r, NEW d, NEW ev \in Int,
         TraderInv(Config(c), t, r, d, ev), IsEntry(t.pending),
         NEW ts \in Int, NEW gate, NEW n \in Offsets, gate.ts = ev + n, IsFresh(Config(c), ts, gate),
         ts >= t.pending.fire + Config(c).fillDelay,
         NEW f, f = [t EXCEPT !.pending = None, !.position = OpenPosition(t.pending, ts, gate)]
  PROVE  TraderInv(Config(c), f, r, d, ev)
<1>1. IsTrader(t) /\ r \in Seq(Reports) /\ EndOf(t, r) /\ RunsKept(t, d)
      /\ t.session = Len(r) /\ t.pending.kind = "entry" /\ t.pending.fire \in Int
  BY DEF TraderInv, IsEntry
<1>2. f.pending = None /\ f.completed = t.completed /\ f.runIds = t.runIds /\ f.session = t.session
      /\ f.cooldownUntil = t.cooldownUntil /\ DOMAIN f = DOMAIN t
      /\ f.position = OpenPosition(t.pending, ts, gate)
  BY <1>1 DEF IsTrader
<1>3. IsPosition(f.position) /\ f.position.entry = ts /\ f.position.run = t.pending.run
  BY <1>1, <1>2 DEF IsPosition, OpenPosition, IsEntry
<1>4. None.kind = "none"
  BY DEF None
<1>5. IsTrader(f)
  BY <1>1, <1>2, <1>3 DEF IsTrader, IsBook
<1>6. EndOf(f, r)
  BY <1>1, <1>2 DEF EndOf
<1>7. RunsKept(f, d)
  BY <1>1, <1>2, <1>3, <1>4 DEF RunsKept
<1>8. ASSUME Outlasts(Config(c)) PROVE KeysGrow(Config(c), f, r, ev)
  <2>1. KeysGrow(Config(c), t, r, ev)
    BY <1>8 DEF TraderInv
  <2>2. /\ Config(c).fillDelay \in Nat /\ Config(c).freshness \in Nat /\ n \in Int
        /\ t.cooldownUntil \in Int
    BY <1>1, ConfigTypes DEF IsTrader
  <2>3. ts <= ev + n + Config(c).freshness
    BY <2>2 DEF IsFresh, Distance
  <2>4. ASSUME NEW i \in 1 .. Len(r) PROVE r[i].entry < ts
    <3>1. r[i].entry < t.cooldownUntil + Config(c).fillDelay /\ t.pending.fire >= t.cooldownUntil
      BY <1>1, <2>1 DEF KeysGrow
    <3>2. r[i].entry \in Int
      BY <1>1, ReportTypes
    <3> DEFINE e == r[i].entry
               C == t.cooldownUntil
               D == Config(c).fillDelay
               F == t.pending.fire
    <3>3. e \in Int /\ C \in Int /\ D \in Int /\ F \in Int /\ e < C + D /\ F >= C /\ ts >= F + D
      BY <1>1, <2>2, <3>1, <3>2
    <3> HIDE DEF e, C, D, F
    <3>4. e < ts
      BY <3>3
    <3> QED BY <3>4 DEF e
  <2> QED BY <1>2, <1>3, <1>4, <2>1, <2>3, <2>4 DEF KeysGrow
<1> QED BY <1>1, <1>2, <1>5, <1>6, <1>7, <1>8 DEF TraderInv

(* An exit order is filled: the position's trade is booked.                *)
LEMMA FillExit ==
  ASSUME NEW c \in Configs, NEW t, NEW r, NEW d, NEW ev \in Int,
         TraderInv(Config(c), t, r, d, ev), IsExit(t.pending),
         NEW ts \in Int, NEW gate,
         ts >= t.pending.fire + Config(c).fillDelay,
         NEW f, f = Book(Config(c), Window, Taken(t), ClosedTrade(Config(c), t.pending, ts, gate),
                         t.pending.pos.run)
  PROVE  /\ ClosesOne(Config(c), f, r, d, ev, ts)
         /\ f.position = None /\ f.pending = None /\ f.start = t.start
<1> DEFINE cfg == Config(c)
           u == Taken(t)
           pos == t.pending.pos
           trade == ClosedTrade(cfg, t.pending, ts, gate)
           e == [entry |-> pos.entry, ts |-> ts, run |-> pos.run]
           s == Append(r, e)
<1>1. IsTrader(t) /\ r \in Seq(Reports) /\ EndOf(t, r) /\ RunsKept(t, d)
      /\ t.session = Len(r) /\ t.pending.kind = "exit" /\ t.pending.fire \in Int
      /\ t.pending # None /\ IsPosition(pos)
  BY DEF TraderInv, IsExit, None
<1>2. u.pending = None /\ u.completed = t.completed /\ u.runIds = t.runIds /\ u.session = t.session
      /\ u.cooldownUntil = t.cooldownUntil /\ DOMAIN u = DOMAIN t /\ u.position = None
      /\ u.start = t.start
  BY <1>1 DEF IsTrader, Taken
<1>3. trade.ts = ts /\ trade.entry = pos.entry
  BY DEF ClosedTrade
<1> HIDE DEF u, trade
<1>4. IsTrader(u)
  BY <1>1, <1>2 DEF IsTrader, IsBook
<1>5. pos.run \in RunIds /\ pos.entry \in Int
  BY <1>1 DEF IsPosition
<1>6. f = Book(cfg, Window, u, trade, pos.run)
  BY DEF u, trade
<1>7. /\ IsTrader(f) /\ f.position = None /\ f.pending = None /\ f.start = t.start
      /\ f.session = t.session + 1 /\ f.cooldownUntil = ts + cfg.cooldown
  BY <1>2, <1>3, <1>4, <1>5, <1>6, BookEnds
<1> DEFINE N == Len(t.completed)
           M == Len(f.completed)
           R == Len(r)
<1>8. PICK n \in 0 .. N :
        /\ M = N + 1 - n
        /\ \A i \in 1 .. N - n : f.completed[i] = t.completed[n + i]
        /\ f.completed[N + 1 - n] = trade /\ f.runIds[N + 1 - n] = pos.run
  <2>1. Booked(u, f, trade, pos.run)
    BY <1>3, <1>4, <1>5, <1>6, BookEnds
  <2> HIDE DEF N, M
  <2> QED BY <1>2, <2>1 DEF Booked, N, M
<1>9. e \in Reports /\ e.entry = pos.entry /\ e.ts = ts /\ e.run = pos.run
  BY <1>5 DEF Reports
<1> HIDE DEF e
<1>10. s \in Seq(Reports) /\ Len(s) = Len(r) + 1 /\ s[Len(r) + 1] = e
       /\ \A i \in 1 .. Len(r) : s[i] = r[i]
  BY <1>1, <1>9
<1> HIDE DEF s
<1>11. R \in Nat /\ N \in Nat /\ M \in Nat \ {0} /\ N <= R
  BY <1>1, <1>8 DEF IsTrader, IsBook, EndOf
<1>12. EndOf(f, s)
  <2> DEFINE L == Len(s)
  <2>1. L = R + 1 /\ M <= L
    <3> HIDE DEF N, M, R
    <3> QED BY <1>8, <1>10, <1>11 DEF R
  <2>2. ASSUME NEW i \in 1 .. M, i # M
        PROVE  /\ s[L - M + i].entry = f.completed[i].entry
               /\ s[L - M + i].ts = f.completed[i].ts
    <3> HIDE DEF N, M, R, L
    <3>1. i \in 1 .. N - n /\ n + i \in 1 .. N
      BY <1>8, <1>11, <2>2
    <3>2. L - M + i = R - N + (n + i) /\ R - N + (n + i) \in 1 .. R
      BY <1>8, <1>11, <2>1, <3>1
    <3>3. s[L - M + i] = r[R - N + (n + i)]
      BY <1>10, <3>2 DEF R
    <3>4. f.completed[i] = t.completed[n + i]
      BY <1>8, <3>1
    <3> QED BY <1>1, <3>1, <3>3, <3>4 DEF EndOf, R, N
  <2>3. s[L - M + M] = e /\ f.completed[M] = trade
    <3> HIDE DEF N, M, R, L
    <3>1. L - M + M = R + 1
      BY <1>11, <2>1
    <3> QED BY <1>8, <1>10, <3>1 DEF R
  <2>4. \A i \in 1 .. M : /\ s[L - M + i].entry = f.completed[i].entry
                          /\ s[L - M + i].ts = f.completed[i].ts
    <3> HIDE DEF N, M, R, L
    <3> QED BY <1>3, <1>9, <2>2, <2>3
  <2> QED BY <2>1, <2>4 DEF EndOf
<1>13. e.run = d /\ LastClose(f, e)
  <2>1. Len(f.completed) > 0
    BY <1>8, <1>11
  <2>2. e.run = d
    BY <1>1, <1>9 DEF RunsKept
  <2> QED BY <1>3, <1>8, <1>9, <2>1, <2>2 DEF LastClose
<1>14. RunsKept(f, d)
  BY <1>7 DEF RunsKept, None
<1>15. ASSUME Outlasts(cfg) PROVE KeysGrow(cfg, f, s, ev)
  <2> DEFINE C == cfg.cooldown
             D == cfg.fillDelay
             E == pos.entry
             F == t.pending.fire
  <2>1. KeysGrow(cfg, t, r, ev)
    BY <1>15 DEF TraderInv
  <2>2. D \in Nat /\ C \in Nat /\ E \in Int /\ F \in Int /\ ts >= F + D
    BY <1>1, <1>5, ConfigTypes
  <2>3. \A i \in 1 .. Len(r) : r[i].entry < E /\ r[i].entry \in Int
    BY <1>1, <2>1, ReportTypes DEF KeysGrow
  <2>4. E < F + C + 2 * D
    BY <1>1, <2>1 DEF KeysGrow
  <2>5. E < ts + C + D
    <3> HIDE DEF C, D, E, F
    <3> QED BY <2>2, <2>4
  <2>6. ASSUME NEW i \in 1 .. Len(s) PROVE s[i].entry <= E /\ s[i].entry \in Int
    <3>1. i \in 1 .. Len(r) \/ i = Len(r) + 1
      BY <1>10, <1>11
    <3> QED BY <1>5, <1>9, <1>10, <2>3, <3>1
  <2>7. \A i \in 1 .. Len(s) : s[i].entry < f.cooldownUntil + D
    <3>1. f.cooldownUntil = ts + C
      BY <1>7
    <3> HIDE DEF C, D, E, F
    <3> QED BY <2>2, <2>5, <2>6, <3>1
  <2>8. ASSUME NEW i \in 1 .. Len(s), NEW j \in 1 .. Len(s), i < j
        PROVE  s[i].entry < s[j].entry
    <3>1. i \in 1 .. Len(r) /\ (j \in 1 .. Len(r) \/ j = Len(r) + 1)
      BY <1>10, <1>11, <2>8
    <3>2. r[i].entry < pos.entry
      BY <2>3, <3>1
    <3>3. CASE j \in 1 .. Len(r)
      BY <1>10, <2>1, <2>8, <3>1, <3>3 DEF KeysGrow
    <3>4. CASE j = Len(r) + 1
      BY <1>9, <1>10, <3>1, <3>2, <3>4
    <3> QED BY <3>1, <3>3, <3>4
  <2> QED BY <1>7, <2>7, <2>8 DEF KeysGrow, None
<1>16. TraderInv(cfg, f, s, d, ev)
  BY <1>1, <1>7, <1>10, <1>12, <1>14, <1>15 DEF TraderInv
<1> QED BY <1>7, <1>9, <1>13, <1>16 DEF s, ClosesOne

LEMMA FillStep ==
  ASSUME NEW c \in Configs, NEW t, NEW r, NEW d, NEW ev \in Int,
         TraderInv(Config(c), t, r, d, ev),
         NEW ts \in Int, NEW gate, NEW n \in Offsets, gate.ts = ev + n, IsFresh(Config(c), ts, gate),
         NEW f, f = TryFill(Config(c), Window, t, ts, gate)
  PROVE  /\ f.start = t.start
         /\ \/ /\ TraderInv(Config(c), f, r, d, ev) /\ SameBooks(t, f)
               /\ f.pending = t.pending \/ (f.pending = None /\ f.position # None)
            \/ /\ t.pending.kind = "exit" /\ f.position = None /\ f.pending = None
               /\ ClosesOne(Config(c), f, r, d, ev, ts)
<1> DEFINE order == t.pending
           due == ts >= order.fire + Config(c).fillDelay
<1>1. IsTrader(t) /\ Config(c).fillDelay \in Nat
  BY ConfigTypes DEF TraderInv
<1>2. order = None \/ IsEntry(order) \/ IsExit(order)
  BY <1>1 DEF IsTrader
<1>3. CASE order = None
  <2>1. f = t
    BY <1>3 DEF TryFill, None
  <2> QED BY <2>1 DEF SameBooks
<1>4. CASE order # None /\ ~due
  <2>1. ts < order.fire + Config(c).fillDelay
    BY <1>1, <1>2, <1>4 DEF IsEntry, IsExit
  <2>2. f = t
    BY <1>1, <1>2, <1>4, <2>1 DEF TryFill
  <2> QED BY <2>2 DEF SameBooks
<1>5. CASE IsEntry(order) /\ due
  <2>1. order # None /\ order.kind = "entry" /\ ~(ts < order.fire + Config(c).fillDelay)
    BY <1>1, <1>5 DEF IsEntry, None
  <2>2. f = [[t EXCEPT !.pending = None] EXCEPT !.position = OpenPosition(order, ts, gate)]
    BY <1>5, <2>1 DEF TryFill
  <2>3. f = [t EXCEPT !.pending = None, !.position = OpenPosition(t.pending, ts, gate)]
    BY <2>2
  <2> HIDE DEF due
  <2>7. IsEntry(t.pending) /\ ts >= t.pending.fire + Config(c).fillDelay
    BY <1>5 DEF due
  <2>4. TraderInv(Config(c), f, r, d, ev)
    BY <2>3, <2>7, FillEntry
  <2>5. SameBooks(t, f) /\ f.start = t.start /\ f.pending = None
        /\ f.position = OpenPosition(order, ts, gate)
    BY <1>1, <2>3 DEF SameBooks, IsTrader
  <2>6. f.position # None
    BY <2>5 DEF OpenPosition, None
  <2> QED BY <2>4, <2>5, <2>6
<1>6. CASE IsExit(order) /\ due
  <2>1. order # None /\ order.kind = "exit" /\ ~(ts < order.fire + Config(c).fillDelay)
    BY <1>1, <1>6 DEF IsExit, None
  <2>2. f = Book(Config(c), Window, Taken(t), ClosedTrade(Config(c), t.pending, ts, gate),
                 t.pending.pos.run)
    BY <1>6, <2>1 DEF TryFill, Taken
  <2>3. /\ ClosesOne(Config(c), f, r, d, ev, ts)
        /\ f.position = None /\ f.pending = None /\ f.start = t.start
    BY <1>6, <2>2, FillExit
  <2> QED BY <2>1, <2>3
<1> QED BY <1>2, <1>3, <1>4, <1>5, <1>6

(* A position is left alone, closed in time, or turned into an exit order. *)
LEMMA ExitStep ==
  ASSUME NEW c \in Configs, NEW t, NEW r, NEW d, NEW ev \in Int,
         TraderInv(Config(c), t, r, d, ev), t.pending = None,
         NEW ts \in Int, NEW gate, NEW n \in Offsets, gate.ts = ev + n, IsFresh(Config(c), ts, gate),
         NEW u, u = TryExit(Config(c), t, ts, gate)
  PROVE  /\ TraderInv(Config(c), u, r, d, ev) /\ SameBooks(t, u) /\ u.start = t.start
         /\ u.position # None => ts - u.position.entry < Config(c).maxHold
         /\ u.pending = None \/ u.pending.kind = "exit"
         /\ u.position = None /\ u.pending = None => t.position = None
<1> DEFINE cfg == Config(c)
           unrealized == Unrealized(t.position, gate)
           pos == [t.position EXCEPT
                     !.peak = Larger(@, unrealized),
                     !.breakeven = @ \/ unrealized * cfg.target[2]
                                          >= t.position.spike * cfg.target[1]]
           reason == ExitReason(cfg, pos, unrealized, ts - pos.entry)
           order == [kind |-> "exit", fire |-> ts, pos |-> pos, reason |-> reason]
<1>1. IsTrader(t) /\ r \in Seq(Reports) /\ EndOf(t, r) /\ RunsKept(t, d) /\ t.session = Len(r)
  BY DEF TraderInv
<1>2. CASE t.position = None
  BY <1>2 DEF TryExit, SameBooks
<1>3. CASE t.position # None
  <2>1. IsPosition(t.position)
    BY <1>1, <1>3 DEF IsTrader
  <2>2. pos.kind = "position" /\ pos.entry = t.position.entry /\ pos.run = t.position.run
        /\ DOMAIN pos = DOMAIN t.position
    BY <2>1 DEF IsPosition
  <2>3. u = IF reason = NoReason THEN [t EXCEPT !.position = pos]
            ELSE [t EXCEPT !.position = None, !.pending = order]
    BY <1>3 DEF TryExit
  <2> HIDE DEF pos
  <2>4. IsPosition(pos) /\ pos # None
    BY <2>1, <2>2 DEF IsPosition, None
  <2>5. CASE reason = NoReason
    <3>1. ts - pos.entry < cfg.maxHold
      <4>1. ~(ts - pos.entry >= cfg.maxHold)
        BY <2>5 DEF ExitReason, NoReason
      <4>2. ts - pos.entry \in Int /\ cfg.maxHold \in Nat
        BY <2>4, ConfigTypes DEF IsPosition
      <4> QED BY <4>1, <4>2
    <3> HIDE DEF reason
    <3>2. /\ u.position = pos /\ u.pending = None /\ u.completed = t.completed
          /\ u.runIds = t.runIds /\ u.session = t.session /\ u.start = t.start
          /\ u.cooldownUntil = t.cooldownUntil /\ DOMAIN u = DOMAIN t
      <4>1. u = [t EXCEPT !.position = pos]
        BY <2>3, <2>5
      <4>2. /\ t.pending = None
            /\ {"position", "pending", "completed", "runIds", "session", "start", "cooldownUntil"}
                 \subseteq DOMAIN t
        BY <1>1, <1>3 DEF IsTrader
      <4> QED BY <4>1, <4>2
    <3>3. IsTrader(u)
      BY <1>1, <2>4, <3>2 DEF IsTrader, IsBook
    <3>4. EndOf(u, r) /\ RunsKept(u, d)
      <4>1. EndOf(u, r)
        BY <1>1, <3>2 DEF EndOf
      <4>2. t.position.run = d
        BY <1>1, <1>3 DEF RunsKept
      <4>3. RunsKept(u, d)
        BY <2>2, <3>2, <4>2 DEF RunsKept, None
      <4> QED BY <4>1, <4>3
    <3>5. KeysGrow(cfg, t, r, ev) => KeysGrow(cfg, u, r, ev)
      BY <1>3, <2>2, <3>2 DEF KeysGrow, None
    <3>6. TraderInv(cfg, u, r, d, ev)
      BY <1>1, <3>2, <3>3, <3>4, <3>5 DEF TraderInv
    <3> QED BY <1>3, <2>4, <3>1, <3>2, <3>6 DEF SameBooks
  <2>6. CASE reason # NoReason
    <3> HIDE DEF reason
    <3>1. order.kind = "exit" /\ order.fire = ts /\ order.pos = pos
      OBVIOUS
    <3>2. u = [t EXCEPT !.position = None, !.pending = order]
      BY <2>3, <2>6
    <3> HIDE DEF order
    <3>3. /\ u.position = None /\ u.pending = order /\ u.completed = t.completed
          /\ u.runIds = t.runIds /\ u.session = t.session /\ u.start = t.start
          /\ u.cooldownUntil = t.cooldownUntil /\ DOMAIN u = DOMAIN t
      BY <1>1, <3>2 DEF IsTrader
    <3>4. IsExit(order) /\ order # None
      BY <2>4, <3>1 DEF IsExit, None
    <3>5. IsTrader(u)
      BY <1>1, <3>3, <3>4 DEF IsTrader, IsBook
    <3>6. EndOf(u, r) /\ RunsKept(u, d)
      <4>1. EndOf(u, r)
        BY <1>1, <3>3 DEF EndOf
      <4>2. t.position.run = d
        BY <1>1, <1>3 DEF RunsKept
      <4>3. RunsKept(u, d)
        BY <2>2, <3>1, <3>3, <4>2 DEF RunsKept
      <4> QED BY <4>1, <4>3
    <3>7. ASSUME Outlasts(cfg), KeysGrow(cfg, t, r, ev) PROVE KeysGrow(cfg, u, r, ev)
      <4> DEFINE E == pos.entry
                 C == cfg.cooldown
                 D == cfg.fillDelay
                 F == cfg.freshness
      <4>1. PICK m \in Offsets : E <= ev + m + F
        BY <1>3, <2>2, <3>7 DEF KeysGrow
      <4>2. 2 * F + (m - n) < C + 2 * D
        BY <3>7 DEF Outlasts
      <4>3. E \in Int /\ C \in Nat /\ D \in Nat /\ F \in Nat /\ m \in Int /\ n \in Int
        BY <2>4, ConfigTypes DEF IsPosition
      <4>4. ts >= ev + n - F
        <5>1. Distance(ts, ev + n) <= F
          BY DEF IsFresh
        <5> HIDE DEF F
        <5> QED BY <4>3, <5>1 DEF Distance
      <4>5. E < ts + C + 2 * D
        <5> HIDE DEF E, C, D, F
        <5> QED BY <4>1, <4>2, <4>3, <4>4
      <4>6. \A i \in 1 .. Len(r) : r[i].entry < E
        BY <1>3, <2>2, <3>7 DEF KeysGrow
      <4> QED BY <3>1, <3>3, <3>7, <4>5, <4>6 DEF KeysGrow
    <3>8. TraderInv(cfg, u, r, d, ev)
      BY <1>1, <3>3, <3>5, <3>6, <3>7 DEF TraderInv
    <3> QED BY <3>1, <3>3, <3>4, <3>8 DEF SameBooks
  <2> QED BY <2>5, <2>6
<1> QED BY <1>2, <1>3

(* An entry order is of the current run.                                  *)
LEMMA EntryStep ==
  ASSUME NEW c \in Configs, NEW t, NEW r, NEW d, NEW ev \in Int,
         TraderInv(Config(c), t, r, d, ev), t.pending = None,
         NEW ts \in Int, NEW gate, NEW gap, NEW run \in RunIds,
         NEW u, u = TryEntry(Config(c), t, ts, gate, gap, run)
  PROVE  \/ u = t
         \/ /\ TraderInv(Config(c), u, r, run, ev) /\ SameBooks(t, u)
            /\ t.position = None /\ u.position = None /\ u.pending.kind = "entry"
<1> SUFFICES ASSUME u # t
             PROVE  /\ TraderInv(Config(c), u, r, run, ev) /\ SameBooks(t, u)
                    /\ t.position = None /\ u.position = None /\ u.pending.kind = "entry"
  OBVIOUS
<1> DEFINE dir == CHOOSE x \in DetectGap(Config(c), gap) : TRUE
           order == [kind |-> "entry", fire |-> ts, dir |-> dir, spike |-> gap[dir], run |-> run]
<1>1. IsTrader(t) /\ r \in Seq(Reports) /\ EndOf(t, r) /\ t.session = Len(r)
  BY DEF TraderInv
<1>2. u = [t EXCEPT !.pending = order] /\ t.position = None /\ ts >= t.cooldownUntil
  BY DEF TryEntry, MayEnter
<1>3. order.kind = "entry" /\ order.fire = ts /\ order.run = run
  OBVIOUS
<1> HIDE DEF order
<1>4. /\ u.position = None /\ u.pending = order /\ u.completed = t.completed
      /\ u.runIds = t.runIds /\ u.session = t.session /\ u.start = t.start
      /\ u.cooldownUntil = t.cooldownUntil /\ DOMAIN u = DOMAIN t
  BY <1>1, <1>2 DEF IsTrader
<1>5. IsTrader(u)
  BY <1>1, <1>3, <1>4 DEF IsTrader, IsBook, IsEntry
<1>6. EndOf(u, r) /\ RunsKept(u, run)
  <2>1. EndOf(u, r)
    BY <1>1, <1>4 DEF EndOf
  <2>2. RunsKept(u, run)
    BY <1>3, <1>4 DEF RunsKept
  <2> QED BY <2>1, <2>2
<1>7. KeysGrow(Config(c), t, r, ev) => KeysGrow(Config(c), u, r, ev)
  BY <1>2, <1>3, <1>4 DEF KeysGrow
<1>8. TraderInv(Config(c), u, r, run, ev)
  BY <1>1, <1>4, <1>5, <1>6, <1>7 DEF TraderInv
<1> QED BY <1>2, <1>3, <1>4, <1>8 DEF SameBooks

(* A tick closes at most one trade, which is of the run of the trader's    *)
(* last entry.                                                             *)
LEMMA TickStep ==
  ASSUME NEW c \in Configs, NEW t, NEW r, NEW d, NEW ev \in Int,
         TraderInv(Config(c), t, r, d, ev),
         NEW ts \in Int, NEW binance, NEW gate, NEW n \in Offsets, gate.ts = ev + n,
         NEW gap, NEW run \in RunIds,
         NEW v, v = TickTrader(Config(c), Window, t, ts, binance, gate, gap, run),
         NEW newRun, newRun = IF Enters(t, v) THEN run ELSE d
  PROVE  /\ TickDoes(Config(c), t, v, r, d, newRun, ev, ts)
         /\ IsFresh(Config(c), ts, gate) /\ v.position # None =>
              ts - v.position.entry < Config(c).maxHold
<1> DEFINE cfg == Config(c)
           t0 == IF t.start = None THEN [t EXCEPT !.start = [kind |-> "ts", at |-> ts]] ELSE t
           f == TryFill(cfg, Window, t0, ts, gate)
           u == ExitLifecycle(cfg, Window, t0, ts, binance, gate)
           x == TryExit(cfg, f, ts, gate)
           fresh == IsFresh(cfg, ts, gate)
<1>1. TraderInv(cfg, t0, r, d, ev) /\ t0.pending = t.pending /\ t0.session = t.session
  <2>1. IsTrader(t) /\ EndOf(t, r) /\ RunsKept(t, d) /\ t.session = Len(r) /\ r \in Seq(Reports)
    BY DEF TraderInv
  <2>2. /\ t0.position = t.position /\ t0.pending = t.pending /\ t0.completed = t.completed
        /\ t0.runIds = t.runIds /\ t0.session = t.session
        /\ t0.cooldownUntil = t.cooldownUntil /\ DOMAIN t0 = DOMAIN t
    BY <2>1 DEF IsTrader
  <2> HIDE DEF t0
  <2>3. IsTrader(t0)
    BY <2>1, <2>2 DEF IsTrader, IsBook
  <2>4. EndOf(t0, r) /\ RunsKept(t0, d)
    BY <2>1, <2>2 DEF EndOf, RunsKept
  <2>5. KeysGrow(cfg, t, r, ev) => KeysGrow(cfg, t0, r, ev)
    BY <2>2 DEF KeysGrow
  <2> QED BY <2>1, <2>2, <2>3, <2>4, <2>5 DEF TraderInv
<1> DEFINE blocked == u.pending # None \/ ~IsFresh(cfg, ts, binance) \/ ~fresh
                      \/ ts - t0.start.at < cfg.warmup
<1>2. v = IF blocked THEN u ELSE TryEntry(cfg, u, ts, gate, gap, run)
  BY DEF TickTrader
<1>3. u = IF ~fresh THEN t0 ELSE IF f.pending # None THEN f ELSE x
  BY DEF ExitLifecycle
<1> HIDE DEF t0, f, u, x, fresh, blocked
<1>4. CASE ~fresh
  <2>1. v = t0
    BY <1>2, <1>3, <1>4 DEF blocked
  <2>2. ~Enters(t, v)
    BY <1>1, <2>1 DEF Enters
  <2> QED BY <1>1, <1>4, <2>1, <2>2 DEF fresh, TickDoes
<1>5. CASE fresh
  <2>1. /\ \/ /\ TraderInv(cfg, f, r, d, ev) /\ SameBooks(t0, f)
              /\ f.pending = t0.pending \/ (f.pending = None /\ f.position # None)
           \/ /\ t0.pending.kind = "exit" /\ f.position = None /\ f.pending = None
              /\ ClosesOne(cfg, f, r, d, ev, ts)
    BY <1>1, <1>5, FillStep DEF f, fresh
  <2>2. ASSUME NEW s, TraderInv(cfg, f, s, d, ev)
        PROVE  /\ TraderInv(cfg, v, s, newRun, ev) /\ SameBooks(f, v)
               /\ v.position # None => ts - v.position.entry < cfg.maxHold
    <3>1. CASE f.pending # None
      <4>1. u = f /\ v = f /\ blocked
        BY <1>2, <1>3, <1>5, <3>1 DEF blocked
      <4>2. f.position = None
        BY <2>2, <3>1 DEF TraderInv, IsTrader
      <4>3. f.pending = t.pending
        BY <1>1, <2>1, <3>1
      <4>4. newRun = d
        BY <4>1, <4>3 DEF Enters
      <4> QED BY <2>2, <4>1, <4>2, <4>4 DEF SameBooks
    <3>2. CASE f.pending = None
      <4>1. u = x
        BY <1>3, <1>5, <3>2
      <4>2. /\ TraderInv(cfg, u, s, d, ev) /\ SameBooks(f, u)
            /\ u.position # None => ts - u.position.entry < cfg.maxHold
            /\ u.pending = None \/ u.pending.kind = "exit"
            /\ u.position = None /\ u.pending = None => f.position = None
        BY <1>5, <2>2, <3>2, <4>1, ExitStep DEF x, fresh
      <4>3. CASE v = u
        <5>1. ~Enters(t, v)
          BY <4>2, <4>3 DEF Enters, None
        <5> QED BY <4>2, <4>3, <5>1
      <4>4. CASE v # u
        <5>1. v = TryEntry(cfg, u, ts, gate, gap, run) /\ u.pending = None
          BY <1>2, <4>4 DEF blocked
        <5>2. /\ TraderInv(cfg, v, s, run, ev) /\ SameBooks(u, v)
              /\ u.position = None /\ v.position = None /\ v.pending.kind = "entry"
          BY <4>2, <4>4, <5>1, EntryStep
        <5>3. f.position = None
          BY <4>2, <5>1, <5>2
        <5>4. t.pending.kind = "exit" \/ t.pending = None
          BY <1>1, <2>1, <3>2, <5>3
        <5>5. Enters(t, v)
          BY <5>2, <5>4 DEF Enters, None
        <5> QED BY <4>2, <5>2, <5>5 DEF SameBooks
      <4> QED BY <4>3, <4>4
    <3> QED BY <3>1, <3>2
  <2>3. CASE TraderInv(cfg, f, r, d, ev) /\ SameBooks(t0, f)
    BY <1>1, <2>2, <2>3 DEF SameBooks, TickDoes
  <2>4. CASE ClosesOne(cfg, f, r, d, ev, ts)
    <3>1. PICK e \in Reports : /\ TraderInv(cfg, f, Append(r, e), d, ev)
                               /\ e.run = d /\ e.ts = ts /\ LastClose(f, e)
      BY <2>4 DEF ClosesOne
    <3>2. /\ TraderInv(cfg, v, Append(r, e), newRun, ev) /\ SameBooks(f, v)
          /\ v.position # None => ts - v.position.entry < cfg.maxHold
      BY <2>2, <3>1
    <3>3. LastClose(v, e)
      BY <3>1, <3>2 DEF LastClose, SameBooks
    <3> QED BY <3>1, <3>2, <3>3 DEF TickDoes
  <2> QED BY <2>1, <2>3, <2>4
<1> QED BY <1>4, <1>5

-----------------------------------------------------------------------------
(* The fleet.                                                              *)

(* The quotes, and the gate quote by its event time.                      *)
BookInv ==
  /\ eventTs \in [Exchanges -> Int] /\ DOMAIN quotes = Exchanges
  /\ \A x \in Exchanges : quotes[x] = None \/ (quotes[x].kind = "quote" /\ quotes[x].ts \in Int)
  /\ quotes["gate"] # None => \E n \in Offsets : quotes["gate"].ts = eventTs["gate"] + n

(* The inductive invariant.                                               *)
FleetInv ==
  /\ BookInv /\ runId \in RunIds /\ disabled \subseteq Configs
  /\ active = Cardinality(Configs \ disabled)
  /\ \A c \in Configs :
       /\ TraderInv(Config(c), traders[c], reported[c], decided[c], eventTs["gate"])
       /\ lastSession[c] = traders[c].session /\ decided[c] \in RunIds

(* The trade closed last is found by counting from the end of the deque.   *)
LEMMA LastIsNew ==
  ASSUME NEW t, IsTrader(t), NEW r \in Seq(Reports), NEW e \in Reports, LastClose(t, e),
         t.session = Len(r) + 1
  PROVE  /\ r \o NewReports(Len(r), t) = Append(r, e)
         /\ \E trade : trade.ts = e.ts /\ NewTrades(Len(r), t) = <<trade>>
<1> DEFINE N == Len(t.completed)
           S == t.session
           new == NewReports(Len(r), t)
<1>1. N \in Nat \ {0} /\ S - Len(r) = 1
  BY DEF IsTrader, IsBook, LastClose
<1>2. Counted(Len(r), t) = N - 1
  <2>1. Counted(Len(r), t) = Larger(0, N - (S - Len(r)))
    BY DEF Counted
  <2> HIDE DEF N, S
  <2> QED BY <1>1, <2>1 DEF Larger
<1>3. new = [i \in 1 .. 1 |-> Report(t.runIds[(N - 1) + i], t.completed[(N - 1) + i])]
  <2>1. N - (N - 1) = 1
    BY <1>1
  <2> QED BY <1>2, <2>1 DEF NewReports
<1>4. Report(t.runIds[N], t.completed[N]) = e
  BY DEF Report, LastClose, Reports
<1> HIDE DEF new
<1>5. new = <<e>>
  <2>1. (N - 1) + 1 = N /\ \A i \in 1 .. 1 : i = 1
    BY <1>1
  <2>2. \A i \in 1 .. 1 : Report(t.runIds[(N - 1) + i], t.completed[(N - 1) + i]) = e
    BY <1>4, <2>1
  <2>3. new = [i \in 1 .. 1 |-> e]
    BY <1>3, <2>2
  <2> QED BY <2>3
<1>6. NewTrades(Len(r), t) = <<t.completed[N]>>
  <2>1. NewTrades(Len(r), t) = SubSeq(t.completed, (N - 1) + 1, N)
    BY <1>2 DEF NewTrades
  <2>2. (N - 1) + 1 = N
    BY <1>1
  <2>3. SubSeq(t.completed, N, N) = [i \in 1 .. N - N + 1 |-> t.completed[i + N - 1]]
    BY <1>1 DEF IsTrader, IsBook
  <2>4. N - N + 1 = 1 /\ \A i \in 1 .. 1 : i + N - 1 = N
    BY <1>1
  <2> DEFINE last == t.completed[N]
  <2>5. SubSeq(t.completed, N, N) = [i \in 1 .. 1 |-> last]
    BY <2>3, <2>4
  <2> HIDE DEF N, last
  <2>6. [i \in 1 .. 1 |-> last] = <<last>>
    OBVIOUS
  <2> QED BY <2>1, <2>2, <2>5, <2>6 DEF last
<1> QED BY <1>5, <1>6, AppendIsConcat DEF new, LastClose

LEMMA BookStep ==
  ASSUME BookInv, NEW x \in Exchanges, NEW ev \in Int, NEW m \in Offsets, NEW quote \in QuotesOf(x, ev + m),
         Accepts(x, ev), quotes' = [quotes EXCEPT ![x] = quote], eventTs' = [eventTs EXCEPT ![x] = ev]
  PROVE  /\ BookInv' /\ quotes'[x] = quote /\ \A y \in Exchanges \ {x} : quotes'[y] = quotes[y]
         /\ quote.kind = "quote" /\ quote.ts \in Int
         /\ eventTs["gate"] \in Int /\ eventTs'["gate"] \in Int /\ eventTs'["gate"] >= eventTs["gate"]
<1>1. quote.kind = "quote" /\ quote.ts = ev + m
  BY DEF QuotesOf
<1>2. m \in Int /\ quote.ts \in Int
  BY <1>1, FleetAssumption
<1>3. \A y \in Exchanges : quotes'[y] = IF y = x THEN quote ELSE quotes[y]
  BY DEF BookInv
<1>4. \A y \in Exchanges : eventTs'[y] = IF y = x THEN ev ELSE eventTs[y]
  BY DEF BookInv
<1>5. eventTs' \in [Exchanges -> Int] /\ DOMAIN quotes' = Exchanges
  BY DEF BookInv
<1>6. quotes'["gate"] # None => \E n \in Offsets : quotes'["gate"].ts = eventTs'["gate"] + n
  BY <1>1, <1>3, <1>4 DEF BookInv, Exchanges
<1>7. \A y \in Exchanges : quotes'[y] = None \/ (quotes'[y].kind = "quote" /\ quotes'[y].ts \in Int)
  BY <1>1, <1>2, <1>3 DEF BookInv
<1>8. eventTs["gate"] \in Int /\ eventTs'["gate"] \in Int /\ eventTs'["gate"] >= eventTs["gate"]
  BY <1>4 DEF BookInv, Exchanges, Accepts
<1> QED BY <1>1, <1>2, <1>3, <1>5, <1>6, <1>7, <1>8 DEF BookInv

(* What a tick at ts reports of a config, it reports to its policy.        *)
PolicyStep(c, ts) ==
  \/ reported'[c] = reported[c] /\ policy'[c] = policy[c]
  \/ \E e \in Reports : \E trade :
       /\ e.ts = ts /\ trade.ts = ts
       /\ reported'[c] = Append(reported[c], e)
       /\ policy'[c] = ObserveTrades(policy[c], <<trade>>)

(* A tick of the fleet, for one config.                                    *)
LEMMA ConfigTick ==
  ASSUME FleetInv, NEW x \in Exchanges, NEW ev \in Int, NEW m \in Offsets,
         NEW quote \in QuotesOf(x, ev + m), NEW gap, FullBook(x, ev, quote, gap), NEW c \in Configs,
         Accepts(x, ev)
  PROVE  /\ TraderInv(Config(c), traders'[c], reported'[c], decided'[c], eventTs'["gate"])
         /\ lastSession'[c] = traders'[c].session /\ decided'[c] \in RunIds
         /\ Len(reported'[c]) > Len(reported[c]) =>
              reported'[c][Len(reported'[c])].run = decided[c]
         /\ /\ c \notin disabled /\ IsFresh(Config(c), quote.ts, quotes'["gate"])
            /\ traders'[c].position # None
            => quote.ts - traders'[c].position.entry < Config(c).maxHold
         /\ PolicyStep(c, quote.ts)
<1> DEFINE t == traders[c]
           v == traders'[c]
           r == reported[c]
           cfg == Config(c)
           ts == quote.ts
           at == eventTs'["gate"]
           gate == quotes'["gate"]
<1>1. /\ \A y \in Exchanges \ {x} : quotes[y] # None
      /\ quotes' = [quotes EXCEPT ![x] = quote] /\ eventTs' = [eventTs EXCEPT ![x] = ev]
      /\ traders' = Ticked(ts, gap) /\ TickAll(ts, traders')
  BY DEF FullBook, TickAll
<1>2. /\ BookInv' /\ quotes'[x] = quote /\ \A y \in Exchanges \ {x} : quotes'[y] = quotes[y]
      /\ quote.kind = "quote" /\ ts \in Int
      /\ eventTs["gate"] \in Int /\ at \in Int /\ at >= eventTs["gate"]
  BY <1>1, BookStep DEF FleetInv
<1>3. gate # None
  BY <1>1, <1>2 DEF Exchanges, None
<1>4. /\ TraderInv(cfg, t, r, decided[c], eventTs["gate"]) /\ lastSession[c] = t.session
      /\ decided[c] \in RunIds /\ runId \in RunIds /\ t.session = Len(r) /\ r \in Seq(Reports)
  BY DEF FleetInv, TraderInv
<1>5. TraderInv(cfg, t, r, decided[c], at)
  <2>1. IsTrader(t)
    BY <1>4 DEF TraderInv
  <2>2. t.position = None \/ IsPosition(t.position)
    BY <2>1 DEF IsTrader
  <2>3. KeysGrow(cfg, t, r, eventTs["gate"]) => KeysGrow(cfg, t, r, at)
    BY <1>2, <2>2, KeysLater
  <2> QED BY <1>4, <2>3 DEF TraderInv
<1>6. /\ decided'[c] = IF Enters(t, v) THEN runId ELSE decided[c]
      /\ c \notin disabled /\ v.session > t.session =>
           /\ reported'[c] = r \o NewReports(t.session, v)
           /\ lastSession'[c] = v.session
           /\ policy'[c] = ObserveTrades(policy[c], NewTrades(t.session, v))
      /\ c \in disabled \/ ~(v.session > t.session) =>
           reported'[c] = r /\ lastSession'[c] = t.session /\ policy'[c] = policy[c]
  BY <1>1, <1>4 DEF TickAll
<1>7. CASE c \in disabled
  <2>1. v = t
    BY <1>1, <1>7 DEF Ticked
  <2>2. decided'[c] = decided[c]
    BY <1>6, <2>1 DEF Enters
  <2>3. Len(r) \in Nat
    BY <1>4
  <2> QED BY <1>3, <1>4, <1>5, <1>6, <1>7, <2>1, <2>2, <2>3 DEF PolicyStep
<1>8. CASE c \notin disabled
  <2> DEFINE newRun == IF Enters(t, v) THEN runId ELSE decided[c]
  <2>1. v = TickTrader(cfg, Window, t, ts, quotes'["binance"], gate, gap, runId)
    BY <1>1, <1>8 DEF Ticked
  <2>2. PICK n \in Offsets : gate.ts = at + n
    BY <1>2, <1>3 DEF BookInv
  <2>3. /\ TickDoes(cfg, t, v, r, decided[c], newRun, at, ts)
        /\ IsFresh(cfg, ts, gate) /\ v.position # None => ts - v.position.entry < cfg.maxHold
    <3>1. newRun = IF Enters(t, v) THEN runId ELSE decided[c]
      OBVIOUS
    <3> HIDE DEF t, v, r, ts, at, gate, newRun
    <3> QED BY <1>2, <1>3, <1>4, <1>5, <2>1, <2>2, <3>1, TickStep
  <2>4. CASE TraderInv(cfg, v, r, newRun, at) /\ v.session = t.session
    <3>1. ~(v.session > t.session) /\ Len(r) \in Nat
      BY <1>4, <2>4
    <3> QED BY <1>3, <1>4, <1>6, <2>3, <2>4, <3>1 DEF PolicyStep
  <2>5. ASSUME NEW e \in Reports, TraderInv(cfg, v, Append(r, e), newRun, at), e.run = decided[c],
               e.ts = ts, LastClose(v, e)
        PROVE  /\ TraderInv(cfg, v, reported'[c], newRun, at) /\ lastSession'[c] = v.session
               /\ reported'[c][Len(reported'[c])].run = decided[c]
               /\ PolicyStep(c, ts)
    <3>1. Len(Append(r, e)) = Len(r) + 1 /\ Append(r, e)[Len(r) + 1] = e /\ Len(r) \in Nat
      BY <1>4
    <3>2. IsTrader(v) /\ v.session = Len(r) + 1
      BY <2>5, <3>1 DEF TraderInv
    <3>3. /\ r \o NewReports(Len(r), v) = Append(r, e)
          /\ \E trade : trade.ts = e.ts /\ NewTrades(Len(r), v) = <<trade>>
      BY <1>4, <2>5, <3>2, LastIsNew
    <3>4. v.session > t.session
      BY <1>4, <3>1, <3>2
    <3>5. reported'[c] = Append(r, e)
      BY <1>4, <1>6, <1>8, <3>3, <3>4
    <3>6. PolicyStep(c, ts)
      <4>1. PICK trade : trade.ts = e.ts /\ NewTrades(Len(r), v) = <<trade>>
        BY <3>3
      <4>2. policy'[c] = ObserveTrades(policy[c], <<trade>>)
        BY <1>4, <1>6, <1>8, <3>4, <4>1
      <4> QED BY <2>5, <3>5, <4>1, <4>2 DEF PolicyStep
    <3> QED BY <1>6, <1>8, <2>5, <3>1, <3>4, <3>5, <3>6
  <2> QED BY <1>3, <1>4, <1>6, <2>3, <2>4, <2>5 DEF TickDoes
<1> QED BY <1>7, <1>8

LEMMA FleetInit == Init => FleetInv
<1> SUFFICES ASSUME Init PROVE FleetInv
  OBVIOUS
<1>1. BookInv /\ eventTs["gate"] = 0
  BY DEF Init, BookInv, Exchanges
<1>2. runId \in RunIds /\ disabled = {} /\ active = Cardinality(Configs \ disabled)
  <2>1. Configs \ {} = Configs
    OBVIOUS
  <2> QED BY <2>1 DEF Init, RunIds
<1>3. ASSUME NEW c \in Configs
      PROVE  /\ TraderInv(Config(c), traders[c], reported[c], decided[c], eventTs["gate"])
             /\ lastSession[c] = traders[c].session /\ decided[c] \in RunIds
  <2>1. traders[c] = NewTrader /\ reported[c] = <<>> /\ decided[c] = NoRun /\ lastSession[c] = 0
    BY DEF Init
  <2>2. /\ NewTrader.position = None /\ NewTrader.pending = None /\ NewTrader.completed = <<>>
        /\ NewTrader.runIds = <<>> /\ NewTrader.session = 0 /\ NewTrader.cooldownUntil = 0
    BY DEF NewTrader
  <2>3. IsTrader(NewTrader)
    <3>1. IsBook(NewTrader)
      <4>1. <<>> \in Seq({}) /\ <<>> \in Seq(RunIds)
        OBVIOUS
      <4> QED BY <2>2, <4>1 DEF IsBook
    <3> QED BY <2>2, <3>1 DEF IsTrader, NewTrader
  <2>4. EndOf(NewTrader, <<>>) /\ RunsKept(NewTrader, NoRun) /\ <<>> \in Seq(Reports)
    BY <2>2 DEF EndOf, RunsKept, None
  <2>5. KeysGrow(Config(c), NewTrader, <<>>, 0)
    BY <2>2 DEF KeysGrow, None
  <2> QED BY <1>1, <2>1, <2>2, <2>3, <2>4, <2>5 DEF TraderInv, RunIds
<1> QED BY <1>1, <1>2, <1>3 DEF FleetInv

(* What each step does to one config.                                      *)
StepOf(c) ==
  /\ TraderInv(Config(c), traders'[c], reported'[c], decided'[c], eventTs'["gate"])
  /\ lastSession'[c] = traders'[c].session /\ decided'[c] \in RunIds
  /\ Len(reported'[c]) > Len(reported[c]) => reported'[c][Len(reported'[c])].run = decided[c]

LEMMA PartialStep ==
  ASSUME FleetInv, NEW x \in Exchanges, NEW ev \in Int, NEW m \in Offsets,
         NEW quote \in QuotesOf(x, ev + m), PartialBook(x, ev, quote), NEW c \in Configs
  PROVE  StepOf(c)
<1>1. /\ eventTs["gate"] \in Int /\ eventTs'["gate"] \in Int /\ eventTs'["gate"] >= eventTs["gate"]
  BY BookStep DEF FleetInv, PartialBook
<1>2. TraderInv(Config(c), traders[c], reported[c], decided[c], eventTs["gate"])
  BY DEF FleetInv
<1>3. traders[c].position = None \/ IsPosition(traders[c].position)
  BY <1>2 DEF TraderInv, IsTrader
<1>4. KeysGrow(Config(c), traders[c], reported[c], eventTs["gate"])
        => KeysGrow(Config(c), traders[c], reported[c], eventTs'["gate"])
  BY <1>1, <1>3, KeysLater
<1>5. TraderInv(Config(c), traders[c], reported[c], decided[c], eventTs'["gate"])
  BY <1>2, <1>4 DEF TraderInv
<1>6. Len(reported[c]) \in Nat
  BY <1>2 DEF TraderInv
<1> QED BY <1>5, <1>6 DEF FleetInv, PartialBook, fleetVars, StepOf

LEMMA StillStep ==
  ASSUME FleetInv, UNCHANGED <<eventTs, fleetVars>>, NEW c \in Configs
  PROVE  StepOf(c)
<1>1. Len(reported[c]) \in Nat
  BY DEF FleetInv, TraderInv
<1> QED BY <1>1 DEF FleetInv, fleetVars, StepOf

LEMMA PruneCount ==
  ASSUME FleetInv, NEW ts, NEW next, TickAll(ts, next)
  PROVE  disabled' \subseteq Configs /\ active' = Cardinality(Configs \ disabled')
<1>1. PICK pruned \in SUBSET (Configs \ disabled) :
        disabled' = disabled \cup pruned /\ active' = active - Cardinality(pruned)
  BY DEF TickAll
<1>2. IsFiniteSet(Configs \ disabled)
  BY FleetAssumption, FS_Difference
<1>3. Cardinality((Configs \ disabled) \ pruned)
        = Cardinality(Configs \ disabled) - Cardinality((Configs \ disabled) \cap pruned)
  BY <1>2, FS_Difference
<1>4. (Configs \ disabled) \cap pruned = pruned /\ (Configs \ disabled) \ pruned = Configs \ disabled'
  BY <1>1
<1> QED BY <1>1, <1>3, <1>4 DEF FleetInv

LEMMA UpdateInputs ==
  ASSUME FleetInv, NEW x \in Exchanges, Update(x)
  PROVE  \E ev \in 1 .. MaxTs, m \in Offsets :
           \/ RejectedQuote(x, ev)
           \/ \E quote \in QuotesOf(x, ev + m) :
                \/ PartialBook(x, ev, quote)
                \/ \E gap \in Gaps : FullBook(x, ev, quote, gap)
<1>1. Larger(1, eventTs[x] - 1) .. Smaller(Latest + 1, MaxTs) \subseteq 1 .. MaxTs
  <2>1. eventTs[x] \in Int /\ Latest \in Int /\ MaxTs \in Int
    BY DecayAssumption DEF FleetInv, BookInv, Latest, Larger, Exchanges
  <2> QED BY <2>1 DEF Larger, Smaller
<1> QED BY <1>1 DEF Update

LEMMA FleetStep ==
  ASSUME FleetInv, [Next]_vars
  PROVE  FleetInv' /\ \A c \in Configs : StepOf(c)
<1> SUFFICES /\ BookInv' /\ runId' \in RunIds /\ disabled' \subseteq Configs
             /\ active' = Cardinality(Configs \ disabled') /\ \A c \in Configs : StepOf(c)
  BY DEF FleetInv, StepOf
<1>1. CASE UNCHANGED vars
  <2>1. \A c \in Configs : StepOf(c)
    BY <1>1, StillStep DEF vars
  <2> QED BY <1>1, <2>1 DEF vars, fleetVars, FleetInv, BookInv
<1>2. CASE SetRunId
  <2>1. \A c \in Configs : StepOf(c)
    BY <1>2, StillStep DEF SetRunId
  <2> QED BY <1>2, <2>1 DEF SetRunId, fleetVars, FleetInv, BookInv
<1>3. ASSUME NEW x \in Exchanges, Update(x)
      PROVE  /\ BookInv' /\ runId' \in RunIds /\ disabled' \subseteq Configs
             /\ active' = Cardinality(Configs \ disabled') /\ \A c \in Configs : StepOf(c)
  <2>1. PICK ev \in 1 .. MaxTs, m \in Offsets :
           \/ RejectedQuote(x, ev)
           \/ \E quote \in QuotesOf(x, ev + m) :
                \/ PartialBook(x, ev, quote)
                \/ \E gap \in Gaps : FullBook(x, ev, quote, gap)
    BY <1>3, UpdateInputs
  <2> ev \in Int
    OBVIOUS
  <2>2. CASE RejectedQuote(x, ev)
    <3>1. \A c \in Configs : StepOf(c)
      BY <2>2, StillStep DEF RejectedQuote
    <3> QED BY <2>2, <3>1 DEF RejectedQuote, fleetVars, FleetInv, BookInv
  <2>3. ASSUME NEW quote \in QuotesOf(x, ev + m), PartialBook(x, ev, quote)
        PROVE  /\ BookInv' /\ runId' \in RunIds /\ disabled' \subseteq Configs
               /\ active' = Cardinality(Configs \ disabled') /\ \A c \in Configs : StepOf(c)
    <3>1. \A c \in Configs : StepOf(c)
      BY <2>3, PartialStep
    <3>2. BookInv'
      BY <2>1, <2>3, BookStep DEF PartialBook, FleetInv
    <3> QED BY <2>3, <3>1, <3>2 DEF PartialBook, fleetVars, FleetInv
  <2>4. ASSUME NEW quote \in QuotesOf(x, ev + m), NEW gap \in Gaps, FullBook(x, ev, quote, gap)
        PROVE  /\ BookInv' /\ runId' \in RunIds /\ disabled' \subseteq Configs
               /\ active' = Cardinality(Configs \ disabled') /\ \A c \in Configs : StepOf(c)
    <3>1. \A c \in Configs : StepOf(c)
      BY <2>4, ConfigTick DEF FullBook, StepOf
    <3>2. BookInv'
      BY <2>4, BookStep DEF FullBook, FleetInv
    <3>3. disabled' \subseteq Configs /\ active' = Cardinality(Configs \ disabled')
      BY <2>4, PruneCount DEF FullBook
    <3> QED BY <2>4, <3>1, <3>2, <3>3 DEF FullBook, FleetInv
  <2> QED BY <2>1, <2>2, <2>3, <2>4
<1> QED BY <1>1, <1>2, <1>3 DEF Next

(* The inductive invariant of the fleet: what was reported ends with the   *)
(* deque, each trader has its order or its position of the run of its last *)
(* entry, and the configs that are not disabled are counted.               *)
THEOREM FleetCorrect == Spec => []FleetInv
<1>1. FleetInv /\ [Next]_vars => FleetInv'
  BY FleetStep
<1> QED BY FleetInit, <1>1, PTL DEF Spec

(* No trader has a position and an order at once, its order is an entry or *)
(* an exit (on_tick), and the run ids are as many as the closed trades     *)
(* that trim_completed leaves.                                             *)
THEOREM FleetTypeCorrect == Spec => []TypeOK
<1>1. FleetInv => TypeOK
  <2> SUFFICES ASSUME FleetInv, NEW c \in Configs
               PROVE  /\ traders[c].position = None \/ traders[c].pending = None
                      /\ OrderOK(traders[c])
                      /\ Len(traders[c].runIds) = Len(traders[c].completed)
                      /\ lastSession[c] \in Nat /\ decided[c] \in RunIds
    BY DEF FleetInv, TypeOK
  <2>1. IsTrader(traders[c]) /\ lastSession[c] = traders[c].session /\ decided[c] \in RunIds
    BY DEF FleetInv, TraderInv
  <2>2. OrderOK(traders[c])
    BY <2>1 DEF IsTrader, OrderOK, IsEntry, IsExit, IsPosition
  <2> QED BY <2>1, <2>2 DEF IsTrader, IsBook
<1> QED BY <1>1, FleetCorrect, PTL

(* The natural key of a trade: no two trades of a config are entered at    *)
(* once, when the cooldown outlasts twice the freshness and what the gate  *)
(* clock's offset may change.                                              *)
THEOREM KeysDiffer == Spec => []NaturalKeysDiffer
<1>1. FleetInv => NaturalKeysDiffer
  <2> SUFFICES ASSUME FleetInv, NEW c \in Configs, Outlasts(Config(c)),
                      NEW i \in 1 .. Len(reported[c]), NEW j \in 1 .. Len(reported[c]), i # j
               PROVE  reported[c][i].entry # reported[c][j].entry
    BY DEF NaturalKeysDiffer
  <2>1. /\ reported[c] \in Seq(Reports)
        /\ KeysGrow(Config(c), traders[c], reported[c], eventTs["gate"])
    BY DEF FleetInv, TraderInv
  <2>2. reported[c][i].entry \in Int /\ reported[c][j].entry \in Int
    BY <2>1, ReportTypes
  <2>3. i < j \/ j < i
    OBVIOUS
  <2> QED BY <2>1, <2>2, <2>3 DEF KeysGrow
<1> QED BY <1>1, FleetCorrect, PTL

(* A trade is reported under the run that was current when it was entered, *)
(* however many times set_run_id was called before its close.              *)
THEOREM RunsReported == Spec => ReportedUnderEntryRun
<1>1. FleetInv /\ [Next]_vars =>
        [\A c \in Configs : Len(reported'[c]) > Len(reported[c]) =>
           reported'[c][Len(reported'[c])].run = decided[c]]_vars
  BY FleetStep DEF StepOf
<1> QED BY <1>1, FleetCorrect, PTL DEF Spec, ReportedUnderEntryRun

(* max_hold: after a fresh tick no position of an enabled config is older  *)
(* than its config allows.                                                 *)
THEOREM HoldsEnd == Spec => NoPositionOutlivesItsHold
<1> DEFINE Ends ==
      \A x \in Exchanges, c \in Configs \ disabled :
        /\ quotes'[x] # quotes[x] /\ \A y \in Exchanges : quotes'[y] # None
        /\ IsFresh(Config(c), quotes'[x].ts, quotes'["gate"])
        /\ traders'[c].position # None
        => quotes'[x].ts - traders'[c].position.entry < Config(c).maxHold
<1>1. FleetInv /\ [Next]_vars => [Ends]_vars
  <2> SUFFICES ASSUME FleetInv, Next, NEW x \in Exchanges, NEW c \in Configs \ disabled,
                      quotes'[x] # quotes[x], \A y \in Exchanges : quotes'[y] # None,
                      IsFresh(Config(c), quotes'[x].ts, quotes'["gate"]),
                      traders'[c].position # None
               PROVE  quotes'[x].ts - traders'[c].position.entry < Config(c).maxHold
    OBVIOUS
  <2>1. PICK z \in Exchanges : Update(z)
    BY DEF Next, SetRunId
  <2>2. PICK ev \in 1 .. MaxTs, m \in Offsets :
           \/ RejectedQuote(z, ev)
           \/ \E quote \in QuotesOf(z, ev + m) :
                \/ PartialBook(z, ev, quote)
                \/ \E gap \in Gaps : FullBook(z, ev, quote, gap)
    BY <2>1, UpdateInputs
  <2> ev \in Int
    OBVIOUS
  <2>3. ~RejectedQuote(z, ev)
    BY DEF RejectedQuote
  <2>4. PICK quote \in QuotesOf(z, ev + m) :
           \/ PartialBook(z, ev, quote)
           \/ \E gap \in Gaps : FullBook(z, ev, quote, gap)
    BY <2>2, <2>3
  <2>5. quotes'[z] = quote /\ (\A y \in Exchanges \ {z} : quotes'[y] = quotes[y])
    BY <2>4, BookStep DEF FleetInv, PartialBook, FullBook
  <2>6. x = z
    BY <2>5
  <2>7. ~PartialBook(z, ev, quote)
    BY <2>5 DEF PartialBook
  <2>8. PICK gap \in Gaps : FullBook(z, ev, quote, gap)
    BY <2>4, <2>7
  <2>9. Accepts(z, ev)
    BY <2>8 DEF FullBook
  <2> QED BY <2>5, <2>6, <2>8, <2>9, ConfigTick
<1> QED BY <1>1, FleetCorrect, PTL DEF Spec, NoPositionOutlivesItsHold

-----------------------------------------------------------------------------
(* Portfolio.                                                              *)

(* A snapshot has what the runtime has now.                                *)
Current(snapshot) ==
  snapshot.guards = guards /\ snapshot.assignment = assignment /\ snapshot.paper = paper

(* The worker's snapshot, while it is on its way.                          *)
WorkerHolds ==
  workerSnapshot # NoSnapshot =>
    /\ workerPc = "send" /\ workerSnapshot.by = "worker"
    /\ newest = "worker" => Current(workerSnapshot)

SchedHolds ==
  schedPc = "send" =>
    schedSnapshot.by = "scheduler" /\ (newest = "scheduler" => Current(schedSnapshot))

(* What is persisted is current unless a newer snapshot is on its way.     *)
PersistedOrHeld ==
  db.snapshot.by = newest =>
    \/ Current(db.snapshot)
    \/ newest = "worker" /\ workerSnapshot # NoSnapshot
    \/ newest = "scheduler" /\ schedPc = "send"

(* The inductive invariant.                                               *)
SnapshotInv ==
  /\ "snapshot" \in DOMAIN db /\ db.snapshot.by \in {"none", "worker", "scheduler"}
  /\ newest \in {"none", "worker", "scheduler", "fresh start"}
  /\ workerPc \in {"idle", "record", "send"}
  /\ workerPc # "send" => workerSnapshot = NoSnapshot
  /\ WorkerHolds /\ SchedHolds /\ PersistedOrHeld

LEMMA SnapshotInit == PortfolioInit => SnapshotInv
BY DEF PortfolioInit, SnapshotInv, WorkerHolds, SchedHolds, PersistedOrHeld, Current, NoSnapshot

LEMMA SnapshotStep == SnapshotInv /\ [PortfolioNext]_portfolioVars => SnapshotInv'
<1> SUFFICES ASSUME SnapshotInv, [PortfolioNext]_portfolioVars PROVE SnapshotInv'
  OBVIOUS
<1> USE DEF SnapshotInv
<1>1. ASSUME UNCHANGED <<runtimeVars, workerVars, schedPc, schedSnapshot, db, newest>>
      PROVE  SnapshotInv'
  BY <1>1 DEF runtimeVars, workerVars, WorkerHolds, SchedHolds, PersistedOrHeld, Current
<1>2. CASE Advance
  BY <1>1, <1>2 DEF Advance, schedVars, histVars
<1>3. ASSUME NEW s \in Symbols, NEW trades, WorkerObserve(s, trades) PROVE SnapshotInv'
  BY <1>3 DEF WorkerObserve, runtimeVars, schedVars, WorkerHolds, SchedHolds, PersistedOrHeld, Current
<1>4. ASSUME NEW s \in Symbols, Prune(s) PROVE SnapshotInv'
  BY <1>1, <1>4 DEF Prune, schedVars
<1>5. CASE WorkerRecord
  <2>1. CASE Changes
    <3>1. /\ workerSnapshot' = Snapshot("worker", Last(Mine(drained)).ts) /\ newest' = "worker"
          /\ workerPc' = "send" /\ UNCHANGED <<schedVars, db>>
      BY <1>5, <2>1 DEF WorkerRecord
    <3>2. workerSnapshot'.by = "worker" /\ Current(workerSnapshot)'
      BY <3>1 DEF Snapshot, Current
    <3>3. workerSnapshot' # NoSnapshot
      <4>1. NoSnapshot.by = "none"
        BY DEF NoSnapshot
      <4> QED BY <3>2, <4>1
    <3> QED BY <3>1, <3>2, <3>3 DEF schedVars, WorkerHolds, SchedHolds, PersistedOrHeld
  <2>2. CASE ~Changes
    <3>1. /\ UNCHANGED <<guards, paper, assignment, workerSnapshot, newest, schedVars, db>>
          /\ workerPc = "record" /\ workerPc' = "send"
      BY <1>5, <2>2 DEF WorkerRecord, Changes
    <3> QED BY <3>1 DEF schedVars, WorkerHolds, SchedHolds, PersistedOrHeld, Current
  <2> QED BY <2>1, <2>2
<1>6. CASE WorkerSend
  <2>1. /\ workerPc' = "idle" /\ workerSnapshot' = NoSnapshot
        /\ UNCHANGED <<guards, assignment, paper, schedVars, newest>>
    BY <1>6 DEF WorkerSend, runtimeVars, histVars
  <2>2. CASE workerSnapshot = NoSnapshot
    <3>1. DOMAIN db' = DOMAIN db /\ db'.snapshot = db.snapshot
      BY <1>6, <2>2 DEF WorkerSend, WithTrades
    <3> QED BY <2>1, <2>2, <3>1 DEF schedVars, WorkerHolds, SchedHolds, PersistedOrHeld, Current
  <2>3. CASE workerSnapshot # NoSnapshot
    <3>1. DOMAIN db' = DOMAIN db /\ db'.snapshot = workerSnapshot
      BY <1>6, <2>3 DEF WorkerSend, WithBoth, WithTrades
    <3> QED BY <2>1, <2>3, <3>1 DEF schedVars, WorkerHolds, SchedHolds, PersistedOrHeld, Current
  <2> QED BY <2>2, <2>3
<1>7. CASE SchedCollect
  BY <1>7 DEF SchedCollect, runtimeVars, workerVars, histVars, WorkerHolds, SchedHolds, PersistedOrHeld, Current
<1>8. CASE SchedAssign
  <2>1. CASE Due(now)
    <3>1. /\ schedSnapshot' = Snapshot("scheduler", now) /\ newest' = "scheduler"
          /\ schedPc' = "send" /\ UNCHANGED <<workerVars, db>>
      BY <1>8, <2>1 DEF SchedAssign
    <3>2. schedSnapshot'.by = "scheduler" /\ Current(schedSnapshot)'
      BY <3>1 DEF Snapshot, Current
    <3> QED BY <3>1, <3>2 DEF workerVars, WorkerHolds, SchedHolds, PersistedOrHeld
  <2>2. CASE ~Due(now)
    <3>1. /\ UNCHANGED <<runtimeVars, schedSnapshot, newest, workerVars, db>>
          /\ schedPc = "assign" /\ schedPc' = "idle"
      BY <1>8, <2>2 DEF SchedAssign
    <3> QED BY <3>1 DEF runtimeVars, workerVars, WorkerHolds, SchedHolds, PersistedOrHeld, Current
  <2> QED BY <2>1, <2>2
<1>9. CASE SchedSend
  <2>1. /\ DOMAIN db' = DOMAIN db /\ db'.snapshot = schedSnapshot
    BY <1>9 DEF SchedSend, WithSnapshot
  <2>2. /\ schedPc = "send" /\ schedPc' = "idle" /\ UNCHANGED <<runtimeVars, workerVars, newest>>
    BY <1>9 DEF SchedSend, histVars
  <2> QED BY <2>1, <2>2 DEF runtimeVars, workerVars, WorkerHolds, SchedHolds, PersistedOrHeld, Current
<1>10. CASE FreshStart
  <2>1. newest' = "fresh start" /\ UNCHANGED <<workerVars, schedVars, db>>
    BY <1>10 DEF FreshStart
  <2> QED BY <2>1 DEF workerVars, schedVars, WorkerHolds, SchedHolds, PersistedOrHeld
<1>11. CASE Restart
  <2>1. /\ guards' = db.snapshot.guards /\ assignment' = db.snapshot.assignment
        /\ paper' = db.snapshot.paper /\ newest' = db.snapshot.by /\ UNCHANGED db
        /\ workerPc' = "idle" /\ workerSnapshot' = NoSnapshot /\ schedPc' = "idle"
    BY <1>11 DEF Restart, Loaded
  <2> QED BY <2>1 DEF WorkerHolds, SchedHolds, PersistedOrHeld, Current
<1>12. CASE UNCHANGED portfolioVars
  BY <1>1, <1>12 DEF portfolioVars, schedVars, histVars
<1> QED BY <1>2, <1>3, <1>4, <1>5, <1>6, <1>7, <1>8, <1>9, <1>10, <1>11, <1>12 DEF PortfolioNext

(* Once the snapshots that were taken are persisted in their order, the    *)
(* database has the runtime's guards, assignment and paper money, so that  *)
(* a restart loses none of them.                                           *)
THEOREM SnapshotsSettle == PortfolioSpec => []SettledIsDurable
<1>1. SnapshotInv => SettledIsDurable
  BY DEF SnapshotInv, PersistedOrHeld, Current, SettledIsDurable
<1>2. SnapshotInv /\ [PortfolioNext]_portfolioVars => SnapshotInv'
  BY SnapshotStep
<1> QED BY SnapshotInit, <1>1, <1>2, PTL DEF PortfolioSpec

-----------------------------------------------------------------------------
(* The policies (ShadowFleet): sums that decay.                            *)

(* The runs of the sum of the first n values of v.                         *)
Sums(runs, v, n) ==
  /\ runs[0] = 0 /\ \A k \in 0 .. n : runs[k] \in Int
  /\ \A k \in 1 .. n : runs[k] = runs[k - 1] + v[k]

Timed(r) == r \in Seq(Reports) /\ \A i \in 1 .. Len(r) : r[i].ts \in Times

IsWindow(w) == {"last", "trades", "stops", "pnl"} \subseteq DOMAIN w

(* A policy holds what is left of the weight of each reported trade, and   *)
(* the latest time of any.                                                 *)
PolicyOf(w, r) ==
  /\ IsWindow(w) /\ Timed(r)
  /\ w.trades = Weighed(r) /\ w.trades \in Nat /\ w.trades <= Len(r) * Unit
  /\ w.last = IF Len(r) = 0 THEN None ELSE [kind |-> "ts", at |-> Clock(r, Len(r))]

PolicyInv == FleetInv /\ \A c \in Configs : PolicyOf(policy[c], reported[c])

LEMMA TimesAreIntegers == Times \subseteq Int /\ MaxTs \in Nat /\ 1 .. MaxTs \subseteq Times
BY FleetAssumption, DecayAssumption DEF Times

(* The clock is the time of a trade observed so far, and none is later.    *)
LEMMA ClockIsLatest ==
  ASSUME NEW r, Timed(r), NEW k \in 1 .. Len(r)
  PROVE  /\ Clock(r, k) \in Times
         /\ \E m \in 1 .. k : Clock(r, k) = r[m].ts
         /\ \A j \in 1 .. k : r[j].ts <= Clock(r, k)
<1> DEFINE G == {n \in 0 .. Len(r) : n # 0 => \E m \in 1 .. n : \A j \in 1 .. n : r[j].ts <= r[m].ts}
<1>1. Len(r) \in Nat /\ \A i \in 1 .. Len(r) : r[i].ts \in Times /\ r[i].ts \in Int
  <2>1. r \in Seq(Reports) /\ \A i \in 1 .. Len(r) : r[i].ts \in Times
    BY DEF Timed
  <2>2. Len(r) \in Nat
    BY <2>1
  <2> QED BY Zenon, <2>1, <2>2, TimesAreIntegers
<1>2. ASSUME NEW n \in 1 .. Len(r), n - 1 \in G PROVE n \in G
  <2>1. CASE n = 1
    BY <1>1, <2>1
  <2>2. CASE n # 1
    <3>1. PICK m \in 1 .. n - 1 : \A j \in 1 .. n - 1 : r[j].ts <= r[m].ts
      BY <1>2, <2>2
    <3>2. CASE r[n].ts <= r[m].ts
      <4>1. m \in 1 .. n /\ \A j \in 1 .. n : r[j].ts <= r[m].ts
        BY <3>1, <3>2
      <4> QED BY <4>1
    <3>3. CASE ~(r[n].ts <= r[m].ts)
      <4>1. \A j \in 1 .. n : r[j].ts \in Int
        BY <1>1
      <4>2. \A j \in 1 .. n : r[j].ts <= r[n].ts
        BY <3>1, <3>3, <4>1
      <4> QED BY <4>2
    <3> QED BY <3>2, <3>3
  <2> QED BY <2>1, <2>2
<1>3. \A n \in 0 .. Len(r) : n \in G
  <2>1. 0 \in G /\ G \in SUBSET (0 .. Len(r))
    BY <1>1
  <2> HIDE DEF G
  <2> QED BY <1>1, <1>2, <2>1, IntervalInduction
<1>4. PICK m \in 1 .. k : \A j \in 1 .. k : r[j].ts <= r[m].ts
  <2>1. k \in G
    BY <1>1, <1>3
  <2> QED BY <2>1
<1>5. Clock(r, k) = r[m].ts
  <2> DEFINE S == {r[i].ts : i \in 1 .. k}
  <2>1. S \in SUBSET Int /\ r[m].ts \in S /\ \A x \in S : x <= r[m].ts
    BY <1>1, <1>4
  <2>2. Clock(r, k) = Max(S)
    BY DEF Clock
  <2> HIDE DEF S
  <2> QED BY <2>1, <2>2, GreatestIsMax
<1> QED BY <1>1, <1>4, <1>5

LEMMA ClockGrows ==
  ASSUME NEW r, Timed(r), NEW k \in 1 .. Len(r), NEW n \in k .. Len(r)
  PROVE  Clock(r, k) <= Clock(r, n)
<1>1. Len(r) \in Nat /\ n \in 1 .. Len(r)
  BY DEF Timed
<1>2. PICK m \in 1 .. k : Clock(r, k) = r[m].ts
  BY ClockIsLatest
<1>3. m \in 1 .. n
  OBVIOUS
<1> QED BY <1>1, <1>2, <1>3, ClockIsLatest

LEMMA ClockAppends ==
  ASSUME NEW r, Timed(r), NEW e \in Reports, e.ts \in Times, NEW s, s = Append(r, e)
  PROVE  /\ Timed(s) /\ Len(s) = Len(r) + 1
         /\ \A k \in 1 .. Len(r) : Clock(s, k) = Clock(r, k)
         /\ Clock(s, Len(s)) = IF Len(r) = 0 THEN e.ts ELSE Larger(Clock(r, Len(r)), e.ts)
<1> DEFINE n == Len(r)
<1>1. /\ n \in Nat /\ Len(s) = n + 1 /\ s \in Seq(Reports) /\ s[n + 1] = e
      /\ \A i \in 1 .. n : s[i] = r[i]
  BY DEF Timed
<1>2. Timed(s)
  <2> SUFFICES ASSUME NEW i \in 1 .. n + 1 PROVE s[i].ts \in Times
    BY <1>1 DEF Timed
  <2>1. i \in 1 .. n \/ i = n + 1
    BY <1>1
  <2> QED BY <1>1, <2>1 DEF Timed
<1>3. ASSUME NEW k \in 1 .. n PROVE Clock(s, k) = Clock(r, k)
  <2>1. {s[i].ts : i \in 1 .. k} = {r[i].ts : i \in 1 .. k}
    <3>1. \A i \in 1 .. k : s[i] = r[i]
      BY <1>1
    <3> QED BY <3>1
  <2> QED BY <2>1 DEF Clock
<1>4. Clock(s, n + 1) = IF n = 0 THEN e.ts ELSE Larger(Clock(r, n), e.ts)
  <2>1. /\ Clock(s, n + 1) \in Times /\ \E m \in 1 .. n + 1 : Clock(s, n + 1) = s[m].ts
        /\ \A j \in 1 .. n + 1 : s[j].ts <= Clock(s, n + 1)
    <3>1. n + 1 \in 1 .. Len(s)
      BY <1>1
    <3> QED BY <1>2, <3>1, ClockIsLatest
  <2>2. e.ts <= Clock(s, n + 1) /\ Clock(s, n + 1) \in Int /\ e.ts \in Int
    <3>1. n + 1 \in 1 .. n + 1
      BY <1>1
    <3> QED BY <1>1, <2>1, <3>1, TimesAreIntegers
  <2>3. PICK m \in 1 .. n + 1 : Clock(s, n + 1) = s[m].ts
    BY <2>1
  <2>4. CASE n = 0
    <3>1. m = n + 1
      BY <2>4
    <3> QED BY <1>1, <2>3, <2>4, <3>1
  <2>5. CASE n # 0
    <3>1. n \in 1 .. n /\ n \in 1 .. Len(r)
      BY <1>1, <2>5
    <3>2. /\ Clock(r, n) \in Int /\ \E i \in 1 .. n : Clock(r, n) = r[i].ts
          /\ \A j \in 1 .. n : r[j].ts <= Clock(r, n)
      BY <3>1, ClockIsLatest, TimesAreIntegers
    <3>3. Clock(r, n) <= Clock(s, n + 1)
      <4>1. PICK i \in 1 .. n : Clock(r, n) = r[i].ts
        BY <3>2
      <4>2. i \in 1 .. n + 1 /\ s[i] = r[i]
        BY <1>1
      <4> QED BY <2>1, <4>1, <4>2
    <3>4. Clock(s, n + 1) <= Clock(r, n) \/ Clock(s, n + 1) = e.ts
      <4>1. m \in 1 .. n \/ m = n + 1
        BY <1>1
      <4> QED BY <1>1, <2>3, <3>2, <4>1
    <3> DEFINE new == Clock(s, n + 1)
               old == Clock(r, n)
    <3>5. new \in Int /\ old \in Int /\ e.ts \in Int /\ e.ts <= new /\ old <= new
          /\ (new <= old \/ new = e.ts)
      BY <2>2, <3>2, <3>3, <3>4
    <3> HIDE DEF new, old
    <3>6. new = Larger(old, e.ts)
      BY <3>5 DEF Larger
    <3> QED BY <2>5, <3>6 DEF new, old
  <2> QED BY <2>4, <2>5
<1> QED BY <1>1, <1>2, <1>3, <1>4

(* A weight is a sum, one addition for each trade.                         *)
LEMMA WeighedSums ==
  ASSUME NEW r \in Seq(Reports), \A i \in 1 .. Len(r) : Left(r, i) \in Nat
  PROVE  \E runs : Sums(runs, [i \in 1 .. Len(r) |-> Left(r, i)], Len(r)) /\ Weighed(r) = runs[Len(r)]
<1> DEFINE seq == [i \in 1 .. Len(r) |-> i]
           Step(x, y) == x + Left(r, y)
           n == Len(seq)
           T == Int
           base == 0
           step == [k \in 1 .. n |-> [x \in T |-> Step(x, seq[k])]]
           Unrolls(it) == it = [s \in SUBSET (DOMAIN seq) |->
                              IF s = {} THEN base ELSE Step(it[s \ {Max(s)}], seq[Max(s)])]
           it == CHOOSE f : Unrolls(f)
<1>1. n \in Nat /\ DOMAIN seq = 1 .. n /\ n = Len(r) /\ \A i \in 1 .. n : seq[i] = i /\ Left(r, i) \in Nat
  OBVIOUS
<1>2. base \in T
  OBVIOUS
<1>3. ASSUME NEW k \in 1 .. n, NEW x \in T PROVE Step(x, seq[k]) \in T
  BY <1>1
<1>4. Weighed(r) = it[1 .. n]
  BY <1>1 DEF Weighed, FoldLeft, MapThenFoldSet
<1> HIDE DEF Step, T, base
<1>5. PICK f \in [SUBSET (1 .. n) -> T] : Folds(f, n, base, step)
  <2>1. step \in [1 .. n -> [T -> T]]
    BY <1>3
  <2> HIDE DEF step, n
  <2> QED BY <1>1, <1>2, <2>1, FoldRuns
<1>6. Unrolls(it)
  <2>1. ASSUME NEW s \in SUBSET (1 .. n), s # {}
        PROVE  step[Max(s)][f[s \ {Max(s)}]] = Step(f[s \ {Max(s)}], seq[Max(s)])
    <3>1. s \in SUBSET (0 .. n)
      BY <1>1
    <3>2. Max(s) \in 1 .. n
      BY <1>1, <2>1, <3>1, LastPosition
    <3> QED BY <3>2
  <2> HIDE DEF step, n
  <2>2. Unrolls(f)
    BY <1>1, <1>5, <2>1 DEF Folds
  <2> HIDE DEF Unrolls
  <2> QED BY <2>2
<1> HIDE DEF it
<1>7. it[1 .. 0] = base /\ \A k \in 1 .. n : it[1 .. k] = Step(it[1 .. k - 1], seq[k])
  <2>1. it[1 .. 0] = base
    BY <1>1, <1>6
  <2> SUFFICES ASSUME NEW k \in 1 .. n PROVE it[1 .. k] = Step(it[1 .. k - 1], seq[k])
    BY <2>1
  <2>2. 1 .. k \in SUBSET (1 .. n) /\ 1 .. k # {} /\ Max(1 .. k) = k /\ (1 .. k) \ {k} = 1 .. k - 1
    BY <1>1, Prefix
  <2> HIDE DEF n
  <2> QED BY <1>1, <1>6, <2>2
<1>8. \A k \in 0 .. n : it[1 .. k] \in T
  <2> DEFINE runs == [k \in 0 .. n |-> it[1 .. k]]
  <2>1. runs[0] \in T /\ \A k \in 1 .. n : runs[k - 1] \in T => runs[k] \in T
    <3> HIDE DEF n
    <3> QED BY <1>1, <1>2, <1>3, <1>7
  <2>2. \A k \in 0 .. n : runs[k] \in T
    <3> HIDE DEF runs, n
    <3> QED BY <1>1, <2>1, RunsTyped
  <2> QED BY <2>2
<1> DEFINE sums == [k \in 0 .. n |-> it[1 .. k]]
<1>9. sums[0] = 0 /\ sums[n] = it[1 .. n] /\ \A k \in 0 .. n : sums[k] \in Int
  <2> HIDE DEF n
  <2> QED BY <1>1, <1>7, <1>8 DEF T, base
<1>10. ASSUME NEW k \in 1 .. n PROVE sums[k] = sums[k - 1] + Left(r, k)
  <2>1. seq[k] = k
    BY <1>1 DEF seq
  <2> HIDE DEF n
  <2> QED BY <1>1, <1>7, <2>1 DEF Step
<1>11. n = Len(r)
  BY <1>1
<1> HIDE DEF sums, n
<1>12. Sums(sums, [i \in 1 .. n |-> Left(r, i)], n)
  BY <1>1, <1>9, <1>10 DEF Sums
<1> QED BY <1>4, <1>9, <1>11, <1>12

(* Sums scale and are bounded by what their values are.                    *)
LEMMA SumsScale ==
  ASSUME NEW n \in Nat, NEW D \in Nat, NEW v, NEW w, NEW f, NEW g, Sums(f, v, n), Sums(g, w, n),
         \A i \in 1 .. n : w[i] \in Int /\ v[i] = D * w[i]
  PROVE  f[n] = D * g[n]
<1> DEFINE G == {k \in 0 .. n : f[k] = D * g[k]}
<1>1. 0 \in G /\ G \in SUBSET (0 .. n)
  BY DEF Sums
<1>2. ASSUME NEW k \in 1 .. n, k - 1 \in G PROVE k \in G
  <2>1. f[k] = f[k - 1] + D * w[k] /\ g[k] = g[k - 1] + w[k] /\ f[k - 1] = D * g[k - 1]
    BY <1>2 DEF Sums
  <2>2. g[k - 1] \in Int /\ w[k] \in Int
    BY DEF Sums
  <2>3. \A a, b \in Int : D * (a + b) = D * a + D * b
    OBVIOUS
  <2> QED BY <2>1, <2>2, <2>3
<1>3. \A k \in 0 .. n : k \in G
  <2> HIDE DEF G
  <2> QED BY <1>1, <1>2, IntervalInduction
<1> QED BY <1>3

(* What decayed twice decayed by both.                                     *)
LEMMA DividesTwice ==
  ASSUME NEW U \in Nat, NEW D \in Nat \ {0}, NEW S \in Nat \ {0}, NEW F, F = D * S, F \in Nat \ {0},
         U % F = 0
  PROVE  U \div S = D * (U \div F)
<1> DEFINE q == U \div F
<1>1. q \in Int /\ U = F * q
  OBVIOUS
<1> HIDE DEF q
<1>2. U = S * (D * q) /\ D * q \in Int
  BY <1>1
<1>3. \A p \in Int : (S * p) \div S = p
  OBVIOUS
<1> QED BY <1>2, <1>3 DEF q

LEMMA LeftIsPart ==
  ASSUME NEW r, Timed(r), NEW i \in 1 .. Len(r)
  PROVE  Left(r, i) \in Nat
<1>1. Len(r) \in 1 .. Len(r) /\ Len(r) \in i .. Len(r)
  BY DEF Timed
<1>2. /\ Clock(r, Len(r)) \in Times /\ Clock(r, i) \in Times
      /\ Clock(r, i) <= Clock(r, Len(r))
  BY <1>1, ClockIsLatest, ClockGrows
<1>3. Shrink(Clock(r, Len(r)) - Clock(r, i)) \in Nat \ {0} /\ Unit \in Nat
  BY <1>2, DecayAssumption
<1> QED BY <1>3 DEF Left

(* A trade reported at a later time divides the weight of those before by  *)
(* what the time between shrinks it by, and a late one leaves it.          *)
LEMMA WeighedAppends ==
  ASSUME NEW r, Timed(r), Len(r) > 0, NEW e \in Reports, e.ts \in Times, NEW s, s = Append(r, e),
         NEW D, D = Shrink(Clock(s, Len(s)) - Clock(r, Len(r)))
  PROVE  Weighed(s) = (Weighed(r) \div D) + Unit /\ Weighed(r) \in Int /\ D \in Nat \ {0}
<1> DEFINE n == Len(r)
           V == [i \in 1 .. Len(r) |-> Left(r, i)]
           W == [i \in 1 .. Len(s) |-> Left(s, i)]
<1>1. n \in Nat \ {0} /\ r \in Seq(Reports) /\ s \in Seq(Reports) /\ Len(s) = n + 1
  BY DEF Timed
<1>2. /\ Timed(s) /\ \A k \in 1 .. n : Clock(s, k) = Clock(r, k)
  BY ClockAppends
<1>3. PICK f : Sums(f, V, n) /\ Weighed(r) = f[n]
  <2>1. \A i \in 1 .. Len(r) : Left(r, i) \in Nat
    BY LeftIsPart
  <2> QED BY <1>1, <2>1, WeighedSums
<1>4. PICK g : Sums(g, W, n + 1) /\ Weighed(s) = g[n + 1]
  <2>1. \A i \in 1 .. Len(s) : Left(s, i) \in Nat
    BY <1>2, LeftIsPart
  <2>2. \E h : Sums(h, W, Len(s)) /\ Weighed(s) = h[Len(s)]
    BY <1>1, <2>1, WeighedSums
  <2> QED BY <1>1, <2>2
<1> DEFINE P == Clock(r, n)
           Q == Clock(s, n + 1)
<1>5. P \in Times /\ Q \in Times /\ P <= Q /\ D = Shrink(Q - P) /\ D \in Nat \ {0}
  <2>1. n \in 1 .. n /\ n \in 1 .. Len(s) /\ n + 1 \in n .. Len(s) /\ n + 1 \in 1 .. Len(s)
    BY <1>1
  <2>2. P \in Times /\ Q \in Times /\ P <= Q
    BY <1>2, <2>1, ClockIsLatest, ClockGrows
  <2>3. D = Shrink(Q - P)
    BY <1>1
  <2> HIDE DEF P, Q
  <2> QED BY <2>2, <2>3, DecayAssumption
<1>6. ASSUME NEW i \in 1 .. n PROVE Left(r, i) = D * Left(s, i)
  <2> DEFINE p == Clock(r, i)
  <2>1. p \in Times /\ p <= P /\ Clock(s, i) = p
    <3>1. i \in 1 .. Len(r) /\ n \in i .. Len(r)
      BY <1>1
    <3> QED BY <1>2, <3>1, ClockIsLatest, ClockGrows
  <2>2. Left(r, i) = Unit \div Shrink(P - p) /\ Left(s, i) = Unit \div Shrink(Q - p)
    <3>1. Left(s, i) = Unit \div Shrink(Q - Clock(s, i))
      BY <1>1 DEF Left
    <3> QED BY <2>1, <3>1 DEF Left
  <2> HIDE DEF p, P, Q
  <2>3. /\ Shrink(P - p) \in Nat \ {0} /\ Shrink(Q - p) = D * Shrink(P - p)
        /\ Shrink(Q - p) \in Nat \ {0} /\ Unit % Shrink(Q - p) = 0
    <3>1. p <= Q
      BY <1>5, <2>1, TimesAreIntegers
    <3> QED BY <1>5, <2>1, <3>1, DecayAssumption
  <2>4. Unit \in Nat
    BY DecayAssumption
  <2> QED BY <1>5, <2>2, <2>3, <2>4, DividesTwice
<1>7. Left(s, n + 1) = Unit
  <2>1. Left(s, n + 1) = Unit \div Shrink(Q - Q) /\ Q \in Int
    BY <1>1, <1>5, TimesAreIntegers DEF Left
  <2>2. Q - Q = 0
    BY <2>1
  <2>3. Shrink(0) = 1 /\ Unit \in Nat
    BY DecayAssumption
  <2> HIDE DEF Q
  <2> QED BY <2>1, <2>2, <2>3
<1>8. f[n] = D * g[n]
  <2>1. Sums(g, W, n)
    BY <1>1, <1>4 DEF Sums
  <2>2. ASSUME NEW i \in 1 .. n PROVE W[i] \in Int /\ V[i] = D * W[i]
    <3>1. W[i] = Left(s, i) /\ V[i] = Left(r, i) /\ i \in 1 .. Len(s)
      BY <1>1
    <3>2. Left(s, i) \in Nat /\ Left(r, i) = D * Left(s, i)
      BY <1>2, <1>6, <3>1, LeftIsPart
    <3> HIDE DEF V, W
    <3> QED BY <3>1, <3>2
  <2> HIDE DEF V, W, n
  <2> QED BY <1>1, <1>3, <1>5, <2>1, <2>2, SumsScale
<1>9. g[n + 1] = g[n] + Unit /\ g[n] \in Int
  <2>1. W[n + 1] = Unit /\ n + 1 \in 1 .. n + 1 /\ n \in 0 .. n + 1 /\ (n + 1) - 1 = n
    BY <1>1, <1>7
  <2> HIDE DEF V, W, n
  <2> QED BY <1>4, <2>1 DEF Sums
<1>10. (D * g[n]) \div D = g[n]
  <2>1. \A p \in Int : (D * p) \div D = p
    BY <1>5
  <2> QED BY <1>9, <2>1
<1> QED BY <1>3, <1>4, <1>5, <1>8, <1>9, <1>10

LEMMA WeighedFirst ==
  ASSUME NEW r, Timed(r)
  PROVE  /\ Len(r) = 0 => Weighed(r) = 0
         /\ Len(r) = 1 => Weighed(r) = Unit
<1>1. \A i \in 1 .. Len(r) : Left(r, i) \in Nat
  BY LeftIsPart
<1>2. PICK f : Sums(f, [i \in 1 .. Len(r) |-> Left(r, i)], Len(r)) /\ Weighed(r) = f[Len(r)]
  BY <1>1, WeighedSums DEF Timed
<1>3. ASSUME Len(r) = 1 PROVE Weighed(r) = Unit
  <2>1. Clock(r, 1) \in Int
    <3>1. 1 \in 1 .. Len(r)
      BY <1>3
    <3> QED BY <3>1, ClockIsLatest, TimesAreIntegers
  <2>2. Clock(r, 1) - Clock(r, 1) = 0
    BY <2>1
  <2>3. Left(r, 1) = Unit \div Shrink(0)
    BY <1>3, <2>2 DEF Left
  <2>4. Left(r, 1) = Unit /\ Unit \in Nat
    BY <2>3, DecayAssumption
  <2>5. f[1] = f[0] + Left(r, 1) /\ f[0] = 0
    BY <1>2, <1>3 DEF Sums
  <2> QED BY <1>2, <1>3, <2>4, <2>5
<1> QED BY <1>2, <1>3 DEF Sums

LEMMA ObservesOne ==
  ASSUME NEW w, NEW trade
  PROVE  ObserveTrades(w, <<trade>>) = ObserveTrade(w, trade)
<1> DEFINE Unrolls(it) == it = [s \in SUBSET (DOMAIN <<trade>>) |->
                              IF s = {} THEN w ELSE ObserveTrade(it[s \ {Max(s)}], <<trade>>[Max(s)])]
           it == CHOOSE f : Unrolls(f)
           g == [s \in SUBSET (DOMAIN <<trade>>) |-> IF s = {} THEN w ELSE ObserveTrade(w, trade)]
<1>1. DOMAIN <<trade>> = {1} /\ <<trade>>[1] = trade
  OBVIOUS
<1>2. ObserveTrades(w, <<trade>>) = it[{1}]
  BY <1>1 DEF ObserveTrades, FoldLeft, MapThenFoldSet
<1>3. Max({1}) = 1
  BY GreatestIsMax
<1>4. Unrolls(g)
  <2>1. ASSUME NEW s \in SUBSET (DOMAIN <<trade>>), s # {}
        PROVE  g[s] = ObserveTrade(g[s \ {Max(s)}], <<trade>>[Max(s)])
    <3>1. s = {1} /\ s \ {Max(s)} = {}
      BY <1>1, <1>3, <2>1
    <3>2. g[{}] = w /\ g[s] = ObserveTrade(w, trade)
      BY <1>1, <3>1
    <3> QED BY <1>1, <1>3, <3>1, <3>2
  <2>2. g[{}] = w
    OBVIOUS
  <2> QED BY <2>1, <2>2
<1>5. Unrolls(it)
  <2> HIDE DEF g, Unrolls
  <2> QED BY <1>4
<1> HIDE DEF it
<1>6. it[{}] = w /\ it[{1}] = ObserveTrade(it[{1} \ {Max({1})}], <<trade>>[Max({1})])
  <2>1. {} \in SUBSET (DOMAIN <<trade>>) /\ {1} \in SUBSET (DOMAIN <<trade>>) /\ {1} # {}
    BY <1>1
  <2> QED BY <1>5, <2>1
<1>7. {1} \ {Max({1})} = {}
  BY <1>3
<1> QED BY <1>1, <1>2, <1>3, <1>6, <1>7

(* What a decayed window has.                                              *)
LEMMA Decays ==
  ASSUME NEW w, IsWindow(w), NEW ts \in Int, w.last # None => w.last.at \in Int
  PROVE  /\ IsWindow(DecayTo(w, ts))
         /\ w.last = None => DecayTo(w, ts).last = [kind |-> "ts", at |-> ts]
                            /\ DecayTo(w, ts).trades = w.trades
         /\ w.last # None /\ ts <= w.last.at => DecayTo(w, ts) = w
         /\ w.last # None /\ ts > w.last.at =>
              /\ DecayTo(w, ts).last = [kind |-> "ts", at |-> ts]
              /\ DecayTo(w, ts).trades = w.trades \div Shrink(ts - w.last.at)
<1>1. CASE w.last = None
  <2>1. DecayTo(w, ts) = [w EXCEPT !.last = [kind |-> "ts", at |-> ts]]
    BY <1>1 DEF DecayTo
  <2> QED BY <1>1, <2>1 DEF IsWindow
<1>2. CASE w.last # None /\ ts <= w.last.at
  <2>1. DecayTo(w, ts) = w
    BY <1>2 DEF DecayTo
  <2> QED BY <1>2, <2>1
<1>3. CASE w.last # None /\ ~(ts <= w.last.at)
  <2>1. DecayTo(w, ts) =
          [last |-> [kind |-> "ts", at |-> ts], trades |-> w.trades \div Shrink(ts - w.last.at),
           stops |-> w.stops \div Shrink(ts - w.last.at), pnl |-> w.pnl \div Shrink(ts - w.last.at)]
    BY <1>3 DEF DecayTo
  <2> QED BY <1>3, <2>1 DEF IsWindow
<1> QED BY <1>1, <1>2, <1>3

(* A reported trade is weighed, whatever its time.                         *)
LEMMA PolicyWeighs ==
  ASSUME NEW w, NEW r, PolicyOf(w, r), NEW e \in Reports, e.ts \in Times, NEW trade, trade.ts = e.ts
  PROVE  PolicyOf(ObserveTrades(w, <<trade>>), Append(r, e))
<1> DEFINE s == Append(r, e)
           n == Len(r)
           u == DecayTo(w, trade.ts)
           v == ObserveTrade(w, trade)
           at == [kind |-> "ts", at |-> Clock(s, Len(s))]
<1>1. /\ Timed(r) /\ IsWindow(w) /\ r \in Seq(Reports) /\ n \in Nat
      /\ w.trades = Weighed(r) /\ w.trades \in Nat /\ w.trades <= n * Unit
      /\ w.last = IF n = 0 THEN None ELSE [kind |-> "ts", at |-> Clock(r, n)]
  BY DEF PolicyOf, Timed
<1>2. /\ Timed(s) /\ Len(s) = n + 1 /\ s \in Seq(Reports)
      /\ Clock(s, Len(s)) = IF n = 0 THEN e.ts ELSE Larger(Clock(r, n), e.ts)
  BY <1>1, ClockAppends DEF Timed
<1>3. n # 0 => w.last # None /\ w.last.at = Clock(r, n) /\ Clock(r, n) \in Int
  <2>1. n # 0 => n \in 1 .. Len(r)
    BY <1>1
  <2>2. n # 0 => Clock(r, n) \in Int
    BY <1>1, <2>1, ClockIsLatest, TimesAreIntegers
  <2> QED BY <1>1, <2>2 DEF None
<1>4. e.ts \in Int /\ trade.ts \in Int /\ Unit \in Nat
  BY TimesAreIntegers, DecayAssumption
<1>5. /\ IsWindow(u)
      /\ w.last = None => u.last = [kind |-> "ts", at |-> trade.ts] /\ u.trades = w.trades
      /\ w.last # None /\ trade.ts <= w.last.at => u = w
      /\ w.last # None /\ trade.ts > w.last.at =>
           /\ u.last = [kind |-> "ts", at |-> trade.ts]
           /\ u.trades = w.trades \div Shrink(trade.ts - w.last.at)
  <2>1. w.last # None => w.last.at \in Int
    BY <1>1, <1>3
  <2> QED BY <1>1, <1>4, <2>1, Decays
<1>6. v = [u EXCEPT !.trades = @ + Unit, !.pnl = @ + Unit * trade.pnl,
                    !.stops = @ + (IF trade.reason = "stop_loss" THEN Unit ELSE 0)]
  BY DEF ObserveTrade
<1> HIDE DEF u, v, s, n
<1>7. IsWindow(v) /\ v.trades = u.trades + Unit /\ v.last = u.last
  BY <1>5, <1>6 DEF IsWindow
<1>8. u.last = at
  <2>1. CASE n = 0
    BY <1>1, <1>2, <1>5, <2>1
  <2>2. CASE n # 0 /\ trade.ts <= w.last.at
    <3>1. Clock(s, Len(s)) = Clock(r, n)
      BY <1>2, <1>3, <1>4, <2>2 DEF Larger
    <3> QED BY <1>1, <1>3, <1>5, <2>2, <3>1
  <2>3. CASE n # 0 /\ ~(trade.ts <= w.last.at)
    <3>1. Clock(s, Len(s)) = trade.ts /\ trade.ts > w.last.at
      BY <1>2, <1>3, <1>4, <2>3 DEF Larger
    <3> QED BY <1>3, <1>5, <2>3, <3>1
  <2> QED BY <2>1, <2>2, <2>3
<1>9. u.trades \in Nat /\ u.trades <= w.trades /\ Weighed(s) = u.trades + Unit
  <2>1. CASE n = 0
    <3>1. u.trades = w.trades /\ Weighed(r) = 0 /\ Weighed(s) = Unit
      BY <1>1, <1>2, <1>5, <2>1, WeighedFirst DEF n
    <3> QED BY <1>1, <1>4, <3>1
  <2>2. CASE n # 0
    <3> DEFINE D == Shrink(Clock(s, Len(s)) - Clock(r, n))
    <3>1. Weighed(s) = (Weighed(r) \div D) + Unit /\ D \in Nat \ {0}
      <4>1. Len(r) > 0
        BY <1>1, <2>2 DEF n
      <4> QED BY <1>1, <4>1, WeighedAppends DEF s, n
    <3>2. (w.trades \div D) \in Nat /\ w.trades \div D <= w.trades
      <4> HIDE DEF D
      <4>1. \A a \in Nat, b \in Nat \ {0} : (a \div b) \in Nat /\ a \div b <= a
        OBVIOUS
      <4> QED BY <1>1, <3>1, <4>1
    <3>3. u.trades = w.trades \div D
      <4>1. CASE trade.ts <= w.last.at
        <5>1. Clock(s, Len(s)) = Clock(r, n) /\ u = w
          BY <1>2, <1>3, <1>4, <1>5, <2>2, <4>1 DEF Larger
        <5>2. Clock(s, Len(s)) - Clock(r, n) = 0
          BY <1>3, <2>2, <5>1
        <5>3. D = 1
          BY <5>2, DecayAssumption
        <5> HIDE DEF D
        <5> QED BY <1>1, <5>1, <5>3
      <4>2. CASE ~(trade.ts <= w.last.at)
        <5>1. Clock(s, Len(s)) = trade.ts /\ trade.ts > w.last.at
          BY <1>2, <1>3, <1>4, <2>2, <4>2 DEF Larger
        <5> QED BY <1>3, <1>5, <2>2, <5>1
      <4> QED BY <4>1, <4>2
    <3> HIDE DEF D
    <3> QED BY <1>1, <3>1, <3>2, <3>3
  <2> QED BY <2>1, <2>2
<1>10. v.trades \in Nat /\ v.trades = Weighed(s) /\ v.trades <= Len(s) * Unit
  <2> DEFINE most == n * Unit
  <2>1. (n + 1) * Unit = most + Unit /\ most \in Nat
    BY <1>1, <1>4
  <2>2. Len(s) * Unit = most + Unit
    BY <1>2, <2>1
  <2>3. w.trades <= most
    BY <1>1
  <2> HIDE DEF most
  <2> QED BY <1>1, <1>4, <1>7, <1>9, <2>1, <2>2, <2>3
<1>11. Len(s) # 0
  BY <1>1, <1>2
<1>12. PolicyOf(v, s)
  BY <1>2, <1>7, <1>8, <1>10, <1>11 DEF PolicyOf
<1> QED BY <1>12, ObservesOne DEF v, s

LEMMA PolicyInit == Init => PolicyInv
<1> SUFFICES ASSUME Init, NEW c \in Configs PROVE PolicyOf(policy[c], reported[c])
  BY FleetInit DEF PolicyInv
<1>1. policy[c] = NewWindow /\ reported[c] = <<>>
  BY DEF Init
<1>2. Timed(<<>>) /\ Len(<<>>) = 0
  BY DEF Timed
<1>3. Weighed(<<>>) = 0 /\ Unit \in Nat
  BY <1>2, WeighedFirst, DecayAssumption
<1>4. IsWindow(NewWindow) /\ NewWindow.last = None /\ NewWindow.trades = 0
  BY DEF NewWindow, IsWindow
<1> QED BY <1>1, <1>2, <1>3, <1>4 DEF PolicyOf

(* A step reports nothing of a config, or a trade of a time that there is. *)
LEMMA PolicyTimes ==
  ASSUME FleetInv, [Next]_vars, NEW c \in Configs
  PROVE  \/ reported'[c] = reported[c] /\ policy'[c] = policy[c]
         \/ \E ts \in Times : PolicyStep(c, ts)
<1>1. CASE UNCHANGED vars \/ SetRunId
  BY <1>1 DEF vars, SetRunId, fleetVars
<1>2. ASSUME NEW x \in Exchanges, Update(x)
      PROVE  \/ reported'[c] = reported[c] /\ policy'[c] = policy[c]
             \/ \E ts \in Times : PolicyStep(c, ts)
  <2>1. PICK ev \in 1 .. MaxTs, m \in Offsets :
           \/ RejectedQuote(x, ev)
           \/ \E quote \in QuotesOf(x, ev + m) :
                \/ PartialBook(x, ev, quote)
                \/ \E gap \in Gaps : FullBook(x, ev, quote, gap)
    BY <1>2, UpdateInputs
  <2> ev \in Int
    OBVIOUS
  <2>2. CASE RejectedQuote(x, ev)
    BY <2>2 DEF RejectedQuote, fleetVars
  <2>3. ASSUME NEW quote \in QuotesOf(x, ev + m), PartialBook(x, ev, quote)
        PROVE  reported'[c] = reported[c] /\ policy'[c] = policy[c]
    BY <2>3 DEF PartialBook, fleetVars
  <2>4. ASSUME NEW quote \in QuotesOf(x, ev + m), NEW gap \in Gaps, FullBook(x, ev, quote, gap)
        PROVE  \E ts \in Times : PolicyStep(c, ts)
    <3>1. quote.ts = ev + m
      BY DEF QuotesOf
    <3>2. quote.ts \in Times
      BY <3>1 DEF Times
    <3>3. PolicyStep(c, quote.ts)
      BY <2>4, ConfigTick DEF FullBook
    <3> QED BY <3>2, <3>3
  <2> QED BY <2>1, <2>2, <2>3, <2>4
<1> QED BY <1>1, <1>2 DEF Next

LEMMA PolicyNext == PolicyInv /\ [Next]_vars => PolicyInv'
<1> SUFFICES ASSUME PolicyInv, [Next]_vars, NEW c \in Configs
             PROVE  PolicyOf(policy'[c], reported'[c])
  BY FleetStep DEF PolicyInv
<1>1. PolicyOf(policy[c], reported[c]) /\ FleetInv
  BY DEF PolicyInv
<1>2. CASE reported'[c] = reported[c] /\ policy'[c] = policy[c]
  BY <1>1, <1>2
<1>3. ASSUME NEW ts \in Times, PolicyStep(c, ts)
      PROVE  PolicyOf(policy'[c], reported'[c])
  <2>1. CASE reported'[c] = reported[c] /\ policy'[c] = policy[c]
    BY <1>1, <2>1
  <2>2. ASSUME NEW e \in Reports, NEW trade, e.ts = ts, trade.ts = ts,
               reported'[c] = Append(reported[c], e),
               policy'[c] = ObserveTrades(policy[c], <<trade>>)
        PROVE  PolicyOf(policy'[c], reported'[c])
    <3>1. e.ts \in Times /\ trade.ts = e.ts
      BY <2>2
    <3>2. PolicyOf(ObserveTrades(policy[c], <<trade>>), Append(reported[c], e))
      BY <1>1, <3>1, PolicyWeighs
    <3> QED BY <2>2, <3>2
  <2> QED BY <1>3, <2>1, <2>2 DEF PolicyStep
<1> QED BY <1>1, <1>2, <1>3, PolicyTimes

(* Every close is drained once and weighs once in its config's policy,     *)
(* although tick_all looks for it from the end of a deque that is trimmed, *)
(* and ticks may carry earlier times; and the gate recommends no config on *)
(* fewer closes than it asks for, whatever time it is asked at.            *)
THEOREM ClosesWeighedOnce == Spec => []EveryCloseReported
<1>1. PolicyInv => EveryCloseReported
  <2> SUFFICES ASSUME PolicyInv PROVE EveryCloseReported
    OBVIOUS
  <2>1. DrainedOnce
    BY DEF PolicyInv, FleetInv, TraderInv, EndOf, DrainedOnce
  <2>2. ASSUME NEW c \in Configs PROVE policy[c].trades = Weighed(reported[c])
    BY DEF PolicyInv, PolicyOf
  <2>3. ASSUME NEW c \in Configs, NEW asked \in 1 .. MaxTs, GateReason(policy[c], asked) = "ok"
        PROVE  Len(reported[c]) * Unit >= PolicyMinTrades
    <3> DEFINE w == policy[c]
               r == reported[c]
               n == Len(r)
               m == MetricsAt(w, asked)
    <3>1. PolicyOf(w, r)
      BY DEF PolicyInv
    <3>2. /\ Timed(r) /\ IsWindow(w) /\ n \in Nat /\ w.trades \in Nat /\ w.trades <= n * Unit
          /\ w.last = IF n = 0 THEN None ELSE [kind |-> "ts", at |-> Clock(r, n)]
      BY <3>1 DEF PolicyOf, Timed
    <3>3. asked \in Times /\ asked \in Int /\ PolicyMinTrades \in Nat /\ Unit \in Nat
      BY TimesAreIntegers, DecayAssumption
    <3>4. n # 0 => w.last # None /\ w.last.at = Clock(r, n) /\ Clock(r, n) \in Times
      <4>1. n # 0 => n \in 1 .. Len(r)
        BY <3>2
      <4> QED BY <3>2, <4>1, ClockIsLatest DEF None
    <3> HIDE DEF w, r, n, m
    <3>5. m.trades \in Nat /\ m.trades <= w.trades
      <4>1. w.last # None => w.last.at \in Int /\ w.last.at \in Times
        BY <3>2, <3>4, TimesAreIntegers
      <4>2. m = DecayTo(w, asked)
        BY DEF m, MetricsAt
      <4>3. /\ w.last = None => m.trades = w.trades
            /\ w.last # None /\ asked <= w.last.at => m = w
            /\ w.last # None /\ asked > w.last.at =>
                 m.trades = w.trades \div Shrink(asked - w.last.at)
        <5>1. IsWindow(w) /\ asked \in Int /\ (w.last # None => w.last.at \in Int)
          BY <3>2, <3>3, <4>1
        <5> QED BY <4>2, <5>1, Decays
      <4>4. CASE w.last = None
        BY <3>2, <4>3, <4>4
      <4>5. CASE w.last # None /\ asked <= w.last.at
        BY <3>2, <4>3, <4>5
      <4>6. CASE w.last # None /\ ~(asked <= w.last.at)
        <5> DEFINE D == Shrink(asked - w.last.at)
        <5>1. D \in Nat \ {0}
          BY <3>3, <4>1, <4>6, DecayAssumption
        <5>2. m.trades = w.trades \div D
          <6>1. asked > w.last.at
            BY <3>3, <4>1, <4>6
          <6> QED BY <4>3, <4>6, <6>1
        <5> HIDE DEF D
        <5>3. \A a \in Nat, b \in Nat \ {0} : (a \div b) \in Nat /\ a \div b <= a
          OBVIOUS
        <5> QED BY <3>2, <5>1, <5>2, <5>3
      <4> QED BY <4>4, <4>5, <4>6
    <3>6. ~(m.trades < PolicyMinTrades)
      <4> SUFFICES ASSUME m.trades < PolicyMinTrades PROVE FALSE
        OBVIOUS
      <4>1. ~(m.trades >= PolicyMinTrades)
        BY <3>3, <3>5
      <4>2. GateReason(w, asked) = "min_trades"
        BY <4>1 DEF GateReason, m
      <4> QED BY <2>3, <4>2 DEF w
    <3>7. n * Unit \in Nat
      BY <3>2, <3>3
    <3> QED BY <3>2, <3>3, <3>5, <3>6, <3>7 DEF n, r
  <2> QED BY <2>1, <2>2, <2>3 DEF EveryCloseReported
<1>2. PolicyInv /\ [Next]_vars => PolicyInv'
  BY PolicyNext
<1> QED BY PolicyInit, <1>1, <1>2, PTL DEF Spec

-----------------------------------------------------------------------------
(* The ranking.                                                            *)

(* What the ranking compares: a candidate has trades.                      *)
Ranking == [symbol : Nat, age : Int, closed : Nat \ {0}, won : Nat, lost : Nat, pnl : Int]

(* rank_tuple_cmp is a strict total order on candidates.                   *)
LEMMA RanksStrictly ==
  ASSUME NEW l \in Ranking, NEW r \in Ranking
  PROVE  /\ ~(RanksBefore(l, r) /\ RanksBefore(r, l))
         /\ l.symbol # r.symbol => RanksBefore(l, r) \/ RanksBefore(r, l)
<1> DEFINE a == l.won * r.closed
           b == r.won * l.closed
           c == l.pnl * r.closed
           d == r.pnl * l.closed
<1>1. a \in Int /\ b \in Int /\ c \in Int /\ d \in Int
  BY DEF Ranking
<1>2. /\ l.won \in Int /\ l.lost \in Int /\ l.closed \in Int /\ l.symbol \in Int
      /\ r.won \in Int /\ r.lost \in Int /\ r.closed \in Int /\ r.symbol \in Int
  BY DEF Ranking
<1> DEFINE before(x, y, z, w, p, q) ==
             \/ x - y > 0
             \/ x - y = 0 /\ (p.won - p.lost) - (q.won - q.lost) > 0
             \/ x - y = 0 /\ (p.won - p.lost) - (q.won - q.lost) = 0 /\ z - w > 0
             \/ x - y = 0 /\ (p.won - p.lost) - (q.won - q.lost) = 0 /\ z - w = 0 /\ p.closed > q.closed
             \/ x - y = 0 /\ (p.won - p.lost) - (q.won - q.lost) = 0 /\ z - w = 0
                /\ p.closed = q.closed /\ p.symbol < q.symbol
<1>3. RanksBefore(l, r) <=> before(a, b, c, d, l, r)
  BY DEF RanksBefore
<1>4. RanksBefore(r, l) <=> before(b, a, d, c, r, l)
  BY DEF RanksBefore
<1> HIDE DEF a, b, c, d
<1> QED BY <1>1, <1>2, <1>3, <1>4

LEMMA RanksTransitively ==
  ASSUME NEW l \in Ranking, NEW m \in Ranking, NEW r \in Ranking,
         RanksBefore(l, m), RanksBefore(m, r)
  PROVE  RanksBefore(l, r)
<1> DEFINE lm == l.won * m.closed
           ml == m.won * l.closed
           mr == m.won * r.closed
           rm == r.won * m.closed
           lr == l.won * r.closed
           rl == r.won * l.closed
           Lm == l.pnl * m.closed
           Ml == m.pnl * l.closed
           Mr == m.pnl * r.closed
           Rm == r.pnl * m.closed
           Lr == l.pnl * r.closed
           Rl == r.pnl * l.closed
<1>1. /\ lm \in Int /\ ml \in Int /\ mr \in Int /\ rm \in Int /\ lr \in Int /\ rl \in Int
      /\ Lm \in Int /\ Ml \in Int /\ Mr \in Int /\ Rm \in Int /\ Lr \in Int /\ Rl \in Int
  BY DEF Ranking
<1>2. /\ l.won \in Int /\ l.lost \in Int /\ l.closed \in Nat \ {0} /\ l.symbol \in Int /\ l.pnl \in Int
      /\ m.won \in Int /\ m.lost \in Int /\ m.closed \in Nat \ {0} /\ m.symbol \in Int /\ m.pnl \in Int
      /\ r.won \in Int /\ r.lost \in Int /\ r.closed \in Nat \ {0} /\ r.symbol \in Int /\ r.pnl \in Int
  BY DEF Ranking
<1>3. lm >= ml /\ mr >= rm => lr >= rl /\ (lr = rl => lm = ml /\ mr = rm)
  <2> SUFFICES ASSUME lm >= ml, mr >= rm
               PROVE  lr >= rl /\ (lr = rl => lm = ml /\ mr = rm)
    OBVIOUS
  <2> DEFINE a == l.won
             b == l.closed
             c == m.won
             d == m.closed
             e == r.won
             f == r.closed
  <2>1. /\ a \in Int /\ b \in Nat \ {0} /\ c \in Int /\ d \in Nat \ {0}
        /\ e \in Int /\ f \in Nat \ {0}
    BY <1>2
  <2>2. lm = a * d /\ ml = c * b /\ mr = c * f /\ rm = e * d /\ lr = a * f /\ rl = e * b
    OBVIOUS
  <2> HIDE DEF a, b, c, d, e, f, lm, ml, mr, rm, lr, rl
  <2>3. a * d >= c * b /\ c * f >= e * d
    BY <2>2
  <2>4. a * f >= e * b /\ (a * f = e * b => a * d = c * b /\ c * f = e * d)
    BY <2>1, <2>3, CrosswiseTransitive
  <2> QED BY <2>2, <2>4
<1>4. Lm >= Ml /\ Mr >= Rm => Lr >= Rl /\ (Lr = Rl => Lm = Ml /\ Mr = Rm)
  <2> SUFFICES ASSUME Lm >= Ml, Mr >= Rm
               PROVE  Lr >= Rl /\ (Lr = Rl => Lm = Ml /\ Mr = Rm)
    OBVIOUS
  <2> DEFINE a == l.pnl
             b == l.closed
             c == m.pnl
             d == m.closed
             e == r.pnl
             f == r.closed
  <2>1. /\ a \in Int /\ b \in Nat \ {0} /\ c \in Int /\ d \in Nat \ {0}
        /\ e \in Int /\ f \in Nat \ {0}
    BY <1>2
  <2>2. Lm = a * d /\ Ml = c * b /\ Mr = c * f /\ Rm = e * d /\ Lr = a * f /\ Rl = e * b
    OBVIOUS
  <2> HIDE DEF a, b, c, d, e, f, Lm, Ml, Mr, Rm, Lr, Rl
  <2>3. a * d >= c * b /\ c * f >= e * d
    BY <2>2
  <2>4. a * f >= e * b /\ (a * f = e * b => a * d = c * b /\ c * f = e * d)
    BY <2>1, <2>3, CrosswiseTransitive
  <2> QED BY <2>2, <2>4
<1> DEFINE before(x, y, z, w, p, q) ==
             \/ x - y > 0
             \/ x - y = 0 /\ (p.won - p.lost) - (q.won - q.lost) > 0
             \/ x - y = 0 /\ (p.won - p.lost) - (q.won - q.lost) = 0 /\ z - w > 0
             \/ x - y = 0 /\ (p.won - p.lost) - (q.won - q.lost) = 0 /\ z - w = 0 /\ p.closed > q.closed
             \/ x - y = 0 /\ (p.won - p.lost) - (q.won - q.lost) = 0 /\ z - w = 0
                /\ p.closed = q.closed /\ p.symbol < q.symbol
<1>5. before(lm, ml, Lm, Ml, l, m) /\ before(mr, rm, Mr, Rm, m, r)
  BY DEF RanksBefore
<1>6. before(lr, rl, Lr, Rl, l, r) => RanksBefore(l, r)
  BY DEF RanksBefore
<1> HIDE DEF lm, ml, mr, rm, lr, rl, Lm, Ml, Mr, Rm, Lr, Rl
<1>7. lm >= ml /\ mr >= rm
  BY <1>1, <1>5
<1>8. lr > rl \/ (lr = rl /\ lm = ml /\ mr = rm)
  BY <1>1, <1>3, <1>7
<1>9. CASE lr > rl
  BY <1>1, <1>6, <1>9
<1>10. CASE lr = rl /\ lm = ml /\ mr = rm
  <2> DEFINE rawLM == (l.won - l.lost) - (m.won - m.lost)
             rawMR == (m.won - m.lost) - (r.won - r.lost)
             rawLR == (l.won - l.lost) - (r.won - r.lost)
  <2>1. rawLM \in Int /\ rawMR \in Int /\ rawLR = rawLM + rawMR
    BY <1>2
  <2>2. /\ rawLM > 0 \/ (rawLM = 0 /\ (Lm > Ml \/ (Lm = Ml /\ (l.closed > m.closed \/ (l.closed = m.closed /\ l.symbol < m.symbol)))))
        /\ rawMR > 0 \/ (rawMR = 0 /\ (Mr > Rm \/ (Mr = Rm /\ (m.closed > r.closed \/ (m.closed = r.closed /\ m.symbol < r.symbol)))))
    BY <1>1, <1>5, <1>10
  <2>3. rawLR > 0 \/ (rawLR = 0 /\ (Lr > Rl \/ (Lr = Rl /\ (l.closed > r.closed \/ (l.closed = r.closed /\ l.symbol < r.symbol)))))
        => RanksBefore(l, r)
    BY <1>1, <1>6, <1>10
  <2> HIDE DEF rawLM, rawMR, rawLR
  <2>4. CASE rawLM > 0 \/ rawMR > 0
    BY <2>1, <2>2, <2>3, <2>4
  <2>5. CASE rawLM = 0 /\ rawMR = 0
    <3>1. Lm >= Ml /\ Mr >= Rm
      BY <1>1, <2>2, <2>5
    <3>2. Lr > Rl \/ (Lr = Rl /\ Lm = Ml /\ Mr = Rm)
      BY <1>1, <1>4, <3>1
    <3> QED BY <1>1, <1>2, <2>1, <2>2, <2>3, <2>5, <3>2
  <2> QED BY <2>1, <2>2, <2>4, <2>5
<1> QED BY <1>8, <1>9, <1>10
OneEach(S) == \A c, d \in S : c.symbol = d.symbol => c = d

(* A finite set of candidates has a ranking, in which each is once.        *)
LEMMA RankedIsSorted ==
  ASSUME NEW S \in SUBSET Ranking, IsFiniteSet(S), OneEach(S)
  PROVE  /\ Cardinality(S) \in Nat
         /\ Ranked(S) \in [1 .. Cardinality(S) -> S]
         /\ \A i, k \in 1 .. Cardinality(S) : i < k => RanksBefore(Ranked(S)[i], Ranked(S)[k])
<1> DEFINE n == Cardinality(S)
           R == {pair \in S \X S : RanksBefore(pair[1], pair[2])}
<1>1. \A x, y \in S : <<x, y>> \in R <=> RanksBefore(x, y)
  OBVIOUS
<1> HIDE DEF R
<1>2. Orders(R, S)
  <2>1. \A x \in S : ~RanksBefore(x, x)
    BY RanksStrictly
  <2>2. \A x, y \in S : x # y => RanksBefore(x, y) \/ RanksBefore(y, x)
    BY RanksStrictly DEF OneEach
  <2>3. \A x, y, z \in S : RanksBefore(x, y) /\ RanksBefore(y, z) => RanksBefore(x, z)
    BY RanksTransitively
  <2> QED BY <1>1, <2>1, <2>2, <2>3 DEF Orders
<1>3. n \in Nat /\ \E f \in [1 .. n -> S] : \A i, k \in 1 .. n : i < k => <<f[i], f[k]>> \in R
  BY <1>2, SortedExists
<1> HIDE DEF n
<1>4. \E f \in [1 .. n -> S] : \A i, k \in DOMAIN f : i < k => RanksBefore(f[i], f[k])
  <2>1. PICK f \in [1 .. n -> S] : \A i, k \in 1 .. n : i < k => <<f[i], f[k]>> \in R
    BY <1>3
  <2>2. \A i, k \in DOMAIN f : i < k => RanksBefore(f[i], f[k])
    BY <1>1, <2>1
  <2> QED BY <2>2
<1>5. Ranked(S) \in [1 .. n -> S] /\ \A i, k \in DOMAIN Ranked(S) : i < k => RanksBefore(Ranked(S)[i], Ranked(S)[k])
  BY <1>4 DEF Ranked, n
<1> QED BY <1>3, <1>5 DEF n

(* The ids configured, without blanks and repetitions, are a sequence.     *)
LEMMA KeptListed ==
  KeptIds \in Seq(Range(Configured))
<1> DEFINE Step(x, y) == IF y = Blank \/ y \in Range(x) THEN x ELSE Append(x, y)
           n == Len(Configured)
           T == Seq(Range(Configured))
           base == <<>>
           step == [k \in 1 .. n |-> [x \in T |-> Step(x, Configured[k])]]
           Unrolls(it) == it = [s \in SUBSET (DOMAIN Configured) |->
                              IF s = {} THEN base ELSE Step(it[s \ {Max(s)}], Configured[Max(s)])]
           it == CHOOSE f : Unrolls(f)
<1>1. n \in Nat /\ DOMAIN Configured = 1 .. n
  BY RaceAssumption
<1>2. base \in T
  OBVIOUS
<1>3. ASSUME NEW k \in 1 .. n, NEW x \in T PROVE Step(x, Configured[k]) \in T
  <2>1. Configured[k] \in Range(Configured)
    BY <1>1 DEF Range
  <2> QED BY <2>1
<1>4. KeptIds = it[1 .. n]
  BY <1>1 DEF KeptIds, FoldLeft, MapThenFoldSet
<1> HIDE DEF Step, T, base
<1>5. PICK f \in [SUBSET (1 .. n) -> T] : Folds(f, n, base, step)
  <2>1. step \in [1 .. n -> [T -> T]]
    BY <1>3
  <2> HIDE DEF step, n
  <2> QED BY <1>1, <1>2, <2>1, FoldRuns
<1>6. Unrolls(it)
  <2>1. ASSUME NEW s \in SUBSET (1 .. n), s # {}
        PROVE  step[Max(s)][f[s \ {Max(s)}]] = Step(f[s \ {Max(s)}], Configured[Max(s)])
    <3>1. s \in SUBSET (0 .. n)
      BY <1>1
    <3>2. Max(s) \in 1 .. n
      BY <1>1, <2>1, <3>1, LastPosition
    <3> QED BY <3>2
  <2> HIDE DEF step, n
  <2>2. Unrolls(f)
    BY <1>1, <1>5, <2>1 DEF Folds
  <2> HIDE DEF Unrolls
  <2> QED BY <2>2
<1> HIDE DEF it
<1>7. it[1 .. 0] = base /\ \A k \in 1 .. n : it[1 .. k] = Step(it[1 .. k - 1], Configured[k])
  <2>1. it[1 .. 0] = base
    BY <1>1, <1>6
  <2> SUFFICES ASSUME NEW k \in 1 .. n PROVE it[1 .. k] = Step(it[1 .. k - 1], Configured[k])
    BY <2>1
  <2>2. 1 .. k \in SUBSET (1 .. n) /\ 1 .. k # {} /\ Max(1 .. k) = k /\ (1 .. k) \ {k} = 1 .. k - 1
    BY <1>1, Prefix
  <2> HIDE DEF n
  <2> QED BY <1>1, <1>6, <2>2
<1>8. \A k \in 0 .. n : it[1 .. k] \in T
  <2> DEFINE runs == [k \in 0 .. n |-> it[1 .. k]]
  <2>1. runs[0] \in T /\ \A k \in 1 .. n : runs[k - 1] \in T => runs[k] \in T
    <3> HIDE DEF n
    <3> QED BY <1>1, <1>2, <1>3, <1>7
  <2>2. \A k \in 0 .. n : runs[k] \in T
    <3> HIDE DEF runs, n
    <3> QED BY <1>1, <2>1, RunsTyped
  <2> QED BY <2>2
<1> QED BY <1>1, <1>4, <1>8 DEF T

LEMMA IdsListed ==
  /\ PortfolioIds \in Seq(Portfolios) /\ Len(PortfolioIds) \in Nat
  /\ DOMAIN PortfolioIds = 1 .. Len(PortfolioIds)
<1>1. \E S : PortfolioIds \in Seq(S)
  BY KeptListed, RaceAssumption DEF PortfolioIds
<1>2. \A i \in DOMAIN PortfolioIds : PortfolioIds[i] \in Portfolios
  BY DEF Portfolios
<1> QED BY <1>1, <1>2

(* Whose turn it is.                                                       *)
LEMMA TurnsListed ==
  ASSUME NEW rounds \in Nat
  PROVE  /\ Turns(rounds) \in Seq(Portfolios) /\ Len(Turns(rounds)) \in Nat
         /\ DOMAIN Turns(rounds) = 1 .. Len(Turns(rounds))
         /\ \A k \in 1 .. Len(Turns(rounds)) : Turns(rounds)[k] \in Portfolios
<1> DEFINE L == Len(PortfolioIds)
           m == rounds * L
<1>1. L \in Nat /\ m \in Nat /\ (L = 0 => m = 0)
  BY IdsListed
<1>2. Turns(rounds) = [i \in 1 .. m |-> PortfolioIds[1 + ((i - 1) % L)]]
  BY DEF Turns
<1>3. ASSUME NEW i \in 1 .. m PROVE PortfolioIds[1 + ((i - 1) % L)] \in Portfolios
  <2>1. L \in Nat \ {0} /\ i - 1 \in Nat
    BY <1>1
  <2> HIDE DEF L, m
  <2>2. 1 + ((i - 1) % L) \in 1 .. L
    BY <2>1
  <2> QED BY <2>2, IdsListed DEF L
<1> HIDE DEF L, m
<1> QED BY <1>1, <1>2, <1>3
-----------------------------------------------------------------------------
(* The deal.                                                               *)

(* A pool of candidates, each of a symbol of its own.                      *)
Pools == {pool \in Seq([symbol : Symbols, age : Int, closed : Nat, won : Nat, lost : Nat, pnl : Int]) :
            \A i, k \in DOMAIN pool : pool[i].symbol = pool[k].symbol => i = k}

(* No symbol is in two lists or twice in one.                              *)
Apart(lists) ==
  \A p, q \in Portfolios : \A i \in DOMAIN lists[p], j \in DOMAIN lists[q] :
    lists[p][i] = lists[q][j] => p = q /\ i = j

(* What has been dealt of a pool, up to the cursor.                        *)
Deals(pool) ==
  {dealt \in [lists : [Portfolios -> Seq(Symbols)], cursor : Nat \ {0}] :
     /\ \A p \in Portfolios : Len(dealt.lists[p]) <= ShortlistSize
     /\ \A p \in Portfolios : \A i \in DOMAIN dealt.lists[p] :
          \E c \in DOMAIN pool : c < dealt.cursor /\ dealt.lists[p][i] = pool[c].symbol
     /\ Apart(dealt.lists)}

LEMMA ShortlistedDeals ==
  ASSUME NEW pool \in Pools, NEW dealt \in Deals(pool), NEW p \in Portfolios
  PROVE  Shortlisted(dealt, p, pool) \in Deals(pool)
<1> DEFINE old == dealt.lists
           c == dealt.cursor
           new == pool[c].symbol
           lists == [old EXCEPT ![p] = Append(old[p], new)]
           result == [lists |-> lists, cursor |-> c + 1]
<1>0. /\ ShortlistSize \in Nat
      /\ pool \in Seq([symbol : Symbols, age : Int, closed : Nat, won : Nat, lost : Nat, pnl : Int])
      /\ \A i, k \in DOMAIN pool : pool[i].symbol = pool[k].symbol => i = k
  BY RaceAssumption DEF Pools
<1>1. /\ old \in [Portfolios -> Seq(Symbols)] /\ c \in Nat \ {0}
      /\ \A q \in Portfolios : Len(old[q]) <= ShortlistSize
      /\ \A q \in Portfolios : \A i \in DOMAIN old[q] :
           \E d \in DOMAIN pool : d < c /\ old[q][i] = pool[d].symbol
      /\ Apart(old)
  BY DEF Deals
<1>2. CASE Len(old[p]) >= ShortlistSize \/ c > Len(pool)
  BY <1>2 DEF Shortlisted
<1>3. CASE ~(Len(old[p]) >= ShortlistSize \/ c > Len(pool))
  <2>1. Shortlisted(dealt, p, pool) = result
    BY <1>3 DEF Shortlisted
  <2>2. result.lists = lists /\ result.cursor = c + 1
    OBVIOUS
  <2> HIDE DEF c, old
  <2>3. c \in DOMAIN pool /\ new \in Symbols
    <3>1. Len(pool) \in Nat /\ DOMAIN pool = 1 .. Len(pool)
      BY <1>0
    <3>2. c \in DOMAIN pool
      <4> DEFINE m == Len(pool)
      <4>1. m \in Nat /\ c \in Nat \ {0} /\ ~(c > m)
        BY <1>1, <1>3, <3>1
      <4> HIDE DEF m
      <4>2. c \in 1 .. m
        BY <4>1
      <4> QED BY <3>1, <4>2 DEF m
    <3>3. pool[c] \in [symbol : Symbols, age : Int, closed : Nat, won : Nat, lost : Nat, pnl : Int]
      BY <1>0, <3>2, Elements
    <3> QED BY <3>2, <3>3
  <2> HIDE DEF new
  <2> DEFINE l == Len(old[p])
  <2>4. /\ lists \in [Portfolios -> Seq(Symbols)]
        /\ \A q \in Portfolios : q # p => lists[q] = old[q]
        /\ lists[p] = Append(old[p], new) /\ old[p] \in Seq(Symbols)
    BY <1>1, <2>3
  <2>5. /\ Len(lists[p]) = l + 1 /\ l \in Nat /\ l < ShortlistSize
        /\ DOMAIN lists[p] = 1 .. l + 1 /\ DOMAIN old[p] = 1 .. l
        /\ \A i \in 1 .. l : lists[p][i] = old[p][i]
        /\ lists[p][l + 1] = new
    <3>1. l \in Nat /\ l <= ShortlistSize /\ ~(l >= ShortlistSize)
      BY <1>1, <1>3, <2>4
    <3> HIDE DEF l
    <3>2. l < ShortlistSize
      BY <1>0, <3>1
    <3> QED BY <2>3, <2>4, <3>1, <3>2, Appends DEF l
  <2>6. result \in [lists : [Portfolios -> Seq(Symbols)], cursor : Nat \ {0}]
    BY <1>1, <2>4
  <2> HIDE DEF lists, l, result
  <2>7. ASSUME NEW q \in Portfolios PROVE Len(lists[q]) <= ShortlistSize
    <3>1. CASE q = p
      BY <1>0, <2>5, <3>1
    <3>2. CASE q # p
      BY <1>1, <2>4, <3>2
    <3> QED BY <3>1, <3>2
  <2>8. ASSUME NEW q \in Portfolios, NEW i \in DOMAIN lists[q]
        PROVE  \/ q = p /\ i = l + 1 /\ lists[q][i] = new
               \/ i \in DOMAIN old[q] /\ lists[q][i] = old[q][i]
    <3>1. CASE q = p
      <4>1. i = l + 1 \/ i \in 1 .. l
        BY <2>5, <3>1
      <4> QED BY <2>5, <3>1, <4>1
    <3>2. CASE q # p
      BY <2>4, <3>2
    <3> QED BY <3>1, <3>2
  <2>9. ASSUME NEW q \in Portfolios, NEW i \in DOMAIN old[q]
        PROVE  old[q][i] # new /\ \E d \in DOMAIN pool : d < c + 1 /\ old[q][i] = pool[d].symbol
    <3>1. PICK d \in DOMAIN pool : d < c /\ old[q][i] = pool[d].symbol
      BY <1>1
    <3>2. d \in Int /\ c \in Int
      BY <1>0, <1>1
    <3>3. d # c /\ d < c + 1
      BY <3>1, <3>2
    <3>4. pool[d].symbol # new
      BY <1>0, <2>3, <3>3 DEF new
    <3> QED BY <3>1, <3>3, <3>4
  <2>10. ASSUME NEW q \in Portfolios, NEW i \in DOMAIN lists[q]
         PROVE  \E d \in DOMAIN pool : d < c + 1 /\ lists[q][i] = pool[d].symbol
    <3>1. CASE q = p /\ i = l + 1 /\ lists[q][i] = new
      <4>1. c < c + 1
        BY <1>1
      <4> QED BY <2>3, <3>1, <4>1 DEF new
    <3>2. CASE i \in DOMAIN old[q] /\ lists[q][i] = old[q][i]
      BY <2>9, <3>2
    <3> QED BY <2>8, <3>1, <3>2
  <2>11. Apart(lists)
    <3> SUFFICES ASSUME NEW q \in Portfolios, NEW r \in Portfolios,
                        NEW i \in DOMAIN lists[q], NEW j \in DOMAIN lists[r], lists[q][i] = lists[r][j]
                 PROVE  q = r /\ i = j
      BY DEF Apart
    <3>1. \/ q = p /\ i = l + 1 /\ lists[q][i] = new
          \/ i \in DOMAIN old[q] /\ lists[q][i] = old[q][i]
      BY <2>8
    <3>2. \/ r = p /\ j = l + 1 /\ lists[r][j] = new
          \/ j \in DOMAIN old[r] /\ lists[r][j] = old[r][j]
      BY <2>8
    <3>3. CASE i \in DOMAIN old[q] /\ lists[q][i] = old[q][i] /\ j \in DOMAIN old[r] /\ lists[r][j] = old[r][j]
      <4>1. \A a, b \in Portfolios : \A x \in DOMAIN old[a], y \in DOMAIN old[b] :
              old[a][x] = old[b][y] => a = b /\ x = y
        BY <1>1 DEF Apart
      <4>2. old[q][i] = old[r][j]
        BY <3>3
      <4> QED BY <3>3, <4>1, <4>2
    <3>4. CASE i \in DOMAIN old[q] /\ lists[q][i] = old[q][i] /\ lists[r][j] = new
      BY <2>9, <3>4
    <3>5. CASE lists[q][i] = new /\ j \in DOMAIN old[r] /\ lists[r][j] = old[r][j]
      BY <2>9, <3>5
    <3>6. CASE q = p /\ r = p /\ i = l + 1 /\ j = l + 1
      BY <3>6
    <3> QED BY <3>1, <3>2, <3>3, <3>4, <3>5, <3>6
  <2> QED BY <2>1, <2>2, <2>6, <2>7, <2>10, <2>11 DEF Deals
<1> QED BY <1>2, <1>3

(* Whatever the pool, the shortlists are a deal of it.                     *)
LEMMA ShortlistsDeal ==
  ASSUME NEW pool \in Pools
  PROVE  \E dealt \in Deals(pool) : Shortlists(pool) = dealt.lists
<1> DEFINE Step(x, y) == Shortlisted(x, y, pool)
           n == Len(Turns(ShortlistSize))
           T == Deals(pool)
           base == NothingDealt
           step == [k \in 1 .. n |-> [x \in T |-> Step(x, Turns(ShortlistSize)[k])]]
           Unrolls(it) == it = [s \in SUBSET (DOMAIN Turns(ShortlistSize)) |->
                              IF s = {} THEN base ELSE Step(it[s \ {Max(s)}], Turns(ShortlistSize)[Max(s)])]
           it == CHOOSE f : Unrolls(f)
<1>1. n \in Nat /\ DOMAIN Turns(ShortlistSize) = 1 .. n
  BY TurnsListed, RaceAssumption
<1>2. base \in T
  <2>1. NothingDealt \in [lists : [Portfolios -> Seq(Symbols)], cursor : Nat \ {0}]
    BY DEF NothingDealt, NoLists
  <2>2. NothingDealt.cursor = 1 /\ \A p \in Portfolios : NothingDealt.lists[p] = <<>>
    BY DEF NothingDealt, NoLists
  <2> QED BY <2>1, <2>2, RaceAssumption DEF Deals, Apart
<1>3. ASSUME NEW k \in 1 .. n, NEW x \in T PROVE Step(x, Turns(ShortlistSize)[k]) \in T
  BY <1>3, TurnsListed, RaceAssumption, ShortlistedDeals
<1>4. Shortlists(pool) = it[1 .. n].lists
  BY <1>1 DEF Shortlists, FoldLeft, MapThenFoldSet
<1> HIDE DEF Step, T, base
<1>5. PICK f \in [SUBSET (1 .. n) -> T] : Folds(f, n, base, step)
  <2>1. step \in [1 .. n -> [T -> T]]
    BY <1>3
  <2> HIDE DEF step, n
  <2> QED BY <1>1, <1>2, <2>1, FoldRuns
<1>6. Unrolls(it)
  <2>1. ASSUME NEW s \in SUBSET (1 .. n), s # {}
        PROVE  step[Max(s)][f[s \ {Max(s)}]] = Step(f[s \ {Max(s)}], Turns(ShortlistSize)[Max(s)])
    <3>1. s \in SUBSET (0 .. n)
      BY <1>1
    <3>2. Max(s) \in 1 .. n
      BY <1>1, <2>1, <3>1, LastPosition
    <3> QED BY <3>2
  <2> HIDE DEF step, n
  <2>2. Unrolls(f)
    BY <1>1, <1>5, <2>1 DEF Folds
  <2> HIDE DEF Unrolls
  <2> QED BY <2>2
<1> HIDE DEF it
<1>7. it[1 .. 0] = base /\ \A k \in 1 .. n : it[1 .. k] = Step(it[1 .. k - 1], Turns(ShortlistSize)[k])
  <2>1. it[1 .. 0] = base
    BY <1>1, <1>6
  <2> SUFFICES ASSUME NEW k \in 1 .. n PROVE it[1 .. k] = Step(it[1 .. k - 1], Turns(ShortlistSize)[k])
    BY <2>1
  <2>2. 1 .. k \in SUBSET (1 .. n) /\ 1 .. k # {} /\ Max(1 .. k) = k /\ (1 .. k) \ {k} = 1 .. k - 1
    BY <1>1, Prefix
  <2> HIDE DEF n
  <2> QED BY <1>1, <1>6, <2>2
<1>8. \A k \in 0 .. n : it[1 .. k] \in T
  <2> DEFINE runs == [k \in 0 .. n |-> it[1 .. k]]
  <2>1. runs[0] \in T /\ \A k \in 1 .. n : runs[k - 1] \in T => runs[k] \in T
    <3> HIDE DEF n
    <3> QED BY <1>1, <1>2, <1>3, <1>7
  <2>2. \A k \in 0 .. n : runs[k] \in T
    <3> HIDE DEF runs, n
    <3> QED BY <1>1, <2>1, RunsTyped
  <2> QED BY <2>2
<1> QED BY <1>1, <1>4, <1>8 DEF T

(* A set of positions has a first one.                                     *)
LEMMA FirstPosition ==
  ASSUME NEW n \in Nat, NEW S \in SUBSET (0 .. n), S # {}
  PROVE  Min(S) \in S /\ \A x \in S : Min(S) <= x
<1>1. PICK d \in S : \A b \in S : ~(<<b, d>> \in OpToRel(<, Nat))
  <2>1. IsWellFoundedOn(OpToRel(<, Nat), Nat)
    BY NatLessThanWellFounded
  <2>2. S \in SUBSET Nat
    OBVIOUS
  <2> QED BY <2>1, <2>2, WFMin
<1>2. \A x \in S : d <= x
  <2> SUFFICES ASSUME NEW x \in S, x < d PROVE FALSE
    OBVIOUS
  <2>1. x \in Nat /\ d \in Nat
    OBVIOUS
  <2>2. <<x, d>> \in OpToRel(<, Nat)
    BY <2>1 DEF OpToRel
  <2> QED BY <1>1, <2>2
<1>3. Min(S) \in S /\ \A x \in S : Min(S) <= x
  BY <1>2 DEF Min
<1> QED BY <1>3

(* What the portfolios may trade, each of its own shortlist.               *)
Picks(shortlists) ==
  {lists \in [Portfolios -> Seq(Symbols)] :
     \A p \in Portfolios :
       Range(lists[p]) \subseteq Range(shortlists[p]) /\ Len(lists[p]) <= MaxActive}

LEMMA ActivatedPicks ==
  ASSUME NEW shortlists \in [Portfolios -> Seq(Symbols)], NEW lists \in Picks(shortlists),
         NEW p \in Portfolios
  PROVE  Activated(lists, p, shortlists[p]) \in Picks(shortlists)
<1> DEFINE shortlist == shortlists[p]
           used == UNION {Range(lists[q]) : q \in Portfolios}
           free == {i \in DOMAIN shortlist : shortlist[i] \notin used}
           l == Len(lists[p])
           new == shortlist[Min(free)]
           result == [lists EXCEPT ![p] = Append(lists[p], new)]
<1>1. /\ MaxActive \in Nat /\ lists \in [Portfolios -> Seq(Symbols)]
      /\ \A q \in Portfolios : Range(lists[q]) \subseteq Range(shortlists[q]) /\ Len(lists[q]) <= MaxActive
  BY RaceAssumption DEF Picks
<1>2. CASE l >= MaxActive \/ free = {}
  BY <1>2 DEF Activated
<1>3. CASE ~(l >= MaxActive \/ free = {})
  <2>1. Activated(lists, p, shortlist) = result
    BY <1>3 DEF Activated
  <2>2. Min(free) \in free
    <3>1. Len(shortlist) \in Nat /\ DOMAIN shortlist = 1 .. Len(shortlist)
      OBVIOUS
    <3>2. free \in SUBSET (0 .. Len(shortlist))
      BY <3>1
    <3> HIDE DEF free
    <3> QED BY <1>3, <3>1, <3>2, FirstPosition
  <2>3. new \in Symbols /\ new \in Range(shortlist)
    <3>1. Min(free) \in DOMAIN shortlist /\ shortlist \in Seq(Symbols)
      BY <2>2
    <3> HIDE DEF free
    <3>2. new \in Symbols
      BY <3>1, Elements
    <3> QED BY <3>1, <3>2 DEF Range
  <2> HIDE DEF new
  <2>4. /\ result \in [Portfolios -> Seq(Symbols)] /\ lists[p] \in Seq(Symbols)
        /\ \A q \in Portfolios : q # p => result[q] = lists[q]
        /\ result[p] = Append(lists[p], new)
    BY <1>1, <2>3
  <2>5. /\ Len(result[p]) <= MaxActive
        /\ DOMAIN result[p] = 1 .. l + 1 /\ DOMAIN lists[p] = 1 .. l /\ l \in Nat
        /\ \A i \in 1 .. l : result[p][i] = lists[p][i]
        /\ result[p][l + 1] = new
    <3>1. l \in Nat /\ ~(l >= MaxActive)
      BY <1>3, <2>4
    <3>2. /\ Len(result[p]) = l + 1
          /\ DOMAIN result[p] = 1 .. l + 1 /\ DOMAIN lists[p] = 1 .. l
          /\ \A i \in 1 .. l : result[p][i] = lists[p][i]
          /\ result[p][l + 1] = new
      BY <2>3, <2>4, Appends
    <3> HIDE DEF l
    <3> QED BY <1>1, <3>1, <3>2
  <2>6. Range(result[p]) \subseteq Range(shortlists[p])
    <3> SUFFICES ASSUME NEW i \in DOMAIN result[p] PROVE result[p][i] \in Range(shortlists[p])
      BY DEF Range
    <3>1. CASE i = l + 1
      BY <2>3, <2>5, <3>1
    <3>2. CASE i # l + 1
      <4> HIDE DEF l
      <4>1. i \in 1 .. l
        BY <2>5, <3>2
      <4>2. result[p][i] = lists[p][i] /\ i \in DOMAIN lists[p]
        BY <2>5, <4>1
      <4>3. lists[p][i] \in Range(lists[p])
        BY <4>2 DEF Range
      <4> QED BY <1>1, <4>2, <4>3
    <3> QED BY <3>1, <3>2
  <2> HIDE DEF result, l
  <2>7. ASSUME NEW q \in Portfolios
        PROVE  Range(result[q]) \subseteq Range(shortlists[q]) /\ Len(result[q]) <= MaxActive
    <3>1. CASE q = p
      BY <2>5, <2>6, <3>1
    <3>2. CASE q # p
      BY <1>1, <2>4, <3>2
    <3> QED BY <3>1, <3>2
  <2> QED BY <2>1, <2>4, <2>7 DEF Picks
<1> QED BY <1>2, <1>3

(* What the portfolios trade of shortlists is on them.                     *)
LEMMA ActivesPick ==
  ASSUME NEW shortlists \in [Portfolios -> Seq(Symbols)]
  PROVE  Actives(shortlists) \in Picks(shortlists)
<1> DEFINE Step(x, y) == Activated(x, y, shortlists[y])
           n == Len(Turns(ShortlistSize))
           T == Picks(shortlists)
           base == NoLists
           step == [k \in 1 .. n |-> [x \in T |-> Step(x, Turns(ShortlistSize)[k])]]
           Unrolls(it) == it = [s \in SUBSET (DOMAIN Turns(ShortlistSize)) |->
                              IF s = {} THEN base ELSE Step(it[s \ {Max(s)}], Turns(ShortlistSize)[Max(s)])]
           it == CHOOSE f : Unrolls(f)
<1>1. n \in Nat /\ DOMAIN Turns(ShortlistSize) = 1 .. n
  BY TurnsListed, RaceAssumption
<1>2. base \in T
  <2>1. NoLists \in [Portfolios -> Seq(Symbols)]
    BY DEF NoLists
  <2>2. \A p \in Portfolios : NoLists[p] = <<>> /\ Range(NoLists[p]) = {}
    BY DEF NoLists, Range
  <2> QED BY <2>1, <2>2, RaceAssumption DEF Picks
<1>3. ASSUME NEW k \in 1 .. n, NEW x \in T PROVE Step(x, Turns(ShortlistSize)[k]) \in T
  BY <1>3, TurnsListed, RaceAssumption, ActivatedPicks
<1>4. Actives(shortlists) = it[1 .. n]
  BY <1>1 DEF Actives, FoldLeft, MapThenFoldSet
<1> HIDE DEF Step, T, base
<1>5. PICK f \in [SUBSET (1 .. n) -> T] : Folds(f, n, base, step)
  <2>1. step \in [1 .. n -> [T -> T]]
    BY <1>3
  <2> HIDE DEF step, n
  <2> QED BY <1>1, <1>2, <2>1, FoldRuns
<1>6. Unrolls(it)
  <2>1. ASSUME NEW s \in SUBSET (1 .. n), s # {}
        PROVE  step[Max(s)][f[s \ {Max(s)}]] = Step(f[s \ {Max(s)}], Turns(ShortlistSize)[Max(s)])
    <3>1. s \in SUBSET (0 .. n)
      BY <1>1
    <3>2. Max(s) \in 1 .. n
      BY <1>1, <2>1, <3>1, LastPosition
    <3> QED BY <3>2
  <2> HIDE DEF step, n
  <2>2. Unrolls(f)
    BY <1>1, <1>5, <2>1 DEF Folds
  <2> HIDE DEF Unrolls
  <2> QED BY <2>2
<1> HIDE DEF it
<1>7. it[1 .. 0] = base /\ \A k \in 1 .. n : it[1 .. k] = Step(it[1 .. k - 1], Turns(ShortlistSize)[k])
  <2>1. it[1 .. 0] = base
    BY <1>1, <1>6
  <2> SUFFICES ASSUME NEW k \in 1 .. n PROVE it[1 .. k] = Step(it[1 .. k - 1], Turns(ShortlistSize)[k])
    BY <2>1
  <2>2. 1 .. k \in SUBSET (1 .. n) /\ 1 .. k # {} /\ Max(1 .. k) = k /\ (1 .. k) \ {k} = 1 .. k - 1
    BY <1>1, Prefix
  <2> HIDE DEF n
  <2> QED BY <1>1, <1>6, <2>2
<1>8. \A k \in 0 .. n : it[1 .. k] \in T
  <2> DEFINE runs == [k \in 0 .. n |-> it[1 .. k]]
  <2>1. runs[0] \in T /\ \A k \in 1 .. n : runs[k - 1] \in T => runs[k] \in T
    <3> HIDE DEF n
    <3> QED BY <1>1, <1>2, <1>3, <1>7
  <2>2. \A k \in 0 .. n : runs[k] \in T
    <3> HIDE DEF runs, n
    <3> QED BY <1>1, <2>1, RunsTyped
  <2> QED BY <2>2
<1> QED BY <1>1, <1>4, <1>8 DEF T


(* Assignments without an overlap, the first part of NoOverlap.            *)
HeldApart(held) ==
  /\ \A p, q \in Portfolios : \A i \in DOMAIN held[p].shortlist, j \in DOMAIN held[q].shortlist :
       held[p].shortlist[i] = held[q].shortlist[j] => p = q /\ i = j
  /\ \A p \in Portfolios :
       /\ Range(held[p].active) \subseteq Range(held[p].shortlist)
       /\ Len(held[p].shortlist) <= ShortlistSize /\ Len(held[p].active) <= MaxActive

LEMMA UnassignedApart == HeldApart(Unassigned) /\ Unassigned \in [Portfolios -> Lists]
<1>1. \A p \in Portfolios : Unassigned[p].shortlist = <<>> /\ Unassigned[p].active = <<>>
  BY DEF Unassigned
<1>2. HeldApart(Unassigned)
  BY <1>1, RaceAssumption DEF HeldApart, Range
<1> QED BY <1>2 DEF Unassigned, Lists

(* Statistics of candidates, one of each symbol.                           *)
Fields == [symbol : Symbols, age : Int, closed : Nat, won : Nat, lost : Nat, pnl : Int]
Statistics == {S \in SUBSET Fields : IsFiniteSet(S) /\ OneEach(S)}

(* The pool holds each eligible candidate that does not cool down.         *)
LEMMA PoolListed ==
  ASSUME NEW S \in Statistics, NEW guarded, NEW at
  PROVE  /\ Pool(S, guarded, at) \in Pools
         /\ \A c \in DOMAIN Pool(S, guarded, at) :
              /\ Pool(S, guarded, at)[c].symbol \in Symbols
              /\ ~CoolsDown(guarded[Pool(S, guarded, at)[c].symbol], at)
<1> DEFINE fit == {c \in S : Eligible(c) /\ ~CoolsDown(guarded[c.symbol], at)}
           pool == Ranked(fit)
<1>1. S \in SUBSET Fields /\ IsFiniteSet(S) /\ OneEach(S)
  BY DEF Statistics
<1>2. fit \in SUBSET Ranking /\ IsFiniteSet(fit) /\ OneEach(fit) /\ Cardinality(fit) \in Nat
  <2>1. ASSUME NEW c \in fit PROVE c \in Ranking
    <3>1. c \in Fields /\ c.closed > MinClosed
      BY <1>1 DEF Eligible
    <3>2. c.closed \in Nat /\ MinClosed \in Nat
      BY <3>1, RaceAssumption DEF Fields
    <3>3. c.closed \in Nat \ {0}
      BY <3>1, <3>2
    <3>4. /\ c = [symbol |-> c.symbol, age |-> c.age, closed |-> c.closed, won |-> c.won,
                 lost |-> c.lost, pnl |-> c.pnl]
          /\ c.symbol \in Nat /\ c.age \in Int /\ c.won \in Nat /\ c.lost \in Nat /\ c.pnl \in Int
      BY <3>1, TradesAssumption DEF Fields
    <3> QED BY <3>3, <3>4 DEF Ranking
  <2>2. IsFiniteSet(fit)
    BY <1>1, FS_Subset, Zenon
  <2>3. Cardinality(fit) \in Nat
    BY <2>2, FS_CardinalityType
  <2> QED BY <1>1, <2>1, <2>2, <2>3 DEF OneEach
<1>3. /\ pool \in [1 .. Cardinality(fit) -> fit]
      /\ \A i, k \in DOMAIN pool : i < k => RanksBefore(pool[i], pool[k])
  <2> HIDE DEF fit
  <2> QED BY <1>2, RankedIsSorted
<1>4. Pool(S, guarded, at) = pool
  BY DEF Pool
<1> HIDE DEF pool
<1>5. pool \in Seq(Fields) /\ DOMAIN pool = 1 .. Cardinality(fit)
  <2>1. fit \in SUBSET Fields
    BY <1>1
  <2> HIDE DEF fit
  <2> QED BY <1>2, <1>3, <2>1
<1>6. ASSUME NEW c \in DOMAIN pool
      PROVE  pool[c] \in fit /\ pool[c] \in Ranking
             /\ pool[c].symbol \in Symbols /\ ~CoolsDown(guarded[pool[c].symbol], at)
  <2>1. pool[c] \in fit
    BY <1>3
  <2>2. ~CoolsDown(guarded[pool[c].symbol], at) /\ pool[c] \in Fields
    BY <1>1, <2>1
  <2> HIDE DEF fit
  <2> QED BY <1>2, <2>1, <2>2 DEF Fields
<1>7. ASSUME NEW i \in DOMAIN pool, NEW k \in DOMAIN pool, pool[i].symbol = pool[k].symbol
      PROVE  i = k
  <2>1. pool[i] = pool[k]
    <3> HIDE DEF fit
    <3> QED BY <1>2, <1>6, <1>7 DEF OneEach
  <2>2. ~(i < k) /\ ~(k < i)
    <3>1. ~RanksBefore(pool[i], pool[i])
      BY <1>6, RanksStrictly
    <3> HIDE DEF fit
    <3> QED BY <1>3, <2>1, <3>1
  <2>3. i \in Int /\ k \in Int
    BY <1>5
  <2> QED BY <2>2, <2>3
<1> HIDE DEF fit
<1>8. pool \in Pools
  BY <1>5, <1>7 DEF Pools, Fields
<1> QED BY <1>4, <1>6, <1>8

(* What assign_without_overlap hands out: typed, apart, and only symbols   *)
(* that do not cool down.                                                  *)
LEMMA AssignmentApart ==
  ASSUME NEW S \in Statistics, NEW guarded, NEW at
  PROVE  LET assigned == Assignment(S, guarded, at)
         IN  /\ assigned \in [Portfolios -> Lists] /\ HeldApart(assigned)
             /\ \A p \in Portfolios : \A s \in Range(assigned[p].shortlist) :
                  ~CoolsDown(guarded[s], at)
<1> DEFINE pool == Pool(S, guarded, at)
           shortlists == Shortlists(pool)
           actives == Actives(shortlists)
           assigned == [p \in Portfolios |-> [shortlist |-> shortlists[p], active |-> actives[p]]]
<1>1. /\ pool \in Pools
      /\ \A c \in DOMAIN pool : ~CoolsDown(guarded[pool[c].symbol], at)
  BY PoolListed
<1>2. Assignment(S, guarded, at) = assigned
  BY DEF Assignment
<1> HIDE DEF pool
<1>3. PICK dealt \in Deals(pool) : shortlists = dealt.lists
  BY <1>1, ShortlistsDeal
<1>4. /\ shortlists \in [Portfolios -> Seq(Symbols)] /\ Apart(shortlists)
      /\ \A p \in Portfolios : Len(shortlists[p]) <= ShortlistSize
  BY <1>3 DEF Deals
<1>5. \A p \in Portfolios : \A i \in DOMAIN shortlists[p] :
        \E c \in DOMAIN pool : shortlists[p][i] = pool[c].symbol
  BY <1>3 DEF Deals
<1> HIDE DEF shortlists
<1>6. /\ actives \in [Portfolios -> Seq(Symbols)]
      /\ \A p \in Portfolios :
           Range(actives[p]) \subseteq Range(shortlists[p]) /\ Len(actives[p]) <= MaxActive
  BY <1>4, ActivesPick DEF Picks
<1> HIDE DEF actives
<1>7. \A p \in Portfolios : assigned[p].shortlist = shortlists[p] /\ assigned[p].active = actives[p]
  OBVIOUS
<1>8. assigned \in [Portfolios -> Lists]
  BY <1>4, <1>6 DEF Lists
<1> HIDE DEF assigned
<1>9. HeldApart(assigned)
  <2>1. \A p, q \in Portfolios : \A i \in DOMAIN shortlists[p], j \in DOMAIN shortlists[q] :
          shortlists[p][i] = shortlists[q][j] => p = q /\ i = j
    BY <1>4 DEF Apart
  <2> QED BY <1>4, <1>6, <1>7, <2>1 DEF HeldApart
<1>10. ASSUME NEW p \in Portfolios, NEW s \in Range(assigned[p].shortlist)
       PROVE  ~CoolsDown(guarded[s], at)
  <2>1. PICK i \in DOMAIN shortlists[p] : s = shortlists[p][i]
    BY <1>7 DEF Range
  <2>2. PICK c \in DOMAIN pool : s = pool[c].symbol
    BY <1>5, <2>1
  <2> QED BY <1>1, <2>2
<1> QED BY <1>2, <1>8, <1>9, <1>10
(* The profit of trades is a number.                                       *)
LEMMA ProfitType ==
  ASSUME NEW S, NEW trades \in Seq(S), \A i \in DOMAIN trades : trades[i].pnl \in Int
  PROVE  Profit(trades) \in Int
<1> DEFINE Step(x, y) == x + y.pnl
           n == Len(trades)
           T == Int
           base == 0
           step == [k \in 1 .. n |-> [x \in T |-> Step(x, trades[k])]]
           Unrolls(it) == it = [s \in SUBSET (DOMAIN trades) |->
                              IF s = {} THEN base ELSE Step(it[s \ {Max(s)}], trades[Max(s)])]
           it == CHOOSE f : Unrolls(f)
<1>1. n \in Nat /\ DOMAIN trades = 1 .. n
  OBVIOUS
<1>2. base \in T
  OBVIOUS
<1>3. ASSUME NEW k \in 1 .. n, NEW x \in T PROVE Step(x, trades[k]) \in T
  BY <1>1
<1>4. Profit(trades) = it[1 .. n]
  BY <1>1 DEF Profit, FoldLeft, MapThenFoldSet
<1> HIDE DEF Step, T, base
<1>5. PICK f \in [SUBSET (1 .. n) -> T] : Folds(f, n, base, step)
  <2>1. step \in [1 .. n -> [T -> T]]
    BY <1>3
  <2> HIDE DEF step, n
  <2> QED BY <1>1, <1>2, <2>1, FoldRuns
<1>6. Unrolls(it)
  <2>1. ASSUME NEW s \in SUBSET (1 .. n), s # {}
        PROVE  step[Max(s)][f[s \ {Max(s)}]] = Step(f[s \ {Max(s)}], trades[Max(s)])
    <3>1. s \in SUBSET (0 .. n)
      BY <1>1
    <3>2. Max(s) \in 1 .. n
      BY <1>1, <2>1, <3>1, LastPosition
    <3> QED BY <3>2
  <2> HIDE DEF step, n
  <2>2. Unrolls(f)
    BY <1>1, <1>5, <2>1 DEF Folds
  <2> HIDE DEF Unrolls
  <2> QED BY <2>2
<1> HIDE DEF it
<1>7. it[1 .. 0] = base /\ \A k \in 1 .. n : it[1 .. k] = Step(it[1 .. k - 1], trades[k])
  <2>1. it[1 .. 0] = base
    BY <1>1, <1>6
  <2> SUFFICES ASSUME NEW k \in 1 .. n PROVE it[1 .. k] = Step(it[1 .. k - 1], trades[k])
    BY <2>1
  <2>2. 1 .. k \in SUBSET (1 .. n) /\ 1 .. k # {} /\ Max(1 .. k) = k /\ (1 .. k) \ {k} = 1 .. k - 1
    BY <1>1, Prefix
  <2> HIDE DEF n
  <2> QED BY <1>1, <1>6, <2>2
<1>8. \A k \in 0 .. n : it[1 .. k] \in T
  <2> DEFINE runs == [k \in 0 .. n |-> it[1 .. k]]
  <2>1. runs[0] \in T /\ \A k \in 1 .. n : runs[k - 1] \in T => runs[k] \in T
    <3> HIDE DEF n
    <3> QED BY <1>1, <1>2, <1>3, <1>7
  <2>2. \A k \in 0 .. n : runs[k] \in T
    <3> HIDE DEF runs, n
    <3> QED BY <1>1, <2>1, RunsTyped
  <2> QED BY <2>2
<1> QED BY <1>1, <1>4, <1>8 DEF T
-----------------------------------------------------------------------------
(* The accounts.                                                           *)

Accounts == [closed : Nat, won : Nat, lost : Nat, pnl : Int]
Trades == [symbol : Symbols, pnl : Int, stop : BOOLEAN, entry : 0 .. MaxNow, ts : 0 .. MaxNow,
           mine : BOOLEAN]
Saved == [closed : Nat, pnl : Int]

LEMMA ObservedTyped ==
  ASSUME NEW acc \in Accounts, NEW pnl \in Int
  PROVE  Observed(acc, pnl) \in Accounts
BY DEF Observed, Accounts

LEMMA CollapsedTyped ==
  ASSUME NEW closed \in Nat, NEW profit \in Int, closed # 0
  PROVE  Collapsed(closed, profit) \in Int
BY DEF Collapsed

(* The trades of the current run are some of those drained, in their order.*)
LEMMA MineTyped ==
  ASSUME NEW S, NEW trades \in Seq(S)
  PROVE  Mine(trades) \in Seq(S)
<1> DEFINE Step(x, y) == IF y.mine THEN Append(x, y) ELSE x
           n == Len(trades)
           T == Seq(S)
           base == <<>>
           step == [k \in 1 .. n |-> [x \in T |-> Step(x, trades[k])]]
           Unrolls(it) == it = [s \in SUBSET (DOMAIN trades) |->
                              IF s = {} THEN base ELSE Step(it[s \ {Max(s)}], trades[Max(s)])]
           it == CHOOSE f : Unrolls(f)
<1>1. n \in Nat /\ DOMAIN trades = 1 .. n
  OBVIOUS
<1>2. base \in T
  OBVIOUS
<1>3. ASSUME NEW k \in 1 .. n, NEW x \in T PROVE Step(x, trades[k]) \in T
  <2>1. trades[k] \in S
    BY <1>1, Elements
  <2> QED BY <2>1, Appends
<1>4. Mine(trades) = it[1 .. n]
  BY <1>1 DEF Mine, FoldLeft, MapThenFoldSet
<1> HIDE DEF Step, T, base
<1>5. PICK f \in [SUBSET (1 .. n) -> T] : Folds(f, n, base, step)
  <2>1. step \in [1 .. n -> [T -> T]]
    BY <1>3
  <2> HIDE DEF step, n
  <2> QED BY <1>1, <1>2, <2>1, FoldRuns
<1>6. Unrolls(it)
  <2>1. ASSUME NEW s \in SUBSET (1 .. n), s # {}
        PROVE  step[Max(s)][f[s \ {Max(s)}]] = Step(f[s \ {Max(s)}], trades[Max(s)])
    <3>1. s \in SUBSET (0 .. n)
      BY <1>1
    <3>2. Max(s) \in 1 .. n
      BY <1>1, <2>1, <3>1, LastPosition
    <3> QED BY <3>2
  <2> HIDE DEF step, n
  <2>2. Unrolls(f)
    BY <1>1, <1>5, <2>1 DEF Folds
  <2> HIDE DEF Unrolls
  <2> QED BY <2>2
<1> HIDE DEF it
<1>7. it[1 .. 0] = base /\ \A k \in 1 .. n : it[1 .. k] = Step(it[1 .. k - 1], trades[k])
  <2>1. it[1 .. 0] = base
    BY <1>1, <1>6
  <2> SUFFICES ASSUME NEW k \in 1 .. n PROVE it[1 .. k] = Step(it[1 .. k - 1], trades[k])
    BY <2>1
  <2>2. 1 .. k \in SUBSET (1 .. n) /\ 1 .. k # {} /\ Max(1 .. k) = k /\ (1 .. k) \ {k} = 1 .. k - 1
    BY <1>1, Prefix
  <2> HIDE DEF n
  <2> QED BY <1>1, <1>6, <2>2
<1>8. \A k \in 0 .. n : it[1 .. k] \in T
  <2> DEFINE runs == [k \in 0 .. n |-> it[1 .. k]]
  <2>1. runs[0] \in T /\ \A k \in 1 .. n : runs[k - 1] \in T => runs[k] \in T
    <3> HIDE DEF n
    <3> QED BY <1>1, <1>2, <1>3, <1>7
  <2>2. \A k \in 0 .. n : runs[k] \in T
    <3> HIDE DEF runs, n
    <3> QED BY <1>1, <2>1, RunsTyped
  <2> QED BY <2>2
<1> QED BY <1>1, <1>4, <1>8 DEF T

(* What a symbol's saved trades amount to.                                 *)
LEMMA EventsTyped ==
  ASSUME NEW events \in Seq(Saved)
  PROVE  Replayed(events) \in Accounts
<1> DEFINE Step(x, y) == IF y.closed = 0 THEN x ELSE Observed(x, Collapsed(y.closed, y.pnl))
           n == Len(events)
           T == Accounts
           base == NoTrades
           step == [k \in 1 .. n |-> [x \in T |-> Step(x, events[k])]]
           Unrolls(it) == it = [s \in SUBSET (DOMAIN events) |->
                              IF s = {} THEN base ELSE Step(it[s \ {Max(s)}], events[Max(s)])]
           it == CHOOSE f : Unrolls(f)
<1>1. n \in Nat /\ DOMAIN events = 1 .. n
  OBVIOUS
<1>2. base \in T
  BY DEF NoTrades, Accounts
<1>3. ASSUME NEW k \in 1 .. n, NEW x \in T PROVE Step(x, events[k]) \in T
  <2>1. events[k] \in Saved
    BY <1>1, Elements
  <2>2. events[k].closed \in Nat /\ events[k].pnl \in Int
    BY <2>1 DEF Saved
  <2> QED BY <2>2, ObservedTyped, CollapsedTyped
<1>4. Replayed(events) = it[1 .. n]
  BY <1>1 DEF Replayed, FoldLeft, MapThenFoldSet
<1> HIDE DEF Step, T, base
<1>5. PICK f \in [SUBSET (1 .. n) -> T] : Folds(f, n, base, step)
  <2>1. step \in [1 .. n -> [T -> T]]
    BY <1>3
  <2> HIDE DEF step, n
  <2> QED BY <1>1, <1>2, <2>1, FoldRuns
<1>6. Unrolls(it)
  <2>1. ASSUME NEW s \in SUBSET (1 .. n), s # {}
        PROVE  step[Max(s)][f[s \ {Max(s)}]] = Step(f[s \ {Max(s)}], events[Max(s)])
    <3>1. s \in SUBSET (0 .. n)
      BY <1>1
    <3>2. Max(s) \in 1 .. n
      BY <1>1, <2>1, <3>1, LastPosition
    <3> QED BY <3>2
  <2> HIDE DEF step, n
  <2>2. Unrolls(f)
    BY <1>1, <1>5, <2>1 DEF Folds
  <2> HIDE DEF Unrolls
  <2> QED BY <2>2
<1> HIDE DEF it
<1>7. it[1 .. 0] = base /\ \A k \in 1 .. n : it[1 .. k] = Step(it[1 .. k - 1], events[k])
  <2>1. it[1 .. 0] = base
    BY <1>1, <1>6
  <2> SUFFICES ASSUME NEW k \in 1 .. n PROVE it[1 .. k] = Step(it[1 .. k - 1], events[k])
    BY <2>1
  <2>2. 1 .. k \in SUBSET (1 .. n) /\ 1 .. k # {} /\ Max(1 .. k) = k /\ (1 .. k) \ {k} = 1 .. k - 1
    BY <1>1, Prefix
  <2> HIDE DEF n
  <2> QED BY <1>1, <1>6, <2>2
<1>8. \A k \in 0 .. n : it[1 .. k] \in T
  <2> DEFINE runs == [k \in 0 .. n |-> it[1 .. k]]
  <2>1. runs[0] \in T /\ \A k \in 1 .. n : runs[k - 1] \in T => runs[k] \in T
    <3> HIDE DEF n
    <3> QED BY <1>1, <1>2, <1>3, <1>7
  <2>2. \A k \in 0 .. n : runs[k] \in T
    <3> HIDE DEF runs, n
    <3> QED BY <1>1, <2>1, RunsTyped
  <2> QED BY <2>2
<1> QED BY <1>1, <1>4, <1>8 DEF T


SavedTrades == [Symbols -> [0 .. MaxNow -> Saved]]

LEMMA AccumulatedTyped ==
  ASSUME NEW trades \in SavedTrades
  PROVE  Accumulated(trades) \in [Symbols -> Accounts]
<1> SUFFICES ASSUME NEW s \in Symbols
             PROVE  Replayed([i \in 1 .. MaxNow + 1 |-> trades[s][i - 1]]) \in Accounts
  BY DEF Accumulated
<1> DEFINE events == [i \in 1 .. MaxNow + 1 |-> trades[s][i - 1]]
<1>1. events \in Seq(Saved)
  <2>1. MaxNow \in Nat /\ trades[s] \in [0 .. MaxNow -> Saved]
    BY HistoryIsLongEnough DEF SavedTrades
  <2>2. \A i \in 1 .. MaxNow + 1 : trades[s][i - 1] \in Saved
    BY <2>1
  <2> HIDE DEF Saved
  <2> QED BY <2>1, <2>2
<1> QED BY <1>1, EventsTyped

(* The profit of trades that were drained.                                 *)
LEMMA TradesProfit ==
  ASSUME NEW trades \in Seq(Trades)
  PROVE  Profit(trades) \in Int
<1>1. \A i \in DOMAIN trades : trades[i].pnl \in Int
  <2> SUFFICES ASSUME NEW i \in DOMAIN trades PROVE trades[i].pnl \in Int
    OBVIOUS
  <2>1. trades[i] \in Trades
    BY Elements
  <2> QED BY <2>1 DEF Trades
<1> QED BY <1>1, ProfitType

(* record_closed_trade keeps a streak shorter than a long one.             *)
LEMMA GuardedTyped ==
  ASSUME NEW guard \in Guards, NEW trade \in Trades
  PROVE  Guarded(guard, trade, trade.ts) \in Guards
<1>1. /\ LongStreak \in Nat \ {0} /\ CooldownTime \in Nat /\ MaxNow \in Nat
      /\ trade.ts \in 0 .. MaxNow /\ trade.pnl \in Int /\ trade.stop \in BOOLEAN
      /\ guard.streak \in 0 .. LongStreak - 1 /\ guard.first \in Never .. MaxNow /\ guard.until \in Int
      /\ guard = [streak |-> guard.streak, first |-> guard.first, until |-> guard.until]
  BY RaceAssumption, HistoryIsLongEnough DEF Guards, Trades
<1> DEFINE first == IF guard.streak = 0 THEN trade.ts ELSE guard.first
           streak == guard.streak + 1
<1>2. 0 \in 0 .. LongStreak - 1 /\ Never \in Never .. MaxNow /\ Never \in Int
      /\ first \in Never .. MaxNow /\ trade.ts + CooldownTime \in Int
  BY <1>1 DEF Never
<1>3. streak >= LongStreak \/ streak \in 0 .. LongStreak - 1
  BY <1>1
<1> HIDE DEF first, streak
<1>4. CASE trade.pnl > 0
  BY <1>1, <1>2, <1>4 DEF Guarded, Guards
<1>5. CASE ~(trade.pnl > 0) /\ ~trade.stop
  BY <1>5 DEF Guarded
<1>6. CASE ~(trade.pnl > 0) /\ trade.stop
  <2>1. Guarded(guard, trade, trade.ts) =
          IF streak >= LongStreak \/ (streak >= FastStreak /\ trade.ts - first <= FastWindow)
          THEN [streak |-> 0, first |-> Never, until |-> trade.ts + CooldownTime]
          ELSE [guard EXCEPT !.streak = streak, !.first = first]
    BY <1>6 DEF Guarded, first, streak
  <2>2. [streak |-> 0, first |-> Never, until |-> trade.ts + CooldownTime] \in Guards
    BY <1>2 DEF Guards
  <2>3. ~(streak >= LongStreak) => [guard EXCEPT !.streak = streak, !.first = first] \in Guards
    BY <1>1, <1>2, <1>3 DEF Guards
  <2> QED BY <2>1, <2>2, <2>3
<1> QED BY <1>4, <1>5, <1>6

(* The guards after trades; none of them, and the guards stay.             *)
LEMMA GuardsTyped ==
  ASSUME NEW trades \in Seq(Trades), NEW guarded \in [Symbols -> Guards]
  PROVE  /\ GuardsAfter(guarded, trades) \in [Symbols -> Guards]
         /\ trades = <<>> => GuardsAfter(guarded, trades) = guarded
<1> DEFINE Step(x, y) == [x EXCEPT ![y.symbol] = Guarded(x[y.symbol], y, y.ts)]
           n == Len(trades)
           T == [Symbols -> Guards]
           base == guarded
           step == [k \in 1 .. n |-> [x \in T |-> Step(x, trades[k])]]
           Unrolls(it) == it = [s \in SUBSET (DOMAIN trades) |->
                              IF s = {} THEN base ELSE Step(it[s \ {Max(s)}], trades[Max(s)])]
           it == CHOOSE f : Unrolls(f)
<1>1. n \in Nat /\ DOMAIN trades = 1 .. n
  OBVIOUS
<1>2. base \in T
  OBVIOUS
<1>3. ASSUME NEW k \in 1 .. n, NEW x \in T PROVE Step(x, trades[k]) \in T
  <2>1. trades[k] \in Trades
    BY <1>1, Elements
  <2>2. trades[k].symbol \in Symbols
    BY <2>1 DEF Trades
  <2>3. Guarded(x[trades[k].symbol], trades[k], trades[k].ts) \in Guards
    BY <2>1, <2>2, GuardedTyped
  <2> QED BY <2>2, <2>3
<1>4. GuardsAfter(guarded, trades) = it[1 .. n]
  BY <1>1 DEF GuardsAfter, FoldLeft, MapThenFoldSet
<1> HIDE DEF Step, T, base
<1>5. PICK f \in [SUBSET (1 .. n) -> T] : Folds(f, n, base, step)
  <2>1. step \in [1 .. n -> [T -> T]]
    BY <1>3
  <2> HIDE DEF step, n
  <2> QED BY <1>1, <1>2, <2>1, FoldRuns
<1>6. Unrolls(it)
  <2>1. ASSUME NEW s \in SUBSET (1 .. n), s # {}
        PROVE  step[Max(s)][f[s \ {Max(s)}]] = Step(f[s \ {Max(s)}], trades[Max(s)])
    <3>1. s \in SUBSET (0 .. n)
      BY <1>1
    <3>2. Max(s) \in 1 .. n
      BY <1>1, <2>1, <3>1, LastPosition
    <3> QED BY <3>2
  <2> HIDE DEF step, n
  <2>2. Unrolls(f)
    BY <1>1, <1>5, <2>1 DEF Folds
  <2> HIDE DEF Unrolls
  <2> QED BY <2>2
<1> HIDE DEF it
<1>7. it[1 .. 0] = base /\ \A k \in 1 .. n : it[1 .. k] = Step(it[1 .. k - 1], trades[k])
  <2>1. it[1 .. 0] = base
    BY <1>1, <1>6
  <2> SUFFICES ASSUME NEW k \in 1 .. n PROVE it[1 .. k] = Step(it[1 .. k - 1], trades[k])
    BY <2>1
  <2>2. 1 .. k \in SUBSET (1 .. n) /\ 1 .. k # {} /\ Max(1 .. k) = k /\ (1 .. k) \ {k} = 1 .. k - 1
    BY <1>1, Prefix
  <2> HIDE DEF n
  <2> QED BY <1>1, <1>6, <2>2
<1>8. \A k \in 0 .. n : it[1 .. k] \in T
  <2> DEFINE runs == [k \in 0 .. n |-> it[1 .. k]]
  <2>1. runs[0] \in T /\ \A k \in 1 .. n : runs[k - 1] \in T => runs[k] \in T
    <3> HIDE DEF n
    <3> QED BY <1>1, <1>2, <1>3, <1>7
  <2>2. \A k \in 0 .. n : runs[k] \in T
    <3> HIDE DEF runs, n
    <3> QED BY <1>1, <2>1, RunsTyped
  <2> QED BY <2>2
<1>9. trades = <<>> => n = 0
  BY <1>1
<1> QED BY <1>1, <1>4, <1>7, <1>8, <1>9 DEF T, base
(* Paper money after trades.                                               *)
LEMMA PaperTyped ==
  ASSUME NEW trades \in Seq(Trades), NEW money \in Accounts, NEW p
  PROVE  /\ PaperAfter(money, p, trades) \in Accounts
         /\ trades = <<>> => PaperAfter(money, p, trades) = money
<1> DEFINE Step(x, y) == IF p \in Credited(y) THEN PaperTrade(x, y) ELSE x
           n == Len(trades)
           T == Accounts
           base == money
           step == [k \in 1 .. n |-> [x \in T |-> Step(x, trades[k])]]
           Unrolls(it) == it = [s \in SUBSET (DOMAIN trades) |->
                              IF s = {} THEN base ELSE Step(it[s \ {Max(s)}], trades[Max(s)])]
           it == CHOOSE f : Unrolls(f)
<1>1. n \in Nat /\ DOMAIN trades = 1 .. n
  OBVIOUS
<1>2. base \in T
  OBVIOUS
<1>3. ASSUME NEW k \in 1 .. n, NEW x \in T PROVE Step(x, trades[k]) \in T
  <2>1. trades[k] \in Trades
    BY <1>1, Elements
  <2>2. trades[k].pnl \in Int
    BY <2>1 DEF Trades
  <2> QED BY <2>2, ObservedTyped DEF PaperTrade
<1>4. PaperAfter(money, p, trades) = it[1 .. n]
  BY <1>1 DEF PaperAfter, FoldLeft, MapThenFoldSet
<1> HIDE DEF Step, T, base
<1>5. PICK f \in [SUBSET (1 .. n) -> T] : Folds(f, n, base, step)
  <2>1. step \in [1 .. n -> [T -> T]]
    BY <1>3
  <2> HIDE DEF step, n
  <2> QED BY <1>1, <1>2, <2>1, FoldRuns
<1>6. Unrolls(it)
  <2>1. ASSUME NEW s \in SUBSET (1 .. n), s # {}
        PROVE  step[Max(s)][f[s \ {Max(s)}]] = Step(f[s \ {Max(s)}], trades[Max(s)])
    <3>1. s \in SUBSET (0 .. n)
      BY <1>1
    <3>2. Max(s) \in 1 .. n
      BY <1>1, <2>1, <3>1, LastPosition
    <3> QED BY <3>2
  <2> HIDE DEF step, n
  <2>2. Unrolls(f)
    BY <1>1, <1>5, <2>1 DEF Folds
  <2> HIDE DEF Unrolls
  <2> QED BY <2>2
<1> HIDE DEF it
<1>7. it[1 .. 0] = base /\ \A k \in 1 .. n : it[1 .. k] = Step(it[1 .. k - 1], trades[k])
  <2>1. it[1 .. 0] = base
    BY <1>1, <1>6
  <2> SUFFICES ASSUME NEW k \in 1 .. n PROVE it[1 .. k] = Step(it[1 .. k - 1], trades[k])
    BY <2>1
  <2>2. 1 .. k \in SUBSET (1 .. n) /\ 1 .. k # {} /\ Max(1 .. k) = k /\ (1 .. k) \ {k} = 1 .. k - 1
    BY <1>1, Prefix
  <2> HIDE DEF n
  <2> QED BY <1>1, <1>6, <2>2
<1>8. \A k \in 0 .. n : it[1 .. k] \in T
  <2> DEFINE runs == [k \in 0 .. n |-> it[1 .. k]]
  <2>1. runs[0] \in T /\ \A k \in 1 .. n : runs[k - 1] \in T => runs[k] \in T
    <3> HIDE DEF n
    <3> QED BY <1>1, <1>2, <1>3, <1>7
  <2>2. \A k \in 0 .. n : runs[k] \in T
    <3> HIDE DEF runs, n
    <3> QED BY <1>1, <2>1, RunsTyped
  <2> QED BY <2>2
<1>9. trades = <<>> => n = 0
  BY <1>1
<1> QED BY <1>1, <1>4, <1>7, <1>8, <1>9 DEF T, base

-----------------------------------------------------------------------------
(* The invariant: every variable has its type, and no assignment overlaps, *)
(* neither the one in force nor those on their way to the database, which  *)
(* a restart restores.                                                     *)

Remembered == [at : 0 .. MaxNow, assignment : [Portfolios -> Lists]]

SnapshotTyped(snapshot) ==
  /\ snapshot.guards \in [Symbols -> Guards] /\ snapshot.paper \in [Portfolios -> Accounts]
  /\ snapshot.assignment \in [Portfolios -> Lists] /\ HeldApart(snapshot.assignment)
  /\ snapshot.at \in Never .. MaxNow

RuntimeTyped ==
  /\ now \in 0 .. MaxNow /\ since \in 0 .. now
  /\ accumulators \in [Symbols -> Accounts]
  /\ guards \in [Symbols -> Guards] /\ paper \in [Portfolios -> Accounts]
  /\ assignment \in [Portfolios -> Lists] /\ HeldApart(assignment)
  /\ lastRebalance \in Never .. MaxNow
  /\ history \in Seq(Remembered) /\ Len(history) <= HistoryCap

WorkerTyped ==
  /\ workerPc \in {"idle", "record", "send"} /\ drained \in Seq(Trades)
  /\ workerPc # "idle" => drained # <<>>
  /\ SnapshotTyped(workerSnapshot)

SchedTyped ==
  /\ schedPc \in {"idle", "assign", "send"} /\ candidates \in Statistics
  /\ SnapshotTyped(schedSnapshot)

DbTyped ==
  /\ db = [snapshot |-> db.snapshot, trades |-> db.trades]
  /\ SnapshotTyped(db.snapshot) /\ db.trades \in SavedTrades

RaceInv == RuntimeTyped /\ WorkerTyped /\ SchedTyped /\ DbTyped

LEMMA NoSnapshotTyped ==
  /\ SnapshotTyped(NoSnapshot) /\ [s \in Symbols |-> NoGuard] \in [Symbols -> Guards]
  /\ NoPaper \in [Portfolios -> Accounts] /\ NoTrades \in Accounts
<1>1. NoGuard \in Guards
  BY RaceAssumption, HistoryIsLongEnough DEF NoGuard, Guards, Never
<1>2. NoTrades \in Accounts
  BY DEF NoTrades, Accounts
<1>3. [s \in Symbols |-> NoGuard] \in [Symbols -> Guards] /\ NoPaper \in [Portfolios -> Accounts]
  BY <1>1, <1>2 DEF NoPaper
<1>4. Never \in Never .. MaxNow
  BY HistoryIsLongEnough DEF Never
<1> QED BY <1>2, <1>3, <1>4, UnassignedApart DEF NoSnapshot, SnapshotTyped

LEMMA RaceInit == PortfolioInit => RaceInv
<1> SUFFICES ASSUME PortfolioInit PROVE RaceInv
  OBVIOUS
<1>1. RuntimeTyped
  <2>1. Never \in Never .. MaxNow /\ 0 \in 0 .. MaxNow /\ 0 \in 0 .. 0 /\ HistoryCap \in Nat
    BY HistoryIsLongEnough DEF Never
  <2>2. <<>> \in Seq(Remembered) /\ Len(<<>>) = 0
    OBVIOUS
  <2> QED BY <2>1, <2>2, NoSnapshotTyped, UnassignedApart DEF PortfolioInit, RuntimeTyped
<1>2. WorkerTyped
  BY NoSnapshotTyped DEF PortfolioInit, WorkerTyped
<1>3. SchedTyped
  <2>1. {} \in Statistics
    BY FS_EmptySet DEF Statistics, OneEach
  <2> QED BY <2>1, NoSnapshotTyped DEF PortfolioInit, SchedTyped
<1>4. DbTyped
  <2>1. [closed |-> 0, pnl |-> 0] \in Saved
    BY DEF Saved
  <2>2. [s \in Symbols |-> [ts \in 0 .. MaxNow |-> [closed |-> 0, pnl |-> 0]]] \in SavedTrades
    BY <2>1 DEF SavedTrades
  <2> QED BY <2>2, NoSnapshotTyped DEF PortfolioInit, DbTyped
<1> QED BY <1>1, <1>2, <1>3, <1>4 DEF RaceInv

(* What a fleet closes are trades.                                         *)
LEMMA DrainsTyped ==
  ASSUME RaceInv, NEW s \in Symbols, NEW t \in Drains(s)
  PROVE  /\ t \in Trades /\ t.symbol = s /\ t.ts = now /\ t.entry \in since .. now
         /\ now - t.entry <= MaxHold
         /\ \A o \in Outcomes : [t EXCEPT !.pnl = o.pnl, !.stop = o.stop] \in Trades
<1>1. /\ MaxNow \in Nat /\ now \in 0 .. MaxNow /\ since \in 0 .. now
      /\ Outcomes \subseteq [pnl : Int, stop : BOOLEAN]
  BY HistoryIsLongEnough, TradesAssumption DEF RaceInv, RuntimeTyped
<1>2. t \in [symbol : {s}, pnl : {o.pnl : o \in Outcomes}, stop : BOOLEAN,
             entry : since .. now, ts : {now}, mine : BOOLEAN] /\ now - t.entry <= MaxHold
  BY DEF Drains
<1>3. since .. now \subseteq 0 .. MaxNow /\ {now} \subseteq 0 .. MaxNow
  BY <1>1
<1>4. {o.pnl : o \in Outcomes} \subseteq Int /\ \A o \in Outcomes : o.pnl \in Int /\ o.stop \in BOOLEAN
  BY <1>1
<1>5. t \in Trades
  BY <1>2, <1>3, <1>4 DEF Trades
<1>6. \A o \in Outcomes : [t EXCEPT !.pnl = o.pnl, !.stop = o.stop] \in Trades
  BY <1>4, <1>5 DEF Trades
<1> QED BY <1>2, <1>5, <1>6

(* What the worker drains in a step.                                       *)
Drained(s, trades) ==
  /\ s \in Symbols /\ trades \in Seq(Trades) /\ trades # <<>>
  /\ \A i \in DOMAIN trades : /\ trades[i].symbol = s /\ trades[i].ts = now
                              /\ trades[i].entry \in since .. now
                              /\ now - trades[i].entry <= MaxHold

LEMMA StepsDrain ==
  ASSUME RaceInv, PortfolioNext
  PROVE  \/ \E s, trades : Drained(s, trades) /\ WorkerObserve(s, trades)
         \/ \E s \in Symbols : Prune(s)
         \/ Advance \/ WorkerRecord \/ WorkerSend \/ SchedCollect \/ SchedAssign \/ SchedSend
         \/ FreshStart \/ Restart
<1>1. ASSUME NEW s \in Symbols, NEW t \in Drains(s) PROVE Drained(s, <<t>>)
  <2>1. /\ t \in Trades /\ t.symbol = s /\ t.ts = now /\ t.entry \in since .. now
        /\ now - t.entry <= MaxHold
    BY DrainsTyped
  <2>2. <<t>> \in Seq(Trades) /\ <<t>> # <<>> /\ DOMAIN <<t>> = {1} /\ <<t>>[1] = t
    BY <2>1
  <2> QED BY <2>1, <2>2 DEF Drained
<1>2. ASSUME NEW s \in Symbols, NEW t \in Drains(s), NEW o \in Outcomes
      PROVE  Drained(s, <<t, [t EXCEPT !.pnl = o.pnl, !.stop = o.stop]>>)
  <2> DEFINE u == [t EXCEPT !.pnl = o.pnl, !.stop = o.stop]
  <2>1. /\ t \in Trades /\ t.symbol = s /\ t.ts = now /\ t.entry \in since .. now
        /\ now - t.entry <= MaxHold /\ u \in Trades
    BY DrainsTyped
  <2>2. u.symbol = t.symbol /\ u.ts = t.ts /\ u.entry = t.entry
    BY <2>1 DEF Trades
  <2> HIDE DEF u
  <2>3. <<t, u>> \in Seq(Trades) /\ <<t, u>> # <<>> /\ DOMAIN <<t, u>> = {1, 2}
        /\ <<t, u>>[1] = t /\ <<t, u>>[2] = u
    BY <2>1
  <2> HIDE DEF Trades
  <2>4. Drained(s, <<t, u>>)
    BY <2>1, <2>2, <2>3 DEF Drained
  <2> QED BY <2>4 DEF u
<1> QED BY <1>1, <1>2 DEF PortfolioNext

(* record_assignment_snapshot: an assignment of the same time is replaced, *)
(* and the oldest one dropped when there is no room (d).                   *)
RecordedAs(hist, at, e, new) ==
  /\ new \in Seq(Remembered) /\ Len(new) <= HistoryCap
  /\ \E k \in Nat, d \in {0, 1} :
       /\ Len(new) = k + 1 - d
       /\ d = 1 <=> k + 1 > HistoryCap
       /\ \/ k = Len(hist) /\ (hist # <<>> => hist[Len(hist)].at # at)
          \/ k = Len(hist) - 1 /\ hist[Len(hist)].at = at
       /\ \A i \in 1 .. Len(new) : new[i] = IF i + d = k + 1 THEN e ELSE hist[i + d]
       /\ \A i \in 1 .. Len(new) : i + d # k + 1 => i + d \in 1 .. Len(hist) /\ i + d <= k

LEMMA RecordedListed ==
  ASSUME NEW hist \in Seq(Remembered), Len(hist) <= HistoryCap,
         NEW at \in 0 .. MaxNow, NEW assigned \in [Portfolios -> Lists]
  PROVE  RecordedAs(hist, at, [at |-> at, assignment |-> assigned], Recorded(hist, at, assigned))
<1> DEFINE e == [at |-> at, assignment |-> assigned]
           kept == IF hist # <<>> /\ Last(hist).at = at THEN Front(hist) ELSE hist
           k == Len(kept)
           next == Append(kept, e)
           new == IF Len(next) > HistoryCap THEN Tail(next) ELSE next
           l == Len(hist)
<1>1. HistoryCap \in Nat /\ l \in Nat /\ l <= HistoryCap /\ e \in Remembered /\ DOMAIN hist = 1 .. l
  BY HistoryIsLongEnough DEF Remembered
<1>2. Recorded(hist, at, assigned) = new
  BY DEF Recorded
<1>3. /\ kept \in Seq(Remembered) /\ k \in Nat /\ DOMAIN kept = 1 .. k
      /\ \/ k = l /\ (hist # <<>> => hist[l].at # at)
         \/ k = l - 1 /\ hist[l].at = at
      /\ \A i \in 1 .. k : kept[i] = hist[i]
  <2>1. CASE hist # <<>> /\ Last(hist).at = at
    <3>1. l > 0 /\ Last(hist) = hist[l]
      BY <1>1, <2>1 DEF Last
    <3>2. kept = SubSeq(hist, 1, l - 1)
      BY <2>1 DEF Front
    <3> HIDE DEF e
    <3>3. kept \in Seq(Remembered) /\ Len(kept) = l - 1 /\ \A i \in 1 .. l - 1 : kept[i] = hist[i]
      <4> HIDE DEF kept, Remembered
      <4> QED BY <1>1, <3>1, <3>2
    <3> HIDE DEF kept, Remembered, l
    <3> QED BY <1>1, <2>1, <3>1, <3>3
  <2>2. CASE ~(hist # <<>> /\ Last(hist).at = at)
    <3>1. kept = hist
      BY <2>2
    <3>2. hist # <<>> => hist[l].at # at
      BY <2>2 DEF Last
    <3> HIDE DEF kept, e, Remembered
    <3> QED BY <1>1, <3>1, <3>2
  <2> QED BY <2>1, <2>2
<1> HIDE DEF kept, e, Remembered, l
<1>4. /\ next \in Seq(Remembered) /\ Len(next) = k + 1
      /\ \A i \in 1 .. k : next[i] = kept[i]
      /\ next[k + 1] = e
  <2>1. kept \in Seq(Remembered) /\ e \in Remembered
    BY <1>1, <1>3
  <2> QED BY <2>1, Appends
<1> DEFINE d == IF Len(next) > HistoryCap THEN 1 ELSE 0
<1>5. d \in {0, 1} /\ (d = 1 <=> k + 1 > HistoryCap) /\ k <= HistoryCap
  <2>1. Len(next) = k + 1 /\ k \in Nat /\ HistoryCap \in Nat /\ l \in Nat /\ l <= HistoryCap
        /\ (k = l \/ k = l - 1)
    BY <1>1, <1>3, <1>4
  <2> HIDE DEF next, k
  <2> QED BY <2>1
<1>6. /\ new \in Seq(Remembered) /\ Len(new) = k + 1 - d
      /\ \A i \in 1 .. k + 1 - d : new[i] = next[i + d]
  <2>1. CASE Len(next) > HistoryCap
    <3>1. new = Tail(next) /\ d = 1 /\ next # <<>>
      <4>1. next # <<>>
        <5>1. Len(next) = k + 1 /\ k \in Nat
          BY <1>3, <1>4
        <5>2. Len(<<>>) = 0
          OBVIOUS
        <5> HIDE DEF next, k
        <5> QED BY <5>1, <5>2
      <4> QED BY <2>1, <4>1
    <3> HIDE DEF new, next, k, d
    <3> QED BY <1>3, <1>4, <3>1, HeadTailProperties
  <2>2. CASE ~(Len(next) > HistoryCap)
    <3>1. new = next /\ d = 0
      BY <2>2
    <3> HIDE DEF new, next, k, d
    <3> QED BY <1>3, <1>4, <3>1
  <2> QED BY <2>1, <2>2
<1> HIDE DEF next, d, new, k
<1>7. Len(new) <= HistoryCap
  BY <1>1, <1>3, <1>5, <1>6
<1>8. ASSUME NEW i \in 1 .. Len(new)
      PROVE  /\ new[i] = IF i + d = k + 1 THEN e ELSE hist[i + d]
             /\ i + d # k + 1 => i + d \in 1 .. l /\ i + d <= k
  <2>1. i \in 1 .. k + 1 - d /\ i + d \in 1 .. k + 1
    BY <1>3, <1>5, <1>6
  <2>2. CASE i + d = k + 1
    BY <1>4, <1>6, <2>1, <2>2
  <2>3. CASE i + d # k + 1
    <3>1. i + d \in 1 .. k /\ i + d \in 1 .. l
      BY <1>1, <1>3, <2>1, <2>3
    <3> QED BY <1>3, <1>4, <1>6, <2>1, <2>3, <3>1
  <2> QED BY <2>2, <2>3
<1>9. \/ k = Len(hist) /\ (hist # <<>> => hist[Len(hist)].at # at)
      \/ k = Len(hist) - 1 /\ hist[Len(hist)].at = at
  BY <1>3 DEF l
<1> QED BY <1>2, <1>3, <1>5, <1>6, <1>7, <1>8, <1>9 DEF e, l, RecordedAs

LEMMA ObserveTyped ==
  ASSUME RaceInv, NEW s, NEW trades, Drained(s, trades), WorkerObserve(s, trades)
  PROVE  RaceInv'
<1>1. s \in Symbols /\ trades \in Seq(Trades) /\ trades # <<>>
  BY DEF Drained
<1>2. accumulators' \in [Symbols -> Accounts]
  <2>1. accumulators \in [Symbols -> Accounts]
    BY DEF RaceInv, RuntimeTyped
  <2>2. Mine(trades) \in Seq(Trades)
    BY <1>1, MineTyped
  <2> DEFINE mine == Mine(trades)
             new == Observed(accumulators[s], Collapsed(Len(mine), Profit(mine)))
  <2>3. CASE mine = <<>>
    BY <2>1, <2>3 DEF WorkerObserve
  <2>4. CASE mine # <<>>
    <3>1. accumulators' = [accumulators EXCEPT ![s] = new]
      BY <2>4 DEF WorkerObserve
    <3>2. Len(mine) \in Nat /\ Len(mine) # 0
      BY <2>2, <2>4
    <3>4. Profit(mine) \in Int
      BY <2>2, TradesProfit
    <3>5. new \in Accounts
      BY <1>1, <2>1, <3>2, <3>4, CollapsedTyped, ObservedTyped
    <3> HIDE DEF new
    <3> QED BY <2>1, <3>1, <3>5
  <2> QED BY <2>3, <2>4
<1>3. RuntimeTyped'
  BY <1>2 DEF RaceInv, RuntimeTyped, WorkerObserve, runtimeVars
<1>4. WorkerTyped'
  BY <1>1 DEF RaceInv, WorkerTyped, WorkerObserve, SnapshotTyped
<1>5. SchedTyped' /\ DbTyped'
  BY DEF RaceInv, SchedTyped, DbTyped, SnapshotTyped, WorkerObserve, schedVars
<1> QED BY <1>3, <1>4, <1>5 DEF RaceInv

LEMMA RecordTyped ==
  ASSUME RaceInv, WorkerRecord
  PROVE  RaceInv'
<1> DEFINE mine == Mine(drained)
<1>1. mine \in Seq(Trades)
  BY MineTyped DEF RaceInv, WorkerTyped
<1>2. /\ guards \in [Symbols -> Guards] /\ paper \in [Portfolios -> Accounts]
      /\ assignment \in [Portfolios -> Lists] /\ HeldApart(assignment)
  BY DEF RaceInv, RuntimeTyped
<1>3. guards' = GuardsAfter(guards, mine) /\ paper' = [p \in Portfolios |-> PaperAfter(paper[p], p, mine)]
  BY DEF WorkerRecord, RecordGuards, RecordPaper
<1> HIDE DEF mine
<1>4. guards' \in [Symbols -> Guards] /\ (mine = <<>> => guards' = guards)
  BY <1>1, <1>2, <1>3, GuardsTyped
<1>5. paper' \in [Portfolios -> Accounts] /\ (mine = <<>> => paper' = paper)
  <2>1. \A p \in Portfolios : /\ PaperAfter(paper[p], p, mine) \in Accounts
                              /\ mine = <<>> => PaperAfter(paper[p], p, mine) = paper[p]
    BY <1>1, <1>2, PaperTyped
  <2>2. paper' \in [Portfolios -> Accounts]
    BY <1>3, <2>1
  <2>3. mine = <<>> => \A p \in Portfolios : paper'[p] = paper[p]
    BY <1>3, <2>1
  <2> QED BY <1>2, <2>2, <2>3
<1>6. RuntimeTyped'
  BY <1>4, <1>5 DEF RaceInv, RuntimeTyped, WorkerRecord
<1>7. WorkerTyped'
  <2>1. SnapshotTyped(workerSnapshot)'
    <3>1. CASE ~Changes
      BY <3>1 DEF WorkerRecord, RaceInv, WorkerTyped, SnapshotTyped
    <3>2. CASE Changes
      <4>1. workerSnapshot' = Snapshot("worker", Last(mine).ts)
        BY <3>2 DEF WorkerRecord, mine
      <4>2. mine # <<>>
        BY <1>4, <1>5, <3>2 DEF Changes
      <4>3. Last(mine).ts \in Never .. MaxNow
        <5>1. Len(mine) \in DOMAIN mine /\ Last(mine) = mine[Len(mine)]
          BY <1>1, <4>2 DEF Last
        <5>2. Last(mine) \in Trades
          BY <1>1, <5>1, Elements
        <5>3. Last(mine).ts \in 0 .. MaxNow
          BY <5>2 DEF Trades
        <5> QED BY <5>3, HistoryIsLongEnough DEF Never
      <4>4. assignment' = assignment
        BY DEF WorkerRecord
      <4>5. HeldApart(assignment')
        BY <1>2, <4>4
      <4>6. /\ workerSnapshot'.guards = guards' /\ workerSnapshot'.paper = paper'
            /\ workerSnapshot'.assignment = assignment' /\ workerSnapshot'.at = Last(mine).ts
        BY <4>1 DEF Snapshot
      <4> QED BY <1>2, <1>4, <1>5, <4>3, <4>4, <4>5, <4>6 DEF SnapshotTyped
    <3> QED BY <3>1, <3>2
  <2> QED BY <2>1 DEF RaceInv, WorkerTyped, WorkerRecord
<1>8. SchedTyped' /\ DbTyped'
  BY DEF RaceInv, SchedTyped, DbTyped, SnapshotTyped, WorkerRecord, schedVars
<1> QED BY <1>6, <1>7, <1>8 DEF RaceInv

LEMMA SendTyped ==
  ASSUME RaceInv, WorkerSend
  PROVE  RaceInv'
<1>1. RuntimeTyped' /\ SchedTyped'
  BY DEF RaceInv, RuntimeTyped, SchedTyped, SnapshotTyped, WorkerSend, runtimeVars, schedVars, histVars
<1>2. WorkerTyped'
  <2>1. <<>> \in Seq(Trades)
    OBVIOUS
  <2> QED BY <2>1, NoSnapshotTyped DEF WorkerTyped, WorkerSend
<1>3. DbTyped'
  <2> DEFINE t == Head(drained)
             cell == [closed |-> db.trades[t.symbol][t.ts].closed + Len(drained),
                      pnl |-> db.trades[t.symbol][t.ts].pnl + Profit(drained)]
             trades == [db.trades EXCEPT ![t.symbol] = [@ EXCEPT ![t.ts] = cell]]
  <2>1. /\ drained \in Seq(Trades) /\ drained # <<>>
        /\ db = [snapshot |-> db.snapshot, trades |-> db.trades]
        /\ SnapshotTyped(db.snapshot) /\ db.trades \in SavedTrades /\ SnapshotTyped(workerSnapshot)
    BY DEF RaceInv, WorkerTyped, DbTyped, WorkerSend
  <2>2. t \in Trades
    BY <2>1
  <2>3. t.symbol \in Symbols /\ t.ts \in 0 .. MaxNow
    BY <2>2 DEF Trades
  <2>4. WithTrades(db, drained) = [snapshot |-> db.snapshot, trades |-> trades]
    BY <2>1 DEF WithTrades
  <2>5. cell \in Saved
    <3>1. Len(drained) \in Nat
      BY <2>1
    <3>2. Profit(drained) \in Int
      BY <2>1, TradesProfit
    <3> HIDE DEF t
    <3> DEFINE old == db.trades[t.symbol][t.ts]
    <3>3. old \in Saved
      BY <2>1, <2>3 DEF SavedTrades
    <3> HIDE DEF old
    <3>4. old.closed \in Nat /\ old.pnl \in Int
      BY <3>3 DEF Saved
    <3>5. [closed |-> old.closed + Len(drained), pnl |-> old.pnl + Profit(drained)] \in Saved
      BY <3>1, <3>2, <3>4 DEF Saved
    <3> QED BY <3>5 DEF old
  <2> HIDE DEF cell, t
  <2>6. trades \in SavedTrades
    BY <2>1, <2>3, <2>5 DEF SavedTrades
  <2> HIDE DEF trades
  <2>7. CASE workerSnapshot = NoSnapshot
    <3>1. db' = [snapshot |-> db.snapshot, trades |-> trades]
      BY <2>4, <2>7 DEF WorkerSend
    <3> QED BY <2>1, <2>6, <3>1 DEF DbTyped, SnapshotTyped
  <2>8. CASE workerSnapshot # NoSnapshot
    <3>1. db' = [snapshot |-> workerSnapshot, trades |-> trades]
      BY <2>4, <2>8 DEF WorkerSend, WithBoth
    <3> QED BY <2>1, <2>6, <3>1 DEF DbTyped, SnapshotTyped
  <2> QED BY <2>7, <2>8
<1> QED BY <1>1, <1>2, <1>3 DEF RaceInv

LEMMA CollectTyped ==
  ASSUME RaceInv, SchedCollect
  PROVE  RaceInv'
<1>1. candidates' \in Statistics
  <2> DEFINE traded == {x \in Symbols : accumulators[x] # NoTrades}
             all == {CandidateStats(s) : s \in traded}
  <2>1. accumulators \in [Symbols -> Accounts] /\ now \in Int
    BY HistoryIsLongEnough DEF RaceInv, RuntimeTyped
  <2>2. IsFiniteSet(all)
    <3>1. IsFiniteSet(traded)
      BY TradesAssumption, FS_Subset, Zenon
    <3>2. [x \in traded |-> CandidateStats(x)] \in Surjection(traded, all)
      BY DEF Surjection
    <3> HIDE DEF traded, all
    <3> QED BY <3>1, <3>2, FS_Surjection
  <2>3. \A s \in traded : CandidateStats(s) \in Fields /\ CandidateStats(s).symbol = s
    BY <2>1 DEF CandidateStats, Fields, Accounts
  <2>4. all \in SUBSET Fields /\ OneEach(all)
    BY <2>3 DEF OneEach
  <2>5. candidates' = all
    BY DEF SchedCollect
  <2> HIDE DEF all
  <2> QED BY <2>2, <2>4, <2>5 DEF Statistics
<1>2. RuntimeTyped' /\ WorkerTyped' /\ DbTyped'
  BY DEF RaceInv, RuntimeTyped, WorkerTyped, DbTyped, SnapshotTyped, SchedCollect, runtimeVars,
         workerVars, histVars
<1>3. SchedTyped'
  BY <1>1 DEF RaceInv, SchedTyped, SnapshotTyped, SchedCollect
<1> QED BY <1>2, <1>3 DEF RaceInv

LEMMA AssignTyped ==
  ASSUME RaceInv, SchedAssign
  PROVE  RaceInv'
<1>1. {} \in Statistics
  BY FS_EmptySet DEF Statistics, OneEach
<1>2. WorkerTyped' /\ DbTyped'
  BY DEF RaceInv, WorkerTyped, DbTyped, SnapshotTyped, SchedAssign, workerVars
<1>3. CASE ~Due(now)
  <2>1. UNCHANGED <<now, since, accumulators, guards, paper, assignment, lastRebalance, history, schedSnapshot>>
        /\ schedPc' = "idle" /\ candidates' = {}
    BY <1>3 DEF SchedAssign, runtimeVars
  <2> QED BY <1>1, <1>2, <2>1 DEF RaceInv, RuntimeTyped, SchedTyped, SnapshotTyped
<1>4. CASE Due(now)
  <2>1. /\ assignment' = Assignment(candidates, guards, now) /\ lastRebalance' = now
        /\ history' = Recorded(history, now, assignment')
        /\ UNCHANGED <<now, since, accumulators, guards, paper>>
        /\ schedSnapshot' = Snapshot("scheduler", now)
        /\ schedPc' = "send" /\ candidates' = {}
    BY <1>4 DEF SchedAssign
  <2>2. assignment' \in [Portfolios -> Lists] /\ HeldApart(assignment')
    BY <2>1, AssignmentApart DEF RaceInv, SchedTyped
  <2>3. now \in 0 .. MaxNow /\ now \in Never .. MaxNow /\ history \in Seq(Remembered) /\ Len(history) <= HistoryCap
    BY HistoryIsLongEnough DEF RaceInv, RuntimeTyped, Never
  <2>4. history' \in Seq(Remembered) /\ Len(history') <= HistoryCap
    BY <2>1, <2>2, <2>3, RecordedListed DEF RecordedAs
  <2>5. RuntimeTyped'
    BY <2>1, <2>2, <2>3, <2>4 DEF RaceInv, RuntimeTyped
  <2>6. SnapshotTyped(schedSnapshot)'
    <3>1. /\ schedSnapshot'.guards = guards' /\ schedSnapshot'.paper = paper'
          /\ schedSnapshot'.assignment = assignment' /\ schedSnapshot'.at = now
      BY <2>1 DEF Snapshot
    <3> QED BY <2>2, <2>3, <2>5, <3>1 DEF RuntimeTyped, SnapshotTyped
  <2>7. SchedTyped'
    BY <1>1, <2>1, <2>6 DEF SchedTyped
  <2> QED BY <1>2, <2>5, <2>7 DEF RaceInv
<1> QED BY <1>3, <1>4

LEMMA SchedSendTyped ==
  ASSUME RaceInv, SchedSend
  PROVE  RaceInv'
<1>1. RuntimeTyped' /\ WorkerTyped'
  BY DEF RaceInv, RuntimeTyped, WorkerTyped, SnapshotTyped, SchedSend, runtimeVars, workerVars, histVars
<1>2. SchedTyped'
  BY NoSnapshotTyped DEF RaceInv, SchedTyped, SchedSend
<1>3. DbTyped'
  <2>1. db' = [snapshot |-> schedSnapshot, trades |-> db.trades]
    BY DEF RaceInv, DbTyped, SchedSend, WithSnapshot
  <2> QED BY <2>1 DEF RaceInv, SchedTyped, DbTyped, SnapshotTyped
<1> QED BY <1>1, <1>2, <1>3 DEF RaceInv

LEMMA FreshStartTyped ==
  ASSUME RaceInv, FreshStart
  PROVE  RaceInv'
<1>1. RuntimeTyped'
  <2>1. /\ assignment' = Unassigned /\ guards' = [s \in Symbols |-> NoGuard]
        /\ lastRebalance' = Never /\ paper' = NoPaper /\ history' = history
        /\ accumulators' = [s \in Symbols |-> NoTrades] /\ since' = now /\ now' = now
    BY DEF FreshStart
  <2>2. HeldApart(assignment') /\ assignment' \in [Portfolios -> Lists]
    BY <2>1, UnassignedApart
  <2>3. Never \in Never .. MaxNow /\ now \in 0 .. now /\ now \in 0 .. MaxNow
    BY HistoryIsLongEnough DEF Never, RaceInv, RuntimeTyped
  <2>4. accumulators' \in [Symbols -> Accounts]
    BY <2>1, NoSnapshotTyped
  <2> QED BY <2>1, <2>2, <2>3, <2>4, NoSnapshotTyped DEF RaceInv, RuntimeTyped
<1>2. WorkerTyped' /\ SchedTyped' /\ DbTyped'
  BY DEF RaceInv, WorkerTyped, SchedTyped, DbTyped, SnapshotTyped, FreshStart, workerVars, schedVars
<1> QED BY <1>1, <1>2 DEF RaceInv

LEMMA RestartTyped ==
  ASSUME RaceInv, Restart
  PROVE  RaceInv'
<1>1. /\ guards' = db.snapshot.guards /\ assignment' = db.snapshot.assignment
      /\ paper' = db.snapshot.paper /\ lastRebalance' = db.snapshot.at
      /\ history' = IF db.snapshot.at = Never THEN <<>>
                    ELSE Recorded(<<>>, db.snapshot.at, db.snapshot.assignment)
      /\ accumulators' = Accumulated(db.trades) /\ since' = now /\ now' = now /\ db' = db
      /\ workerPc' = "idle" /\ drained' = <<>> /\ workerSnapshot' = NoSnapshot
      /\ schedPc' = "idle" /\ candidates' = {} /\ schedSnapshot' = NoSnapshot
  BY DEF Restart, Loaded
<1>2. SnapshotTyped(db.snapshot) /\ db.trades \in SavedTrades /\ now \in 0 .. MaxNow
  BY DEF RaceInv, DbTyped, RuntimeTyped
<1>3. history' \in Seq(Remembered) /\ Len(history') <= HistoryCap
  <2>1. <<>> \in Seq(Remembered) /\ Len(<<>>) <= HistoryCap
    BY HistoryIsLongEnough
  <2>2. CASE db.snapshot.at = Never
    BY <1>1, <2>1, <2>2
  <2>3. CASE db.snapshot.at # Never
    <3>1. db.snapshot.at \in 0 .. MaxNow /\ db.snapshot.assignment \in [Portfolios -> Lists]
      BY <1>2, <2>3, HistoryIsLongEnough DEF SnapshotTyped, Never
    <3>2. history' = Recorded(<<>>, db.snapshot.at, db.snapshot.assignment)
      BY <1>1, <2>3
    <3> QED BY <2>1, <3>1, <3>2, RecordedListed DEF RecordedAs
  <2> QED BY <2>2, <2>3
<1>4. RuntimeTyped'
  <2>1. accumulators' \in [Symbols -> Accounts]
    BY <1>1, <1>2, AccumulatedTyped
  <2>2. now \in 0 .. now
    BY <1>2
  <2>3. HeldApart(assignment')
    BY <1>1, <1>2 DEF SnapshotTyped
  <2> QED BY <1>1, <1>2, <1>3, <2>1, <2>2, <2>3 DEF RuntimeTyped, SnapshotTyped
<1>5. WorkerTyped'
  <2>1. <<>> \in Seq(Trades)
    OBVIOUS
  <2> QED BY <1>1, <2>1, NoSnapshotTyped DEF WorkerTyped
<1>6. SchedTyped'
  <2>1. {} \in Statistics
    BY FS_EmptySet DEF Statistics, OneEach
  <2> QED BY <1>1, <2>1, NoSnapshotTyped DEF SchedTyped
<1>7. DbTyped'
  BY <1>1 DEF RaceInv, DbTyped, SnapshotTyped
<1> QED BY <1>4, <1>5, <1>6, <1>7 DEF RaceInv

LEMMA RaceStep == RaceInv /\ [PortfolioNext]_portfolioVars => RaceInv'
<1> SUFFICES ASSUME RaceInv, [PortfolioNext]_portfolioVars PROVE RaceInv'
  OBVIOUS
<1>1. CASE UNCHANGED portfolioVars
  BY <1>1 DEF RaceInv, RuntimeTyped, WorkerTyped, SchedTyped, DbTyped, SnapshotTyped, portfolioVars,
              runtimeVars, workerVars, schedVars, histVars
<1>2. CASE Advance
  <2>1. now' \in 0 .. MaxNow /\ since' \in 0 .. now'
    BY <1>2, HistoryIsLongEnough DEF Advance, RaceInv, RuntimeTyped, histVars
  <2>2. RuntimeTyped'
    BY <1>2, <2>1 DEF Advance, RaceInv, RuntimeTyped, runtimeVars
  <2>3. WorkerTyped' /\ SchedTyped' /\ DbTyped'
    BY <1>2 DEF Advance, RaceInv, WorkerTyped, SchedTyped, DbTyped, SnapshotTyped, workerVars, schedVars
  <2> QED BY <2>2, <2>3 DEF RaceInv
<1>3. ASSUME NEW s \in Symbols, Prune(s) PROVE RaceInv'
  <2>1. accumulators' \in [Symbols -> Accounts]
    BY <1>3, NoSnapshotTyped DEF Prune, RaceInv, RuntimeTyped
  <2>2. RuntimeTyped'
    BY <1>3, <2>1 DEF Prune, RaceInv, RuntimeTyped, runtimeVars
  <2>3. WorkerTyped' /\ SchedTyped' /\ DbTyped'
    BY <1>3 DEF Prune, RaceInv, WorkerTyped, SchedTyped, DbTyped, SnapshotTyped, workerVars, schedVars
  <2> QED BY <2>2, <2>3 DEF RaceInv
<1>4. CASE PortfolioNext
  BY <1>2, <1>3, <1>4, StepsDrain, ObserveTyped, RecordTyped, SendTyped, CollectTyped, AssignTyped,
     SchedSendTyped, FreshStartTyped, RestartTyped
<1> QED BY <1>1, <1>4

LEMMA RaceAlways == PortfolioSpec => []RaceInv
  BY RaceInit, RaceStep, PTL DEF PortfolioSpec

(* Every variable of the portfolio race has its type: whatever trades are  *)
(* recorded, a streak ends before it is long (record_closed_trade), and no *)
(* more assignments are remembered than there is room for                  *)
(* (record_assignment_snapshot).                                           *)
THEOREM PortfolioTyped == PortfolioSpec => []PortfolioTypeOK
<1>1. RaceInv => PortfolioTypeOK
  <2> SUFFICES ASSUME RaceInv PROVE PortfolioTypeOK
    OBVIOUS
  <2>1. accumulators \in [Symbols -> [closed : Nat, won : Nat, lost : Nat, pnl : Int]]
    BY DEF RaceInv, RuntimeTyped, Accounts
  <2>2. \A i \in DOMAIN history : history[i].assignment \in [Portfolios -> Lists]
    <3>1. history \in Seq(Remembered)
      BY DEF RaceInv, RuntimeTyped
    <3>2. \A i \in DOMAIN history : history[i] \in Remembered
      BY <3>1, Elements
    <3> QED BY <3>2 DEF Remembered
  <2>3. DOMAIN paper = Portfolios
    BY DEF RaceInv, RuntimeTyped
  <2> QED BY <2>1, <2>2, <2>3 DEF RaceInv, RuntimeTyped, WorkerTyped, SchedTyped, DbTyped,
                                  SnapshotTyped, PortfolioTypeOK
<1> QED BY <1>1, RaceAlways, PTL

(* assign_without_overlap, across rebalances, fresh starts, restarts and   *)
(* what is on its way to the database: no symbol is in two portfolios or   *)
(* twice in one, and a portfolio trades what is on its shortlist.          *)
THEOREM PortfoliosApart == PortfolioSpec => []NoOverlap
<1>1. RaceInv => NoOverlap
  <2> SUFFICES ASSUME RaceInv PROVE NoOverlap
    OBVIOUS
  <2>1. HeldApart(assignment) /\ HeldApart(db.snapshot.assignment)
    BY DEF RaceInv, RuntimeTyped, DbTyped, SnapshotTyped
  <2>2. \A held \in {assignment, db.snapshot.assignment} : HeldApart(held)
    BY <2>1
  <2> QED BY <2>2 DEF NoOverlap, HeldApart
<1> QED BY <1>1, RaceAlways, PTL

(* can_reenter: a rebalance gives no portfolio a symbol that cools down,   *)
(* even one whose cooldown began after the candidates were collected.      *)
THEOREM RebalanceRespectsCooldowns == PortfolioSpec => CooldownRespected
<1> DEFINE A == SchedAssign /\ assignment' # assignment =>
                  \A s \in Symbols :
                    CoolsDown(guards[s], now) =>
                      \A p \in Portfolios : s \notin Range(assignment'[p].shortlist)
<1>1. RaceInv => [A]_portfolioVars
  <2> SUFFICES ASSUME RaceInv, SchedAssign, assignment' # assignment,
                      NEW s \in Symbols, CoolsDown(guards[s], now), NEW p \in Portfolios,
                      s \in Range(assignment'[p].shortlist)
               PROVE  FALSE
    OBVIOUS
  <2>1. assignment' = Assignment(candidates, guards, now)
    BY DEF SchedAssign, runtimeVars
  <2>2. candidates \in Statistics
    BY DEF RaceInv, SchedTyped
  <2> QED BY <2>1, <2>2, AssignmentApart
<1> HIDE DEF A
<1>2. PortfolioSpec => [][A]_portfolioVars
  BY <1>1, RaceAlways, PTL
<1> QED BY <1>2 DEF A, CooldownRespected
-----------------------------------------------------------------------------
(* Whose trade it is.  The assignments remembered match those that were in *)
(* force, as far back as a position that closes now may have been opened.  *)

UpTo(seq, e) == {i \in DOMAIN seq : seq[i].at <= e}

(* The assignment in force at e is the last one remembered up to e.        *)
Matches(e) ==
  InForce(e) # Unassigned =>
    \E i \in UpTo(history, e) : /\ history[i].assignment = InForce(e)
                                /\ \A k \in UpTo(history, e) : k <= i

(* Assignments later than e are an interval apart: but for the one now, to *)
(* which a fresh start may have led.                                       *)
Spaced(e) ==
  \A i \in DOMAIN history :
    i + 1 \in DOMAIN history /\ history[i].at > e /\ history[i + 1].at # now =>
      history[i + 1].at - history[i].at >= RebalanceInterval

SnapshotDated(snapshot) ==
  snapshot.at <= now /\ (snapshot.at = Never => snapshot.assignment = Unassigned)

Ordered ==
  /\ \A i \in DOMAIN history : history[i].at <= now
  /\ \A i, k \in DOMAIN history : i < k => history[i].at < history[k].at
  /\ \A i \in DOMAIN history :
       i + 1 \in DOMAIN history /\ history[i].at > since =>
         history[i + 1].at - history[i].at >= RebalanceInterval
  /\ \A i \in DOMAIN history :
       i + 1 \notin DOMAIN history /\ history[i].at > since => lastRebalance = history[i].at

Ever ==
  /\ everAssigned \in Seq(Remembered)
  /\ \A i \in DOMAIN everAssigned : everAssigned[i].at <= now

Dated == SnapshotDated(db.snapshot) /\ SnapshotDated(workerSnapshot) /\ SnapshotDated(schedSnapshot)

OpenedMatch == \A e \in since .. now : now - e <= MaxHold => Matches(e)

DrainedMatch ==
  workerPc = "record" =>
    \A i \in DOMAIN drained :
      /\ drained[i].entry \in 0 .. now /\ now - drained[i].entry <= MaxHold /\ drained[i].ts = now
      /\ Matches(drained[i].entry) /\ Spaced(drained[i].entry)

EntryInv == RaceInv /\ Ordered /\ Ever /\ Dated /\ OpenedMatch /\ DrainedMatch

(* The last position up to a time.                                         *)
LEMMA LastUpTo ==
  ASSUME NEW S, NEW seq \in Seq(S), NEW e, UpTo(seq, e) # {}
  PROVE  /\ Max(UpTo(seq, e)) \in UpTo(seq, e)
         /\ \A x \in UpTo(seq, e) : x <= Max(UpTo(seq, e))
<1>1. Len(seq) \in Nat /\ DOMAIN seq = 1 .. Len(seq)
  OBVIOUS
<1>2. UpTo(seq, e) \in SUBSET (0 .. Len(seq))
  BY <1>1 DEF UpTo
<1> QED BY <1>1, <1>2, LastPosition

(* An assignment does not change which ones were in force before it.       *)
LEMMA InForceStays ==
  ASSUME everAssigned \in Seq(Remembered), NEW x \in Remembered,
         everAssigned' = Append(everAssigned, x), NEW e \in Int, e < x.at
  PROVE  InForce(e)' = InForce(e)
<1> DEFINE l == Len(everAssigned)
<1>1. /\ l \in Nat /\ DOMAIN everAssigned = 1 .. l /\ DOMAIN everAssigned' = 1 .. l + 1
      /\ \A i \in 1 .. l : everAssigned'[i] = everAssigned[i]
      /\ everAssigned'[l + 1] = x
  BY Appends
<1>2. ~(x.at <= e)
  BY HistoryIsLongEnough DEF Remembered
<1> HIDE DEF l
<1>3. UpTo(everAssigned', e) = UpTo(everAssigned, e)
  BY <1>1, <1>2 DEF UpTo
<1>4. CASE UpTo(everAssigned, e) = {}
  BY <1>3, <1>4 DEF InForce, UpTo
<1>5. CASE UpTo(everAssigned, e) # {}
  <2>1. Max(UpTo(everAssigned, e)) \in 1 .. l
    BY <1>1, <1>5, LastUpTo DEF UpTo
  <2> QED BY <1>1, <1>3, <1>5, <2>1 DEF InForce, UpTo
<1> QED BY <1>4, <1>5

LEMMA InForceNow ==
  ASSUME everAssigned \in Seq(Remembered), NEW x \in Remembered,
         everAssigned' = Append(everAssigned, x), NEW e \in Int, x.at <= e
  PROVE  InForce(e)' = x.assignment
<1> DEFINE l == Len(everAssigned)
<1>1. /\ l \in Nat /\ DOMAIN everAssigned' = 1 .. l + 1 /\ everAssigned' \in Seq(Remembered)
      /\ everAssigned'[l + 1] = x
  BY Appends
<1> HIDE DEF l
<1>2. l + 1 \in UpTo(everAssigned', e)
  BY <1>1 DEF UpTo
<1>3. /\ Max(UpTo(everAssigned', e)) \in 1 .. l + 1
      /\ l + 1 <= Max(UpTo(everAssigned', e))
  BY <1>1, <1>2, LastUpTo DEF UpTo
<1>4. Max(UpTo(everAssigned', e)) = l + 1
  BY <1>1, <1>3
<1> QED BY <1>1, <1>2, <1>4 DEF InForce, UpTo

(* When the oldest assignment is dropped, the next one is as old as any    *)
(* entry of a position that closes now.                                    *)
LEMMA OldestIsOld ==
  ASSUME RaceInv, Ordered, NEW e \in 0 .. now, e < now, now - e <= MaxHold, Spaced(e),
         Len(history) = HistoryCap, history[Len(history)].at # now
  PROVE  Len(history) >= 2 /\ history[2].at <= e
<1> DEFINE n == Len(history)
           R == RebalanceInterval
<1>1. /\ n \in Nat /\ DOMAIN history = 1 .. n /\ R \in Nat \ {0} /\ MaxHold \in Nat
      /\ (n - 2) * R + 1 >= MaxHold /\ now \in Nat /\ e \in Nat
  BY HistoryIsLongEnough DEF RaceInv, RuntimeTyped
<1>2. \A i \in 1 .. n : history[i].at \in Nat
  <2>1. \A i \in 1 .. n : history[i] \in Remembered
    BY <1>1, Elements DEF RaceInv, RuntimeTyped
  <2> QED BY <2>1, HistoryIsLongEnough DEF Remembered
<1> DEFINE at == [i \in 1 .. n |-> history[i].at]
<1>3. /\ at \in [1 .. n -> Nat]
      /\ \A i \in 1 .. n : at[i] <= now
      /\ \A i, k \in 1 .. n : i < k => at[i] < at[k]
      /\ \A i \in 1 .. n : i + 1 \in 1 .. n /\ at[i] > e /\ at[i + 1] # now => at[i + 1] - at[i] >= R
      /\ n \in 1 .. n => at[n] # now
  BY <1>1, <1>2 DEF Ordered, Spaced
<1> HIDE DEF n, at, R
<1>4. n >= 2
  <2> SUFFICES ASSUME n < 2 PROVE FALSE
    BY <1>1
  <2>1. CASE n = 0
    BY <1>1, <2>1
  <2>2. CASE n = 1
    BY <1>1, <2>2
  <2> QED BY <1>1, <2>1, <2>2
<1>5. \A i \in 1 .. n : at[i] < now
  <2> SUFFICES ASSUME NEW i \in 1 .. n PROVE at[i] < now
    OBVIOUS
  <2>1. at[n] < now
    BY <1>1, <1>3, <1>4
  <2>2. i = n \/ at[i] < at[n]
    BY <1>1, <1>3, <1>4
  <2> QED BY <1>1, <1>3, <2>1, <2>2
<1>6. ASSUME at[2] > e PROVE FALSE
  <2> DEFINE G == {m \in 0 .. n - 2 : at[m + 2] > e /\ at[m + 2] >= at[2] + m * R}
  <2>1. 0 \in G
    BY <1>1, <1>3, <1>4, <1>6
  <2>2. ASSUME NEW m \in 1 .. n - 2, m - 1 \in G PROVE m \in G
    <3>1. /\ m + 1 \in 1 .. n /\ m + 2 \in 1 .. n /\ (m - 1) + 2 = m + 1 /\ (m + 1) + 1 = m + 2
          /\ m \in 0 .. n - 2
      BY <1>1
    <3>2. at[m + 1] > e /\ at[m + 1] >= at[2] + (m - 1) * R
      BY <2>2, <3>1
    <3>3. at[m + 2] - at[m + 1] >= R
      BY <1>1, <1>3, <1>5, <3>1, <3>2
    <3>4. (m - 1) * R + R = m * R /\ m * R \in Int /\ (m - 1) * R \in Int
      BY <1>1
    <3>5. at[m + 1] \in Nat /\ at[m + 2] \in Nat /\ at[2] \in Nat
      BY <1>1, <1>3, <1>4, <3>1
    <3>6. at[m + 2] > e /\ at[m + 2] >= at[2] + m * R
      <4> DEFINE u == m * R
                 v == (m - 1) * R
                 x == at[2]
                 y == at[m + 1]
                 z == at[m + 2]
      <4>1. v + R = u /\ u \in Int /\ v \in Int /\ y >= x + v
        BY <3>2, <3>4
      <4>2. z - y >= R /\ y > e /\ x \in Nat /\ y \in Nat /\ z \in Nat
        BY <3>2, <3>3, <3>5
      <4> HIDE DEF u, v, x, y, z
      <4>3. z > e /\ z >= x + u
        BY <1>1, <4>1, <4>2
      <4> QED BY <4>3 DEF u, x, z
    <3> QED BY <3>1, <3>6
  <2>3. n - 2 \in Nat /\ G \in SUBSET (0 .. n - 2)
    BY <1>1, <1>4
  <2>4. n - 2 \in G
    <3> HIDE DEF G
    <3>1. \A k \in 0 .. n - 2 : k \in G
      BY <2>1, <2>2, <2>3, IntervalInduction
    <3> QED BY <2>3, <3>1
  <2>5. at[n] >= at[2] + (n - 2) * R
    BY <1>1, <2>4
  <2>6. at[n] < now /\ at[n] \in Nat /\ at[2] \in Nat
    BY <1>1, <1>3, <1>4, <1>5
  <2> DEFINE w == (n - 2) * R
  <2>7. w \in Int /\ w + 1 >= MaxHold /\ at[n] >= at[2] + w
    BY <1>1, <2>5
  <2> HIDE DEF w, G
  <2> QED BY <1>1, <1>6, <2>6, <2>7
<1>7. at[2] <= e
  BY <1>1, <1>3, <1>4, <1>6
<1> QED BY <1>1, <1>4, <1>7 DEF n, at

(* There is room for an assignment.                                        *)
LEMMA CapIsPositive == HistoryCap \in Nat \ {0}
<1> DEFINE R == RebalanceInterval
           c == HistoryCap
<1>1. R \in Nat \ {0} /\ c \in Nat /\ MaxHold \in Nat /\ (c - 2) * R + 1 >= MaxHold
  BY HistoryIsLongEnough
<1> HIDE DEF R, c
<1>2. c # 0
  <2> SUFFICES ASSUME c = 0 PROVE FALSE
    OBVIOUS
  <2>1. (0 - 2) * R = 0 - (2 * R)
    BY <1>1
  <2> QED BY <1>1, <2>1
<1> QED BY <1>1, <1>2 DEF c

(* What a rebalance does to the assignments remembered.                    *)
LEMMA RebalanceRemembers ==
  ASSUME EntryInv, SchedAssign, Due(now)
  PROVE  LET l == Len(history)
             m == Len(history')
             e == [at |-> now, assignment |-> assignment']
         IN  /\ e \in Remembered /\ everAssigned' = Append(everAssigned, e)
             /\ m \in Nat \ {0} /\ DOMAIN history' = 1 .. m /\ history'[m] = e
             /\ l \in Nat /\ DOMAIN history = 1 .. l
             /\ lastRebalance' = now
             /\ \E k \in Nat, d \in {0, 1} :
                  /\ m = k + 1 - d /\ k <= l
                  /\ d = 1 => k = l /\ l = HistoryCap /\ (l > 0 => history[l].at # now)
                  /\ \/ k = l /\ (l > 0 => history[l].at # now)
                     \/ k = l - 1 /\ history[l].at = now
                  /\ \A i \in 1 .. m : i # m => /\ i + d \in 1 .. k /\ history'[i] = history[i + d]
                  /\ \A j \in 1 .. k : history[j].at < now /\ (j - d # 0 => j - d \in 1 .. m /\ j - d # m)
<1> DEFINE l == Len(history)
           m == Len(history')
           e == [at |-> now, assignment |-> assignment']
<1>1. /\ history' = Recorded(history, now, assignment') /\ lastRebalance' = now
      /\ everAssigned' = Append(everAssigned, Last(history'))
      /\ assignment' = Assignment(candidates, guards, now)
  BY DEF SchedAssign
<1>2. assignment' \in [Portfolios -> Lists]
  BY <1>1, AssignmentApart DEF EntryInv, RaceInv, SchedTyped
<1>3. /\ now \in 0 .. MaxNow /\ history \in Seq(Remembered) /\ Len(history) <= HistoryCap
      /\ l \in Nat /\ DOMAIN history = 1 .. l
  BY DEF EntryInv, RaceInv, RuntimeTyped
<1>4. e \in Remembered
  BY <1>2, <1>3 DEF Remembered
<1>5. HistoryCap \in Nat \ {0} /\ now \in Nat
  BY <1>3, CapIsPositive, HistoryIsLongEnough
<1>6. /\ history' \in Seq(Remembered) /\ m <= HistoryCap /\ m \in Nat /\ DOMAIN history' = 1 .. m
      /\ \E k \in Nat, d \in {0, 1} :
           /\ m = k + 1 - d
           /\ d = 1 <=> k + 1 > HistoryCap
           /\ \/ k = l /\ (history # <<>> => history[l].at # now)
              \/ k = l - 1 /\ history[l].at = now
           /\ \A i \in 1 .. m : history'[i] = IF i + d = k + 1 THEN e ELSE history[i + d]
           /\ \A i \in 1 .. m : i + d # k + 1 => i + d \in 1 .. l /\ i + d <= k
  <2>1. RecordedAs(history, now, e, history')
    BY <1>1, <1>2, <1>3, RecordedListed
  <2>2. m \in Nat /\ DOMAIN history' = 1 .. m
    BY <2>1 DEF RecordedAs
  <2> HIDE DEF e
  <2> QED BY <2>1, <2>2 DEF RecordedAs
<1>7. PICK k \in Nat, d \in {0, 1} :
           /\ m = k + 1 - d
           /\ d = 1 <=> k + 1 > HistoryCap
           /\ \/ k = l /\ (history # <<>> => history[l].at # now)
              \/ k = l - 1 /\ history[l].at = now
           /\ \A i \in 1 .. m : history'[i] = IF i + d = k + 1 THEN e ELSE history[i + d]
           /\ \A i \in 1 .. m : i + d # k + 1 => i + d \in 1 .. l /\ i + d <= k
  BY <1>6
<1>8. l > 0 => history # <<>>
  BY <1>3
<1>9. /\ \A i \in 1 .. l : history[i].at \in Nat /\ history[i].at <= now
      /\ \A i, j \in 1 .. l : i < j => history[i].at < history[j].at
  <2>1. \A i \in 1 .. l : history[i] \in Remembered
    BY <1>3, Elements
  <2>2. \A i \in 1 .. l : history[i].at \in Nat
    BY <2>1, HistoryIsLongEnough DEF Remembered
  <2> QED BY <1>3, <2>2 DEF EntryInv, Ordered
<1> DEFINE at == [i \in 1 .. l |-> history[i].at]
<1>10. l <= HistoryCap
  BY <1>3
<1>11. /\ l > 0 => (at[l] = now <=> history[l].at = now)
       /\ \A i \in 1 .. l : at[i] \in Nat /\ at[i] <= now /\ at[i] = history[i].at
       /\ \A i, j \in 1 .. l : i < j => at[i] < at[j]
  BY <1>3, <1>9
<1>12. \/ k = l /\ (l > 0 => at[l] # now)
       \/ k = l - 1 /\ at[l] = now
  <2>1. CASE k = l /\ (history # <<>> => history[l].at # now)
    BY <1>3, <1>8, <1>11, <2>1
  <2>2. CASE k = l - 1 /\ history[l].at = now
    <3>1. l - 1 \in Nat /\ l \in Nat
      BY <1>3, <2>2
    <3>2. l > 0
      <4> HIDE DEF l
      <4> QED BY <3>1
    <3> HIDE DEF at, l
    <3> QED BY <1>11, <2>2, <3>2
  <2> QED BY <1>7, <2>1, <2>2
<1>13. PICK h \in [1 .. m -> Remembered] : \A i \in 1 .. m : h[i] = history'[i]
  BY <1>6, Elements
<1>14. \A i \in 1 .. m : h[i] = IF i + d = k + 1 THEN e ELSE history[i + d]
  BY <1>7, <1>13
<1>15. \A i \in 1 .. m : i + d # k + 1 => i + d \in 1 .. l /\ i + d <= k
  BY <1>7
<1>16. m = k + 1 - d /\ (d = 1 <=> k + 1 > HistoryCap)
  BY <1>7
<1> HIDE DEF l, m, e, at
<1>17. k <= l /\ m \in Nat \ {0}
  BY <1>3, <1>5, <1>6, <1>12, <1>16
<1>18. d = 1 => k = l /\ l = HistoryCap
  BY <1>3, <1>5, <1>10, <1>12, <1>16
<1>19. \A i \in 1 .. m : i # m => i + d \in 1 .. k /\ h[i] = history[i + d]
  BY <1>14, <1>15, <1>16, <1>17
<1>20. h[m] = e
  BY <1>14, <1>16, <1>17
<1>21. ASSUME NEW j \in 1 .. k PROVE at[j] < now /\ (j - d # 0 => j - d \in 1 .. m /\ j - d # m)
  <2>1. j \in 1 .. l
    BY <1>3, <1>17
  <2>2. at[j] < now
    <3>1. at[j] \in Nat /\ at[j] <= now /\ (j < l => at[j] < at[l]) /\ l \in 1 .. l
      BY <1>3, <1>11, <2>1
    <3>2. at[l] \in Nat /\ at[l] <= now
      BY <1>11, <3>1
    <3>3. j = l \/ j < l
      BY <1>3, <2>1
    <3>4. CASE j = l
      BY <1>3, <1>5, <1>12, <2>1, <3>1, <3>4
    <3>5. CASE j < l
      BY <1>5, <3>1, <3>2, <3>5
    <3> QED BY <3>3, <3>4, <3>5
  <2>3. j - d # 0 => j - d \in 1 .. m /\ j - d # m
    BY <1>16
  <2> QED BY <2>2, <2>3
<1>22. Last(history') = e /\ m \in 1 .. m
  BY <1>13, <1>17, <1>20 DEF Last, m
<1>23. everAssigned' = Append(everAssigned, e)
  BY <1>1, <1>22
<1>24. history'[m] = e /\ \A i \in 1 .. m : i # m => i + d \in 1 .. k /\ history'[i] = history[i + d]
  BY <1>13, <1>19, <1>20, <1>22
<1>25. \A j \in 1 .. k : history[j].at < now
  BY <1>3, <1>11, <1>17, <1>21
<1>26. \/ k = l /\ (l > 0 => history[l].at # now)
       \/ k = l - 1 /\ history[l].at = now
  BY <1>3, <1>7, <1>8 DEF l
<1>27. d = 1 => l > 0 /\ history[l].at # now
  BY <1>3, <1>5, <1>18, <1>26
<1> QED BY <1>1, <1>3, <1>4, <1>6, <1>16, <1>17, <1>18, <1>21, <1>23, <1>24, <1>25, <1>26, <1>27 DEF l, m, e

(* A rebalance remembers its assignment, and none that is needed is lost.  *)
LEMMA AssignMatches ==
  ASSUME EntryInv, SchedAssign, Due(now)
  PROVE  /\ Ordered' /\ Ever'
         /\ \A e \in 0 .. now : now - e <= MaxHold /\ Matches(e) /\ Spaced(e) => Matches(e)' /\ Spaced(e)'
<1> DEFINE l == Len(history)
           m == Len(history')
           r == [at |-> now, assignment |-> assignment']
           R == RebalanceInterval
<1>1. /\ r \in Remembered /\ everAssigned' = Append(everAssigned, r)
      /\ m \in Nat \ {0} /\ DOMAIN history' = 1 .. m /\ history'[m] = r
      /\ l \in Nat /\ DOMAIN history = 1 .. l
      /\ lastRebalance' = now
  BY RebalanceRemembers
<1>2. PICK k \in Nat, d \in {0, 1} :
        /\ m = k + 1 - d /\ k <= l
        /\ d = 1 => k = l /\ l = HistoryCap /\ (l > 0 => history[l].at # now)
        /\ \/ k = l /\ (l > 0 => history[l].at # now)
           \/ k = l - 1 /\ history[l].at = now
        /\ \A i \in 1 .. m : i # m => /\ i + d \in 1 .. k /\ history'[i] = history[i + d]
        /\ \A j \in 1 .. k : history[j].at < now /\ (j - d # 0 => j - d \in 1 .. m /\ j - d # m)
  BY RebalanceRemembers
<1>3. now' = now /\ since' = since
  BY DEF SchedAssign
<1>4. r.at = now /\ r.assignment = assignment' /\ now \in Nat /\ R \in Nat \ {0}
  BY HistoryIsLongEnough DEF EntryInv, RaceInv, RuntimeTyped
<1>5. \A i \in 1 .. l : history[i].at \in Nat /\ history[i].at <= now
  <2>1. \A i \in 1 .. l : history[i] \in Remembered
    BY <1>1, Elements DEF EntryInv, RaceInv, RuntimeTyped
  <2> QED BY <1>1, <2>1, HistoryIsLongEnough DEF Remembered, EntryInv, Ordered
<1>6. /\ \A i, j \in 1 .. l : i < j => history[i].at < history[j].at
      /\ \A i \in 1 .. l : i + 1 \in 1 .. l /\ history[i].at > since =>
           history[i + 1].at - history[i].at >= R
      /\ \A i \in 1 .. l : i + 1 \notin 1 .. l /\ history[i].at > since => lastRebalance = history[i].at
  BY <1>1 DEF EntryInv, Ordered
<1> HIDE DEF l, m, r, R
<1>7. \A j \in 1 .. k : j \in 1 .. l
  BY <1>1, <1>2
<1>8. ASSUME NEW i \in 1 .. m
      PROVE  /\ i = m => history'[i] = r
             /\ i # m => i + d \in 1 .. k /\ i + d \in 1 .. l /\ history'[i] = history[i + d]
                         /\ history[i + d].at < now /\ history[i + d].at \in Nat
  BY <1>1, <1>2, <1>5, <1>7
<1>9. Ordered'
  <2>1. ASSUME NEW i \in 1 .. m PROVE history'[i].at <= now
    BY <1>4, <1>8
  <2>2. ASSUME NEW i \in 1 .. m, NEW j \in 1 .. m, i < j PROVE history'[i].at < history'[j].at
    <3>1. i # m /\ i \in Int /\ j \in Int /\ d \in Int
      BY <1>1, <2>2
    <3>2. CASE j = m
      BY <1>4, <1>8, <3>1, <3>2
    <3>3. CASE j # m
      <4>1. i + d < j + d
        BY <2>2, <3>1
      <4> QED BY <1>6, <1>8, <3>1, <3>3, <4>1
    <3> QED BY <3>2, <3>3
  <2>3. ASSUME NEW i \in 1 .. m, i + 1 \in 1 .. m, history'[i].at > since
        PROVE  history'[i + 1].at - history'[i].at >= R
    <3>1. i # m /\ i \in Int /\ d \in Int /\ (i + 1) + d = (i + d) + 1
      BY <1>1, <2>3
    <3>2. CASE i + 1 # m
      BY <1>6, <1>8, <2>3, <3>1, <3>2
    <3>3. CASE i + 1 = m
      <4>1. i + d = k /\ k \in 1 .. l
        BY <1>1, <1>2, <1>8, <3>1, <3>3
      <4>2. history'[i] = history[k] /\ history'[i + 1].at = now
        BY <1>4, <1>8, <3>1, <3>3, <4>1
      <4>3. CASE k = l
        <5>1. lastRebalance = history[l].at
          BY <1>1, <1>6, <2>3, <4>1, <4>2, <4>3
        <5>2. lastRebalance # Never
          BY <1>5, <4>1, <4>3, <5>1 DEF Never
        <5> QED BY <4>2, <4>3, <5>1, <5>2 DEF Due, R
      <4>4. CASE k = l - 1 /\ history[l].at = now
        <5>1. k + 1 = l /\ k + 1 \in 1 .. l
          BY <1>1, <4>1, <4>4
        <5> QED BY <1>6, <2>3, <4>1, <4>2, <4>4, <5>1
      <4> QED BY <1>2, <4>3, <4>4
    <3> QED BY <3>2, <3>3
  <2>4. ASSUME NEW i \in 1 .. m, i + 1 \notin 1 .. m PROVE history'[i].at = now
    <3>1. i = m
      BY <1>1, <2>4
    <3> QED BY <1>4, <1>8, <3>1
  <2> QED BY <1>1, <1>3, <2>1, <2>2, <2>3, <2>4 DEF Ordered, R
<1>10. Ever'
  <2>1. everAssigned \in Seq(Remembered) /\ \A i \in DOMAIN everAssigned : everAssigned[i].at <= now
    BY DEF EntryInv, Ever
  <2>2. /\ everAssigned' \in Seq(Remembered)
        /\ DOMAIN everAssigned = 1 .. Len(everAssigned)
        /\ DOMAIN everAssigned' = 1 .. Len(everAssigned) + 1
        /\ \A i \in 1 .. Len(everAssigned) : everAssigned'[i] = everAssigned[i]
        /\ everAssigned'[Len(everAssigned) + 1] = r /\ Len(everAssigned) \in Nat
    BY <1>1, <2>1, Appends
  <2> DEFINE n == Len(everAssigned)
  <2> HIDE DEF n
  <2>3. ASSUME NEW i \in DOMAIN everAssigned' PROVE everAssigned'[i].at <= now
    <3>1. i \in 1 .. n \/ i = n + 1
      BY <2>2 DEF n
    <3>2. CASE i \in 1 .. n
      BY <2>1, <2>2, <3>2 DEF n
    <3>3. CASE i = n + 1
      BY <1>4, <2>2, <3>3 DEF n
    <3> QED BY <3>1, <3>2, <3>3
  <2> QED BY <1>3, <2>2, <2>3 DEF Ever
<1>11. ASSUME NEW e \in 0 .. now, now - e <= MaxHold, Matches(e), Spaced(e)
       PROVE  Matches(e)'
  <2>1. everAssigned \in Seq(Remembered) /\ e \in Int
    BY DEF EntryInv, Ever
  <2>2. CASE e = now
    <3>1. InForce(e)' = r.assignment
      BY <1>1, <1>4, <2>1, <2>2, InForceNow
    <3>2. m \in UpTo(history', e)
      BY <1>1, <1>4, <2>2 DEF UpTo
    <3>3. \A i \in UpTo(history', e) : i <= m
      BY <1>1 DEF UpTo
    <3> QED BY <1>1, <3>1, <3>2, <3>3 DEF Matches
  <2>3. CASE e # now
    <3>1. e < now /\ e < r.at
      BY <1>4, <2>3
    <3>2. InForce(e)' = InForce(e)
      BY <1>1, <2>1, <3>1, InForceStays
    <3> SUFFICES ASSUME InForce(e) # Unassigned
                 PROVE  \E i \in UpTo(history', e) : /\ history'[i].assignment = InForce(e)
                                                     /\ \A j \in UpTo(history', e) : j <= i
      BY <3>2 DEF Matches
    <3>3. PICK i \in UpTo(history, e) : /\ history[i].assignment = InForce(e)
                                        /\ \A j \in UpTo(history, e) : j <= i
      BY <1>11 DEF Matches
    <3>4. i \in 1 .. l /\ history[i].at <= e
      BY <1>1, <3>3 DEF UpTo
    <3>5. i \in 1 .. k
      <4>1. i # l \/ history[l].at # now
        BY <1>4, <1>5, <3>1, <3>4
      <4> QED BY <1>1, <1>2, <3>4, <4>1
    <3>6. i - d # 0
      <4> SUFFICES ASSUME i = 1, d = 1 PROVE FALSE
        BY <3>5
      <4>1. l = HistoryCap /\ history[l].at # now
        BY <1>1, <1>2, <3>4
      <4>2. l >= 2 /\ history[2].at <= e
        BY <1>11, <3>1, <4>1, OldestIsOld DEF EntryInv, l
      <4>3. 2 \in UpTo(history, e)
        BY <1>1, <4>2 DEF UpTo
      <4> QED BY <3>3, <4>3
    <3>7. i - d \in 1 .. m /\ i - d # m /\ (i - d) + d = i
      BY <1>2, <3>5, <3>6
    <3>8. history'[i - d] = history[i]
      BY <1>8, <3>7
    <3>9. i - d \in UpTo(history', e)
      BY <1>1, <3>4, <3>7, <3>8 DEF UpTo
    <3>10. ASSUME NEW j \in UpTo(history', e) PROVE j <= i - d
      <4>1. j \in 1 .. m /\ history'[j].at <= e
        BY <1>1 DEF UpTo
      <4>2. j # m
        BY <1>4, <1>8, <3>1, <4>1
      <4>3. j + d \in 1 .. l /\ history[j + d].at <= e
        BY <1>8, <4>1, <4>2
      <4>4. j + d <= i
        BY <1>1, <3>3, <4>3 DEF UpTo
      <4> QED BY <3>5, <4>1, <4>4
    <3> QED BY <3>3, <3>8, <3>9, <3>10
  <2> QED BY <2>2, <2>3
<1>12. ASSUME NEW e \in 0 .. now, Spaced(e) PROVE Spaced(e)'
  <2> SUFFICES ASSUME NEW i \in 1 .. m, i + 1 \in 1 .. m, history'[i].at > e, history'[i + 1].at # now
               PROVE  history'[i + 1].at - history'[i].at >= R
    BY <1>1, <1>3 DEF Spaced, R
  <2>1. i # m /\ i \in Int /\ d \in Int /\ (i + 1) + d = (i + d) + 1
    BY <1>1
  <2>2. i + 1 # m
    BY <1>4, <1>8
  <2>3. history'[i] = history[i + d] /\ history'[i + 1] = history[(i + d) + 1]
        /\ i + d \in 1 .. l /\ (i + d) + 1 \in 1 .. l
    BY <1>8, <2>1, <2>2
  <2> QED BY <1>1, <1>12, <2>3 DEF Spaced, R
<1> QED BY <1>9, <1>10, <1>11, <1>12

LEMMA OwnedEntryInit == PortfolioInit => EntryInv
<1> SUFFICES ASSUME PortfolioInit PROVE EntryInv
  OBVIOUS
<1>1. RaceInv
  BY RaceInit
<1>2. Ordered
  BY DEF PortfolioInit, Ordered
<1>3. Ever
  BY DEF PortfolioInit, Ever
<1>4. Dated
  BY DEF PortfolioInit, Dated, SnapshotDated, NoSnapshot, Never
<1>5. OpenedMatch
  <2>1. \A e : InForce(e) = Unassigned
    BY DEF PortfolioInit, InForce
  <2> QED BY <2>1 DEF OpenedMatch, Matches
<1>6. DrainedMatch
  BY DEF PortfolioInit, DrainedMatch
<1> QED BY <1>1, <1>2, <1>3, <1>4, <1>5, <1>6 DEF EntryInv

LEMMA SameMatches ==
  ASSUME UNCHANGED <<now, history, everAssigned>>, NEW e
  PROVE  (Matches(e)' <=> Matches(e)) /\ (Spaced(e)' <=> Spaced(e))
BY DEF Matches, Spaced, UpTo, InForce

LEMMA SameHistory ==
  ASSUME EntryInv, UNCHANGED <<now, since, history, everAssigned, lastRebalance>>
  PROVE  Ordered' /\ Ever' /\ OpenedMatch'
<1>1. Ordered' /\ Ever'
  BY DEF EntryInv, Ordered, Ever
<1>2. OpenedMatch'
  BY SameMatches DEF EntryInv, OpenedMatch
<1> QED BY <1>1, <1>2

LEMMA SameDrained ==
  ASSUME EntryInv, UNCHANGED <<now, history, everAssigned, workerPc, drained>>
  PROVE  DrainedMatch'
  BY SameMatches DEF EntryInv, DrainedMatch

(* Assignments since the fresh start or the restart are spaced.            *)
LEMMA SinceSpaced ==
  ASSUME EntryInv, NEW e \in since .. now
  PROVE  Spaced(e) /\ e \in 0 .. now
<1>1. since \in 0 .. now /\ now \in Nat /\ history \in Seq(Remembered)
  BY HistoryIsLongEnough DEF EntryInv, RaceInv, RuntimeTyped
<1>2. \A i \in DOMAIN history : history[i].at \in Nat
  <2>1. \A i \in DOMAIN history : history[i] \in Remembered
    BY <1>1, Elements
  <2> QED BY <2>1, HistoryIsLongEnough DEF Remembered
<1>3. \A i \in DOMAIN history : history[i].at > e => history[i].at > since
  <2> SUFFICES ASSUME NEW i \in DOMAIN history, history[i].at > e PROVE history[i].at > since
    OBVIOUS
  <2>1. history[i].at \in Nat /\ e \in Int /\ since \in Int /\ e >= since
    BY <1>1, <1>2
  <2> QED BY <2>1
<1> QED BY <1>1, <1>3 DEF EntryInv, Ordered, Spaced

LEMMA ObserveMatches ==
  ASSUME EntryInv, NEW s, NEW trades, Drained(s, trades), WorkerObserve(s, trades)
  PROVE  Ordered' /\ Ever' /\ Dated' /\ OpenedMatch' /\ DrainedMatch'
<1>1. UNCHANGED <<now, since, history, everAssigned, lastRebalance, db, workerSnapshot, schedSnapshot>>
      /\ drained' = trades
  BY DEF WorkerObserve, runtimeVars, schedVars
<1>2. Ordered' /\ Ever' /\ OpenedMatch'
  BY <1>1, SameHistory
<1>3. Dated'
  BY <1>1 DEF EntryInv, Dated, SnapshotDated
<1>4. ASSUME NEW i \in DOMAIN trades
      PROVE  /\ trades[i].entry \in 0 .. now /\ now - trades[i].entry <= MaxHold /\ trades[i].ts = now
             /\ Matches(trades[i].entry) /\ Spaced(trades[i].entry)
  BY SinceSpaced DEF Drained, EntryInv, OpenedMatch
<1>5. DrainedMatch'
  BY <1>1, <1>4, SameMatches DEF DrainedMatch
<1> QED BY <1>2, <1>3, <1>5

LEMMA RecordMatches ==
  ASSUME EntryInv, WorkerRecord
  PROVE  Ordered' /\ Ever' /\ Dated' /\ OpenedMatch' /\ DrainedMatch'
<1>1. UNCHANGED <<now, since, history, everAssigned, lastRebalance, db, schedSnapshot>> /\ workerPc' = "send"
  BY DEF WorkerRecord, schedVars
<1>2. Ordered' /\ Ever' /\ OpenedMatch' /\ DrainedMatch'
  BY <1>1, SameHistory DEF DrainedMatch
<1>3. SnapshotDated(db.snapshot)' /\ SnapshotDated(schedSnapshot)'
  BY <1>1 DEF EntryInv, Dated, SnapshotDated
<1>4. CASE ~Changes
  <2>1. workerSnapshot' = workerSnapshot
    BY <1>4 DEF WorkerRecord
  <2> QED BY <1>1, <1>2, <1>3, <2>1 DEF EntryInv, Dated, SnapshotDated
<1>5. CASE Changes
  <2> DEFINE mine == Mine(drained)
             S == {t \in Trades : t.ts = now}
  <2>1. drained \in Seq(Trades) /\ now \in Nat
    BY HistoryIsLongEnough DEF EntryInv, RaceInv, WorkerTyped, RuntimeTyped
  <2>2. drained \in Seq(S)
    <3>1. \A i \in DOMAIN drained : drained[i] \in S
      BY <2>1, Elements DEF EntryInv, DrainedMatch, WorkerRecord
    <3> HIDE DEF S
    <3> QED BY <2>1, <3>1
  <2>3. mine \in Seq(S) /\ mine \in Seq(Trades)
    BY <2>1, <2>2, MineTyped
  <2>4. mine # <<>>
    <3> SUFFICES ASSUME mine = <<>> PROVE FALSE
      OBVIOUS
    <3>1. guards' = GuardsAfter(guards, mine) /\ paper' = [p \in Portfolios |-> PaperAfter(paper[p], p, mine)]
      BY DEF WorkerRecord, RecordGuards, RecordPaper
    <3>2. guards \in [Symbols -> Guards] /\ paper \in [Portfolios -> Accounts]
      BY DEF EntryInv, RaceInv, RuntimeTyped
    <3> HIDE DEF mine
    <3>3. guards' = guards
      BY <2>3, <3>1, <3>2, GuardsTyped
    <3>4. \A p \in Portfolios : PaperAfter(paper[p], p, mine) = paper[p]
      BY <2>3, <3>2, PaperTyped
    <3>5. paper' = paper
      BY <3>1, <3>2, <3>4
    <3> QED BY <1>5, <3>3, <3>5 DEF Changes
  <2>5. workerSnapshot'.at = Last(mine).ts
    BY <1>5 DEF WorkerRecord, Snapshot
  <2> HIDE DEF mine
  <2>6. Last(mine) \in S
    <3>1. Len(mine) \in DOMAIN mine /\ Last(mine) = mine[Len(mine)]
      BY <2>3, <2>4 DEF Last
    <3> HIDE DEF S
    <3> QED BY <2>3, <3>1, Elements
  <2>7. SnapshotDated(workerSnapshot)'
    BY <1>1, <2>1, <2>5, <2>6 DEF SnapshotDated, Never
  <2> QED BY <1>2, <1>3, <2>7 DEF Dated
<1> QED BY <1>2, <1>4, <1>5

LEMMA NoSnapshotDated == RaceInv => SnapshotDated(NoSnapshot)
  BY HistoryIsLongEnough DEF RaceInv, RuntimeTyped, SnapshotDated, NoSnapshot, Never

LEMMA SendsMatch ==
  ASSUME EntryInv, WorkerSend \/ SchedSend
  PROVE  Ordered' /\ Ever' /\ Dated' /\ OpenedMatch' /\ DrainedMatch'
<1>1. UNCHANGED <<now, since, history, everAssigned, lastRebalance>>
  BY DEF WorkerSend, SchedSend, runtimeVars, histVars
<1>2. Ordered' /\ Ever' /\ OpenedMatch'
  BY <1>1, SameHistory
<1>3. db = [snapshot |-> db.snapshot, trades |-> db.trades] /\ SnapshotDated(NoSnapshot)
  BY NoSnapshotDated DEF EntryInv, RaceInv, DbTyped
<1>4. CASE WorkerSend
  <2>1. DrainedMatch'
    BY <1>4 DEF WorkerSend, DrainedMatch
  <2>2. db'.snapshot \in {db.snapshot, workerSnapshot}
    BY <1>3, <1>4 DEF WorkerSend, WithTrades, WithBoth
  <2>3. workerSnapshot' = NoSnapshot /\ schedSnapshot' = schedSnapshot
    BY <1>4 DEF WorkerSend, schedVars
  <2>4. Dated'
    BY <1>1, <1>3, <2>2, <2>3 DEF EntryInv, Dated, SnapshotDated
  <2> QED BY <1>2, <2>1, <2>4
<1>5. CASE SchedSend
  <2>1. DrainedMatch'
    BY <1>1, <1>5, SameDrained DEF SchedSend, workerVars
  <2>2. db'.snapshot = schedSnapshot /\ schedSnapshot' = NoSnapshot /\ workerSnapshot' = workerSnapshot
    BY <1>3, <1>5 DEF SchedSend, WithSnapshot, workerVars
  <2>3. Dated'
    BY <1>1, <1>3, <2>2 DEF EntryInv, Dated, SnapshotDated
  <2> QED BY <1>2, <2>1, <2>3
<1> QED BY <1>4, <1>5

LEMMA SchedAssignMatches ==
  ASSUME EntryInv, SchedAssign
  PROVE  Ordered' /\ Ever' /\ Dated' /\ OpenedMatch' /\ DrainedMatch'
<1>1. UNCHANGED <<now, since, db, workerPc, drained, workerSnapshot>>
  BY DEF SchedAssign, workerVars
<1>2. CASE ~Due(now)
  <2>1. UNCHANGED <<history, everAssigned, lastRebalance, schedSnapshot>>
    BY <1>2 DEF SchedAssign, runtimeVars
  <2> QED BY <1>1, <2>1, SameHistory, SameDrained DEF EntryInv, Dated, SnapshotDated
<1>3. CASE Due(now)
  <2>1. Ordered' /\ Ever'
    BY <1>3, AssignMatches
  <2>2. \A e \in 0 .. now : now - e <= MaxHold /\ Matches(e) /\ Spaced(e) => Matches(e)' /\ Spaced(e)'
    BY <1>3, AssignMatches
  <2>3. OpenedMatch'
    BY <1>1, <2>2, SinceSpaced DEF EntryInv, OpenedMatch
  <2>4. DrainedMatch'
    BY <1>1, <2>2 DEF EntryInv, DrainedMatch
  <2>5. schedSnapshot'.at = now /\ now \in Nat
    BY <1>3, HistoryIsLongEnough DEF SchedAssign, Snapshot, EntryInv, RaceInv, RuntimeTyped
  <2>6. Dated'
    BY <1>1, <2>5 DEF EntryInv, Dated, SnapshotDated, Never
  <2> QED BY <2>1, <2>3, <2>4, <2>6
<1> QED BY <1>2, <1>3

LEMMA AdvanceMatches ==
  ASSUME EntryInv, Advance
  PROVE  Ordered' /\ Ever' /\ Dated' /\ OpenedMatch' /\ DrainedMatch'
<1>1. /\ UNCHANGED <<since, history, everAssigned, lastRebalance, db, workerSnapshot, schedSnapshot, workerPc>>
      /\ workerPc = "idle" /\ now' = now + 1
  BY DEF Advance, runtimeVars, workerVars, schedVars, histVars
<1>2. /\ now \in Nat /\ since \in 0 .. now /\ MaxHold \in Nat
      /\ everAssigned \in Seq(Remembered) /\ history \in Seq(Remembered)
  BY HistoryIsLongEnough DEF EntryInv, RaceInv, RuntimeTyped, Ever
<1>3. /\ \A i \in DOMAIN history : history[i].at \in Nat /\ history[i].at <= now
      /\ \A i \in DOMAIN everAssigned : everAssigned[i].at \in Nat /\ everAssigned[i].at <= now
  <2>1. /\ \A i \in DOMAIN history : history[i] \in Remembered
        /\ \A i \in DOMAIN everAssigned : everAssigned[i] \in Remembered
    BY <1>2, Elements
  <2> QED BY <2>1, HistoryIsLongEnough DEF Remembered, EntryInv, Ordered, Ever
<1>4. /\ \A i \in DOMAIN history : history[i].at <= now + 1
      /\ \A i \in DOMAIN everAssigned : everAssigned[i].at <= now + 1
  BY <1>2, <1>3
<1>5. Ordered' /\ Ever'
  BY <1>1, <1>4 DEF EntryInv, Ordered, Ever
<1>6. Dated'
  <2>1. /\ db.snapshot.at \in Int /\ workerSnapshot.at \in Int /\ schedSnapshot.at \in Int
        /\ db.snapshot.at <= now /\ workerSnapshot.at <= now /\ schedSnapshot.at <= now
    BY HistoryIsLongEnough DEF EntryInv, RaceInv, WorkerTyped, SchedTyped, DbTyped, SnapshotTyped, Dated,
                               SnapshotDated, Never
  <2>2. db.snapshot.at <= now + 1 /\ workerSnapshot.at <= now + 1 /\ schedSnapshot.at <= now + 1
    BY <1>2, <2>1
  <2> QED BY <1>1, <2>2 DEF EntryInv, Dated, SnapshotDated
<1>7. UpTo(history, now + 1) = UpTo(history, now) /\ UpTo(everAssigned, now + 1) = UpTo(everAssigned, now)
  BY <1>3, <1>4 DEF UpTo
<1>8. Matches(now + 1) <=> Matches(now)
  <2>1. InForce(now + 1) = InForce(now)
    BY <1>7 DEF InForce, UpTo
  <2> QED BY <1>7, <2>1 DEF Matches
<1>9. ASSUME NEW e \in since .. now + 1, (now + 1) - e <= MaxHold PROVE Matches(e)
  <2>1. CASE e = now + 1
    <3>1. now \in since .. now /\ now - now <= MaxHold
      BY <1>2
    <3> QED BY <1>8, <2>1, <3>1 DEF EntryInv, OpenedMatch
  <2>2. CASE e # now + 1
    <3>1. e \in since .. now /\ now - e <= MaxHold
      BY <1>2, <1>9, <2>2
    <3> QED BY <3>1 DEF EntryInv, OpenedMatch
  <2> QED BY <2>1, <2>2
<1>10. \A e : Matches(e)' <=> Matches(e)
  BY <1>1 DEF Matches, UpTo, InForce
<1>11. OpenedMatch' /\ DrainedMatch'
  BY <1>1, <1>9, <1>10 DEF OpenedMatch, DrainedMatch
<1> QED BY <1>5, <1>6, <1>11

LEMMA FreshStartMatches ==
  ASSUME EntryInv, FreshStart
  PROVE  Ordered' /\ Ever' /\ Dated' /\ OpenedMatch' /\ DrainedMatch'
<1> DEFINE r == [at |-> now, assignment |-> Unassigned]
<1>1. /\ UNCHANGED <<now, history, workerPc, drained, workerSnapshot, schedSnapshot, db>>
      /\ since' = now /\ everAssigned' = Append(everAssigned, r)
  BY DEF FreshStart, workerVars, schedVars
<1>2. /\ r \in Remembered /\ r.at = now /\ r.assignment = Unassigned
      /\ everAssigned \in Seq(Remembered) /\ now \in Nat
      /\ \A i \in DOMAIN everAssigned : everAssigned[i].at <= now
      /\ \A i \in DOMAIN history : history[i].at <= now
  BY HistoryIsLongEnough, UnassignedApart DEF EntryInv, RaceInv, RuntimeTyped, Remembered, Ever, Ordered
<1> HIDE DEF r
<1>3. \A i \in DOMAIN history : ~(history[i].at > now)
  <2>1. \A i \in DOMAIN history : history[i] \in Remembered
    BY Elements DEF EntryInv, RaceInv, RuntimeTyped
  <2>2. \A i \in DOMAIN history : history[i].at \in Nat
    BY <2>1, HistoryIsLongEnough DEF Remembered
  <2> QED BY <1>2, <2>2
<1>4. Ordered'
  BY <1>1, <1>3 DEF EntryInv, Ordered
<1>5. Ever'
  <2> DEFINE n == Len(everAssigned)
  <2>1. /\ everAssigned' \in Seq(Remembered) /\ DOMAIN everAssigned = 1 .. n /\ n \in Nat
        /\ DOMAIN everAssigned' = 1 .. n + 1
        /\ \A i \in 1 .. n : everAssigned'[i] = everAssigned[i]
        /\ everAssigned'[n + 1] = r
    BY <1>1, <1>2, Appends
  <2> HIDE DEF n
  <2>2. ASSUME NEW i \in DOMAIN everAssigned' PROVE everAssigned'[i].at <= now
    <3>1. i \in 1 .. n \/ i = n + 1
      BY <2>1
    <3> QED BY <1>2, <2>1, <3>1
  <2> QED BY <1>1, <2>1, <2>2 DEF Ever
<1>6. Dated'
  BY <1>1 DEF EntryInv, Dated, SnapshotDated
<1>7. ASSUME NEW e \in 0 .. now, e # now => Matches(e) PROVE Matches(e)'
  <2>1. CASE e = now
    <3>1. InForce(e)' = Unassigned
      BY <1>1, <1>2, <2>1, InForceNow
    <3> QED BY <3>1 DEF Matches
  <2>2. CASE e # now
    <3>1. InForce(e)' = InForce(e)
      <4>1. e \in Int /\ e < r.at
        BY <1>2, <2>2
      <4> QED BY <1>1, <1>2, <4>1, InForceStays
    <3> QED BY <1>1, <1>7, <2>2, <3>1 DEF Matches, UpTo
  <2> QED BY <2>1, <2>2
<1>8. OpenedMatch'
  <2>1. \A e \in now .. now : e = now /\ e \in 0 .. now
    BY <1>2
  <2> QED BY <1>1, <1>7, <2>1 DEF OpenedMatch
<1>9. DrainedMatch'
  <2>1. \A e : Spaced(e)' <=> Spaced(e)
    BY <1>1 DEF Spaced
  <2> QED BY <1>1, <1>7, <2>1 DEF EntryInv, DrainedMatch
<1> QED BY <1>4, <1>5, <1>6, <1>8, <1>9

LEMMA RestartMatches ==
  ASSUME EntryInv, Restart
  PROVE  Ordered' /\ Ever' /\ Dated' /\ OpenedMatch' /\ DrainedMatch'
<1> DEFINE saved == db.snapshot
           r == [at |-> now, assignment |-> saved.assignment]
           h == [at |-> saved.at, assignment |-> saved.assignment]
<1>1. /\ UNCHANGED <<now, db>> /\ since' = now /\ everAssigned' = <<r>>
      /\ history' = IF saved.at = Never THEN <<>> ELSE Recorded(<<>>, saved.at, saved.assignment)
      /\ lastRebalance' = saved.at
      /\ workerSnapshot' = NoSnapshot /\ schedSnapshot' = NoSnapshot /\ workerPc' = "idle"
  BY DEF Restart, Loaded
<1>2. /\ now \in Nat /\ now \in 0 .. MaxNow /\ saved.assignment \in [Portfolios -> Lists]
      /\ saved.at \in Never .. MaxNow /\ saved.at <= now
      /\ saved.at = Never => saved.assignment = Unassigned
  BY HistoryIsLongEnough DEF EntryInv, RaceInv, RuntimeTyped, DbTyped, SnapshotTyped, Dated, SnapshotDated
<1>3. Dated'
  <2>1. SnapshotDated(NoSnapshot)
    BY NoSnapshotDated DEF EntryInv
  <2> QED BY <1>1, <2>1 DEF EntryInv, Dated, SnapshotDated
<1>4. DrainedMatch'
  BY <1>1 DEF DrainedMatch
<1>5. r \in Remembered /\ r.at = now /\ r.assignment = saved.assignment
  BY <1>2 DEF Remembered
<1> HIDE DEF r
<1>6. everAssigned' \in Seq(Remembered) /\ DOMAIN everAssigned' = {1} /\ everAssigned'[1] = r
  BY <1>1, <1>5
<1>7. Ever'
  BY <1>1, <1>2, <1>5, <1>6 DEF Ever
<1>8. InForce(now)' = saved.assignment
  <2>1. UpTo(everAssigned', now) = {1}
    BY <1>2, <1>5, <1>6 DEF UpTo
  <2>2. Max(UpTo(everAssigned', now)) = 1
    BY <1>6, <2>1, LastUpTo
  <2> QED BY <1>1, <1>5, <1>6, <2>1, <2>2 DEF InForce, UpTo
<1>9. CASE saved.at = Never
  <2>1. history' = <<>> /\ InForce(now)' = Unassigned
    BY <1>1, <1>2, <1>8, <1>9
  <2>2. Ordered'
    BY <2>1 DEF Ordered
  <2>3. OpenedMatch'
    <3>1. \A e \in now .. now : e = now
      BY <1>2
    <3> QED BY <1>1, <2>1, <3>1 DEF OpenedMatch, Matches
  <2> QED BY <1>3, <1>4, <1>7, <2>2, <2>3
<1>10. CASE saved.at # Never
  <2>1. saved.at \in 0 .. MaxNow
    BY <1>2, <1>10, HistoryIsLongEnough DEF Never
  <2>2. RecordedAs(<<>>, saved.at, h, history')
    <3>1. <<>> \in Seq(Remembered) /\ Len(<<>>) <= HistoryCap
      BY HistoryIsLongEnough
    <3>2. history' = Recorded(<<>>, saved.at, saved.assignment)
      BY <1>1, <1>10
    <3> QED BY <1>2, <2>1, <3>1, <3>2, RecordedListed
  <2> HIDE DEF h
  <2>3. /\ \A i \in DOMAIN history' : history'[i] = h /\ i = 1
        /\ DOMAIN history' = {1}
    <3>1. HistoryCap \in Nat \ {0}
      BY CapIsPositive
    <3>2. PICK k \in Nat, d \in {0, 1} :
            /\ Len(history') = k + 1 - d
            /\ d = 1 <=> k + 1 > HistoryCap
            /\ \/ k = 0
               \/ k = 0 - 1
            /\ \A i \in 1 .. Len(history') : history'[i] = IF i + d = k + 1 THEN h ELSE <<>>[i + d]
      BY <2>2 DEF RecordedAs
    <3>3. k = 0 /\ d = 0
      BY <3>1, <3>2
    <3>4. history' \in Seq(Remembered) /\ Len(history') = 1 /\ history'[1] = h
      BY <2>2, <3>2, <3>3 DEF RecordedAs
    <3> QED BY <3>4
  <2>4. h.at = saved.at /\ h.assignment = saved.assignment
    BY DEF h
  <2>5. saved.at \in Nat /\ ~(saved.at > now)
    BY <1>2, <2>1
  <2> HIDE DEF saved
  <2>6. Ordered'
    BY <1>1, <1>2, <2>3, <2>4, <2>5 DEF Ordered
  <2>7. Matches(now)'
    <3>1. UpTo(history', now) = {1}
      BY <1>2, <2>3, <2>4 DEF UpTo
    <3> QED BY <1>1, <1>8, <2>3, <2>4, <3>1 DEF Matches
  <2>8. OpenedMatch'
    <3>1. \A e \in now .. now : e = now
      BY <1>2
    <3> QED BY <1>1, <2>7, <3>1 DEF OpenedMatch
  <2> QED BY <1>3, <1>4, <1>7, <2>6, <2>8
<1> QED BY <1>9, <1>10

LEMMA OwnedEntryStep == EntryInv /\ [PortfolioNext]_portfolioVars => EntryInv'
<1> SUFFICES ASSUME EntryInv, [PortfolioNext]_portfolioVars PROVE EntryInv'
  OBVIOUS
<1>1. RaceInv /\ RaceInv'
  BY RaceStep DEF EntryInv
<1>2. ASSUME UNCHANGED <<now, since, history, everAssigned, lastRebalance, workerPc, drained, db,
                         workerSnapshot, schedSnapshot>>
      PROVE  EntryInv'
  BY <1>1, <1>2, SameHistory, SameDrained DEF EntryInv, Dated, SnapshotDated
<1>3. CASE UNCHANGED portfolioVars
  BY <1>2, <1>3 DEF portfolioVars, runtimeVars, workerVars, schedVars, histVars
<1>4. ASSUME NEW s \in Symbols, Prune(s) PROVE EntryInv'
  BY <1>2, <1>4 DEF Prune, runtimeVars, workerVars, schedVars
<1>5. CASE SchedCollect
  BY <1>2, <1>5 DEF SchedCollect, runtimeVars, workerVars, histVars
<1>6. CASE PortfolioNext
  BY <1>1, <1>4, <1>5, <1>6, StepsDrain, ObserveMatches, RecordMatches, SendsMatch, SchedAssignMatches,
     AdvanceMatches, FreshStartMatches, RestartMatches DEF EntryInv
<1> QED BY <1>3, <1>6
(* Each trade credited to a portfolio counts once.                         *)
LEMMA PaperCounts ==
  ASSUME NEW trades \in Seq(Trades), NEW money \in Accounts, NEW p
  PROVE  /\ IsFiniteSet({i \in DOMAIN trades : p \in Credited(trades[i])})
         /\ PaperAfter(money, p, trades).closed
              = money.closed + Cardinality({i \in DOMAIN trades : p \in Credited(trades[i])})
<1> DEFINE Step(x, y) == IF p \in Credited(y) THEN PaperTrade(x, y) ELSE x
           n == Len(trades)
           T == Accounts
           base == money
           step == [k \in 1 .. n |-> [x \in T |-> Step(x, trades[k])]]
           Unrolls(it) == it = [s \in SUBSET (DOMAIN trades) |->
                              IF s = {} THEN base ELSE Step(it[s \ {Max(s)}], trades[Max(s)])]
           it == CHOOSE f : Unrolls(f)
<1>1. n \in Nat /\ DOMAIN trades = 1 .. n
  OBVIOUS
<1>2. base \in T
  OBVIOUS
<1>3. ASSUME NEW k \in 1 .. n, NEW x \in T PROVE Step(x, trades[k]) \in T
  <2>1. trades[k] \in Trades
    BY <1>1, Elements
  <2>2. trades[k].pnl \in Int
    BY <2>1 DEF Trades
  <2> QED BY <2>2, ObservedTyped DEF PaperTrade
<1>4. PaperAfter(money, p, trades) = it[1 .. n]
  BY <1>1 DEF PaperAfter, FoldLeft, MapThenFoldSet
<1> HIDE DEF Step, T, base
<1>5. PICK f \in [SUBSET (1 .. n) -> T] : Folds(f, n, base, step)
  <2>1. step \in [1 .. n -> [T -> T]]
    BY <1>3
  <2> HIDE DEF step, n
  <2> QED BY <1>1, <1>2, <2>1, FoldRuns
<1>6. Unrolls(it)
  <2>1. ASSUME NEW s \in SUBSET (1 .. n), s # {}
        PROVE  step[Max(s)][f[s \ {Max(s)}]] = Step(f[s \ {Max(s)}], trades[Max(s)])
    <3>1. s \in SUBSET (0 .. n)
      BY <1>1
    <3>2. Max(s) \in 1 .. n
      BY <1>1, <2>1, <3>1, LastPosition
    <3> QED BY <3>2
  <2> HIDE DEF step, n
  <2>2. Unrolls(f)
    BY <1>1, <1>5, <2>1 DEF Folds
  <2> HIDE DEF Unrolls
  <2> QED BY <2>2
<1> HIDE DEF it
<1>7. it[1 .. 0] = base /\ \A k \in 1 .. n : it[1 .. k] = Step(it[1 .. k - 1], trades[k])
  <2>1. it[1 .. 0] = base
    BY <1>1, <1>6
  <2> SUFFICES ASSUME NEW k \in 1 .. n PROVE it[1 .. k] = Step(it[1 .. k - 1], trades[k])
    BY <2>1
  <2>2. 1 .. k \in SUBSET (1 .. n) /\ 1 .. k # {} /\ Max(1 .. k) = k /\ (1 .. k) \ {k} = 1 .. k - 1
    BY <1>1, Prefix
  <2> HIDE DEF n
  <2> QED BY <1>1, <1>6, <2>2
<1>8. \A k \in 0 .. n : it[1 .. k] \in T
  <2> DEFINE runs == [k \in 0 .. n |-> it[1 .. k]]
  <2>1. runs[0] \in T /\ \A k \in 1 .. n : runs[k - 1] \in T => runs[k] \in T
    <3> HIDE DEF n
    <3> QED BY <1>1, <1>2, <1>3, <1>7
  <2>2. \A k \in 0 .. n : runs[k] \in T
    <3> HIDE DEF runs, n
    <3> QED BY <1>1, <2>1, RunsTyped
  <2> QED BY <2>2
<1>9. money.closed \in Nat /\ \A k \in 0 .. n : it[1 .. k].closed \in Nat
  BY <1>8 DEF T, Accounts
<1> DEFINE C(k) == {i \in 1 .. k : p \in Credited(trades[i])}
           G == {k \in 0 .. n : it[1 .. k].closed = money.closed + Cardinality(C(k))}
<1>10. \A k \in 0 .. n : IsFiniteSet(C(k)) /\ Cardinality(C(k)) \in Nat
  <2> SUFFICES ASSUME NEW k \in 0 .. n PROVE IsFiniteSet(C(k)) /\ Cardinality(C(k)) \in Nat
    OBVIOUS
  <2>1. IsFiniteSet(1 .. k)
    <3>1. k \in Int /\ 1 \in Int
      BY <1>1
    <3> QED BY <3>1, FS_Interval
  <2>2. C(k) \in SUBSET (1 .. k)
    OBVIOUS
  <2> HIDE DEF C
  <2> QED BY <2>1, <2>2, FS_Subset, FS_CardinalityType
<1>11. 0 \in G
  <2>1. C(0) = {} /\ it[1 .. 0] = money
    BY <1>7 DEF base
  <2>2. Cardinality(C(0)) = 0
    BY <2>1, FS_EmptySet
  <2> QED BY <1>1, <1>9, <2>1, <2>2
<1>12. ASSUME NEW k \in 1 .. n, k - 1 \in G PROVE k \in G
  <2> DEFINE a == it[1 .. k - 1]
             b == it[1 .. k]
             c == Cardinality(C(k - 1))
  <2>1. b = (IF p \in Credited(trades[k]) THEN PaperTrade(a, trades[k]) ELSE a)
    BY <1>7 DEF Step
  <2>2. a.closed = money.closed + c /\ k - 1 \in 0 .. n /\ k \in 0 .. n
    BY <1>1, <1>12
  <2>3. c \in Nat /\ IsFiniteSet(C(k - 1))
    BY <1>10, <2>2
  <2>4. CASE p \in Credited(trades[k])
    <3>1. C(k) = C(k - 1) \cup {k} /\ k \notin C(k - 1)
      BY <1>1, <2>4
    <3>2. Cardinality(C(k)) = c + 1
      <4> HIDE DEF C
      <4> QED BY <2>3, <3>1, FS_AddElement
    <3>3. b.closed = a.closed + 1
      BY <2>1, <2>4 DEF PaperTrade, Observed
    <3> DEFINE x == money.closed
               y == b.closed
    <3>4. x \in Nat /\ y = (x + c) + 1
      BY <1>9, <2>2, <3>3
    <3> HIDE DEF c, x, y
    <3>5. y = x + (c + 1)
      BY <2>3, <3>4
    <3> QED BY <2>2, <3>2, <3>5 DEF x, y
  <2>5. CASE p \notin Credited(trades[k])
    <3>1. C(k) = C(k - 1)
      BY <1>1, <2>5
    <3> QED BY <2>1, <2>2, <2>5, <3>1
  <2> QED BY <2>4, <2>5
<1>13. n \in G
  <2> HIDE DEF G, n
  <2>1. G \in SUBSET (0 .. n)
    BY DEF G
  <2>2. \A k \in 0 .. n : k \in G
    BY <1>1, <1>11, <1>12, <2>1, IntervalInduction
  <2> QED BY <1>1, <2>2
<1>14. C(n) = {i \in DOMAIN trades : p \in Credited(trades[i])}
  BY <1>1
<1>15. n \in 0 .. n
  BY <1>1
<1> HIDE DEF C, n
<1> QED BY <1>4, <1>10, <1>13, <1>14, <1>15


(* owner_at_entry_portfolio_id finds the owner that was in force.          *)
LEMMA OwnersMatch ==
  ASSUME EntryInv, NEW t, Matches(t.entry), Owners(InForce(t.entry), t.symbol) # {}
  PROVE  Credited(t) = Owners(InForce(t.entry), t.symbol)
<1> DEFINE e == t.entry
           owned == {j \in DOMAIN history :
                       history[j].at <= t.entry /\ Owners(history[j].assignment, t.symbol) # {}}
<1>1. InForce(e) # Unassigned
  <2>1. Owners(Unassigned, t.symbol) = {}
    BY DEF Owners, Unassigned, Range
  <2> QED BY <2>1
<1>2. PICK i \in UpTo(history, e) : /\ history[i].assignment = InForce(e)
                                    /\ \A k \in UpTo(history, e) : k <= i
  BY <1>1 DEF Matches
<1>3. i \in owned /\ owned \subseteq UpTo(history, e)
  BY <1>2 DEF UpTo
<1>4. Len(history) \in Nat /\ DOMAIN history = 1 .. Len(history)
  BY DEF EntryInv, RaceInv, RuntimeTyped
<1>5. Max(owned) \in owned /\ i <= Max(owned)
  <2>1. owned \in SUBSET (0 .. Len(history))
    BY <1>4
  <2> HIDE DEF owned
  <2> QED BY <1>3, <1>4, <2>1, LastPosition
<1>6. Max(owned) = i
  <2>1. Max(owned) <= i /\ Max(owned) \in Int /\ i \in Int
    <3>1. owned \subseteq DOMAIN history
      OBVIOUS
    <3> HIDE DEF owned
    <3> QED BY <1>2, <1>3, <1>4, <1>5, <3>1
  <2> HIDE DEF owned
  <2> QED BY <1>5, <2>1
<1>7. OwnersAtEntry(t) = Owners(history[i].assignment, t.symbol)
  BY <1>3, <1>6 DEF OwnersAtEntry
<1> QED BY <1>2, <1>7 DEF Credited

LEMMA OwnedEntryAlways == PortfolioSpec => []EntryInv
  BY OwnedEntryInit, OwnedEntryStep, PTL DEF PortfolioSpec

(* Paper money follows the owner at the entry: however many rebalances,    *)
(* and what fresh start, fall between the entry of a position and the      *)
(* recording of its trade, a trade of a symbol that a portfolio owned at   *)
(* the entry is counted for that portfolio, once, and for nobody else.     *)
THEOREM PaperFollowsOwners == PortfolioSpec => PaperFollowsTheEntry
<1> DEFINE A == WorkerRecord => \A p \in Portfolios : CountsOwned(p)
<1>1. EntryInv => [A]_portfolioVars
  <2> SUFFICES ASSUME EntryInv, WorkerRecord, NEW p \in Portfolios PROVE CountsOwned(p)
    OBVIOUS
  <2> DEFINE mine == Mine(drained)
             ownedBy(t) == Owners(InForce(t.entry), t.symbol)
             sure == {i \in DOMAIN mine : p \in ownedBy(mine[i])}
             open == {i \in DOMAIN mine : ownedBy(mine[i]) = {}}
             credited == {i \in DOMAIN mine : p \in Credited(mine[i])}
             S == {t \in Trades : Matches(t.entry)}
  <2>1. drained \in Seq(Trades) /\ paper \in [Portfolios -> Accounts]
    BY DEF EntryInv, RaceInv, WorkerTyped, RuntimeTyped
  <2>2. drained \in Seq(S)
    <3>1. \A i \in DOMAIN drained : drained[i] \in S
      BY <2>1, Elements DEF EntryInv, DrainedMatch, WorkerRecord
    <3> HIDE DEF S
    <3> QED BY <2>1, <3>1
  <2>3. mine \in Seq(S) /\ mine \in Seq(Trades)
    BY <2>1, <2>2, MineTyped
  <2>4. paper'[p] = PaperAfter(paper[p], p, mine)
    BY DEF WorkerRecord, RecordPaper
  <2> HIDE DEF mine
  <2>5. /\ IsFiniteSet(credited) /\ paper[p] \in Accounts
        /\ paper'[p].closed = paper[p].closed + Cardinality(credited)
    BY <2>1, <2>3, <2>4, PaperCounts
  <2>6. \A i \in DOMAIN mine : Matches(mine[i].entry)
    BY <2>3, Elements
  <2>7. \A i \in DOMAIN mine : ownedBy(mine[i]) # {} => Credited(mine[i]) = ownedBy(mine[i])
    BY <2>6, OwnersMatch
  <2>8. sure \subseteq credited /\ credited \subseteq sure \cup open
    BY <2>7
  <2>9. IsFiniteSet(sure) /\ IsFiniteSet(open)
    <3>1. IsFiniteSet(DOMAIN mine)
      <4>1. Len(mine) \in Int /\ 1 \in Int /\ DOMAIN mine = 1 .. Len(mine)
        BY <2>3
      <4> QED BY <4>1, FS_Interval
    <3>2. sure \in SUBSET (DOMAIN mine) /\ open \in SUBSET (DOMAIN mine)
      OBVIOUS
    <3> HIDE DEF sure, open
    <3> QED BY <3>1, <3>2, FS_Subset
  <2> HIDE DEF sure, open, credited
  <2>10. /\ Cardinality(sure) \in Nat /\ Cardinality(open) \in Nat /\ Cardinality(credited) \in Nat
         /\ Cardinality(sure \cap open) \in Nat
    <3>1. IsFiniteSet(sure \cap open)
      BY <2>9, FS_Intersection
    <3> QED BY <2>5, <2>9, <3>1, FS_CardinalityType
  <2>11. Cardinality(sure) <= Cardinality(credited)
    BY <2>5, <2>8, FS_Subset, Zenon
  <2>12. Cardinality(credited) <= Cardinality(sure \cup open)
    <3>1. IsFiniteSet(sure \cup open)
      BY <2>9, FS_Union
    <3> QED BY <2>8, <3>1, FS_Subset, Zenon
  <2>13. Cardinality(sure \cup open) = Cardinality(sure) + Cardinality(open) - Cardinality(sure \cap open)
    BY <2>9, FS_Union
  <2>14. paper[p].closed \in Nat
    BY <2>5 DEF Accounts
  <2>15. paper'[p].closed - paper[p].closed \in Cardinality(sure) .. Cardinality(sure) + Cardinality(open)
    BY <2>5, <2>10, <2>11, <2>12, <2>13, <2>14
  <2> QED BY <2>15 DEF sure, open, mine, CountsOwned
<1> HIDE DEF A
<1>2. PortfolioSpec => [][A]_portfolioVars
  BY <1>1, OwnedEntryAlways, PTL
<1> QED BY <1>2 DEF A, PaperFollowsTheEntry
=============================================================================
