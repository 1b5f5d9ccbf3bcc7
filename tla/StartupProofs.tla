---------------------------- MODULE StartupProofs -----------------------------
(* Theorems about Startup and the Feed it leaves running, for any sockets,   *)
(* symbols, capacities, replies and failures, and any sizes of the registry. *)
EXTENDS Startup, WellFoundedInduction, TLAPS

(* Messages and tickers are of no fixed set.                                 *)
Sequenced(s) == \E S : s \in Seq(S)

LEMMA Appended ==
  ASSUME NEW s, NEW m, Sequenced(s)
  PROVE  /\ Sequenced(Append(s, m)) /\ Len(s) \in Nat
         /\ Len(Append(s, m)) = Len(s) + 1
         /\ Append(s, m)[Len(s) + 1] = m
         /\ \A i \in 1 .. Len(s) : Append(s, m)[i] = s[i]
<1>1. PICK S : s \in Seq(S)
  BY DEF Sequenced
<1> DEFINE T == S \cup {m}
<1>2. s \in Seq(T) /\ m \in T
  BY <1>1
<1> HIDE DEF T
<1>3. Append(s, m) \in Seq(T)
  BY <1>2
<1> QED BY <1>2, <1>3 DEF Sequenced

LEMMA Tailed ==
  ASSUME NEW s, Sequenced(s), s # <<>>
  PROVE  /\ Sequenced(Tail(s)) /\ Len(s) \in Nat \ {0} /\ Head(s) = s[1]
         /\ Len(Tail(s)) = Len(s) - 1
         /\ \A i \in 1 .. Len(s) - 1 : Tail(s)[i] = s[i + 1]
<1>1. PICK S : s \in Seq(S)
  BY DEF Sequenced
<1>2. Tail(s) \in Seq(S) /\ Len(s) \in Nat \ {0}
  BY <1>1
<1> QED BY <1>1, <1>2 DEF Sequenced

(* What a sequence of messages asks for, one message more or less.           *)
LEMMA CoveredAppend ==
  ASSUME NEW s, NEW m, Sequenced(s)
  PROVE  Covered(Append(s, m)) = Covered(s) \cup m
<1>1. /\ Len(s) \in Nat /\ DOMAIN s = 1 .. Len(s)
      /\ DOMAIN Append(s, m) = 1 .. Len(s) + 1
  <2>1. \A t : Sequenced(t) => DOMAIN t = 1 .. Len(t)
    BY DEF Sequenced
  <2> QED BY <2>1, Appended
<1>2. ASSUME NEW x PROVE x \in Covered(Append(s, m)) <=> x \in Covered(s) \cup m
  <2>1. x \in Covered(Append(s, m)) <=> \E i \in 1 .. Len(s) + 1 : x \in Append(s, m)[i]
    BY <1>1 DEF Covered
  <2>2. x \in Covered(s) <=> \E i \in 1 .. Len(s) : x \in s[i]
    BY <1>1 DEF Covered
  <2>3. (\E i \in 1 .. Len(s) + 1 : x \in Append(s, m)[i])
          <=> (\E i \in 1 .. Len(s) : x \in s[i]) \/ x \in m
    BY <1>1, Appended
  <2> QED BY <2>1, <2>2, <2>3
<1> QED BY <1>2

LEMMA CoveredTail ==
  ASSUME NEW s, Sequenced(s), s # <<>>
  PROVE  Covered(s) = Head(s) \cup Covered(Tail(s))
<1>1. /\ Len(s) \in Nat \ {0} /\ DOMAIN s = 1 .. Len(s)
      /\ DOMAIN Tail(s) = 1 .. Len(s) - 1
  <2>1. \A t : Sequenced(t) => DOMAIN t = 1 .. Len(t)
    BY DEF Sequenced
  <2> QED BY <2>1, Tailed
<1>2. ASSUME NEW x PROVE x \in Covered(s) <=> x \in Head(s) \cup Covered(Tail(s))
  <2>1. x \in Covered(s) <=> \E i \in 1 .. Len(s) : x \in s[i]
    BY <1>1 DEF Covered
  <2>2. x \in Covered(Tail(s)) <=> \E i \in 1 .. Len(s) - 1 : x \in Tail(s)[i]
    BY <1>1 DEF Covered
  <2>3. x \in Covered(Tail(s)) <=> \E i \in 2 .. Len(s) : x \in s[i]
    <3>1. \A i \in 1 .. Len(s) - 1 : Tail(s)[i] = s[i + 1] /\ i + 1 \in 2 .. Len(s)
      BY <1>1, Tailed
    <3>2. \A i \in 2 .. Len(s) : i - 1 \in 1 .. Len(s) - 1 /\ Tail(s)[i - 1] = s[i]
      <4> TAKE i \in 2 .. Len(s)
      <4>1. i - 1 \in 1 .. Len(s) - 1 /\ (i - 1) + 1 = i
        BY <1>1
      <4> QED BY <3>1, <4>1
    <3> QED BY <2>2, <3>1, <3>2
  <2>4. (\E i \in 1 .. Len(s) : x \in s[i]) <=> x \in s[1] \/ \E i \in 2 .. Len(s) : x \in s[i]
    BY <1>1
  <2> QED BY <2>1, <2>3, <2>4, Tailed
<1> QED BY <1>2

LEMMA NothingCovered == Sequenced(<<>>) /\ Covered(<<>>) = {}
BY DEF Sequenced, Covered

-----------------------------------------------------------------------------
(* What the event loop has of a symbol it drained.                           *)

Tickers == [symbol : Symbols, quote : Nat]

(* The last ticker of a symbol that waits in a channel carries the last      *)
(* quote received, unless that one was dropped for want of room.             *)
LastIsCurrent(q, e) ==
  \A i \in 1 .. Len(q) :
    (\A l \in i + 1 .. Len(q) : q[l].symbol # q[i].symbol) =>
      LET s == q[i].symbol
      IN  q[i].quote = received[e][s] \/ dropped[e][s] = received[e][s]

BookInv ==
  /\ channel \in [Exchanges -> Seq(Tickers)]
  /\ received \in [Exchanges -> [Symbols -> Nat]]
  /\ dropped \in [Exchanges -> [Symbols -> Nat]]
  /\ DOMAIN book = Exchanges
  /\ \A e \in Exchanges : LastIsCurrent(channel[e], e)

(* If any of the tickers is of a symbol, one is the last of it.              *)
LEMMA LastExists ==
  ASSUME NEW q, NEW S, q \in Seq(S), NEW i \in 1 .. Len(q)
  PROVE  \E k \in 1 .. Len(q) : /\ q[k].symbol = q[i].symbol
                                /\ \A l \in k + 1 .. Len(q) : q[l].symbol # q[k].symbol
<1> DEFINE After == {Len(q) - k : k \in {x \in 1 .. Len(q) : q[x].symbol = q[i].symbol}}
<1>1. After \in SUBSET Nat /\ Len(q) - i \in After
  OBVIOUS
<1>2. PICK a \in After : \A b \in After : ~(<<b, a>> \in OpToRel(<, Nat))
  <2> HIDE DEF After
  <2> QED BY <1>1, WFMin, NatLessThanWellFounded
<1>3. PICK k \in 1 .. Len(q) : q[k].symbol = q[i].symbol /\ a = Len(q) - k
  BY <1>2
<1>4. \A l \in k + 1 .. Len(q) : q[l].symbol # q[k].symbol
  <2> SUFFICES ASSUME NEW l \in k + 1 .. Len(q), q[l].symbol = q[k].symbol PROVE FALSE
    OBVIOUS
  <2>1. Len(q) - l \in After /\ Len(q) - l < a /\ Len(q) - l \in Nat /\ a \in Nat
    BY <1>3
  <2>2. <<Len(q) - l, a>> \in OpToRel(<, Nat)
    <3> HIDE DEF After
    <3> QED BY <2>1 DEF OpToRel
  <2> QED BY <1>2, <2>1, <2>2
<1> QED BY <1>3, <1>4

(* What a batch says of a symbol: the last ticker of it, if there is one.    *)
LEMMA DrainedLast ==
  ASSUME BookInv, NEW e \in Exchanges, NEW s \in Symbols, channel[e] # <<>>
  PROVE  \/ /\ LatestOf(e, s) = book[e][s]
            /\ \A i \in DOMAIN channel[e] : channel[e][i].symbol # s
         \/ \E i \in 1 .. Len(channel[e]) :
              /\ channel[e][i].symbol = s /\ LatestOf(e, s) = channel[e][i].quote
              /\ \A l \in i + 1 .. Len(channel[e]) : channel[e][l].symbol # s
<1> DEFINE q == channel[e]
           t == Tail(q)
           mine == {m \in Drained(e) : m.symbol = s}
<1>1. /\ q \in Seq(Tickers) /\ Len(q) \in Nat \ {0} /\ DOMAIN q = 1 .. Len(q)
      /\ t \in Seq(Tickers) /\ Len(t) = Len(q) - 1 /\ DOMAIN t = 1 .. Len(t)
      /\ \A i \in 1 .. Len(t) : t[i] = q[i + 1]
      /\ First(e) = q[1]
  BY DEF BookInv, First
<1>2. Drained(e) = {t[i] : i \in {k \in 1 .. Len(t) : \A l \in k + 1 .. Len(t) :
                                                        t[l].symbol # t[k].symbol}}
  BY <1>1 DEF Drained, LatestPerSymbol
<1>3. LatestOf(e, s) = IF mine # {} THEN (CHOOSE m \in mine : TRUE).quote
                       ELSE IF First(e).symbol = s THEN First(e).quote ELSE book[e][s]
  BY DEF LatestOf
<1> HIDE DEF t
<1>4. CASE mine # {}
  <2>1. PICK m \in mine : LatestOf(e, s) = m.quote
    BY <1>3, <1>4
  <2>2. PICK i \in 1 .. Len(t) : /\ m = t[i]
                                 /\ \A l \in i + 1 .. Len(t) : t[l].symbol # t[i].symbol
    BY <1>2
  <2>3. m.symbol = s
    OBVIOUS
  <2>4. i + 1 \in 1 .. Len(q) /\ q[i + 1] = m
    BY <1>1, <2>2
  <2>5. ASSUME NEW l \in (i + 1) + 1 .. Len(q) PROVE q[l].symbol # s
    <3>1. l - 1 \in i + 1 .. Len(t) /\ l - 1 \in 1 .. Len(t) /\ (l - 1) + 1 = l
      BY <1>1
    <3>2. t[l - 1] = q[l]
      BY <1>1, <3>1
    <3> QED BY <2>2, <2>3, <3>1, <3>2
  <2> QED BY <2>1, <2>3, <2>4, <2>5
<1>5. CASE mine = {}
  <2>1. ASSUME NEW j \in 1 .. Len(t), t[j].symbol = s PROVE FALSE
    <3>1. PICK k \in 1 .. Len(t) : /\ t[k].symbol = s
                                   /\ \A l \in k + 1 .. Len(t) : t[l].symbol # t[k].symbol
      BY <1>1, <2>1, LastExists
    <3>2. t[k] \in mine
      BY <1>2, <3>1
    <3> QED BY <1>5, <3>2
  <2>2. ASSUME NEW i \in 2 .. Len(q) PROVE q[i].symbol # s
    <3>1. i - 1 \in 1 .. Len(t) /\ (i - 1) + 1 = i
      BY <1>1
    <3> QED BY <1>1, <2>1, <3>1
  <2>3. CASE q[1].symbol = s
    <3>1. LatestOf(e, s) = q[1].quote
      BY <1>1, <1>3, <1>5, <2>3
    <3>2. 1 \in 1 .. Len(q) /\ \A l \in 1 + 1 .. Len(q) : q[l].symbol # s
      BY <1>1, <2>2
    <3> QED BY <2>3, <3>1, <3>2
  <2>4. CASE q[1].symbol # s
    <3>1. LatestOf(e, s) = book[e][s]
      BY <1>1, <1>3, <1>5, <2>4
    <3>2. \A i \in DOMAIN q : q[i].symbol # s
      BY <1>1, <2>2, <2>4
    <3> QED BY <3>1, <3>2
  <2> QED BY <2>3, <2>4
<1> QED BY <1>4, <1>5

LEMMA DrainIsLatest ==
  ASSUME BookInv, NEW e \in Exchanges, Drain(e), NEW s \in Symbols
  PROVE  \/ book'[e][s] = received[e][s] \/ dropped[e][s] = received[e][s]
         \/ book'[e][s] = book[e][s] /\ \A i \in DOMAIN channel[e] : channel[e][i].symbol # s
<1>1. book'[e][s] = LatestOf(e, s) /\ channel[e] # <<>>
  BY DEF Drain, BookInv
<1>2. LastIsCurrent(channel[e], e)
  BY DEF BookInv
<1>3. CASE \E i \in 1 .. Len(channel[e]) :
              /\ channel[e][i].symbol = s /\ LatestOf(e, s) = channel[e][i].quote
              /\ \A l \in i + 1 .. Len(channel[e]) : channel[e][l].symbol # s
  BY <1>1, <1>2, <1>3 DEF LastIsCurrent
<1> QED BY <1>1, <1>3, DrainedLast

(* A ticker that arrives is appended with the count received, or that count  *)
(* is recorded as dropped.                                                   *)
LEMMA BookReceive ==
  ASSUME BookInv, NEW w, NEW s \in Symbols, Receive(w, s)
  PROVE  BookInv'
<1> DEFINE e == Exchange(w)
<1>1. DOMAIN book' = Exchanges
  BY DEF Receive, BookInv
<1>2. CASE e \notin Exchanges
  <2>1. received' = received /\ channel' = channel /\ dropped' = dropped
    BY <1>2 DEF Receive, BookInv
  <2> QED BY <1>1, <2>1 DEF BookInv, LastIsCurrent
<1>3. CASE e \in Exchanges
  <2> DEFINE q == channel[e]
             r == received'[e][s]
             m == [symbol |-> s, quote |-> r]
  <2>1. /\ received' \in [Exchanges -> [Symbols -> Nat]] /\ r \in Nat
        /\ \A x \in Exchanges, y \in Symbols :
             <<x, y>> # <<e, s>> => received'[x][y] = received[x][y]
    BY <1>3 DEF Receive, BookInv
  <2>2. q \in Seq(Tickers) /\ m \in Tickers /\ Len(q) \in Nat
    <3>1. channel[e] \in Seq(Tickers)
      BY <1>3 DEF BookInv
    <3>2. m \in Tickers
      BY <2>1 DEF Tickers
    <3> QED BY <3>1, <3>2
  <2>3. \A x \in Exchanges : /\ channel[x] \in Seq(Tickers) /\ LastIsCurrent(channel[x], x)
                             /\ Len(channel[x]) \in Nat
                             /\ \A i \in 1 .. Len(channel[x]) : channel[x][i].symbol \in Symbols
    <3> TAKE x \in Exchanges
    <3>1. channel[x] \in Seq(Tickers) /\ LastIsCurrent(channel[x], x)
      BY DEF BookInv
    <3>2. Len(channel[x]) \in Nat /\ \A i \in 1 .. Len(channel[x]) : channel[x][i] \in Tickers
      BY <3>1
    <3> QED BY <3>1, <3>2 DEF Tickers
  <2>4. CASE Len(channel[e]) < Capacity[e]
    <3>1. channel' = [channel EXCEPT ![e] = Append(@, m)] /\ dropped' = dropped
      BY <2>4 DEF Receive
    <3>2. channel' \in [Exchanges -> Seq(Tickers)] /\ dropped' \in [Exchanges -> [Symbols -> Nat]]
      BY <1>3, <2>2, <3>1 DEF BookInv
    <3>3. ASSUME NEW x \in Exchanges PROVE LastIsCurrent(channel[x], x)'
      <4>1. CASE x # e
        <5>1. channel'[x] = channel[x]
          BY <1>3, <3>1, <4>1 DEF BookInv
        <5>2. \A i \in 1 .. Len(channel[x]) :
                received'[x][channel[x][i].symbol] = received[x][channel[x][i].symbol]
          BY <2>1, <2>3, <4>1
        <5>3. LastIsCurrent(channel[x], x) /\ dropped' = dropped
          BY <2>3, <3>1
        <5>4. ASSUME NEW i \in 1 .. Len(channel[x]),
                     \A l \in i + 1 .. Len(channel[x]) : channel[x][l].symbol # channel[x][i].symbol
              PROVE  LET y == channel[x][i].symbol
                     IN  channel[x][i].quote = received'[x][y] \/ dropped'[x][y] = received'[x][y]
          BY <5>2, <5>3, <5>4 DEF LastIsCurrent
        <5> QED BY <5>1, <5>4 DEF LastIsCurrent
      <4>2. CASE x = e
        <5>1. channel'[x] = Append(q, m)
          BY <1>3, <3>1, <4>2 DEF BookInv
        <5>2. /\ Len(channel'[x]) = Len(q) + 1
              /\ channel'[x][Len(q) + 1] = m
              /\ \A i \in 1 .. Len(q) : channel'[x][i] = q[i]
          BY <2>2, <5>1
        <5>3. ASSUME NEW i \in 1 .. Len(q) + 1,
                     \A l \in i + 1 .. Len(q) + 1 : channel'[x][l].symbol # channel'[x][i].symbol
              PROVE  LET y == channel'[x][i].symbol
                     IN  channel'[x][i].quote = received'[x][y] \/ dropped'[x][y] = received'[x][y]
          <6>1. CASE i = Len(q) + 1
            BY <4>2, <5>2, <6>1
          <6>2. CASE i # Len(q) + 1
            <7>1. i \in 1 .. Len(q) /\ Len(q) + 1 \in i + 1 .. Len(q) + 1
              BY <2>2, <6>2
            <7>2. channel'[x][i] = q[i] /\ q[i].symbol # s
              BY <5>2, <5>3, <7>1
            <7>3. \A l \in i + 1 .. Len(q) : l \in i + 1 .. Len(q) + 1 /\ channel'[x][l] = q[l]
              <8> HIDE DEF q
              <8>1. \A l \in i + 1 .. Len(q) : l \in i + 1 .. Len(q) + 1 /\ l \in 1 .. Len(q)
                BY <2>2, <7>1
              <8> QED BY <5>2, <8>1
            <7>4. \A l \in i + 1 .. Len(q) : q[l].symbol # q[i].symbol
              BY <5>3, <7>2, <7>3
            <7>5. q[i].quote = received[x][q[i].symbol]
                    \/ dropped[x][q[i].symbol] = received[x][q[i].symbol]
              BY <2>3, <4>2, <7>1, <7>4 DEF LastIsCurrent
            <7>6. received'[x][q[i].symbol] = received[x][q[i].symbol]
              BY <2>1, <2>3, <4>2, <7>1, <7>2
            <7> QED BY <3>1, <7>2, <7>5, <7>6
          <6> QED BY <6>1, <6>2
        <5> QED BY <5>2, <5>3 DEF LastIsCurrent
      <4> QED BY <4>1, <4>2
    <3> QED BY <1>1, <2>1, <3>2, <3>3 DEF BookInv
  <2>5. CASE ~(Len(channel[e]) < Capacity[e])
    <3>1. channel' = channel /\ dropped' = [dropped EXCEPT ![e][s] = r]
      BY <2>5 DEF Receive
    <3>2. /\ dropped' \in [Exchanges -> [Symbols -> Nat]] /\ dropped'[e][s] = r
          /\ \A x \in Exchanges, y \in Symbols :
               <<x, y>> # <<e, s>> => dropped'[x][y] = dropped[x][y]
      BY <1>3, <2>1, <3>1 DEF BookInv
    <3>3. ASSUME NEW x \in Exchanges PROVE LastIsCurrent(channel[x], x)'
      <4>1. channel'[x] = channel[x]
        BY <3>1
      <4>2. ASSUME NEW i \in 1 .. Len(channel[x]),
                   \A l \in i + 1 .. Len(channel[x]) : channel[x][l].symbol # channel[x][i].symbol
            PROVE  LET y == channel[x][i].symbol
                   IN  channel[x][i].quote = received'[x][y] \/ dropped'[x][y] = received'[x][y]
        <5>1. CASE <<x, channel[x][i].symbol>> = <<e, s>>
          BY <3>2, <5>1
        <5>2. CASE <<x, channel[x][i].symbol>> # <<e, s>>
          <6>1. channel[x][i].symbol \in Symbols
            BY <2>3
          <6>2. /\ received'[x][channel[x][i].symbol] = received[x][channel[x][i].symbol]
                /\ dropped'[x][channel[x][i].symbol] = dropped[x][channel[x][i].symbol]
            BY <2>1, <3>2, <5>2, <6>1
          <6>3. channel[x][i].quote = received[x][channel[x][i].symbol]
                  \/ dropped[x][channel[x][i].symbol] = received[x][channel[x][i].symbol]
            BY <2>3, <4>2 DEF LastIsCurrent
          <6> QED BY <6>2, <6>3
        <5> QED BY <5>1, <5>2
      <4> QED BY <4>1, <4>2 DEF LastIsCurrent
    <3> QED BY <1>1, <2>1, <3>1, <3>2, <3>3 DEF BookInv
  <2> QED BY <2>4, <2>5
<1> QED BY <1>2, <1>3

LEMMA BookUntouched ==
  ASSUME BookInv, UNCHANGED <<channel, received, dropped, book>>
  PROVE  BookInv'
BY DEF BookInv, LastIsCurrent

LEMMA BookEmptied ==
  ASSUME BookInv, UNCHANGED <<received, dropped>>, DOMAIN book' = Exchanges,
         channel' \in [Exchanges -> Seq(Tickers)],
         \A e \in Exchanges : channel'[e] = <<>> \/ channel'[e] = channel[e]
  PROVE  BookInv'
<1>1. ASSUME NEW e \in Exchanges PROVE LastIsCurrent(channel[e], e)'
  <2>1. CASE channel'[e] = <<>>
    BY <2>1 DEF LastIsCurrent
  <2>2. CASE channel'[e] = channel[e]
    <3>1. LastIsCurrent(channel[e], e)
      BY DEF BookInv
    <3> QED BY <2>2, <3>1 DEF LastIsCurrent
  <2> QED BY <2>1, <2>2
<1> QED BY <1>1 DEF BookInv

(* When the loop has drained a channel, it has of every symbol in it the     *)
(* last quote received, unless that very quote was dropped for want of room. *)
THEOREM DrainsAreLatest == Spec => BookIsLatest
<1>1. Init => BookInv
  <2> SUFFICES ASSUME Init PROVE BookInv
    OBVIOUS
  <2>1. /\ channel = [e \in Exchanges |-> <<>>]
        /\ received = [e \in Exchanges |-> [s \in Symbols |-> 0]]
        /\ dropped = [e \in Exchanges |-> [s \in Symbols |-> 0]]
        /\ book = [e \in Exchanges |-> [s \in Symbols |-> 0]]
    BY DEF Init, FeedInit, NoQuotes
  <2>2. <<>> \in Seq(Tickers)
    OBVIOUS
  <2>3. \A e \in Exchanges : LastIsCurrent(channel[e], e)
    BY <2>1 DEF LastIsCurrent
  <2> QED BY <2>1, <2>2, <2>3 DEF BookInv
<1>2. BookInv /\ [Next]_vars => BookInv'
  <2> SUFFICES ASSUME BookInv, [Next]_vars PROVE BookInv'
    OBVIOUS
  <2>1. CASE UNCHANGED vars
    BY <2>1, BookUntouched DEF vars, feedVars, channelVars
  <2>2. CASE Boot
    <3>1. CASE Run
      <4>1. /\ UNCHANGED <<received, dropped, book>>
            /\ channel' = [e \in Exchanges |-> <<>>]
        BY <3>1 DEF Run, DrainStaleTicks
      <4>2. channel' \in [Exchanges -> Seq(Tickers)]
        BY <4>1
      <4> QED BY <4>1, <4>2, BookEmptied DEF BookInv
    <3>2. CASE ~Run
      <4>1. UNCHANGED <<channel, received, dropped, book>>
        BY <2>2, <3>2 DEF Boot, Fetch, ConnectBinance, ConnectGate, OpenSocket, SubscribeChunk,
           SubscribeContract, Open, Subscribe, feedVars, channelVars
      <4> QED BY <4>1, BookUntouched
    <3> QED BY <3>1, <3>2
  <2>3. ASSUME NEW e \in Exchanges, Drain(e) PROVE BookInv'
    <3>1. /\ UNCHANGED <<received, dropped>> /\ DOMAIN book' = Exchanges
          /\ channel' = [channel EXCEPT ![e] = <<>>]
      BY <2>3 DEF Drain, BookInv
    <3>2. channel' \in [Exchanges -> Seq(Tickers)]
      BY <3>1 DEF BookInv
    <3>3. \A x \in Exchanges : channel'[x] = <<>> \/ channel'[x] = channel[x]
      BY <3>1 DEF BookInv
    <3> QED BY <3>1, <3>2, <3>3, BookEmptied
  <2>4. ASSUME NEW w \in Sockets, Task(w) \/ ReconnectFails(w) \/ LoseConnection(w)
        PROVE  BookInv'
    BY <2>4, BookUntouched DEF Task, Write, NoticeLoss, Reconnect, Replay, ReconnectFails,
       LoseConnection, channelVars
  <2>5. ASSUME NEW w \in Sockets, NEW s \in Symbols, Receive(w, s) PROVE BookInv'
    BY <2>5, BookReceive
  <2> QED BY <2>1, <2>2, <2>3, <2>4, <2>5 DEF Next, FeedNext
<1>3. BookInv /\ [Next]_vars =>
        [\A e \in Exchanges : Drain(e) => \A s \in Symbols :
           \/ book'[e][s] = received[e][s] \/ dropped[e][s] = received[e][s]
           \/ book'[e][s] = book[e][s] /\ \A i \in DOMAIN channel[e] : channel[e][i].symbol # s
        ]_feedVars
  BY DrainIsLatest
<1> QED BY <1>1, <1>2, <1>3, PTL DEF Spec, BookIsLatest

-----------------------------------------------------------------------------
(* What a socket was asked for.                                              *)

(* How many subscriptions start-up has sent to a socket's task.              *)
Messages(w) ==
  IF w = GateSocket THEN contractsSent
  ELSE IF \E i \in 1 .. chunksSent : w = BinanceSocket(i) THEN 1 ELSE 0

(* All of it is recorded or will be, and on a connection that is up it is    *)
(* live, or about to be written or replayed.                                 *)
Kept(w) ==
  /\ sent[w] = Covered(registry[w]) \cup Covered(outbox[w])
  /\ link[w] = "up" /\ pc[w] # "reconnect" =>
       sent[w] = live[w] \cup Covered(outbox[w]) \cup Covered(replay[w])

(* While no more was sent than the registry has room for, it never forgets.  *)
SocketInv(w) ==
  /\ Sequenced(outbox[w]) /\ Sequenced(registry[w]) /\ Sequenced(replay[w])
  /\ Len(registry[w]) + Len(outbox[w]) <= Messages(w)
  /\ pc[w] = "closed" =>
       sent[w] = {} /\ live[w] = {} /\ outbox[w] = <<>> /\ replay[w] = <<>>
  /\ pc[w] = "reconnect" => link[w] # "up"
  /\ Messages(w) <= RegistryMax => Kept(w)

SocketMaps ==
  /\ DOMAIN sent = Sockets /\ DOMAIN pc = Sockets /\ DOMAIN outbox = Sockets
  /\ DOMAIN registry = Sockets /\ DOMAIN replay = Sockets
  /\ DOMAIN link = Sockets /\ DOMAIN live = Sockets

SubscriptionInv ==
  /\ SocketMaps /\ chunksSent \in Nat /\ contractsSent \in Nat
  /\ \A w \in Sockets : SocketInv(w)

LEMMA MessagesType ==
  ASSUME chunksSent \in Nat, contractsSent \in Nat, NEW w
  PROVE  Messages(w) \in Nat
BY DEF Messages

LEMMA Lengths ==
  ASSUME NEW s, Sequenced(s)
  PROVE  Len(s) \in Nat /\ (s # <<>> => Len(s) > 0)
BY Appended, Tailed

(* The room left in the registry, for lengths and counts.                    *)
LEMMA RoomGrows ==
  ASSUME NEW r \in Nat, NEW o \in Nat, NEW m \in Nat, NEW n \in Nat, r + o <= m
  PROVE  /\ m <= n => r + o <= n
         /\ n = m + 1 => r + (o + 1) <= n
         /\ o # 0 /\ m <= n => r + 1 <= n
OBVIOUS

LEMMA RoomEnds ==
  ASSUME NEW r \in Nat, NEW l, NEW t, NEW n \in Nat, l = r + 1, t = l - 1
  PROVE  t = r /\ t \in Nat /\ t <= r + 1 /\ (l > n => ~(r + 1 <= n))
OBVIOUS

(* A socket nothing happens to keeps it, whatever others are sent.           *)
LEMMA SocketIdle ==
  ASSUME NEW w, SocketInv(w), Messages(w) \in Nat, Messages(w)' \in Nat,
         Messages(w) <= Messages(w)',
         outbox'[w] = outbox[w], registry'[w] = registry[w], replay'[w] = replay[w],
         sent'[w] = sent[w], pc'[w] = pc[w], link'[w] = link[w], live'[w] = live[w]
  PROVE  SocketInv(w)'
<1>1. Len(registry[w]) \in Nat /\ Len(outbox[w]) \in Nat
  BY Lengths DEF SocketInv
<1>2. RegistryMax \in Nat
  BY CapacityIsPositive
<1>3. Messages(w)' <= RegistryMax => Messages(w) <= RegistryMax
  BY <1>2
<1>4. Kept(w) => Kept(w)'
  BY DEF Kept
<1>5. Len(registry'[w]) + Len(outbox'[w]) <= Messages(w)'
  <2>1. Len(registry[w]) + Len(outbox[w]) <= Messages(w)
    BY DEF SocketInv
  <2>2. Len(registry'[w]) = Len(registry[w]) /\ Len(outbox'[w]) = Len(outbox[w])
    OBVIOUS
  <2> QED BY Zenon, <1>1, <2>1, <2>2, RoomGrows
<1> QED BY <1>3, <1>4, <1>5 DEF SocketInv

(* ... and so does one whose task or connection moves without a message.     *)
LEMMA SocketMoves ==
  ASSUME NEW w, SocketInv(w), Messages(w)' = Messages(w),
         outbox'[w] = outbox[w], registry'[w] = registry[w], replay'[w] = replay[w],
         sent'[w] = sent[w], live'[w] = live[w],
         pc'[w] = "closed" => pc[w] = "closed",
         pc'[w] = "reconnect" => link'[w] # "up",
         link'[w] = "up" => (pc[w] = "closed" \/ (link[w] = "up" /\ pc[w] # "reconnect"))
  PROVE  SocketInv(w)'
<1>1. ASSUME Kept(w) PROVE Kept(w)'
  <2>1. sent'[w] = Covered(registry'[w]) \cup Covered(outbox'[w])
    BY <1>1 DEF Kept
  <2>2. ASSUME link'[w] = "up", pc'[w] # "reconnect"
        PROVE  sent'[w] = live'[w] \cup Covered(outbox'[w]) \cup Covered(replay'[w])
    <3>1. CASE pc[w] = "closed"
      BY <3>1, NothingCovered DEF SocketInv
    <3>2. CASE pc[w] # "closed"
      BY <1>1, <2>2, <3>2 DEF Kept
    <3> QED BY <3>1, <3>2
  <2> QED BY <2>1, <2>2 DEF Kept
<1> QED BY <1>1 DEF SocketInv

(* A subscription is sent to the task.                                       *)
LEMMA SocketSubscribed ==
  ASSUME NEW w \in Sockets, NEW m, SubscriptionInv, Subscribe(w, m),
         Messages(w)' \in Nat, Messages(w)' = Messages(w) + 1
  PROVE  SocketInv(w)'
<1>1. /\ outbox'[w] = Append(outbox[w], m) /\ sent'[w] = sent[w] \cup m
      /\ registry'[w] = registry[w] /\ replay'[w] = replay[w]
      /\ pc'[w] = pc[w] /\ link'[w] = link[w] /\ live'[w] = live[w] /\ pc[w] # "closed"
  BY DEF Subscribe, linkVars, SubscriptionInv, SocketMaps
<1>2. /\ SocketInv(w) /\ Sequenced(outbox[w]) /\ Sequenced(registry[w]) /\ Sequenced(replay[w])
      /\ Messages(w) \in Nat
  BY MessagesType DEF SubscriptionInv, SocketInv
<1>3. /\ Sequenced(Append(outbox[w], m)) /\ Len(outbox[w]) \in Nat /\ Len(registry[w]) \in Nat
      /\ Len(Append(outbox[w], m)) = Len(outbox[w]) + 1
      /\ Covered(Append(outbox[w], m)) = Covered(outbox[w]) \cup m
  BY <1>2, Appended, CoveredAppend, Lengths
<1>4. Len(registry'[w]) + Len(outbox'[w]) <= Messages(w)'
  <2>1. Len(registry[w]) + Len(outbox[w]) <= Messages(w)
    BY <1>2 DEF SocketInv
  <2>2. Len(registry'[w]) = Len(registry[w]) /\ Len(outbox'[w]) = Len(outbox[w]) + 1
    BY <1>1, <1>3
  <2>3. Len(registry[w]) \in Nat /\ Len(outbox[w]) \in Nat /\ Messages(w) \in Nat
    BY <1>2, <1>3
  <2> QED BY Zenon, <2>1, <2>2, <2>3, RoomGrows
<1>5. RegistryMax \in Nat
  BY CapacityIsPositive
<1>6. ASSUME Messages(w)' <= RegistryMax PROVE Kept(w)'
  <2>1. Kept(w)
    BY <1>2, <1>5, <1>6 DEF SocketInv
  <2> QED BY <1>1, <1>3, <2>1 DEF Kept
<1> QED BY <1>1, <1>2, <1>3, <1>4, <1>6 DEF SocketInv

(* The task records a message and writes it.                                 *)
LEMMA SocketWrites ==
  ASSUME NEW w \in Sockets, SubscriptionInv, Write(w), Messages(w)' = Messages(w)
  PROVE  SocketInv(w)'
<1> DEFINE m == Head(outbox[w])
           r == registry[w]
<1>1. /\ outbox'[w] = Tail(outbox[w]) /\ outbox[w] # <<>> /\ registry'[w] = Registered(w, m)
      /\ live'[w] = (IF link[w] = "up" THEN live[w] \cup m ELSE live[w])
      /\ pc[w] = "select" /\ pc'[w] = (IF link[w] = "up" THEN pc[w] ELSE "reconnect")
      /\ sent'[w] = sent[w] /\ replay'[w] = replay[w] /\ link'[w] = link[w]
  BY DEF Write, SubscriptionInv, SocketMaps
<1>2. /\ SocketInv(w) /\ Sequenced(outbox[w]) /\ Sequenced(r) /\ Sequenced(replay[w])
      /\ Messages(w) \in Nat
  BY MessagesType DEF SubscriptionInv, SocketInv
<1>3. /\ Sequenced(Tail(outbox[w])) /\ Len(outbox[w]) \in Nat \ {0} /\ Len(r) \in Nat
      /\ Len(Tail(outbox[w])) = Len(outbox[w]) - 1
      /\ Covered(outbox[w]) = m \cup Covered(Tail(outbox[w]))
  BY <1>1, <1>2, Tailed, CoveredTail, Lengths
<1>4. RegistryMax \in Nat
  BY CapacityIsPositive
<1>5. /\ Sequenced(Registered(w, m)) /\ Len(Registered(w, m)) \in Nat
      /\ Len(Registered(w, m)) <= Len(r) + 1
      /\ Len(r) + 1 <= RegistryMax => Covered(Registered(w, m)) = Covered(r) \cup m
  <2>1. CASE m \in {r[i] : i \in DOMAIN r}
    <3>1. Registered(w, m) = r
      BY <2>1 DEF Registered
    <3>2. Covered(r) = Covered(r) \cup m
      BY <2>1 DEF Covered
    <3> QED BY <1>2, <1>3, <3>1, <3>2
  <2>2. CASE m \notin {r[i] : i \in DOMAIN r}
    <3> DEFINE next == Append(r, m)
    <3>1. /\ Sequenced(next) /\ Len(next) = Len(r) + 1 /\ Covered(next) = Covered(r) \cup m
      BY <1>2, Appended, CoveredAppend
    <3>2. Registered(w, m) = IF Len(next) > RegistryMax THEN Tail(next) ELSE next
      BY <2>2 DEF Registered
    <3>3. next # <<>> /\ Sequenced(Tail(next)) /\ Len(Tail(next)) = Len(next) - 1
      <4>1. Len(<<>>) = 0
        OBVIOUS
      <4>2. next # <<>>
        BY <1>3, <3>1, <4>1
      <4> HIDE DEF next
      <4> QED BY <3>1, <4>2, Tailed
    <3> HIDE DEF next
    <3>4. CASE Len(next) > RegistryMax
      <4>1. Registered(w, m) = Tail(next)
        BY <3>2, <3>4
      <4>2. /\ Len(Tail(next)) = Len(r) /\ Len(Tail(next)) \in Nat
            /\ Len(Tail(next)) <= Len(r) + 1 /\ ~(Len(r) + 1 <= RegistryMax)
        BY Zenon, <1>3, <1>4, <3>1, <3>3, <3>4, RoomEnds
      <4> QED BY Zenon, <3>3, <4>1, <4>2
    <3>5. CASE ~(Len(next) > RegistryMax)
      <4>1. Registered(w, m) = next
        BY <3>2, <3>5
      <4>2. Len(r) + 1 \in Nat /\ Len(r) + 1 <= Len(r) + 1
        BY <1>3
      <4> QED BY Zenon, <3>1, <4>1, <4>2
    <3> QED BY <3>4, <3>5
  <2> QED BY <2>1, <2>2
<1>6. Len(registry'[w]) + Len(outbox'[w]) <= Messages(w)'
  <2>1. Len(r) + Len(outbox[w]) <= Messages(w)
    BY <1>2 DEF SocketInv
  <2>2. Len(registry'[w]) \in Nat /\ Len(registry'[w]) <= Len(r) + 1
    BY <1>1, <1>5
  <2>3. Len(outbox'[w]) = Len(outbox[w]) - 1
    BY <1>1, <1>3
  <2>4. Len(r) \in Nat /\ Len(outbox[w]) \in Nat \ {0} /\ Messages(w) \in Nat
    BY <1>2, <1>3
  <2> DEFINE lr == Len(r)
             lo == Len(outbox[w])
             lr2 == Len(registry'[w])
             lo2 == Len(outbox'[w])
             n == Messages(w)
  <2>5. lr + lo <= n /\ lr2 \in Nat /\ lr2 <= lr + 1 /\ lo2 = lo - 1 /\ lr \in Nat
        /\ lo \in Nat \ {0} /\ n \in Nat
    BY <2>1, <2>2, <2>3, <2>4
  <2>6. lr2 + lo2 <= n
    <3> HIDE DEF lr, lo, lr2, lo2, n
    <3> QED BY <2>5
  <2> QED BY <2>6
<1>7. ASSUME Messages(w)' <= RegistryMax PROVE Kept(w)'
  <2>1. Kept(w) /\ Len(r) + 1 <= RegistryMax
    <3>1. Len(r) + Len(outbox[w]) <= Messages(w)
      BY <1>2 DEF SocketInv
    <3>2. Messages(w) <= RegistryMax
      BY <1>7
    <3>3. Len(r) \in Nat /\ Len(outbox[w]) \in Nat \ {0} /\ Messages(w) \in Nat
      BY <1>2, <1>3
    <3>4. Len(r) + 1 <= RegistryMax
      <4>1. Len(outbox[w]) # 0 /\ Len(outbox[w]) \in Nat
        BY <3>3
      <4> QED BY Zenon, <1>4, <3>1, <3>2, <3>3, <4>1, RoomGrows
    <3> QED BY <1>2, <3>2, <3>4 DEF SocketInv
  <2>2. Covered(registry'[w]) = Covered(r) \cup m
    BY <1>1, <1>5, <2>1
  <2>3. sent'[w] = Covered(registry'[w]) \cup Covered(outbox'[w])
    BY <1>1, <1>3, <2>1, <2>2 DEF Kept
  <2>4. ASSUME link'[w] = "up"
        PROVE  sent'[w] = live'[w] \cup Covered(outbox'[w]) \cup Covered(replay'[w])
    BY <1>1, <1>3, <2>1, <2>4 DEF Kept
  <2> QED BY <2>3, <2>4 DEF Kept
<1>8. pc'[w] # "closed" /\ (pc'[w] = "reconnect" => link'[w] # "up")
  BY <1>1
<1>9. Sequenced(outbox'[w]) /\ Sequenced(registry'[w]) /\ Sequenced(replay'[w])
  BY <1>1, <1>2, <1>3, <1>5
<1> HIDE DEF m, r
<1> QED BY <1>6, <1>7, <1>8, <1>9 DEF SocketInv

(* A new connection starts with nothing live and everything to be replayed.  *)
LEMMA SocketReconnects ==
  ASSUME NEW w \in Sockets, SubscriptionInv, Reconnect(w), Messages(w)' = Messages(w)
  PROVE  SocketInv(w)'
<1>1. /\ outbox'[w] = outbox[w] /\ registry'[w] = registry[w] /\ replay'[w] = registry[w]
      /\ live'[w] = {} /\ pc'[w] = "replay" /\ sent'[w] = sent[w]
  BY DEF Reconnect, SubscriptionInv, SocketMaps
<1>2. SocketInv(w)
  BY DEF SubscriptionInv
<1>3. Kept(w) => Kept(w)'
  BY <1>1 DEF Kept
<1> QED BY <1>1, <1>2, <1>3 DEF SocketInv

(* One message is replayed, or the replay is over.                           *)
LEMMA SocketReplays ==
  ASSUME NEW w \in Sockets, SubscriptionInv, Replay(w), Messages(w)' = Messages(w)
  PROVE  SocketInv(w)'
<1>1. /\ outbox'[w] = outbox[w] /\ registry'[w] = registry[w] /\ sent'[w] = sent[w]
      /\ link'[w] = link[w] /\ pc[w] = "replay"
  BY DEF Replay, SubscriptionInv, SocketMaps
<1>2. SocketInv(w)
  BY DEF SubscriptionInv
<1>3. CASE replay[w] = <<>>
  <2>1. pc'[w] = "select" /\ replay'[w] = replay[w] /\ live'[w] = live[w]
    BY <1>3 DEF Replay, SubscriptionInv, SocketMaps
  <2> QED BY <1>1, <1>2, <2>1, SocketMoves
<1>4. CASE replay[w] # <<>>
  <2>1. /\ live'[w] = (IF link[w] = "up" THEN live[w] \cup Head(replay[w]) ELSE live[w])
        /\ replay'[w] = Tail(replay[w]) /\ pc'[w] = pc[w]
    BY <1>4 DEF Replay, SubscriptionInv, SocketMaps
  <2>2. /\ Sequenced(Tail(replay[w]))
        /\ Covered(replay[w]) = Head(replay[w]) \cup Covered(Tail(replay[w]))
    BY <1>2, <1>4, Tailed, CoveredTail DEF SocketInv
  <2>3. Kept(w) => Kept(w)'
    BY <1>1, <2>1, <2>2 DEF Kept
  <2> QED BY <1>1, <1>2, <2>1, <2>2, <2>3 DEF SocketInv
<1> QED BY <1>3, <1>4

(* Every step keeps it for every socket.                                     *)
LEMMA MapsKept == SocketMaps /\ [Next]_vars => SocketMaps'
BY DEF SocketMaps, Next, vars, bootVars, feedVars, taskVars, linkVars, Boot, Fetch, ConnectBinance,
   ConnectGate, OpenSocket, SubscribeChunk, SubscribeContract, Run, Open, Subscribe,
   DrainStaleTicks, FeedNext, Drain, Task, Write, NoticeLoss, Reconnect, Replay, ReconnectFails,
   LoseConnection, Receive

LEMMA CountsKept ==
  ASSUME chunksSent \in Nat, contractsSent \in Nat, [Next]_vars
  PROVE  chunksSent' \in Nat /\ contractsSent' \in Nat
BY DEF Next, vars, bootVars, countVars, Boot, Fetch, ConnectBinance, ConnectGate, OpenSocket,
   SubscribeChunk, SubscribeContract, Run

(* Steps of one socket leave the others as they are.                         *)
OthersIdle(w, x) ==
  x # w => /\ outbox'[x] = outbox[x] /\ registry'[x] = registry[x] /\ replay'[x] = replay[x]
           /\ sent'[x] = sent[x] /\ pc'[x] = pc[x] /\ link'[x] = link[x] /\ live'[x] = live[x]

LEMMA OneSocketMoves ==
  ASSUME SocketMaps, NEW w, NEW m,
         Open(w) \/ Subscribe(w, m) \/ Task(w) \/ ReconnectFails(w) \/ LoseConnection(w),
         NEW x \in Sockets
  PROVE  OthersIdle(w, x)
BY DEF SocketMaps, OthersIdle, Open, Subscribe, Task, Write, NoticeLoss, Reconnect, Replay,
   ReconnectFails, LoseConnection, linkVars, taskVars

(* A task or a connection moves: nothing more is sent.                       *)
LEMMA TaskStep ==
  ASSUME SubscriptionInv, UNCHANGED <<chunksSent, contractsSent>>, NEW w,
         Open(w) \/ Task(w) \/ ReconnectFails(w) \/ LoseConnection(w), NEW x \in Sockets
  PROVE  SocketInv(x)'
<1>1. SocketInv(x) /\ SocketMaps /\ Messages(x) \in Nat
  BY MessagesType DEF SubscriptionInv
<1>2. Messages(x)' = Messages(x)
  BY DEF Messages
<1>3. CASE x # w
  <2>1. OthersIdle(w, x)
    BY <1>1, OneSocketMoves
  <2>2. Messages(x)' \in Nat /\ Messages(x) <= Messages(x)'
    BY <1>1, <1>2
  <2> QED BY <1>1, <1>3, <2>1, <2>2, SocketIdle DEF OthersIdle
<1>4. CASE x = w
  <2>1. CASE Open(w)
    <3>1. /\ outbox'[x] = outbox[x] /\ registry'[x] = registry[x] /\ replay'[x] = replay[x]
          /\ sent'[x] = sent[x] /\ live'[x] = live[x] /\ pc[x] = "closed" /\ pc'[x] = "select"
      BY <1>1, <1>4, <2>1 DEF Open, SocketMaps
    <3> QED BY <1>1, <1>2, <3>1, SocketMoves
  <2>2. CASE Write(w)
    BY <1>2, <1>4, <2>2, SocketWrites
  <2>3. CASE NoticeLoss(w)
    <3>1. /\ outbox'[x] = outbox[x] /\ registry'[x] = registry[x] /\ replay'[x] = replay[x]
          /\ sent'[x] = sent[x] /\ live'[x] = live[x] /\ pc'[x] = "reconnect"
          /\ link'[x] = "down"
      BY <1>1, <1>4, <2>3 DEF NoticeLoss, linkVars, SocketMaps
    <3> QED BY <1>1, <1>2, <3>1, SocketMoves
  <2>4. CASE Reconnect(w)
    BY <1>2, <1>4, <2>4, SocketReconnects
  <2>5. CASE Replay(w)
    BY <1>2, <1>4, <2>5, SocketReplays
  <2>6. CASE ReconnectFails(w)
    <3>1. /\ outbox'[x] = outbox[x] /\ registry'[x] = registry[x] /\ replay'[x] = replay[x]
          /\ sent'[x] = sent[x] /\ live'[x] = live[x] /\ pc[x] = "reconnect"
          /\ pc'[x] = "select" /\ link'[x] = link[x]
      BY <1>1, <1>4, <2>6 DEF ReconnectFails, linkVars, SocketMaps
    <3>2. link[x] # "up"
      BY <1>1, <3>1 DEF SocketInv
    <3> QED BY <1>1, <1>2, <3>1, <3>2, SocketMoves
  <2>7. CASE LoseConnection(w)
    <3>1. /\ outbox'[x] = outbox[x] /\ registry'[x] = registry[x] /\ replay'[x] = replay[x]
          /\ sent'[x] = sent[x] /\ live'[x] = live[x] /\ pc'[x] = pc[x] /\ link'[x] = "down"
      BY <1>1, <1>4, <2>7 DEF LoseConnection, taskVars, SocketMaps
    <3> QED BY <1>1, <1>2, <3>1, SocketMoves
  <2> QED BY <2>1, <2>2, <2>3, <2>4, <2>5, <2>6, <2>7 DEF Task
<1> QED BY <1>3, <1>4

(* Start-up sends a chunk to a Binance socket it has sent none before.       *)
LEMMA ChunkStep ==
  ASSUME SubscriptionInv, NEW m, Subscribe(BinanceSocket(chunksSent + 1), m),
         chunksSent' = chunksSent + 1, contractsSent' = contractsSent, NEW x \in Sockets
  PROVE  SocketInv(x)'
<1> DEFINE w == BinanceSocket(chunksSent + 1)
<1>1. /\ SocketInv(x) /\ SocketMaps /\ Messages(x) \in Nat
      /\ chunksSent \in Nat /\ contractsSent \in Nat
  BY MessagesType DEF SubscriptionInv
<1>2. Messages(x)' = IF x = w THEN 1 ELSE Messages(x)
  <2>1. (\E i \in 1 .. chunksSent + 1 : x = BinanceSocket(i))
          <=> x = w \/ \E i \in 1 .. chunksSent : x = BinanceSocket(i)
    BY <1>1
  <2>2. w # GateSocket
    BY DEF BinanceSocket, GateSocket
  <2>3. Messages(x)' = IF x = GateSocket THEN contractsSent
                       ELSE IF \E i \in 1 .. chunksSent + 1 : x = BinanceSocket(i) THEN 1 ELSE 0
    BY DEF Messages, GateSocket, BinanceSocket
  <2> HIDE DEF w
  <2> QED BY <2>1, <2>2, <2>3 DEF Messages
<1>3. CASE x # w
  <2>1. OthersIdle(w, x)
    BY <1>1, OneSocketMoves
  <2> QED BY <1>1, <1>2, <1>3, <2>1, SocketIdle DEF OthersIdle
<1>4. CASE x = w
  <2>1. Messages(x) = 0
    <3>1. w # GateSocket
      BY DEF BinanceSocket, GateSocket
    <3>2. \A i \in 1 .. chunksSent : BinanceSocket(i) # w
      BY <1>1 DEF BinanceSocket
    <3> QED BY <1>4, <3>1, <3>2 DEF Messages
  <2> QED BY <1>2, <1>4, <2>1, SocketSubscribed
<1> QED BY <1>3, <1>4

(* Start-up sends a contract to the Gate socket.                             *)
LEMMA ContractStep ==
  ASSUME SubscriptionInv, NEW m, Subscribe(GateSocket, m),
         contractsSent' = contractsSent + 1, chunksSent' = chunksSent, NEW x \in Sockets
  PROVE  SocketInv(x)'
<1>1. /\ SocketInv(x) /\ SocketMaps /\ Messages(x) \in Nat /\ contractsSent \in Nat
  BY MessagesType DEF SubscriptionInv
<1>2. CASE x # GateSocket
  <2>1. OthersIdle(GateSocket, x)
    BY <1>1, OneSocketMoves
  <2>2. Messages(x)' = Messages(x)
    BY <1>2 DEF Messages, GateSocket
  <2>3. Messages(x)' \in Nat /\ Messages(x) <= Messages(x)'
    BY <1>1, <2>2
  <2> QED BY <1>1, <1>2, <2>1, <2>3, SocketIdle DEF OthersIdle
<1>3. CASE x = GateSocket
  <2>1. Messages(x)' = Messages(x) + 1 /\ Messages(x)' \in Nat
    BY <1>1, <1>3 DEF Messages, GateSocket
  <2> QED BY <1>3, <2>1, SocketSubscribed
<1> QED BY <1>2, <1>3

(* While it was sent no more than the registry has room for, a socket loses  *)
(* no subscription, however often its connection is lost: on a connection    *)
(* that is up, what was requested is live, or about to be written or         *)
(* replayed.  (Beyond that record_subscription forgets the oldest.)          *)
THEOREM NoneForgotten == Spec => [](contractsSent <= RegistryMax => SubscriptionsSurvive)
<1>1. Init => SubscriptionInv
  <2> SUFFICES ASSUME Init PROVE SubscriptionInv
    OBVIOUS
  <2>1. /\ SocketMaps /\ chunksSent = 0 /\ contractsSent = 0
        /\ \A w \in Sockets : /\ outbox[w] = <<>> /\ registry[w] = <<>> /\ replay[w] = <<>>
                              /\ sent[w] = {} /\ live[w] = {} /\ pc[w] = "closed"
                              /\ link[w] = "down"
    BY DEF Init, FeedInit, SocketMaps
  <2>2. ASSUME NEW w \in Sockets PROVE SocketInv(w)
    <3>1. Messages(w) = 0
      BY <2>1 DEF Messages
    <3>2. Len(registry[w]) + Len(outbox[w]) <= Messages(w)
      <4>1. Len(registry[w]) = 0 /\ Len(outbox[w]) = 0
        BY <2>1
      <4> QED BY <3>1, <4>1
    <3>3. Kept(w)
      BY <2>1, NothingCovered DEF Kept
    <3> QED BY <2>1, <3>2, <3>3, NothingCovered DEF SocketInv
  <2> QED BY <2>1, <2>2 DEF SubscriptionInv
<1>2. SubscriptionInv /\ [Next]_vars => SubscriptionInv'
  <2> SUFFICES ASSUME SubscriptionInv, [Next]_vars PROVE SubscriptionInv'
    OBVIOUS
  <2>1. SocketMaps /\ chunksSent \in Nat /\ contractsSent \in Nat
    BY DEF SubscriptionInv
  <2>2. SocketMaps' /\ chunksSent' \in Nat /\ contractsSent' \in Nat
    BY <2>1, MapsKept, CountsKept
  <2>3. SUFFICES ASSUME NEW x \in Sockets PROVE SocketInv(x)'
    BY <2>2, <2>3 DEF SubscriptionInv
  <2>4. SocketInv(x) /\ Messages(x) \in Nat
    BY <2>1, MessagesType DEF SubscriptionInv
  <2>5. ASSUME UNCHANGED <<sent, outbox, registry, replay, pc, link, live, chunksSent, contractsSent>>
        PROVE  SocketInv(x)'
    <3>1. Messages(x)' = Messages(x)
      BY <2>5 DEF Messages
    <3>2. Messages(x)' \in Nat /\ Messages(x) <= Messages(x)'
      BY <2>4, <3>1
    <3> QED BY <2>4, <2>5, <3>2, SocketIdle
  <2>6. CASE UNCHANGED vars
    BY <2>5, <2>6 DEF vars, bootVars, countVars, feedVars, taskVars, linkVars
  <2>7. CASE Fetch
    BY <2>5, <2>7 DEF Fetch, countVars, feedVars, taskVars, linkVars
  <2>8. CASE ConnectBinance
    BY <2>5, <2>8, TaskStep DEF ConnectBinance, countVars, feedVars, taskVars, linkVars
  <2>9. CASE ConnectGate
    BY <2>5, <2>9, TaskStep DEF ConnectGate, countVars, feedVars, taskVars, linkVars
  <2>10. CASE OpenSocket
    BY <2>5, <2>10, TaskStep DEF OpenSocket, feedVars, taskVars, linkVars
  <2>11. CASE SubscribeChunk
    BY <2>5, <2>11, ChunkStep DEF SubscribeChunk, feedVars, taskVars, linkVars
  <2>12. CASE SubscribeContract
    BY <2>5, <2>12, ContractStep DEF SubscribeContract, feedVars, taskVars, linkVars
  <2>13. CASE Run
    BY <2>5, <2>13 DEF Run, DrainStaleTicks, countVars, taskVars, linkVars
  <2>14. ASSUME UNCHANGED bootVars, NEW w \in Sockets,
                Task(w) \/ ReconnectFails(w) \/ LoseConnection(w)
         PROVE  SocketInv(x)'
    <3>1. UNCHANGED <<chunksSent, contractsSent>>
      BY <2>14 DEF bootVars, countVars
    <3> QED BY <2>14, <3>1, TaskStep
  <2>15. ASSUME UNCHANGED bootVars, NEW e \in Exchanges, Drain(e) PROVE SocketInv(x)'
    BY <2>5, <2>15 DEF Drain, bootVars, countVars, taskVars, linkVars
  <2>16. ASSUME UNCHANGED bootVars, NEW w \in Sockets, NEW s \in Symbols, Receive(w, s)
         PROVE  SocketInv(x)'
    BY <2>5, <2>16 DEF Receive, bootVars, countVars, linkVars
  <2> QED BY <2>6, <2>7, <2>8, <2>9, <2>10, <2>11, <2>12, <2>13, <2>14, <2>15, <2>16
          DEF Next, Boot, FeedNext
<1>3. SubscriptionInv => (contractsSent <= RegistryMax => SubscriptionsSurvive)
  <2> SUFFICES ASSUME SubscriptionInv, contractsSent <= RegistryMax,
                      NEW w \in Sockets, link[w] = "up", pc[w] # "reconnect"
               PROVE  sent[w] = live[w] \cup Covered(outbox[w]) \cup Covered(replay[w])
    BY DEF SubscriptionsSurvive
  <2>1. 1 <= RegistryMax /\ 0 <= RegistryMax
    BY CapacityIsPositive
  <2>2. Messages(w) <= RegistryMax
    BY <2>1 DEF Messages
  <2> QED BY <2>2 DEF SubscriptionInv, SocketInv, Kept
<1> QED BY <1>1, <1>2, <1>3, PTL DEF Spec
=============================================================================
