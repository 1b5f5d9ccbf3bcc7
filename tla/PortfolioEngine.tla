--------------------------- MODULE PortfolioEngine ---------------------------
(***************************************************************************)
(* The rules of the portfolio race (PortfolioEngineV1 in                   *)
(* src/domain/screener/portfolio_runtime.rs): which symbols qualify, how   *)
(* they are ranked and dealt to the portfolios, and the streaks of stop    *)
(* losses that take a symbol out of the race for a while.                  *)
(*                                                                         *)
(* Symbols are numbers, in the order of their names.  A symbol's stats are *)
(* [symbol, age, closed, won, lost, pnl]; averages and win rates are       *)
(* compared as fractions.                                                  *)
(***************************************************************************)
EXTENDS Integers, Sequences, FiniteSets, SequencesExt

CONSTANTS
  Configured,       \* the ids of PORTFOLIO_IDS, as they are written there
  Blank,            \* an id of spaces
  DefaultIds,       \* DEFAULT_PORTFOLIO_IDS
  ShortlistSize, MaxActive,     \* SHORTLIST_SIZE, MAX_ACTIVE_SYMBOLS
  MinAge, MinClosed,            \* a candidate has more than these
  FastStreak, FastWindow,       \* stop losses within FAST_STREAK_WINDOW_MS
  LongStreak, CooldownTime      \* COOLDOWN_MS

ASSUME RaceAssumption ==
  /\ Configured \in Seq(Range(Configured)) /\ DefaultIds \in Seq(Range(DefaultIds))
  /\ ShortlistSize \in Nat /\ MaxActive \in Nat /\ MinClosed \in Nat
  /\ LongStreak \in Nat \ {0} /\ CooldownTime \in Nat

(* normalize_portfolio_ids: the first occurrence of each that is not blank.*)
KeptIds ==
  FoldLeft(LAMBDA ids, id : IF id = Blank \/ id \in Range(ids) THEN ids ELSE Append(ids, id),
           <<>>, Configured)

PortfolioIds == IF KeptIds = <<>> THEN DefaultIds ELSE KeptIds

Portfolios == {PortfolioIds[i] : i \in DOMAIN PortfolioIds}

-----------------------------------------------------------------------------
(* Guards: stop losses in a row, when the first was, and until when the    *)
(* symbol cools down (None: -1).                                           *)

Never == -1
NoGuard == [streak |-> 0, first |-> Never, until |-> Never]

(* record_closed_trade: a profit ends the streak, a loss that is no stop   *)
(* loss leaves it, and a streak that is fast or long starts a cooldown.    *)
Guarded(guard, trade, ts) ==
  IF trade.pnl > 0 THEN [guard EXCEPT !.streak = 0, !.first = Never]
  ELSE IF ~trade.stop THEN guard
  ELSE LET first == IF guard.streak = 0 THEN ts ELSE guard.first
           streak == guard.streak + 1
       IN  IF streak >= LongStreak \/ (streak >= FastStreak /\ ts - first <= FastWindow)
           THEN [streak |-> 0, first |-> Never, until |-> ts + CooldownTime]
           ELSE [guard EXCEPT !.streak = streak, !.first = first]

CoolsDown(guard, now) == guard.until # Never /\ now < guard.until

-----------------------------------------------------------------------------
(* Candidates.                                                             *)

Eligible(stats) ==
  /\ stats.age > MinAge /\ stats.closed > MinClosed
  /\ 10 * stats.won >= 3 * stats.closed /\ stats.pnl >= 0

(* rank_tuple_cmp: win rate, wins less losses, average, number of trades   *)
(* and at last the name.  (Only candidates with trades are ranked.)        *)
RanksBefore(l, r) ==
  LET rate == l.won * r.closed - r.won * l.closed
      raw == (l.won - l.lost) - (r.won - r.lost)
      avg == l.pnl * r.closed - r.pnl * l.closed
  IN  \/ rate > 0
      \/ rate = 0 /\ raw > 0
      \/ rate = 0 /\ raw = 0 /\ avg > 0
      \/ rate = 0 /\ raw = 0 /\ avg = 0 /\ l.closed > r.closed
      \/ rate = 0 /\ raw = 0 /\ avg = 0 /\ l.closed = r.closed /\ l.symbol < r.symbol

(* rank_candidates: the best one first.                                    *)
Ranked(candidates) ==
  CHOOSE ranked \in [1 .. Cardinality(candidates) -> candidates] :
    \A i, k \in DOMAIN ranked : i < k => RanksBefore(ranked[i], ranked[k])

(* Mutation of Pool: a symbol that cools down stays a candidate.           *)
Pool_NoGuards(candidates, guards, now) == Ranked({c \in candidates : Eligible(c)})

(* build_shortlist_pool.                                                   *)
Pool(candidates, guards, now) ==
  Ranked({c \in candidates : Eligible(c) /\ ~CoolsDown(guards[c.symbol], now)})

(* The portfolios in turn, `rounds` times.                                 *)
Turns(rounds) ==
  [i \in 1 .. rounds * Len(PortfolioIds) |-> PortfolioIds[1 + ((i - 1) % Len(PortfolioIds))]]
NoLists == [p \in Portfolios |-> <<>>]
NothingDealt == [lists |-> NoLists, cursor |-> 1]

(* Mutation of Shortlisted: each portfolio deals for itself from the top.  *)
Shortlisted_EachFromTop(dealt, p, pool) ==
  LET next == Len(dealt.lists[p]) + 1
  IN  IF next > Len(pool) THEN dealt
      ELSE [dealt EXCEPT !.lists[p] = Append(@, pool[next].symbol)]

(* A portfolio's turn in build_shortlists_no_overlap: the next candidate.  *)
Shortlisted(dealt, p, pool) ==
  IF Len(dealt.lists[p]) >= ShortlistSize \/ dealt.cursor > Len(pool) THEN dealt
  ELSE [lists |-> [dealt.lists EXCEPT ![p] = Append(@, pool[dealt.cursor].symbol)],
        cursor |-> dealt.cursor + 1]

Shortlists(pool) ==
  FoldLeft(LAMBDA dealt, p : Shortlisted(dealt, p, pool),
           NothingDealt, Turns(ShortlistSize)).lists

(* A turn in assign_active_symbols_no_overlap: the first symbol of one's   *)
(* shortlist that is not used.                                             *)
Activated(lists, p, shortlist) ==
  LET used == UNION {Range(lists[q]) : q \in Portfolios}
      free == {i \in DOMAIN shortlist : shortlist[i] \notin used}
  IN  IF Len(lists[p]) >= MaxActive \/ free = {} THEN lists
      ELSE [lists EXCEPT ![p] = Append(@, shortlist[Min(free)])]

Actives(shortlists) ==
  FoldLeft(LAMBDA lists, p : Activated(lists, p, shortlists[p]), NoLists, Turns(ShortlistSize))

(* assign_without_overlap.                                                 *)
Assignment(candidates, guards, now) ==
  LET shortlists == Shortlists(Pool(candidates, guards, now))
      actives == Actives(shortlists)
  IN  [p \in Portfolios |-> [shortlist |-> shortlists[p], active |-> actives[p]]]

(* set_portfolio_ids_v1.                                                   *)
Unassigned == [p \in Portfolios |-> [shortlist |-> <<>>, active |-> <<>>]]
Owners(assignment, s) == {p \in Portfolios : s \in Range(assignment[p].active)}
=============================================================================
