------------------------------- MODULE RayDriver -------------------------------
(***************************************************************************)
(* The scout of the driver (ray_driver/cli.py, scout.py), a process that   *)
(* the runner starts: in each cycle a batch of configs is submitted, its   *)
(* run trades for a while, and what the run's configs earned is merged     *)
(* into the file of references, from which forward phases take configs.    *)
(* The file is rewritten in place, so a process that is killed or fails    *)
(* in the middle leaves a file no reader can parse.                        *)
(*                                                                         *)
(* How a batch is submitted, acknowledged and its run cleared is in        *)
(* TrialQueue.  A row has the sum of the profits in place of their mean.   *)
(***************************************************************************)
EXTENDS Integers, Sequences, FiniteSets, SequencesExt

CONSTANTS
  Drivers,     \* processes
  Cycles,      \* bound: cycles of a scout
  RefFiles,    \* what scout-references.json may hold at first:
               \* rows [id, trades, total]
  Findings     \* what query_run_metrics may return for a run: such rows

Row == [id : Nat, trades : Nat, total : Int]
ASSUME RowsAssumption == RefFiles \subseteq Seq(Row) /\ Findings \subseteq Seq(Row)

VARIABLES
  refs,        \* the file: its rows, or those it had before it was torn
  driver       \* of each process: where it is, the cycles to come, merged
               \* (what it will have found), fresh (it began with nothing
               \* because the file was torn)

NotStarted == [pc |-> "none", cycles |-> 0, merged |-> <<>>, fresh |-> FALSE]

DriverInit ==
  /\ refs \in {[whole |-> TRUE, rows |-> rows] : rows \in RefFiles}
  /\ driver = [p \in Drivers |-> NotStarted]

IsRunning(p) == driver[p].pc \in {"load", "submit", "run", "truncate", "write"}

-----------------------------------------------------------------------------
(* References.                                                             *)

Counts(row, id) == row.id = id /\ row.trades > 0
TradesOf(rows, id) ==
  FoldLeft(LAMBDA sum, row : IF Counts(row, id) THEN sum + row.trades ELSE sum, 0, rows)
ProfitOf(rows, id) ==
  FoldLeft(LAMBDA sum, row : IF Counts(row, id) THEN sum + row.total ELSE sum, 0, rows)

(* Of each config that traded one row, with its trades added up.           *)
Accumulated(rows) ==
  {[id |-> id, trades |-> TradesOf(rows, id), total |-> ProfitOf(rows, id)] :
     id \in {rows[i].id : i \in {k \in DOMAIN rows : rows[k].trades > 0}}}

(* The order of the mean profits, for numbers of trades that are positive: *)
(* the most profitable first, then those with more trades.                 *)
EarnsMore(a, b) == a.total * b.trades > b.total * a.trades
EarnsSame(a, b) == a.total * b.trades = b.total * a.trades
Better(a, b) ==
  \/ EarnsMore(a, b)
  \/ EarnsSame(a, b) /\ a.trades > b.trades
  \/ EarnsSame(a, b) /\ a.trades = b.trades /\ a.id < b.id

Sorted(S) ==
  CHOOSE s \in [1 .. Cardinality(S) -> S] : \A i, k \in DOMAIN s : i < k => Better(s[i], s[k])

(* Mutation of Merged: only what the last run found is kept.               *)
Merged_LastRun(existing, found) == found

(* merge_scout_references.                                                 *)
Merged(existing, found) == Sorted(Accumulated(existing \o found))

-----------------------------------------------------------------------------
(* A scout: cmd_scout, run_scout.                                          *)

Goes(p, pc) == driver' = [driver EXCEPT ![p].pc = pc]

(* The process ends, and its memory with it.                               *)
Exits(p, how) == driver' = [driver EXCEPT ![p] = [NotStarted EXCEPT !.pc = how]]

(* The process is started for so many cycles, one at least.                *)
StartDriver(p, cycles) ==
  driver' = [driver EXCEPT ![p] = [NotStarted EXCEPT !.pc = "load", !.cycles = IF cycles < 1 THEN 1 ELSE cycles]]

(* load_scout_references: a malformed file is "starting fresh".            *)
Load(p) ==
  /\ driver[p].pc = "load"
  /\ driver' = [driver EXCEPT ![p].pc = "submit", ![p].fresh = ~refs.whole,
                              ![p].merged = IF refs.whole THEN refs.rows ELSE <<>>]
  /\ UNCHANGED refs

(* The acknowledgement is awaited; an error or none in time is raised.     *)
SubmitScout(p) ==
  /\ driver[p].pc = "submit"
  /\ Goes(p, "run") \/ Exits(p, "error")
  /\ UNCHANGED refs

(* When the run has traded, its metrics are read and merged; the query may *)
(* fail.  Either way it is asked to be cleared.                            *)
QueryRun(p) ==
  /\ driver[p].pc = "run"
  /\ \/ \E found \in Findings :
          driver' = [driver EXCEPT ![p].pc = "truncate", ![p].merged = Merged(@, found)]
     \/ Exits(p, "error")
  /\ UNCHANGED refs

(* write_text opens the file, which empties it, ...                        *)
Truncate(p) ==
  /\ driver[p].pc = "truncate"
  /\ \/ refs' = [refs EXCEPT !.whole = FALSE] /\ Goes(p, "write")
     \/ Exits(p, "error") /\ UNCHANGED refs

(* ... and writes it.                                                      *)
Save(p) ==
  /\ driver[p].pc = "write"
  /\ \/ /\ refs' = [whole |-> TRUE, rows |-> driver[p].merged]
        /\ IF driver[p].cycles > 1
           THEN driver' = [driver EXCEPT ![p].pc = "submit", ![p].cycles = @ - 1]
           ELSE Exits(p, "ok")
     \/ Exits(p, "error") /\ UNCHANGED refs

DriverStep(p) == Load(p) \/ SubmitScout(p) \/ QueryRun(p) \/ Truncate(p) \/ Save(p)

(* Killed, where it is; the run it submitted stays current.                *)
Kill(p) == IF IsRunning(p) THEN Exits(p, "killed") ELSE UNCHANGED driver

-----------------------------------------------------------------------------
(* Properties.                                                             *)

(* Every variable has its type.                                            *)
DriverTypeOK ==
  /\ refs.whole \in BOOLEAN /\ refs.rows \in Seq(Row)
  /\ \A p \in Drivers :
       /\ driver[p].pc \in {"none", "load", "submit", "run", "truncate", "write", "ok", "error",
                            "killed"}
       /\ driver[p].cycles \in 0 .. Cycles /\ driver[p].fresh \in BOOLEAN
       /\ driver[p].merged \in Seq(Row)

(* "Merge references by config_id": whichever scouts ran before, failed or *)
(* were stopped, saving loses no trade that the file had recorded of any   *)
(* config, unless an earlier process left the file torn.                   *)
ReferencesAccumulate ==
  [][\A p \in Drivers : Save(p) /\ ~driver[p].fresh =>
       \A i \in DOMAIN refs.rows :
         TradesOf(refs'.rows, refs.rows[i].id) >= TradesOf(refs.rows, refs.rows[i].id)]_<<refs, driver>>
=============================================================================
