---------------------------- MODULE TrialRuntime ----------------------------
(***************************************************************************)
(* Which configs the shadow fleets trade and which run their trades belong *)
(* to.  Four actors change that state with no lock held from one step to   *)
(* the next: the trial-batch, trial-control and runtime-grid watch loops   *)
(* (src/runtime_hot_reload.rs, src/trial_batch_apply.rs) and the           *)
(* fresh-start handler (src/api/handlers.rs); the control-plane worker     *)
(* ticks the fleets meanwhile (src/domain/screener/).                      *)
(*                                                                         *)
(* A set of configs is the generation number of the patch that installed   *)
(* it.  Left out: the files and their archive, the portfolio engine, and   *)
(* the closed trades' way into the database.                               *)
(***************************************************************************)
EXTENDS Naturals, FiniteSets

CONSTANTS
  Symbols,
  Runs,         \* run ids of batches, control requests and fresh starts
  NoRun,        \* current_run_id = None; in a control request: any run
  MaxBatches, MaxControls, MaxGrids, MaxFresh,  \* bounds: requests of each kind
  MaxOpen       \* bound: open positions of a fleet with different run ids

ASSUME NoRunAssumption == NoRun \notin Runs
ASSUME BoundAssumption ==
  /\ MaxBatches \in Nat /\ MaxControls \in Nat /\ MaxGrids \in Nat /\ MaxFresh \in Nat
  /\ MaxOpen \in Nat

RunIds == Runs \cup {NoRun}
NoBatch == [run |-> NoRun, scope |-> {}]

VARIABLES
  (* ScreenerStore *)
  gen,          \* fleet_configs
  fleet,        \* generation of each symbol's fleet, 0 = None
  open,         \* run ids of the fleet's open positions
  runId,        \* current_run_id
  candidates,   \* run ids whose trades are in each symbol's trade_accumulators
  (* the control-plane worker in ScreenerStore::update, which holds         *)
  (* fleet_patch_gate for reading until it is idle again                    *)
  tickPc, tickSym, tickGen, tickTrades, tickActive,
  (* trial_runs_meta *)
  meta, dbFailed,
  (* the actors *)
  batchPc, batch, prevRun,
  ctlPc, ctlRequest, ctlActive,
  gridPc,
  apiPc, apiRun,
  (* histories: bounds, fleets a patch left alone, and the run that new     *)
  (* trades are promised to carry                                           *)
  left, carried, promised

storeVars == <<gen, fleet, open, carried>>
runVars   == <<runId, candidates, promised>>
tickVars  == <<tickPc, tickSym, tickGen, tickTrades, tickActive>>
dbVars    == <<meta, dbFailed>>
batchVars == <<batchPc, batch, prevRun>>
ctlVars   == <<ctlPc, ctlRequest, ctlActive>>
apiVars   == <<apiPc, apiRun>>
actorVars == <<batchVars, ctlVars, gridPc, apiVars, left>>
vars == <<storeVars, runVars, tickVars, dbVars, actorVars>>

Init ==
  /\ gen = 1 /\ fleet = [s \in Symbols |-> 0] /\ open = [s \in Symbols |-> {}]
  /\ runId = NoRun /\ candidates = [s \in Symbols |-> {}]
  /\ tickPc = "idle" /\ tickSym \in Symbols /\ tickGen = 0
  /\ tickTrades = {} /\ tickActive = NoRun
  /\ meta = [r \in Runs |-> "absent"] /\ dbFailed = FALSE
  /\ batchPc = "idle" /\ batch = NoBatch /\ prevRun = NoRun
  /\ ctlPc = "idle" /\ ctlRequest = NoRun /\ ctlActive = NoRun
  /\ gridPc = "watch"
  /\ apiPc = "idle" /\ apiRun = NoRun
  /\ left = [batch |-> MaxBatches, control |-> MaxControls, grid |-> MaxGrids,
             fresh |-> MaxFresh]
  /\ carried = {} /\ promised = NoRun

-----------------------------------------------------------------------------
(* ScreenerStore operations of the actors.                                 *)

(* Mutation of GateFree: the gate does not wait for updates under way.     *)
GateFree_IgnoresReaders == TRUE

(* Every update holds the gate for reading until its trades are handled.   *)
GateFree == tickPc = "idle"

(* Mutation of Patch: a fleet without open positions is kept.              *)
Patch_KeepsFlat(scope) ==
  /\ GateFree
  /\ gen' = gen + 1
  /\ fleet' = [s \in Symbols |-> IF s \in scope /\ open[s] # {} THEN 0 ELSE fleet[s]]
  /\ open' = [s \in Symbols |-> IF s \in scope THEN {} ELSE open[s]]
  /\ carried' = {s \in Symbols \ scope : fleet[s] # 0}

(* try_apply_fleet_patch, all of it under the write lock of the gate:      *)
(* install the configs and drop the fleets in scope with their open        *)
(* positions.  (An update has always drained the closed trades.)           *)
Patch(scope) ==
  /\ GateFree
  /\ gen' = gen + 1
  /\ fleet' = [s \in Symbols |-> IF s \in scope THEN 0 ELSE fleet[s]]
  /\ open' = [s \in Symbols |-> IF s \in scope THEN {} ELSE open[s]]
  /\ carried' = {s \in Symbols \ scope : fleet[s] # 0}

(* set_run_id(r) in two steps: a changed id clears the candidates ...      *)
SetRunClear(r) ==
  /\ candidates' = IF runId # r THEN [s \in Symbols |-> {}] ELSE candidates
  /\ UNCHANGED <<runId, promised>>

(* ... and only then is stored.                                            *)
SetRunStore(r) == runId' = r /\ UNCHANGED candidates

-----------------------------------------------------------------------------
(* ScreenerStore::update, once both exchanges quoted the symbol.           *)

(* The fleet is created on its first tick, from the configs installed now. *)
(* Any of its open positions may close, and a new one carries the run id   *)
(* of this tick.                                                           *)
TickFleet(s) ==
  /\ tickPc = "idle"
  /\ fleet' = [fleet EXCEPT ![s] = IF @ = 0 THEN gen ELSE @]
  /\ \E closed \in SUBSET open[s], opened \in {{}, {runId}} :
       /\ open' = [open EXCEPT ![s] = (@ \ closed) \cup opened]
       /\ Cardinality(open'[s]) <= MaxOpen
       /\ IF closed = {}
          THEN UNCHANGED tickVars
          ELSE /\ tickPc' = "drained" /\ tickSym' = s /\ tickGen' = fleet'[s]
               /\ tickTrades' = closed /\ UNCHANGED tickActive
  /\ UNCHANGED <<gen, carried, runVars, dbVars, actorVars>>

(* handle_drained_fleet_trades reads the active run ...                    *)
TickLoadActive ==
  /\ tickPc = "drained"
  /\ tickPc' = "observe" /\ tickActive' = runId
  /\ UNCHANGED <<storeVars, runVars, tickSym, tickGen, tickTrades, dbVars, actorVars>>

(* ... and counts the trades of that run, or all of them when none is.     *)
TickObserve ==
  /\ tickPc = "observe"
  /\ candidates' = [candidates EXCEPT ![tickSym] =
                      @ \cup {r \in tickTrades : tickActive \in {r, NoRun}}]
  /\ tickPc' = "idle" /\ tickTrades' = {} /\ tickGen' = 0 /\ tickActive' = NoRun
  /\ UNCHANGED <<storeVars, runId, promised, tickSym, dbVars, actorVars>>

Tick ==
  \/ \E s \in Symbols : TickFleet(s)
  \/ TickLoadActive \/ TickObserve

(* A stale or surplus symbol leaves the catalog, with its fleet and its    *)
(* candidate history.  Readers of the rows do this too, without the gate.  *)
Prune(s) ==
  /\ fleet[s] # 0
  /\ fleet' = [fleet EXCEPT ![s] = 0] /\ open' = [open EXCEPT ![s] = {}]
  /\ candidates' = [candidates EXCEPT ![s] = {}]
  /\ UNCHANGED <<gen, carried, runId, promised, tickVars, dbVars, actorVars>>

-----------------------------------------------------------------------------
(* trial_runs_meta.  Every statement may fail; the callers only log that.  *)

DbFails == dbFailed' = TRUE /\ UNCHANGED meta

CloseMeta(r) ==
  \/ /\ meta' = [meta EXCEPT ![r] = IF @ = "open" THEN "closed" ELSE @]
     /\ UNCHANGED dbFailed
  \/ DbFails

(* Mutation of UpsertMeta: a conflicting row keeps its closed_at_ms.       *)
UpsertMeta_KeepsClosed(r) ==
  \/ /\ meta' = [meta EXCEPT ![r] = IF @ = "absent" THEN "open" ELSE @]
     /\ UNCHANGED dbFailed
  \/ DbFails

UpsertMeta(r) ==
  \/ meta' = [meta EXCEPT ![r] = "open"] /\ UNCHANGED dbFailed
  \/ DbFails

-----------------------------------------------------------------------------
(* The batch loop, for a batch of the command file or of the queue.        *)

LeaseAllows(active, r, takeover) == active \in {r, NoRun} \/ takeover

(* A batch is rejected by its lease, its payload or the pre-validation,    *)
(* and nothing changes, or goes on.  `scope`: the symbols whose fleets the *)
(* patch resets, all of them in full_replace.                              *)
BatchStart(r, takeover, scope) ==
  /\ batchPc = "idle" /\ left.batch > 0
  /\ left' = [left EXCEPT !.batch = @ - 1]
  /\ \/ /\ LeaseAllows(runId, r, takeover)
        /\ batch' = [run |-> r, scope |-> scope]
        /\ prevRun' = runId
        /\ batchPc' = "upsert"
     \/ UNCHANGED <<batchPc, batch, prevRun>>
  /\ UNCHANGED <<storeVars, runVars, tickVars, dbVars, ctlVars, gridPc, apiVars>>

BatchReturns == batchPc' = "idle" /\ batch' = NoBatch /\ prevRun' = NoRun

(* The configs are made durable before the patch; when that fails, or the  *)
(* patch is then rejected, the batch ends with an error.                   *)
BatchUpsert ==
  /\ batchPc = "upsert"
  /\ \/ batchPc' = "patch" /\ UNCHANGED <<batch, prevRun>>
     \/ BatchReturns
  /\ UNCHANGED <<storeVars, runVars, tickVars, dbVars, ctlVars, gridPc, apiVars,
                 left>>

BatchPatch ==
  /\ batchPc = "patch"
  /\ Patch(batch.scope)
  /\ batchPc' = IF prevRun \in {NoRun, batch.run} THEN "setClear" ELSE "close"
  /\ UNCHANGED <<runVars, tickVars, dbVars, batch, prevRun, ctlVars, gridPc,
                 apiVars, left>>

BatchClosePrevious ==
  /\ batchPc = "close"
  /\ CloseMeta(prevRun)
  /\ batchPc' = "setClear"
  /\ UNCHANGED <<storeVars, runVars, tickVars, batch, prevRun, ctlVars, gridPc,
                 apiVars, left>>

BatchSetClear ==
  /\ batchPc = "setClear"
  /\ SetRunClear(batch.run)
  /\ batchPc' = "setStore"
  /\ UNCHANGED <<storeVars, tickVars, dbVars, batch, prevRun, ctlVars, gridPc,
                 apiVars, left>>

BatchSetStore ==
  /\ batchPc = "setStore"
  /\ SetRunStore(batch.run) /\ promised' = batch.run
  /\ batchPc' = "meta"
  /\ UNCHANGED <<storeVars, tickVars, dbVars, batch, prevRun, ctlVars, gridPc,
                 apiVars, left>>

(* flush, upsert the run's row, acknowledge.                               *)
BatchFinish ==
  /\ batchPc = "meta"
  /\ UpsertMeta(batch.run)
  /\ BatchReturns
  /\ UNCHANGED <<storeVars, runVars, tickVars, ctlVars, gridPc, apiVars, left>>

BatchLoop ==
  \/ \E r \in Runs, takeover \in BOOLEAN, scope \in SUBSET Symbols :
       BatchStart(r, takeover, scope)
  \/ BatchUpsert \/ BatchPatch \/ BatchClosePrevious
  \/ BatchSetClear \/ BatchSetStore \/ BatchFinish

-----------------------------------------------------------------------------
(* The control loop: clear the active run, if the request means it.        *)

Means(requested, r) == requested \in {NoRun, r}

ControlRequest(requested) ==
  /\ ctlPc = "idle" /\ left.control > 0
  /\ left' = [left EXCEPT !.control = @ - 1]
  /\ IF runId # NoRun /\ Means(requested, runId)
     THEN ctlPc' = "close" /\ ctlRequest' = requested /\ ctlActive' = runId
     ELSE UNCHANGED ctlVars
  /\ promised' = IF Means(requested, promised) THEN NoRun ELSE promised
  /\ UNCHANGED <<storeVars, runId, candidates, tickVars, dbVars, batchVars, gridPc,
                 apiVars>>

ControlClose ==
  /\ ctlPc = "close"
  /\ CloseMeta(ctlActive)
  /\ ctlPc' = "setClear"
  /\ UNCHANGED <<storeVars, runVars, tickVars, ctlRequest, ctlActive, batchVars, gridPc, apiVars,
                 left>>

ControlSetClear ==
  /\ ctlPc = "setClear"
  /\ SetRunClear(NoRun)
  /\ ctlPc' = "setStore"
  /\ UNCHANGED <<storeVars, tickVars, dbVars, ctlRequest, ctlActive, batchVars, gridPc,
                 apiVars, left>>

ControlSetStore ==
  /\ ctlPc = "setStore"
  /\ SetRunStore(NoRun)
  /\ promised' = IF Means(ctlRequest, promised) THEN NoRun ELSE promised
  /\ ctlPc' = "idle" /\ ctlRequest' = NoRun /\ ctlActive' = NoRun
  /\ UNCHANGED <<storeVars, tickVars, dbVars, batchVars, gridPc, apiVars, left>>

ControlLoop ==
  \/ \E r \in RunIds : ControlRequest(r)
  \/ ControlClose \/ ControlSetClear \/ ControlSetStore

-----------------------------------------------------------------------------
(* The grid loop.                                                          *)

(* A pass finds a generation to apply and awaits its durable write.  Which *)
(* generation is pending, and that an applied batch discards it, is left   *)
(* out: a pass may apply a new one at any time.                            *)
GridDecide ==
  /\ gridPc = "watch" /\ left.grid > 0
  /\ left' = [left EXCEPT !.grid = @ - 1]
  /\ gridPc' = "patch"
  /\ UNCHANGED <<storeVars, runVars, tickVars, dbVars, batchVars, ctlVars, apiVars>>

GridPatch ==
  /\ gridPc = "patch"
  /\ Patch(Symbols)
  /\ gridPc' = "watch"
  /\ UNCHANGED <<runVars, tickVars, dbVars, batchVars, ctlVars, apiVars, left>>

-----------------------------------------------------------------------------
(* post_forward_fresh_start: the same configs, new fleets, a new run.      *)

FreshStart(r) ==
  /\ apiPc = "idle" /\ left.fresh > 0
  /\ left' = [left EXCEPT !.fresh = @ - 1]
  /\ Patch(Symbols)
  /\ apiPc' = "setClear" /\ apiRun' = r
  /\ UNCHANGED <<runVars, tickVars, dbVars, batchVars, ctlVars, gridPc>>

FreshSetClear ==
  /\ apiPc = "setClear"
  /\ SetRunClear(apiRun)
  /\ apiPc' = "setStore"
  /\ UNCHANGED <<storeVars, tickVars, dbVars, batchVars, ctlVars, gridPc, apiRun, left>>

FreshSetStore ==
  /\ apiPc = "setStore"
  /\ SetRunStore(apiRun) /\ promised' = NoRun
  /\ apiPc' = "idle" /\ apiRun' = NoRun
  /\ UNCHANGED <<storeVars, tickVars, dbVars, batchVars, ctlVars, gridPc, left>>

FreshStartHandler ==
  \/ \E r \in Runs : FreshStart(r)
  \/ FreshSetClear \/ FreshSetStore

Next ==
  \/ Tick \/ \E s \in Symbols : Prune(s)
  \/ BatchLoop \/ ControlLoop \/ GridDecide \/ GridPatch \/ FreshStartHandler

Spec == Init /\ [][Next]_vars

-----------------------------------------------------------------------------
(* Properties.                                                             *)

(* Types; a position belongs to a fleet.                                   *)
TypeOK ==
  /\ gen \in Nat /\ fleet \in [Symbols -> Nat] /\ open \in [Symbols -> SUBSET RunIds]
  /\ \A s \in Symbols : fleet[s] = 0 => open[s] = {}
  /\ runId \in RunIds /\ promised \in RunIds
  /\ candidates \in [Symbols -> SUBSET RunIds]
  /\ carried \in SUBSET Symbols
  /\ tickPc \in {"idle", "drained", "observe"}
  /\ tickSym \in Symbols /\ tickGen \in Nat
  /\ tickTrades \in SUBSET RunIds /\ tickActive \in RunIds
  /\ meta \in [Runs -> {"absent", "open", "closed"}] /\ dbFailed \in BOOLEAN
  /\ batchPc \in {"idle", "upsert", "patch", "close", "setClear", "setStore",
                  "meta"}
  /\ batch \in [run : RunIds, scope : SUBSET Symbols]
  /\ prevRun \in RunIds
  /\ ctlPc \in {"idle", "close", "setClear", "setStore"}
  /\ ctlRequest \in RunIds /\ ctlActive \in RunIds
  /\ gridPc \in {"watch", "patch"}
  /\ apiPc \in {"idle", "setClear", "setStore"} /\ apiRun \in RunIds
  /\ left \in [{"batch", "control", "grid", "fresh"} -> Nat]

(* Every fleet trades the installed configs, unless the last patch was an  *)
(* incremental one that deliberately left it alone.                        *)
FleetHasCurrentConfigs == \A s \in Symbols \ carried : fleet[s] \in {0, gen}

(* Once a patch has replaced a fleet, no update still has closed trades of *)
(* that fleet to account for: they are all handled before the patch, and   *)
(* so before the batch's flush and the switch of the run id.               *)
NoTradesOfReplacedFleet ==
  (tickPc \in {"drained", "observe"} /\ tickSym \notin carried) => tickGen = gen

(* When the actors are at rest and no statement failed, the run that a     *)
(* batch made current has an open row in trial_runs_meta, however takeover,*)
(* clear and re-submission of the run interleaved.                         *)
ActiveRunIsOpen ==
  (/\ batchPc = "idle" /\ ctlPc = "idle"
   /\ promised # NoRun /\ runId = promised /\ ~dbFailed) => meta[runId] = "open"

(* "candidate history must reset when switching into a specific run scope" *)
(* and "candidate stats must not ingest trades from a different run_id":   *)
(* while a run is active, only its trades are in the candidate history.    *)
CandidatesOfActiveRun ==
  (/\ runId # NoRun /\ tickPc = "idle" /\ ctlPc = "idle" /\ apiPc = "idle"
   /\ batchPc = "idle") => \A s \in Symbols : candidates[s] \subseteq {runId}

(* "After a batch is applied, all new fleet trades get this run_id": the   *)
(* run id stays the batch's until another batch, a fresh start or a clear  *)
(* request for that run.                                                   *)
BatchKeepsRun == (promised # NoRun /\ apiPc = "idle") => runId = promised

=============================================================================
