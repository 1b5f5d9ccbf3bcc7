------------------------ MODULE TrialRuntimeProofs --------------------------
(* Safety of the trial runtime, for any symbols, runs and bounds.          *)
EXTENDS TrialRuntime, TLAPS

(* Types, with what they rest on: 0 is no generation, so that a fleet that *)
(* has just been created counts as one.                                    *)
TypeInv == TypeOK /\ gen # 0

-----------------------------------------------------------------------------
(* What the actors do to the store and to trial_runs_meta.                 *)

LEMMA PatchTypes ==
  ASSUME TypeInv, NEW scope \in SUBSET Symbols, Patch(scope)
  PROVE  /\ gen' \in Nat /\ gen' # 0 /\ fleet' \in [Symbols -> Nat]
         /\ open' \in [Symbols -> SUBSET RunIds]
         /\ \A s \in Symbols : fleet'[s] = 0 => open'[s] = {}
         /\ carried' \in SUBSET Symbols
BY DEF TypeInv, TypeOK, Patch

LEMMA CloseTypes ==
  ASSUME TypeInv, NEW r \in RunIds, CloseMeta(r)
  PROVE  meta' \in [Runs -> {"absent", "open", "closed"}] /\ dbFailed' \in BOOLEAN
<1>1. CASE meta' = [meta EXCEPT ![r] = IF @ = "open" THEN "closed" ELSE @] /\ UNCHANGED dbFailed
  BY <1>1 DEF TypeInv, TypeOK
<1>2. CASE DbFails
  BY <1>2 DEF DbFails, TypeInv, TypeOK
<1> QED BY <1>1, <1>2 DEF CloseMeta

LEMMA UpsertTypes ==
  ASSUME TypeInv, NEW r \in RunIds, UpsertMeta(r)
  PROVE  meta' \in [Runs -> {"absent", "open", "closed"}] /\ dbFailed' \in BOOLEAN
<1>1. CASE meta' = [meta EXCEPT ![r] = "open"] /\ UNCHANGED dbFailed
  BY <1>1 DEF TypeInv, TypeOK
<1>2. CASE DbFails
  BY <1>2 DEF DbFails, TypeInv, TypeOK
<1> QED BY <1>1, <1>2 DEF UpsertMeta

LEMMA ClearTypes ==
  ASSUME TypeInv, NEW r \in RunIds, SetRunClear(r)
  PROVE  candidates' \in [Symbols -> SUBSET RunIds] /\ UNCHANGED <<runId, promised>>
BY DEF TypeInv, TypeOK, SetRunClear

(* A request uses up one of its kind.                                      *)
LEMMA LeftTypes ==
  ASSUME TypeInv
  PROVE  /\ left.batch > 0 => [left EXCEPT !.batch = @ - 1] \in [{"batch", "control", "grid", "fresh"} -> Nat]
         /\ left.control > 0 => [left EXCEPT !.control = @ - 1] \in [{"batch", "control", "grid", "fresh"} -> Nat]
         /\ left.grid > 0 => [left EXCEPT !.grid = @ - 1] \in [{"batch", "control", "grid", "fresh"} -> Nat]
         /\ left.fresh > 0 => [left EXCEPT !.fresh = @ - 1] \in [{"batch", "control", "grid", "fresh"} -> Nat]
BY DEF TypeInv, TypeOK

-----------------------------------------------------------------------------
(* Types.                                                                  *)

LEMMA TypeInit == Init => TypeInv
<1> SUFFICES ASSUME Init PROVE TypeInv
  OBVIOUS
<1>1. left \in [{"batch", "control", "grid", "fresh"} -> Nat]
  BY BoundAssumption DEF Init
<1>2. NoBatch \in [run : RunIds, scope : SUBSET Symbols]
  BY DEF NoBatch, RunIds
<1>3. /\ gen \in Nat /\ gen # 0 /\ fleet \in [Symbols -> Nat] /\ open \in [Symbols -> SUBSET RunIds]
      /\ \A s \in Symbols : fleet[s] = 0 => open[s] = {}
      /\ candidates \in [Symbols -> SUBSET RunIds] /\ carried \in SUBSET Symbols
      /\ meta \in [Runs -> {"absent", "open", "closed"}]
  BY DEF Init
<1>4. NoRun \in RunIds
  BY DEF RunIds
<1> QED BY <1>1, <1>2, <1>3, <1>4 DEF Init, TypeInv, TypeOK

LEMMA TickTypes == TypeInv /\ Tick => TypeInv'
<1> SUFFICES ASSUME TypeInv, Tick PROVE TypeInv'
  OBVIOUS
<1> USE DEF TypeInv, TypeOK, runVars, dbVars, actorVars, batchVars, ctlVars, apiVars
<1>1. ASSUME NEW s \in Symbols, TickFleet(s) PROVE TypeInv'
  <2>1. fleet' = [fleet EXCEPT ![s] = IF fleet[s] = 0 THEN gen ELSE fleet[s]]
    BY <1>1 DEF TickFleet
  <2>2. fleet' \in [Symbols -> Nat]
    BY <2>1
  <2>3. PICK closed \in SUBSET open[s], opened \in {{}, {runId}} :
          /\ open' = [open EXCEPT ![s] = (@ \ closed) \cup opened]
          /\ IF closed = {}
             THEN UNCHANGED tickVars
             ELSE /\ tickPc' = "drained" /\ tickSym' = s /\ tickGen' = fleet'[s]
                  /\ tickTrades' = closed /\ UNCHANGED tickActive
    BY <1>1 DEF TickFleet
  <2>4. open' \in [Symbols -> SUBSET RunIds]
    BY <2>3
  <2>5. \A t \in Symbols : fleet'[t] = 0 => open'[t] = {}
    BY <2>1, <2>3
  <2> QED BY <1>1, <2>2, <2>3, <2>4, <2>5 DEF TickFleet, tickVars
<1>2. CASE TickLoadActive
  BY <1>2 DEF TickLoadActive, storeVars
<1>3. CASE TickObserve
  BY <1>3 DEF TickObserve, storeVars, RunIds
<1> QED BY <1>1, <1>2, <1>3 DEF Tick

LEMMA PruneTypes == ASSUME TypeInv, NEW s \in Symbols, Prune(s) PROVE TypeInv'
BY DEF Prune, TypeInv, TypeOK, tickVars, dbVars, actorVars, batchVars, ctlVars, apiVars

LEMMA BatchTypes == TypeInv /\ BatchLoop => TypeInv'
<1> SUFFICES ASSUME TypeInv, BatchLoop PROVE TypeInv'
  OBVIOUS
<1>0. NoBatch \in [run : RunIds, scope : SUBSET Symbols] /\ NoRun \in RunIds
  BY DEF NoBatch, RunIds
<1>b. batch.run \in RunIds /\ batch.scope \in SUBSET Symbols
  BY DEF TypeInv, TypeOK
<1>1. ASSUME NEW r \in Runs, NEW takeover \in BOOLEAN, NEW scope \in SUBSET Symbols,
             BatchStart(r, takeover, scope)
      PROVE  TypeInv'
  <2>1. left' \in [{"batch", "control", "grid", "fresh"} -> Nat]
    BY <1>1, LeftTypes DEF BatchStart
  <2>2. [run |-> r, scope |-> scope] \in [run : RunIds, scope : SUBSET Symbols]
    BY DEF RunIds
  <2> QED BY <1>1, <2>1, <2>2 DEF BatchStart, TypeInv, TypeOK, storeVars, runVars, tickVars,
                                  dbVars, ctlVars, apiVars
<1>2. CASE BatchUpsert
  BY <1>0, <1>2 DEF BatchUpsert, BatchReturns, TypeInv, TypeOK, storeVars, runVars, tickVars,
                    dbVars, ctlVars, apiVars
<1>3. CASE BatchPatch
  <2>1. Patch(batch.scope)
    BY <1>3 DEF BatchPatch
  <2> QED BY <1>b, <1>3, <2>1, PatchTypes DEF BatchPatch, TypeInv, TypeOK, runVars, tickVars,
                    dbVars, ctlVars, apiVars
<1>4. CASE BatchClosePrevious
  <2>1. CloseMeta(prevRun) /\ prevRun \in RunIds
    BY <1>4 DEF BatchClosePrevious, TypeInv, TypeOK
  <2> QED BY <1>4, <2>1, CloseTypes DEF BatchClosePrevious, TypeInv, TypeOK, storeVars, runVars,
                    tickVars, ctlVars, apiVars
<1>5. CASE BatchSetClear
  <2>1. SetRunClear(batch.run)
    BY <1>5 DEF BatchSetClear
  <2> QED BY <1>b, <1>5, <2>1, ClearTypes DEF BatchSetClear, TypeInv, TypeOK, storeVars, tickVars,
                    dbVars, ctlVars, apiVars
<1>6. CASE BatchSetStore
  BY <1>b, <1>6 DEF BatchSetStore, SetRunStore, TypeInv, TypeOK, storeVars, tickVars,
                    dbVars, ctlVars, apiVars
<1>7. CASE BatchFinish
  <2>1. UpsertMeta(batch.run)
    BY <1>7 DEF BatchFinish
  <2> QED BY <1>0, <1>b, <1>7, <2>1, UpsertTypes DEF BatchFinish, BatchReturns, TypeInv, TypeOK,
                    storeVars, runVars, tickVars, ctlVars, apiVars
<1> QED BY <1>1, <1>2, <1>3, <1>4, <1>5, <1>6, <1>7 DEF BatchLoop

LEMMA ControlTypes == TypeInv /\ ControlLoop => TypeInv'
<1> SUFFICES ASSUME TypeInv, ControlLoop PROVE TypeInv'
  OBVIOUS
<1>0. NoRun \in RunIds
  BY DEF RunIds
<1>1. ASSUME NEW r \in RunIds, ControlRequest(r) PROVE TypeInv'
  <2>1. left' \in [{"batch", "control", "grid", "fresh"} -> Nat]
    BY <1>1, LeftTypes DEF ControlRequest
  <2> QED BY <1>0, <1>1, <2>1 DEF ControlRequest, TypeInv, TypeOK, storeVars, tickVars, dbVars,
                    batchVars, ctlVars, apiVars
<1>2. CASE ControlClose
  <2>1. CloseMeta(ctlActive) /\ ctlActive \in RunIds
    BY <1>2 DEF ControlClose, TypeInv, TypeOK
  <2> QED BY <1>2, <2>1, CloseTypes DEF ControlClose, TypeInv, TypeOK, storeVars, runVars,
                    tickVars, batchVars, apiVars
<1>3. CASE ControlSetClear
  <2>1. SetRunClear(NoRun)
    BY <1>3 DEF ControlSetClear
  <2> QED BY <1>0, <1>3, <2>1, ClearTypes DEF ControlSetClear, TypeInv, TypeOK, storeVars,
                    tickVars, dbVars, batchVars, apiVars
<1>4. CASE ControlSetStore
  BY <1>0, <1>4 DEF ControlSetStore, SetRunStore, TypeInv, TypeOK, storeVars, tickVars,
                    dbVars, batchVars, apiVars
<1> QED BY <1>1, <1>2, <1>3, <1>4 DEF ControlLoop

LEMMA GridTypes == TypeInv /\ (GridDecide \/ GridPatch) => TypeInv'
<1> SUFFICES ASSUME TypeInv, GridDecide \/ GridPatch PROVE TypeInv'
  OBVIOUS
<1>1. CASE GridDecide
  <2>1. left' \in [{"batch", "control", "grid", "fresh"} -> Nat]
    BY <1>1, LeftTypes DEF GridDecide
  <2> QED BY <1>1, <2>1 DEF GridDecide, TypeInv, TypeOK, storeVars, runVars, tickVars, dbVars,
                    batchVars, ctlVars, apiVars
<1>2. CASE GridPatch
  <2>1. Patch(Symbols)
    BY <1>2 DEF GridPatch
  <2> QED BY <1>2, <2>1, PatchTypes DEF GridPatch, TypeInv, TypeOK, runVars, tickVars, dbVars,
                    batchVars, ctlVars, apiVars
<1> QED BY <1>1, <1>2

LEMMA FreshTypes == TypeInv /\ FreshStartHandler => TypeInv'
<1> SUFFICES ASSUME TypeInv, FreshStartHandler PROVE TypeInv'
  OBVIOUS
<1>0. NoRun \in RunIds /\ apiRun \in RunIds
  BY DEF RunIds, TypeInv, TypeOK
<1>1. ASSUME NEW r \in Runs, FreshStart(r) PROVE TypeInv'
  <2>1. left' \in [{"batch", "control", "grid", "fresh"} -> Nat]
    BY <1>1, LeftTypes DEF FreshStart
  <2>2. Patch(Symbols) /\ r \in RunIds
    BY <1>1 DEF FreshStart, RunIds
  <2> QED BY <1>1, <2>1, <2>2, PatchTypes DEF FreshStart, TypeInv, TypeOK, runVars, tickVars,
                    dbVars, batchVars, ctlVars
<1>2. CASE FreshSetClear
  <2>1. SetRunClear(apiRun)
    BY <1>2 DEF FreshSetClear
  <2> QED BY <1>0, <1>2, <2>1, ClearTypes DEF FreshSetClear, TypeInv, TypeOK, storeVars,
                    tickVars, dbVars, batchVars, ctlVars
<1>3. CASE FreshSetStore
  BY <1>0, <1>3 DEF FreshSetStore, SetRunStore, TypeInv, TypeOK, storeVars, tickVars, dbVars,
                    batchVars, ctlVars
<1> QED BY <1>1, <1>2, <1>3 DEF FreshStartHandler

LEMMA TypeStep == TypeInv /\ [Next]_vars => TypeInv'
<1> SUFFICES ASSUME TypeInv, [Next]_vars PROVE TypeInv'
  OBVIOUS
<1>1. CASE UNCHANGED vars
  BY <1>1 DEF vars, storeVars, runVars, tickVars, dbVars, actorVars, batchVars, ctlVars,
              apiVars, TypeInv, TypeOK
<1> QED BY <1>1, TickTypes, PruneTypes, BatchTypes, ControlTypes, GridTypes, FreshTypes DEF Next

(* The variables keep their types, in every interleaving of the actors.    *)
THEOREM TypeCorrect == Spec => []TypeOK
<1>1. TypeInv => TypeOK
  BY DEF TypeInv
<1> QED BY TypeInit, TypeStep, <1>1, PTL DEF Spec

-----------------------------------------------------------------------------
(* Fleets and generations.                                                 *)

(* What a fleet trades and what is left to account for follow the same     *)
(* generation; a patch waits for an update under way.                      *)
FleetInv == FleetHasCurrentConfigs /\ NoTradesOfReplacedFleet

LEMMA FleetStep == TypeInv /\ FleetInv /\ [Next]_vars => FleetInv'
<1> SUFFICES ASSUME TypeInv, FleetInv, [Next]_vars PROVE FleetInv'
  OBVIOUS
<1> USE DEF FleetInv, FleetHasCurrentConfigs, NoTradesOfReplacedFleet
<1>1. ASSUME UNCHANGED <<storeVars, tickVars>> PROVE FleetInv'
  BY <1>1 DEF storeVars, tickVars
<1>2. ASSUME NEW scope \in SUBSET Symbols, Patch(scope), UNCHANGED tickVars PROVE FleetInv'
  <2>1. \A s \in Symbols \ carried' : fleet'[s] = 0
    BY <1>2 DEF Patch, TypeInv, TypeOK
  <2>2. tickPc' = "idle"
    BY <1>2 DEF Patch, GateFree, tickVars
  <2> QED BY <2>1, <2>2
<1>3. CASE Tick
  <2>1. ASSUME NEW s \in Symbols, TickFleet(s) PROVE FleetInv'
    <3>1. /\ fleet' = [fleet EXCEPT ![s] = IF fleet[s] = 0 THEN gen ELSE fleet[s]]
          /\ tickPc = "idle" /\ UNCHANGED <<gen, carried>>
      BY <2>1 DEF TickFleet
    <3>2. \A t \in Symbols \ carried' : fleet'[t] \in {0, gen'}
      BY <3>1 DEF TypeInv, TypeOK
    <3>3. \/ tickPc' = "idle"
          \/ tickSym' = s /\ tickGen' = fleet'[s]
      BY <2>1, <3>1 DEF TickFleet, tickVars
    <3>4. fleet'[s] # 0
      BY <3>1 DEF TypeInv, TypeOK
    <3> QED BY <3>2, <3>3, <3>4
  <2>2. CASE TickLoadActive
    BY <2>2 DEF TickLoadActive, storeVars
  <2>3. CASE TickObserve
    BY <2>3 DEF TickObserve, storeVars
  <2> QED BY <1>3, <2>1, <2>2, <2>3 DEF Tick
<1>4. ASSUME NEW s \in Symbols, Prune(s) PROVE FleetInv'
  BY <1>4 DEF Prune, tickVars, TypeInv, TypeOK
<1>5. CASE BatchLoop
  <2>1. CASE BatchPatch
    <3>1. batch.scope \in SUBSET Symbols
      BY DEF TypeInv, TypeOK
    <3> QED BY <1>2, <2>1, <3>1 DEF BatchPatch
  <2>2. CASE ~BatchPatch
    BY <1>1, <1>5, <2>2 DEF BatchLoop, BatchStart, BatchUpsert, BatchClosePrevious,
       BatchSetClear, BatchSetStore, BatchFinish
  <2> QED BY <2>1, <2>2
<1>6. CASE ControlLoop
  BY <1>1, <1>6 DEF ControlLoop, ControlRequest, ControlClose, ControlSetClear, ControlSetStore
<1>7. CASE GridDecide \/ GridPatch
  BY <1>1, <1>2, <1>7 DEF GridDecide, GridPatch
<1>8. CASE FreshStartHandler
  BY <1>1, <1>2, <1>8 DEF FreshStartHandler, FreshStart, FreshSetClear, FreshSetStore
<1>9. CASE UNCHANGED vars
  BY <1>1, <1>9 DEF vars
<1> QED BY <1>3, <1>4, <1>5, <1>6, <1>7, <1>8, <1>9 DEF Next

LEMMA FleetInvariant == Spec => []FleetInv
<1>1. Init => FleetInv
  BY DEF Init, FleetInv, FleetHasCurrentConfigs, NoTradesOfReplacedFleet
<1> QED BY <1>1, TypeInit, TypeStep, FleetStep, PTL DEF Spec

(* However patches of the loops and the fresh-start handler interleave     *)
(* with ticks and pruning, a fleet trades the installed configs, unless    *)
(* the last patch left it alone on purpose.                                *)
THEOREM FleetsAreCurrent == Spec => []FleetHasCurrentConfigs
<1>1. FleetInv => FleetHasCurrentConfigs
  BY DEF FleetInv
<1> QED BY <1>1, FleetInvariant, PTL

(* No update accounts for trades of a fleet a patch has replaced.          *)
THEOREM ReplacedFleetsAreAccounted == Spec => []NoTradesOfReplacedFleet
<1>1. FleetInv => NoTradesOfReplacedFleet
  BY DEF FleetInv
<1> QED BY <1>1, FleetInvariant, PTL

-----------------------------------------------------------------------------
(* The row of the active run.                                              *)

(* Between the steps that close rows and the step that opens the batch's,  *)
(* the promise is void or the batch's own: a batch that closes a row goes  *)
(* on to its own, and a control request that closes one ends with no run   *)
(* at all.                                                                 *)
MetaInv ==
  /\ (batchPc = "meta" /\ promised # NoRun) => promised = batch.run
  /\ (/\ batchPc \in {"idle", "upsert", "patch", "close"} /\ ctlPc = "idle"
      /\ promised # NoRun /\ runId = promised /\ ~dbFailed) => meta[runId] = "open"

LEMMA MetaStep == TypeInv /\ MetaInv /\ [Next]_vars => MetaInv'
<1> SUFFICES ASSUME TypeInv, MetaInv, [Next]_vars PROVE MetaInv'
  OBVIOUS
<1>1. ASSUME UNCHANGED <<runId, promised, dbVars, batchPc, batch, ctlPc>> PROVE MetaInv'
  BY <1>1 DEF MetaInv, dbVars
<1>2. CASE Tick \/ \E s \in Symbols : Prune(s)
  BY <1>1, <1>2 DEF Tick, TickFleet, TickLoadActive, TickObserve, Prune, runVars, actorVars,
                    batchVars, ctlVars
<1>3. CASE BatchLoop
  <2>1. CASE \E r \in Runs, takeover \in BOOLEAN, scope \in SUBSET Symbols :
               BatchStart(r, takeover, scope)
    BY <2>1 DEF BatchStart, MetaInv, runVars, dbVars, ctlVars
  <2>2. CASE BatchUpsert
    BY <2>2 DEF BatchUpsert, BatchReturns, MetaInv, runVars, dbVars, ctlVars
  <2>3. CASE BatchPatch
    BY <2>3 DEF BatchPatch, MetaInv, runVars, dbVars, ctlVars
  <2>4. CASE BatchClosePrevious
    BY <2>4 DEF BatchClosePrevious, MetaInv
  <2>5. CASE BatchSetClear
    BY <2>5 DEF BatchSetClear, MetaInv
  <2>6. CASE BatchSetStore
    BY <2>6 DEF BatchSetStore, MetaInv
  <2>7. CASE BatchFinish
    <3>1. /\ batchPc = "meta" /\ UpsertMeta(batch.run)
          /\ batchPc' = "idle" /\ UNCHANGED <<runId, promised, ctlPc>>
      BY <2>7 DEF BatchFinish, BatchReturns, runVars, ctlVars
    <3>2. CASE promised # NoRun
      <4>1. promised = batch.run /\ promised \in Runs
        BY <3>1, <3>2 DEF MetaInv, TypeInv, TypeOK, RunIds
      <4>2. dbFailed' \/ meta'[promised] = "open"
        BY <3>1, <4>1 DEF UpsertMeta, DbFails, TypeInv, TypeOK
      <4> QED BY <3>1, <4>2 DEF MetaInv
    <3>3. CASE promised = NoRun
      BY <3>1, <3>3 DEF MetaInv
    <3> QED BY <3>2, <3>3
  <2> QED BY <1>3, <2>1, <2>2, <2>3, <2>4, <2>5, <2>6, <2>7 DEF BatchLoop
<1>4. CASE ControlLoop
  <2>1. ASSUME NEW r \in RunIds, ControlRequest(r) PROVE MetaInv'
    BY <2>1 DEF ControlRequest, MetaInv, dbVars, batchVars, ctlVars
  <2>2. CASE ControlClose
    BY <2>2 DEF ControlClose, MetaInv, runVars, batchVars
  <2>3. CASE ControlSetClear
    BY <2>3 DEF ControlSetClear, SetRunClear, MetaInv, batchVars
  <2>4. CASE ControlSetStore
    BY <2>4 DEF ControlSetStore, SetRunStore, MetaInv, dbVars, batchVars
  <2> QED BY <1>4, <2>1, <2>2, <2>3, <2>4 DEF ControlLoop
<1>5. CASE GridDecide \/ GridPatch
  BY <1>1, <1>5 DEF GridDecide, GridPatch, runVars, batchVars, ctlVars
<1>6. CASE FreshStartHandler
  <2>1. CASE \E r \in Runs : FreshStart(r)
    BY <1>1, <2>1 DEF FreshStart, runVars, batchVars, ctlVars
  <2>2. CASE FreshSetClear
    BY <1>1, <2>2 DEF FreshSetClear, SetRunClear, batchVars, ctlVars
  <2>3. CASE FreshSetStore
    BY <2>3 DEF FreshSetStore, MetaInv, dbVars, batchVars
  <2> QED BY <1>6, <2>1, <2>2, <2>3 DEF FreshStartHandler
<1>7. CASE UNCHANGED vars
  BY <1>1, <1>7 DEF vars, runVars, actorVars, batchVars, ctlVars
<1> QED BY <1>2, <1>3, <1>4, <1>5, <1>6, <1>7 DEF Next

(* Takeovers, clear requests and fresh starts may interleave with a batch  *)
(* in any order: at rest, the run a batch made current has an open row.    *)
THEOREM ActiveRunHasRow == Spec => []ActiveRunIsOpen
<1>1. Init => MetaInv
  BY DEF Init, MetaInv
<1>2. MetaInv => ActiveRunIsOpen
  BY DEF MetaInv, ActiveRunIsOpen
<1> QED BY <1>1, <1>2, TypeInit, TypeStep, MetaStep, PTL DEF Spec
=============================================================================
