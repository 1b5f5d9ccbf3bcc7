----------------------------- MODULE FleetPatch ------------------------------
(***************************************************************************)
(* Which configs each symbol's fleet trades, config by config: patches of  *)
(* the installed configs by trial batches, by the runtime grid and by a    *)
(* fresh start (src/domain/screener/fleet_reload.rs, fleet_patch.rs,       *)
(* src/trial_batch_protocol.rs, src/runtime_hot_reload.rs), and the fleets *)
(* that quotes build from them.                                            *)
(*                                                                         *)
(* The three loops hold no lock from one step to the next.  TrialRuntime   *)
(* has what this module leaves out: run ids, open positions, closed trades *)
(* and the gate that separates a patch from the updates.                   *)
(***************************************************************************)
EXTENDS RuntimeGrid

CONSTANTS
  Ids,       \* config ids
  Lowest, Highest,  \* the points TraderConfig::validate allows, field by field
  Symbols,
  DefaultPoints,    \* GAP_THRESHOLDS, TARGET_RATIOS, ... of shadow_fleet.rs
  Files,     \* contents of runtime-grid.toml, or Missing
  ConfigCap, \* MAX_RUNTIME_GRID_CONFIGS
  ResetCap,  \* RUNTIME_GRID_RESET_CHANNEL_CAPACITY
  BatchIds,  \* bound: the configs that batches are made of
  MaxBatches, MaxEdits, MaxFresh  \* bounds: batches, edits of the grid, fresh starts

None == [kind |-> "none"]

(* generate_grid: the configs of a new store.                              *)
Defaults == Range(FoldLeft(Extend, <<(<<>>)>>, DefaultPoints))

ASSUME IdsAssumption == Defaults \cup BatchIds \subseteq Ids
ASSUME FilesAssumption == \A f \in Files \ {Missing} : WellTyped(f)
ASSUME CapAssumption == ConfigCap \in Nat \ {0} /\ ResetCap \in Nat \ {0}

AnySymbol == [kind |-> "none"]
In(scope) == [kind |-> "some", symbols |-> scope]

(* What build_trial_batch_patch_plan lets through: a full replacement has  *)
(* no ids and no scope, an incremental plan at least one id and, when it   *)
(* names symbols, at least one.                                            *)
Scopes == {AnySymbol} \cup {In(S) : S \in SUBSET Symbols \ {{}}}
FullReplace == [mode |-> "full", changed |-> {}, scope |-> AnySymbol]
Plans == {FullReplace} \cup
  {[mode |-> "incremental", changed |-> ids, scope |-> sc] :
     ids \in SUBSET BatchIds \ {{}}, sc \in Scopes}
Batches == [configs : SUBSET BatchIds \ {{}}, twice : BOOLEAN, plan : Plans]

VARIABLES
  catalog,   \* fleet_configs
  fleets,    \* the configs of each symbol's fleet, {} when there is none
  durable,   \* ids of the configs table
  batchPc, batch,              \* the trial-batch loop
  gridPc, file, seen, pending, lastApplied, resets,
             \* the grid loop: the file, whether its fingerprint is the last
             \* one read, the watch state and the reset channel
  freshPc, freshConfigs,       \* post_forward_fresh_start
  scoped,    \* history: a scoped patch was applied since the last full one
  left       \* bounds

storeVars == <<catalog, fleets, scoped>>
batchVars == <<batchPc, batch>>
gridVars  == <<gridPc, file, seen, pending, lastApplied, resets>>
freshVars == <<freshPc, freshConfigs>>
vars == <<storeVars, durable, batchVars, gridVars, freshVars, left>>

NoBatch == [configs |-> {}, twice |-> FALSE, plan |-> FullReplace]

(* TraderConfig::validate, and validate_new_configs: every config is valid *)
(* and listed once.                                                        *)
Valid(config) ==
  \A i \in DOMAIN config : config[i] >= Lowest[i] /\ config[i] <= Highest[i]
ValidConfigs(configs, twice) == (\A c \in configs : Valid(c)) /\ ~twice

(* The startup installs the grid of the file, no more of it than the cap,  *)
(* and panics when a config of it is invalid.                              *)
Startup(f) ==
  IF Loads(f) /\ Enabled(f)
  THEN LET grid == Generation(f).configs
       IN  Range(SubSeq(grid, 1, IF Len(grid) < ConfigCap THEN Len(grid) ELSE ConfigCap))
  ELSE Defaults

Init ==
  /\ file \in {Ensured(f) : f \in Files} /\ ValidConfigs(Startup(file), FALSE)
  /\ catalog = Startup(file) /\ fleets = [s \in Symbols |-> {}]
  /\ durable = catalog /\ scoped = FALSE
  /\ batchPc = "idle" /\ batch = NoBatch
  /\ gridPc = "drain" /\ seen = Loads(file) /\ pending = None
  /\ lastApplied = (IF Loads(file) /\ Enabled(file) THEN Generation(file).configs ELSE <<>>)
  /\ resets = 0
  /\ freshPc = "idle" /\ freshConfigs = {}
  /\ left = [batch |-> MaxBatches, edit |-> MaxEdits, fresh |-> MaxFresh]

-----------------------------------------------------------------------------
(* A patch.                                                                *)

(* Mutation of InScope: without a scope no symbol is in it.                *)
InScope_Named(plan, s) == plan.scope # AnySymbol /\ s \in plan.scope.symbols

InScope(plan, s) == plan.scope = AnySymbol \/ s \in plan.scope.symbols

(* The ids the store knows: those of the catalog and of any live fleet.    *)
OldIds == catalog \cup UNION {fleets[s] : s \in Symbols}

HasNewOnly(configs, plan) == (plan.changed \cap configs) \ OldIds # {}

(* validate_patch.                                                         *)
Accepts(configs, twice, plan) ==
  /\ ValidConfigs(configs, twice)
  /\ plan.mode = "incremental" =>
       /\ plan.changed \cap (OldIds \cup configs) # {}
       /\ HasNewOnly(configs, plan) => plan.scope # AnySymbol

(* Mutation of Resets: no fallback for ids that no fleet has yet.          *)
Resets_KnownOnly(configs, plan, s) ==
  plan.mode = "full" \/ (InScope(plan, s) /\ fleets[s] \cap plan.changed # {})

(* should_reset_symbol: an incremental plan with a new id resets every     *)
(* fleet in scope, otherwise those that trade a changed config.            *)
Resets(configs, plan, s) ==
  \/ plan.mode = "full"
  \/ /\ InScope(plan, s)
     /\ HasNewOnly(configs, plan) \/ fleets[s] \cap plan.changed # {}

(* try_apply_fleet_patch with an accepted plan.                            *)
Patch(configs, plan) ==
  /\ catalog' = configs
  /\ fleets' = [s \in Symbols |-> IF Resets(configs, plan, s) THEN {} ELSE fleets[s]]
  /\ scoped' = (plan.mode # "full" /\ (scoped \/ plan.scope # AnySymbol))

(* replace_fleet_configs expects its patch to be accepted.  When it is not,*)
(* try_apply_fleet_patch has released the gate and changed nothing, and the*)
(* caller panics: so ends the task that it is, and in a release build the  *)
(* process, which here is a behaviour that goes no further.                *)
ReplaceConfigs(configs, twice) ==
  IF Accepts(configs, twice, FullReplace) THEN Patch(configs, FullReplace) ELSE UNCHANGED storeVars

-----------------------------------------------------------------------------
(* The control-plane worker: a quote builds its symbol's fleet.            *)

TickFleet(s) ==
  /\ fleets[s] = {}
  /\ fleets' = [fleets EXCEPT ![s] = catalog]
  /\ UNCHANGED <<catalog, scoped, durable, batchVars, gridVars, freshVars, left>>

(* A stale or surplus symbol leaves the store with its fleet.              *)
Prune(s) ==
  /\ fleets[s] # {}
  /\ fleets' = [fleets EXCEPT ![s] = {}]
  /\ UNCHANGED <<catalog, scoped, durable, batchVars, gridVars, freshVars, left>>

-----------------------------------------------------------------------------
(* The trial-batch loop (apply_trial_batch).                               *)

(* A batch rejected here changes nothing.                                  *)
BatchStart(b) ==
  /\ batchPc = "idle" /\ left.batch > 0 /\ Accepts(b.configs, b.twice, b.plan)
  /\ batchPc' = "upsert" /\ batch' = b
  /\ left' = [left EXCEPT !.batch = @ - 1]
  /\ UNCHANGED <<storeVars, durable, gridVars, freshVars>>

(* upsert_configs, OR IGNORE: rows in no transaction, so that a failed     *)
(* write leaves those before the one that failed.                          *)
UpsertConfigs(configs, ok) ==
  \E done \in (IF ok THEN {configs} ELSE SUBSET configs \ {configs}) :
    durable' = durable \cup done

(* Mutation of BatchUpsert: a failed write does not stop the batch.        *)
BatchUpsert_Goes ==
  /\ batchPc = "upsert"
  /\ batchPc' = "patch" /\ batch' = batch
  /\ \E ok \in BOOLEAN : UpsertConfigs(batch.configs, ok)
  /\ UNCHANGED <<storeVars, gridVars, freshVars, left>>

(* The configs are made durable first, or the batch ends with an error.    *)
BatchUpsert ==
  /\ batchPc = "upsert"
  /\ \/ batchPc' = "patch" /\ UpsertConfigs(batch.configs, TRUE) /\ UNCHANGED batch
     \/ batchPc' = "idle" /\ batch' = NoBatch /\ UpsertConfigs(batch.configs, FALSE)
  /\ UNCHANGED <<storeVars, gridVars, freshVars, left>>

(* The store may have changed since: the patch is validated again.  A      *)
(* patch rejected now writes the former configs back, which adds no row.   *)
BatchPatch ==
  /\ batchPc = "patch"
  /\ IF Accepts(batch.configs, batch.twice, batch.plan)
     THEN Patch(batch.configs, batch.plan) /\ batchPc' = "signal" /\ UNCHANGED batch
     ELSE batchPc' = "idle" /\ batch' = NoBatch /\ UNCHANGED storeVars
  /\ UNCHANGED <<durable, gridVars, freshVars, left>>

(* Once the batch is flushed and acknowledged the grid is told to discard  *)
(* its pending generation, with try_send: nothing comes of it when the     *)
(* channel is full, or when the grid loop's task has ended.                *)
BatchSignal ==
  /\ batchPc = "signal"
  /\ resets' = IF gridPc # "dead" /\ resets < ResetCap THEN resets + 1 ELSE resets
  /\ batchPc' = "idle" /\ batch' = NoBatch
  /\ UNCHANGED <<storeVars, durable, gridPc, file, seen, pending, lastApplied, freshVars, left>>

BatchLoop == (\E b \in Batches : BatchStart(b)) \/ BatchUpsert \/ BatchPatch \/ BatchSignal

-----------------------------------------------------------------------------
(* The grid loop.                                                          *)

EditFile(f) ==
  /\ left.edit > 0 /\ left' = [left EXCEPT !.edit = @ - 1]
  /\ file' = f /\ seen' = FALSE
  /\ UNCHANGED <<storeVars, durable, batchVars, gridPc, pending, lastApplied, resets, freshVars>>

GridDrain ==
  /\ gridPc = "drain"
  /\ pending' = IF resets > 0 THEN None ELSE pending
  /\ resets' = 0 /\ gridPc' = "refresh"
  /\ UNCHANGED <<storeVars, durable, batchVars, file, seen, lastApplied, freshVars, left>>

(* maybe_refresh_pending_runtime_grid: a file that does not load is only   *)
(* logged, one that is disabled discards what is pending.                  *)
GridRefresh ==
  /\ gridPc = "refresh"
  /\ pending' = IF seen \/ ~Loads(file) THEN pending
                ELSE IF Enabled(file) THEN Generation(file) ELSE None
  /\ seen' = TRUE /\ gridPc' = "decide"
  /\ UNCHANGED <<storeVars, durable, batchVars, file, lastApplied, resets, freshVars, left>>

(* maybe_apply_pending_runtime_grid up to its await: nothing to apply, not *)
(* due yet, or the signature applied last, which is discarded even if a    *)
(* batch has replaced its configs since.                                   *)
GridDecide ==
  /\ gridPc = "decide"
  /\ \/ gridPc' = "drain" /\ UNCHANGED pending
     \/ /\ pending # None
        /\ IF pending.configs = lastApplied
           THEN gridPc' = "drain" /\ pending' = None
           ELSE gridPc' = "write" /\ UNCHANGED pending
  /\ UNCHANGED <<storeVars, durable, batchVars, file, seen, lastApplied, resets, freshVars, left>>

(* The durable write; when it fails the generation stays pending.          *)
GridWrite ==
  /\ gridPc = "write"
  /\ \/ gridPc' = "patch" /\ UpsertConfigs(Range(pending.configs), TRUE)
     \/ gridPc' = "drain" /\ UpsertConfigs(Range(pending.configs), FALSE)
  /\ UNCHANGED <<storeVars, batchVars, file, seen, pending, lastApplied, resets, freshVars, left>>

(* A generation that does not validate ends the task, and with it what is  *)
(* pending and the receiver; quotes, batches and fresh starts go on.       *)
GridPatch ==
  /\ gridPc = "patch"
  /\ LET configs == Range(pending.configs)
         twice == ~IsInjective(pending.configs)
     IN  /\ ReplaceConfigs(configs, twice)
         /\ IF Accepts(configs, twice, FullReplace)
            THEN gridPc' = "drain" /\ lastApplied' = pending.configs /\ UNCHANGED resets
            ELSE gridPc' = "dead" /\ resets' = 0 /\ UNCHANGED lastApplied
  /\ pending' = None
  /\ UNCHANGED <<durable, batchVars, file, seen, freshVars, left>>

GridLoop == GridDrain \/ GridRefresh \/ GridDecide \/ GridWrite \/ GridPatch

-----------------------------------------------------------------------------
(* post_forward_fresh_start: reinstall the configs it has just read.       *)

FreshRead ==
  /\ freshPc = "idle" /\ left.fresh > 0 /\ left' = [left EXCEPT !.fresh = @ - 1]
  /\ freshPc' = "replace" /\ freshConfigs' = catalog
  /\ UNCHANGED <<storeVars, durable, batchVars, gridVars>>

FreshReplace ==
  /\ freshPc = "replace" /\ ReplaceConfigs(freshConfigs, FALSE)
  /\ freshPc' = "idle" /\ freshConfigs' = {}
  /\ UNCHANGED <<durable, batchVars, gridVars, left>>

Next ==
  \/ \E s \in Symbols : TickFleet(s) \/ Prune(s)
  \/ BatchLoop \/ (\E f \in Files : EditFile(f)) \/ GridLoop \/ FreshRead \/ FreshReplace

Spec == Init /\ [][Next]_vars

-----------------------------------------------------------------------------
(* Properties.                                                             *)

(* Types; the grid loop past its decision has a generation to apply, and   *)
(* only the batch loop at work has a batch.                                *)
TypeOK ==
  /\ catalog \subseteq Ids /\ fleets \in [Symbols -> SUBSET Ids]
  /\ durable \subseteq Ids /\ scoped \in BOOLEAN
  /\ batchPc \in {"idle", "upsert", "patch", "signal"}
  /\ batch \in Batches \cup {NoBatch} /\ (batchPc = "idle" <=> batch = NoBatch)
  /\ gridPc \in {"drain", "refresh", "decide", "write", "patch", "dead"}
  /\ file \in Files \cup {DefaultSettings} /\ seen \in BOOLEAN
  /\ pending # None => Range(pending.configs) \subseteq Ids
  /\ Range(lastApplied) \subseteq Ids
  /\ gridPc \in {"write", "patch"} => pending # None
  /\ resets \in 0 .. ResetCap
  /\ freshPc \in {"idle", "replace"} /\ freshConfigs \subseteq Ids
  /\ left \in [{"batch", "edit", "fresh"} -> Nat]

(* Unless a scoped patch left symbols out, every fleet trades the installed*)
(* configs, although an incremental patch without a scope only resets the  *)
(* fleets that trade a changed config and trusts the batch for what those  *)
(* are.                                                                    *)
UnscopedPatchesConverge ==
  ~scoped => \A s \in Symbols : fleets[s] \in {{}, catalog}

(* A config has its row in the configs table before any fleet trades it:   *)
(* trades refer to it.                                                     *)
TradedConfigsAreDurable ==
  catalog \subseteq durable /\ \A s \in Symbols : fleets[s] \subseteq durable

(* After an incremental patch no fleet in scope still has a changed config *)
(* in its former shape, and a fleet out of scope goes on undisturbed; but  *)
(* a scope that names a symbol does reset it when an id is new to the store*)
(* ("new-only changed id must reset in-scope symbol fleet", tests.rs).     *)
PatchTouchesItsScope ==
  [][(batchPc = "patch" /\ batchPc' = "signal" /\ batch.plan.mode = "incremental") =>
       \A s \in Symbols :
         /\ ~InScope(batch.plan, s) => fleets'[s] = fleets[s]
         /\ InScope(batch.plan, s) =>
              /\ fleets'[s] \cap batch.plan.changed = {}
              /\ HasNewOnly(batch.configs, batch.plan) => fleets'[s] = {}]_vars

(* A generation that waits to be applied is a sample of the grid in its    *)
(* file: up to max_configs different combinations of its points, although  *)
(* rounding makes points meet and the sample's stride is no whole number.  *)
GenerationSamplesItsGrid ==
  pending # None => GridIsASample(pending.configs, pending.config)
=============================================================================
