--------------------------- MODULE FleetPatchProofs ---------------------------
(* Theorems about FleetPatch, for any symbols, configs, grid files and any   *)
(* number of batches, edits and fresh starts.                                *)
EXTENDS FleetPatch, FoldTheorems

(* A patch empties fleets or leaves them, and nothing else.                  *)
LEMMA PatchedFleets ==
  ASSUME NEW configs, NEW plan, Patch(configs, plan), NEW s \in Symbols
  PROVE  fleets'[s] = IF Resets(configs, plan, s) THEN {} ELSE fleets[s]
BY DEF Patch

-----------------------------------------------------------------------------
(* Durable configs.                                                          *)

(* What each loop holds and has already written is durable: a batch or a     *)
(* generation between its write and its patch, and what a fresh start read.  *)
HeldIsDurable ==
  /\ batchPc = "patch" => batch.configs \subseteq durable
  /\ gridPc = "patch" => Range(pending.configs) \subseteq durable
  /\ freshPc = "replace" => freshConfigs \subseteq durable

DurInv ==
  /\ fleets = [s \in Symbols |-> fleets[s]]
  /\ TradedConfigsAreDurable
  /\ HeldIsDurable

LEMMA DurInit == Init => DurInv
BY DEF Init, DurInv, TradedConfigsAreDurable, HeldIsDurable

(* A full replacement by durable configs keeps the store durable; one that   *)
(* is rejected leaves the store alone.                                       *)
LEMMA ReplaceKeepsDurable ==
  ASSUME DurInv, NEW configs, NEW twice, configs \subseteq durable,
         ReplaceConfigs(configs, twice), UNCHANGED durable
  PROVE  /\ fleets' = [s \in Symbols |-> fleets'[s]]
         /\ TradedConfigsAreDurable'
<1>1. CASE Patch(configs, FullReplace)
  BY <1>1 DEF DurInv, TradedConfigsAreDurable, Patch
<1>2. CASE UNCHANGED <<catalog, fleets>>
  BY <1>2 DEF DurInv, TradedConfigsAreDurable
<1> QED BY <1>1, <1>2 DEF ReplaceConfigs, storeVars

LEMMA DurStep == DurInv /\ [Next]_vars => DurInv'
<1> SUFFICES ASSUME DurInv, [Next]_vars PROVE DurInv'
  OBVIOUS
<1> USE DEF DurInv, TradedConfigsAreDurable, HeldIsDurable
<1>1. ASSUME NEW s \in Symbols, TickFleet(s) \/ Prune(s) PROVE DurInv'
  BY <1>1 DEF TickFleet, Prune, batchVars, gridVars, freshVars
<1>2. ASSUME NEW b \in Batches, BatchStart(b) PROVE DurInv'
  BY <1>2 DEF BatchStart, storeVars, gridVars, freshVars
<1>3. ASSUME BatchUpsert PROVE DurInv'
  BY <1>3 DEF BatchUpsert, UpsertConfigs, storeVars, gridVars, freshVars
<1>4. ASSUME BatchPatch PROVE DurInv'
  <2>1. CASE Patch(batch.configs, batch.plan) /\ batchPc' = "signal"
    BY <1>4, <2>1 DEF BatchPatch, Patch, gridVars, freshVars
  <2>2. CASE batchPc' = "idle" /\ UNCHANGED storeVars
    BY <1>4, <2>2 DEF BatchPatch, storeVars, gridVars, freshVars
  <2> QED BY <1>4, <2>1, <2>2 DEF BatchPatch
<1>5. ASSUME BatchSignal PROVE DurInv'
  BY <1>5 DEF BatchSignal, storeVars, freshVars
<1>6. ASSUME NEW f \in Files, EditFile(f) PROVE DurInv'
  BY <1>6 DEF EditFile, storeVars, batchVars, freshVars
<1>7. ASSUME GridDrain \/ GridRefresh \/ GridDecide PROVE DurInv'
  BY <1>7 DEF GridDrain, GridRefresh, GridDecide, storeVars, batchVars, freshVars
<1>8. ASSUME GridWrite PROVE DurInv'
  BY <1>8 DEF GridWrite, UpsertConfigs, storeVars, batchVars, freshVars
<1>9. ASSUME GridPatch PROVE DurInv'
  <2>1. gridPc' # "patch" /\ UNCHANGED <<durable, batchVars, freshVars>>
    BY <1>9 DEF GridPatch
  <2>2. /\ fleets' = [s \in Symbols |-> fleets'[s]]
        /\ TradedConfigsAreDurable'
    BY <1>9, <2>1, ReplaceKeepsDurable DEF GridPatch
  <2> QED BY <2>1, <2>2 DEF batchVars, freshVars
<1>10. ASSUME FreshRead PROVE DurInv'
  BY <1>10 DEF FreshRead, storeVars, batchVars, gridVars
<1>11. ASSUME FreshReplace PROVE DurInv'
  <2>1. freshPc' # "replace" /\ UNCHANGED <<durable, batchVars, gridVars>>
    BY <1>11 DEF FreshReplace
  <2>2. /\ fleets' = [s \in Symbols |-> fleets'[s]]
        /\ TradedConfigsAreDurable'
    BY <1>11, <2>1, ReplaceKeepsDurable DEF FreshReplace
  <2> QED BY <2>1, <2>2 DEF batchVars, gridVars
<1>12. ASSUME UNCHANGED vars PROVE DurInv'
  BY <1>12 DEF vars, storeVars, batchVars, gridVars, freshVars
<1> QED
  BY <1>1, <1>2, <1>3, <1>4, <1>5, <1>6, <1>7, <1>8, <1>9, <1>10, <1>11, <1>12
  DEF Next, BatchLoop, GridLoop

(* Every config a fleet trades, and every installed one, has its row in the  *)
(* configs table, however writes fail and loops interleave.                  *)
THEOREM ConfigsAreDurable == Spec => []TradedConfigsAreDurable
<1>1. DurInv => TradedConfigsAreDurable
  BY DEF DurInv
<1> QED BY DurInit, DurStep, <1>1, PTL DEF Spec

-----------------------------------------------------------------------------
(* Patches without a scope.                                                  *)

(* A batch about to be patched has one of the two modes.                     *)
ConvInv ==
  /\ fleets = [s \in Symbols |-> fleets[s]]
  /\ UnscopedPatchesConverge
  /\ batchPc # "idle" => batch.plan.mode \in {"full", "incremental"}

LEMMA ConvInit == Init => ConvInv
BY DEF Init, ConvInv, UnscopedPatchesConverge

(* An accepted incremental plan without a scope has no id that is new to the *)
(* store, so it changes an installed config, which every fleet trades that   *)
(* trades anything: all of them are reset.                                   *)
LEMMA UnscopedResetsAll ==
  ASSUME UnscopedPatchesConverge, ~scoped, NEW configs, NEW twice, NEW plan,
         plan.mode = "incremental", plan.scope = AnySymbol,
         Accepts(configs, twice, plan), NEW s \in Symbols, fleets[s] # {}
  PROVE  Resets(configs, plan, s)
<1>1. OldIds = catalog
  BY DEF OldIds, UnscopedPatchesConverge
<1>2. ~HasNewOnly(configs, plan)
  BY DEF Accepts
<1>3. PICK id \in plan.changed : id \in OldIds \cup configs
  BY DEF Accepts
<1>4. id \in catalog
  BY <1>1, <1>2, <1>3 DEF HasNewOnly
<1>5. fleets[s] = catalog
  BY DEF UnscopedPatchesConverge
<1> QED BY <1>3, <1>4, <1>5 DEF Resets, InScope

(* A full replacement resets every fleet, one that is rejected none.         *)
LEMMA ReplaceConverges ==
  ASSUME ConvInv, NEW configs, NEW twice, ReplaceConfigs(configs, twice)
  PROVE  /\ fleets' = [s \in Symbols |-> fleets'[s]]
         /\ UnscopedPatchesConverge'
<1>1. CASE Patch(configs, FullReplace)
  <2>1. \A s \in Symbols : Resets(configs, FullReplace, s)
    BY DEF Resets, FullReplace
  <2> QED BY <1>1, <2>1 DEF UnscopedPatchesConverge, Patch
<1>2. CASE UNCHANGED <<catalog, fleets, scoped>>
  BY <1>2 DEF ConvInv, UnscopedPatchesConverge
<1> QED BY <1>1, <1>2 DEF ReplaceConfigs, storeVars

LEMMA ConvStep == ConvInv /\ [Next]_vars => ConvInv'
<1> SUFFICES ASSUME ConvInv, [Next]_vars PROVE ConvInv'
  OBVIOUS
<1> USE DEF ConvInv
<1>1. ASSUME NEW s \in Symbols, TickFleet(s) \/ Prune(s) PROVE ConvInv'
  BY <1>1 DEF TickFleet, Prune, batchVars, UnscopedPatchesConverge
<1>2. ASSUME NEW b \in Batches, BatchStart(b) PROVE ConvInv'
  <2>1. b.plan.mode \in {"full", "incremental"}
    BY DEF Batches, Plans, FullReplace
  <2> QED BY <1>2, <2>1 DEF BatchStart, storeVars, UnscopedPatchesConverge
<1>3. ASSUME BatchPatch PROVE ConvInv'
  <2>1. CASE Accepts(batch.configs, batch.twice, batch.plan)
    <3>1. /\ Patch(batch.configs, batch.plan) /\ batchPc' = "signal" /\ batch' = batch
          /\ batchPc = "patch"
      BY <1>3, <2>1 DEF BatchPatch
    <3>2. fleets' = [s \in Symbols |-> fleets'[s]]
      BY <3>1 DEF Patch
    <3>3. ASSUME ~scoped', NEW s \in Symbols PROVE fleets'[s] \in {{}, catalog'}
      <4>1. CASE batch.plan.mode = "full"
        BY <3>1, <4>1, PatchedFleets DEF Resets
      <4>2. CASE batch.plan.mode = "incremental"
        <5>1. ~scoped /\ batch.plan.scope = AnySymbol
          BY <3>1, <3>3, <4>2 DEF Patch
        <5>2. CASE fleets[s] = {}
          BY <3>1, <5>2, PatchedFleets
        <5>3. CASE fleets[s] # {}
          BY <2>1, <3>1, <4>2, <5>1, <5>3, UnscopedResetsAll, PatchedFleets
        <5> QED BY <5>2, <5>3
      <4> QED BY <3>1, <4>1, <4>2
    <3>4. UnscopedPatchesConverge'
      BY <3>3 DEF UnscopedPatchesConverge
    <3> QED BY <3>1, <3>2, <3>4
  <2>2. CASE ~Accepts(batch.configs, batch.twice, batch.plan)
    BY <1>3, <2>2 DEF BatchPatch, storeVars, UnscopedPatchesConverge
  <2> QED BY <2>1, <2>2
<1>4. ASSUME BatchUpsert \/ BatchSignal PROVE ConvInv'
  BY <1>4 DEF BatchUpsert, BatchSignal, storeVars, UnscopedPatchesConverge
<1>5. ASSUME NEW f \in Files, EditFile(f) PROVE ConvInv'
  BY <1>5 DEF EditFile, storeVars, batchVars, UnscopedPatchesConverge
<1>6. ASSUME GridDrain \/ GridRefresh \/ GridDecide \/ GridWrite \/ FreshRead PROVE ConvInv'
  BY <1>6 DEF GridDrain, GridRefresh, GridDecide, GridWrite, FreshRead, storeVars, batchVars,
              UnscopedPatchesConverge
<1>7. ASSUME GridPatch PROVE ConvInv'
  <2>1. UNCHANGED batchVars /\ ReplaceConfigs(Range(pending.configs), ~IsInjective(pending.configs))
    BY <1>7 DEF GridPatch
  <2> QED BY <2>1, ReplaceConverges DEF batchVars
<1>8. ASSUME FreshReplace PROVE ConvInv'
  <2>1. UNCHANGED batchVars /\ ReplaceConfigs(freshConfigs, FALSE)
    BY <1>8 DEF FreshReplace
  <2> QED BY <2>1, ReplaceConverges DEF batchVars
<1>9. ASSUME UNCHANGED vars PROVE ConvInv'
  BY <1>9 DEF vars, storeVars, batchVars, UnscopedPatchesConverge
<1> QED
  BY <1>1, <1>2, <1>3, <1>4, <1>5, <1>6, <1>7, <1>8, <1>9 DEF Next, BatchLoop, GridLoop

(* Unless a scope left symbols out, every fleet trades the installed configs,*)
(* although the incremental patches in between reset by changed ids only.    *)
THEOREM FleetsConverge == Spec => []UnscopedPatchesConverge
<1>1. ConvInv => UnscopedPatchesConverge
  BY DEF ConvInv
<1> QED BY ConvInit, ConvStep, <1>1, PTL DEF Spec

-----------------------------------------------------------------------------
(* An incremental patch resets what its plan names, and nothing else.        *)
THEOREM PatchStaysInScope == Spec => PatchTouchesItsScope
<1> DEFINE Touched ==
      (batchPc = "patch" /\ batchPc' = "signal" /\ batch.plan.mode = "incremental") =>
        \A s \in Symbols :
          /\ ~InScope(batch.plan, s) => fleets'[s] = fleets[s]
          /\ InScope(batch.plan, s) =>
               /\ fleets'[s] \cap batch.plan.changed = {}
               /\ HasNewOnly(batch.configs, batch.plan) => fleets'[s] = {}
<1>1. ASSUME [Next]_vars PROVE [Touched]_vars
  <2> SUFFICES ASSUME batchPc = "patch", batchPc' = "signal", batch.plan.mode = "incremental",
                      NEW s \in Symbols
               PROVE  /\ ~InScope(batch.plan, s) => fleets'[s] = fleets[s]
                      /\ InScope(batch.plan, s) =>
                           /\ fleets'[s] \cap batch.plan.changed = {}
                           /\ HasNewOnly(batch.configs, batch.plan) => fleets'[s] = {}
    OBVIOUS
  <2>1. BatchPatch
    BY <1>1 DEF Next, vars, BatchLoop, GridLoop, TickFleet, Prune, BatchStart, BatchUpsert,
                BatchSignal, EditFile, GridDrain, GridRefresh, GridDecide, GridWrite, GridPatch,
                FreshRead, FreshReplace, batchVars
  <2>2. Patch(batch.configs, batch.plan)
    BY <2>1 DEF BatchPatch
  <2>3. fleets'[s] = IF Resets(batch.configs, batch.plan, s) THEN {} ELSE fleets[s]
    BY <2>2, PatchedFleets
  <2> QED BY <2>3 DEF Resets
<1> QED BY <1>1, PTL DEF Spec, PatchTouchesItsScope

-----------------------------------------------------------------------------
(* The sample of a grid.                                                     *)

Distinct(s) == \A i, j \in DOMAIN s : s[i] = s[j] => i = j

(* A sequence without repetition is as long as the set of what it lists.     *)
LEMMA DistinctCounts ==
  ASSUME NEW S, NEW s \in Seq(S), Distinct(s)
  PROVE  IsFiniteSet(Range(s)) /\ Cardinality(Range(s)) = Len(s) /\ Len(s) \in Nat
<1>1. Len(s) \in Nat /\ DOMAIN s = 1 .. Len(s)
  OBVIOUS
<1>2. s \in Bijection(1 .. Len(s), Range(s))
  BY <1>1 DEF Bijection, Injection, IsInjective, Surjection, Distinct, Range
<1>3. IsFiniteSet(1 .. Len(s)) /\ Cardinality(1 .. Len(s)) = Len(s)
  <2>1. 1 \in Int /\ Len(s) \in Int /\ (IF 1 > Len(s) THEN 0 ELSE Len(s) - 1 + 1) = Len(s)
    BY <1>1
  <2> QED BY <2>1, FS_Interval
<1>4. ExistsBijection(1 .. Len(s), Range(s))
  BY <1>2 DEF ExistsBijection
<1> QED BY <1>1, <1>3, <1>4, FS_Bijection

(* Keeping a config lists it once, at the end unless it is there.            *)
LEMMA Keeps ==
  ASSUME NEW S, NEW s \in Seq(S), Distinct(s), NEW c \in S
  PROVE  /\ Keep(s, c) \in Seq(S) /\ Distinct(Keep(s, c))
         /\ Range(Keep(s, c)) = Range(s) \cup {c}
         /\ Len(s) \in Nat /\ Len(Keep(s, c)) \in {Len(s), Len(s) + 1}
<1>1. Len(s) \in Nat /\ DOMAIN s = 1 .. Len(s)
  OBVIOUS
<1>2. CASE c \in Range(s)
  BY <1>1, <1>2 DEF Keep
<1>3. CASE c \notin Range(s)
  <2> DEFINE t == Append(s, c)
  <2>1. /\ t \in Seq(S) /\ Len(t) = Len(s) + 1 /\ DOMAIN t = 1 .. Len(s) + 1
        /\ \A i \in 1 .. Len(s) : t[i] = s[i] 
        /\ t[Len(s) + 1] = c
    BY Appends
  <2>2. Keep(s, c) = t
    BY <1>3 DEF Keep
  <2> HIDE DEF t
  <2>3. \A i \in 1 .. Len(s) : t[i] \in Range(s)
    BY <1>1, <2>1 DEF Range
  <2>4. \A i \in 1 .. Len(s) + 1 : i \in 1 .. Len(s) \/ i = Len(s) + 1
    BY <1>1
  <2>5. Distinct(t)
    BY <1>1, <1>3, <2>1, <2>3, <2>4 DEF Distinct
  <2>6. Len(s) + 1 \in 1 .. Len(s) + 1 /\ 1 .. Len(s) \subseteq 1 .. Len(s) + 1
    BY <1>1
  <2>7. Range(t) = Range(s) \cup {c}
    BY <1>1, <2>1, <2>3, <2>4, <2>6 DEF Range
  <2> QED BY <1>1, <2>1, <2>2, <2>5, <2>7
<1> QED BY <1>2, <1>3

(* Each config is kept once, and none is lost.                               *)
LEMMA DedupedKeepsAll ==
  ASSUME NEW S, NEW list \in Seq(S)
  PROVE  /\ Deduped(list) \in Seq(S) /\ Distinct(Deduped(list))
         /\ Range(Deduped(list)) = Range(list) /\ Len(Deduped(list)) <= Len(list)
<1> DEFINE Step(x, y) == Keep(x, y)
           n == Len(list)
           T == {d \in Seq(S) : Distinct(d)}
           base == << >>
           step == [k \in 1 .. n |-> [x \in T |-> Step(x, list[k])]]
           Unrolls(it) == it = [s \in SUBSET (DOMAIN list) |->
                              IF s = {} THEN base ELSE Step(it[s \ {Max(s)}], list[Max(s)])]
           it == CHOOSE f : Unrolls(f)
<1>1. n \in Nat /\ DOMAIN list = 1 .. n
  OBVIOUS
<1>2. base \in T
  BY DEF Distinct
<1>3. ASSUME NEW k \in 1 .. n, NEW x \in T PROVE Step(x, list[k]) \in T
  <2>1. list[k] \in S
    BY <1>1
  <2> QED BY <2>1, Keeps
<1>4. Deduped(list) = it[1 .. n]
  BY <1>1 DEF Deduped, FoldLeft, MapThenFoldSet
<1> HIDE DEF Step, T, base
<1>5. PICK f \in [SUBSET (1 .. n) -> T] : Folds(f, n, base, step)
  <2>1. step \in [1 .. n -> [T -> T]]
    BY <1>3
  <2> HIDE DEF step, n
  <2> QED BY <1>1, <1>2, <2>1, FoldRuns
<1>6. Unrolls(it)
  <2>1. ASSUME NEW s \in SUBSET (1 .. n), s # {}
        PROVE  step[Max(s)][f[s \ {Max(s)}]] = Step(f[s \ {Max(s)}], list[Max(s)])
    <3>1. s \in SUBSET (0 .. n)
      BY <1>1
    <3>2. Max(s) \in 1 .. n
      BY <1>1, <2>1, <3>1, LastPosition
    <3> QED BY <3>2
  <2> HIDE DEF step, n
  <2>2. Unrolls(f)
    BY <1>1, <1>5, <2>1 DEF Folds
  <2> HIDE DEF Unrolls
  <2> QED BY <2>2
<1> HIDE DEF it
<1>7. it[1 .. 0] = base /\ \A k \in 1 .. n : it[1 .. k] = Step(it[1 .. k - 1], list[k])
  <2>1. it[1 .. 0] = base
    BY <1>1, <1>6
  <2> SUFFICES ASSUME NEW k \in 1 .. n PROVE it[1 .. k] = Step(it[1 .. k - 1], list[k])
    BY <2>1
  <2>2. 1 .. k \in SUBSET (1 .. n) /\ 1 .. k # {} /\ Max(1 .. k) = k /\ (1 .. k) \ {k} = 1 .. k - 1
    BY <1>1, Prefix
  <2> HIDE DEF n
  <2> QED BY <1>1, <1>6, <2>2
<1>8. \A k \in 0 .. n : it[1 .. k] \in T
  <2> DEFINE runs == [k \in 0 .. n |-> it[1 .. k]]
  <2>1. runs[0] \in T /\ \A k \in 1 .. n : runs[k - 1] \in T => runs[k] \in T
    <3> HIDE DEF n
    <3> QED BY <1>1, <1>2, <1>3, <1>7
  <2>2. \A k \in 0 .. n : runs[k] \in T
    <3> HIDE DEF runs, n
    <3> QED BY <1>1, <2>1, RunsTyped
  <2> QED BY <2>2
<1> DEFINE G == {k \in 0 .. n : Range(it[1 .. k]) = {list[i] : i \in 1 .. k} /\ Len(it[1 .. k]) <= k}
<1>9. \A k \in 0 .. n : k \in G
  <2>1. 0 \in G
    <3>1. it[1 .. 0] = << >> /\ 1 .. 0 = {} /\ 0 \in 0 .. n
      BY <1>1, <1>7 DEF base
    <3>2. Range(<< >>) = {} /\ Len(<< >>) <= 0
      BY DEF Range
    <3> QED BY <3>1, <3>2
  <2>2. ASSUME NEW k \in 1 .. n, k - 1 \in G PROVE k \in G
    <3> DEFINE before == it[1 .. k - 1]
               after == it[1 .. k]
               c == list[k]
    <3>1. /\ Range(before) = {list[i] : i \in 1 .. k - 1} /\ Len(before) <= k - 1
          /\ after = Keep(before, c) /\ k - 1 \in 0 .. n /\ k \in 0 .. n
      BY <1>1, <1>7, <2>2 DEF Step
    <3>2. before \in Seq(S) /\ Distinct(before) /\ c \in S
      BY <1>1, <1>8, <3>1 DEF T
    <3> HIDE DEF before, n, c
    <3>7. /\ Range(Keep(before, c)) = Range(before) \cup {c}
          /\ Len(before) \in Nat /\ Len(Keep(before, c)) \in {Len(before), Len(before) + 1}
      BY <3>2, Keeps
    <3> HIDE DEF after
    <3>3. /\ Range(after) = Range(before) \cup {c}
          /\ Len(before) \in Nat /\ Len(after) \in {Len(before), Len(before) + 1}
      BY <3>1, <3>7
    <3>4. 1 .. k = (1 .. k - 1) \cup {k} /\ k \in Int
      BY <1>1
    <3>5. Range(after) = {list[i] : i \in 1 .. k}
      BY <3>1, <3>3, <3>4 DEF c
    <3>6. Len(after) <= k
      BY <3>1, <3>3, <3>4
    <3> QED BY <3>1, <3>5, <3>6 DEF after
  <2>3. G \in SUBSET (0 .. n)
    OBVIOUS
  <2> HIDE DEF G, n
  <2> QED BY <1>1, <2>1, <2>2, <2>3, IntervalInduction
<1>10. n \in 0 .. n
  BY <1>1
<1>11. Range(it[1 .. n]) = {list[i] : i \in 1 .. n} /\ Len(it[1 .. n]) <= n
  <2> HIDE DEF n
  <2> QED BY <1>9, <1>10
<1>12. it[1 .. n] \in T
  BY <1>8, <1>10
<1>13. Range(list) = {list[i] : i \in 1 .. n}
  BY <1>1 DEF Range
<1> QED BY <1>4, <1>11, <1>12, <1>13 DEF T

(* Filling up ends at the limit or when all are listed.                      *)
LEMMA FillsUp ==
  ASSUME NEW S, NEW list \in Seq(S), NEW limit \in Nat,
         NEW first \in Seq(S), Distinct(first), Len(first) <= limit
  PROVE  /\ FilledUp(first, list, limit) \in Seq(S) /\ Distinct(FilledUp(first, list, limit))
         /\ Len(FilledUp(first, list, limit)) <= limit
         /\ Len(FilledUp(first, list, limit)) = limit \/ Range(list) \subseteq Range(FilledUp(first, list, limit))
<1> DEFINE Step(x, y) == IF Len(x) = limit THEN x ELSE Keep(x, y)
           n == Len(list)
           T == {d \in Seq(S) : Distinct(d) /\ Len(d) <= limit}
           base == first
           step == [k \in 1 .. n |-> [x \in T |-> Step(x, list[k])]]
           Unrolls(it) == it = [s \in SUBSET (DOMAIN list) |->
                              IF s = {} THEN base ELSE Step(it[s \ {Max(s)}], list[Max(s)])]
           it == CHOOSE f : Unrolls(f)
<1>1. n \in Nat /\ DOMAIN list = 1 .. n
  OBVIOUS
<1>2. base \in T
  OBVIOUS
<1>3. ASSUME NEW k \in 1 .. n, NEW x \in T PROVE Step(x, list[k]) \in T
  <2>1. list[k] \in S /\ x \in Seq(S) /\ Distinct(x) /\ Len(x) <= limit
    BY <1>1
  <2>2. /\ Keep(x, list[k]) \in Seq(S) /\ Distinct(Keep(x, list[k]))
        /\ Len(x) \in Nat /\ Len(Keep(x, list[k])) \in {Len(x), Len(x) + 1}
    BY <2>1, Keeps
  <2>3. Len(x) # limit => Len(Keep(x, list[k])) <= limit
    BY <2>1, <2>2
  <2> QED BY <2>1, <2>2, <2>3
<1>4. FilledUp(first, list, limit) = it[1 .. n]
  BY <1>1 DEF FilledUp, FoldLeft, MapThenFoldSet
<1> HIDE DEF Step, T, base
<1>5. PICK f \in [SUBSET (1 .. n) -> T] : Folds(f, n, base, step)
  <2>1. step \in [1 .. n -> [T -> T]]
    BY <1>3
  <2> HIDE DEF step, n
  <2> QED BY <1>1, <1>2, <2>1, FoldRuns
<1>6. Unrolls(it)
  <2>1. ASSUME NEW s \in SUBSET (1 .. n), s # {}
        PROVE  step[Max(s)][f[s \ {Max(s)}]] = Step(f[s \ {Max(s)}], list[Max(s)])
    <3>1. s \in SUBSET (0 .. n)
      BY <1>1
    <3>2. Max(s) \in 1 .. n
      BY <1>1, <2>1, <3>1, LastPosition
    <3> QED BY <3>2
  <2> HIDE DEF step, n
  <2>2. Unrolls(f)
    BY <1>1, <1>5, <2>1 DEF Folds
  <2> HIDE DEF Unrolls
  <2> QED BY <2>2
<1> HIDE DEF it
<1>7. it[1 .. 0] = base /\ \A k \in 1 .. n : it[1 .. k] = Step(it[1 .. k - 1], list[k])
  <2>1. it[1 .. 0] = base
    BY <1>1, <1>6
  <2> SUFFICES ASSUME NEW k \in 1 .. n PROVE it[1 .. k] = Step(it[1 .. k - 1], list[k])
    BY <2>1
  <2>2. 1 .. k \in SUBSET (1 .. n) /\ 1 .. k # {} /\ Max(1 .. k) = k /\ (1 .. k) \ {k} = 1 .. k - 1
    BY <1>1, Prefix
  <2> HIDE DEF n
  <2> QED BY <1>1, <1>6, <2>2
<1>8. \A k \in 0 .. n : it[1 .. k] \in T
  <2> DEFINE runs == [k \in 0 .. n |-> it[1 .. k]]
  <2>1. runs[0] \in T /\ \A k \in 1 .. n : runs[k - 1] \in T => runs[k] \in T
    <3> HIDE DEF n
    <3> QED BY <1>1, <1>2, <1>3, <1>7
  <2>2. \A k \in 0 .. n : runs[k] \in T
    <3> HIDE DEF runs, n
    <3> QED BY <1>1, <2>1, RunsTyped
  <2> QED BY <2>2
<1> DEFINE G == {k \in 0 .. n : Len(it[1 .. k]) = limit \/ {list[i] : i \in 1 .. k} \subseteq Range(it[1 .. k])}
<1>9. \A k \in 0 .. n : k \in G
  <2>1. 0 \in G
    <3>1. 1 .. 0 = {} /\ 0 \in 0 .. n
      BY <1>1
    <3> QED BY <3>1
  <2>2. ASSUME NEW k \in 1 .. n, k - 1 \in G PROVE k \in G
    <3> DEFINE before == it[1 .. k - 1]
               after == it[1 .. k]
               c == list[k]
    <3>1. /\ Len(before) = limit \/ {list[i] : i \in 1 .. k - 1} \subseteq Range(before)
          /\ after = IF Len(before) = limit THEN before ELSE Keep(before, c)
          /\ k - 1 \in 0 .. n /\ k \in 0 .. n
      BY <1>1, <1>7, <2>2 DEF Step
    <3>2. before \in Seq(S) /\ Distinct(before) /\ c \in S
      BY <1>1, <1>8, <3>1 DEF T
    <3> HIDE DEF before, n, c
    <3>3. Range(Keep(before, c)) = Range(before) \cup {c}
      BY <3>2, Keeps
    <3>4. 1 .. k = (1 .. k - 1) \cup {k}
      BY <1>1
    <3>5. Len(after) = limit \/ {list[i] : i \in 1 .. k} \subseteq Range(after)
      <4> HIDE DEF after
      <4> QED BY <3>1, <3>3, <3>4 DEF c
    <3> QED BY <3>1, <3>5
  <2>3. G \in SUBSET (0 .. n)
    OBVIOUS
  <2> HIDE DEF G, n
  <2> QED BY <1>1, <2>1, <2>2, <2>3, IntervalInduction
<1>10. n \in 0 .. n
  BY <1>1
<1>11. Len(it[1 .. n]) = limit \/ {list[i] : i \in 1 .. n} \subseteq Range(it[1 .. n])
  <2> HIDE DEF n
  <2> QED BY <1>9, <1>10
<1>12. it[1 .. n] \in T
  BY <1>8, <1>10
<1>13. Range(list) = {list[i] : i \in 1 .. n}
  BY <1>1 DEF Range
<1> QED BY <1>4, <1>11, <1>12, <1>13 DEF T

(* The strides stay within the list.                                         *)
LEMMA StridesWithin ==
  ASSUME NEW m \in Nat, NEW limit \in Nat \ {0}, m > limit, NEW i \in 1 .. limit
  PROVE  1 + ((i - 1) * m) \div limit \in 1 .. m
<1> DEFINE p == (i - 1) * m
           q == p \div limit
           r == p % limit
<1>1. i - 1 \in Nat /\ i - 1 <= limit - 1 /\ m \in Nat /\ limit \in Nat /\ limit > 0
  OBVIOUS
<1>2. p \in Nat
  BY <1>1
<1>3. p <= (limit - 1) * m
  BY <1>1
<1>4. (limit - 1) * m = limit * m - m
  BY <1>1
<1>5. p < limit * m
  BY <1>1, <1>2, <1>3, <1>4
<1> HIDE DEF p
<1>6. q \in Int /\ r \in 0 .. limit - 1 /\ p = limit * q + r
  BY <1>1, <1>2
<1> HIDE DEF q, r
<1>7. q >= 0
  <2> SUFFICES ASSUME q <= -1 PROVE FALSE
    BY <1>6
  <2>1. limit * q <= limit * (-1)
    BY <1>1, <1>6
  <2> QED BY <1>1, <1>2, <1>6, <2>1
<1>8. q < m
  <2> SUFFICES ASSUME q >= m PROVE FALSE
    BY <1>1, <1>6
  <2>1. limit * q >= limit * m
    BY <1>1, <1>6
  <2>2. limit * q \in Int /\ limit * m \in Int
    BY <1>1, <1>6
  <2> QED BY <1>1, <1>2, <1>5, <1>6, <2>1, <2>2
<1>9. 1 + q \in 1 .. m
  BY <1>1, <1>6, <1>7, <1>8
<1> QED BY <1>9 DEF p, q

(* A sample has as many configs as there are, or its limit.                  *)
LEMMA DownsampledSamples ==
  ASSUME NEW S, NEW s \in Seq(S), Distinct(s), NEW limit \in Nat \ {0}
  PROVE  /\ Downsampled(s, limit) \in Seq(S) /\ Distinct(Downsampled(s, limit))
         /\ Range(Downsampled(s, limit)) \subseteq Range(s)
         /\ Len(Downsampled(s, limit)) = IF Len(s) < limit THEN Len(s) ELSE limit
<1>0. Len(s) \in Nat /\ limit \in Nat
  OBVIOUS
<1>1. Len(s) \in Nat /\ DOMAIN s = 1 .. Len(s) /\ limit \in Nat
  OBVIOUS
<1>2. CASE Len(s) <= limit
  <2>1. Downsampled(s, limit) = s
    BY <1>2 DEF Downsampled
  <2>2. Len(s) = IF Len(s) < limit THEN Len(s) ELSE limit
    BY <1>0, <1>2
  <2>3. Range(s) \subseteq Range(s)
    OBVIOUS
  <2> QED BY Zenon, <2>1, <2>2, <2>3
<1>3. CASE ~(Len(s) <= limit)
  <2> DEFINE picked == Picked(s, limit)
             first == Deduped(picked)
             out == FilledUp(first, s, limit)
  <2>1. s \in Seq(Range(s))
    BY <1>1 DEF Range
  <2>2. picked \in Seq(Range(s)) /\ Len(picked) = limit
    <3>1. \A i \in 1 .. limit : 1 + ((i - 1) * Len(s)) \div limit \in 1 .. Len(s)
      BY <1>1, <1>3, StridesWithin
    <3>2. \A i \in 1 .. limit : picked[i] \in Range(s)
      BY <1>1, <3>1 DEF Range, Picked
    <3>3. picked = [i \in 1 .. limit |-> picked[i]]
      BY DEF Picked
    <3> HIDE DEF picked
    <3> QED BY <1>1, <3>2, <3>3
  <2> HIDE DEF picked
  <2>3. first \in Seq(Range(s)) /\ Distinct(first) /\ Len(first) <= limit
    BY <2>2, DedupedKeepsAll
  <2> HIDE DEF first
  <2>4. /\ out \in Seq(Range(s)) /\ Distinct(out) /\ Len(out) <= limit
        /\ Len(out) = limit \/ Range(s) \subseteq Range(out)
    BY <1>1, <2>1, <2>3, FillsUp
  <2>5. Downsampled(s, limit) = out
    BY <1>3 DEF Downsampled, first, picked
  <2> HIDE DEF out
  <2>6. Range(out) \subseteq Range(s) /\ Range(s) \subseteq S /\ Len(out) \in Nat
    BY <1>1, <2>4 DEF Range
  <2>7. Len(out) = limit
    <3> SUFFICES ASSUME Range(out) = Range(s) PROVE FALSE
      BY <2>4, <2>6
    <3>1. Len(out) = Cardinality(Range(s))
      BY <2>4, DistinctCounts
    <3>2. Len(s) = Cardinality(Range(s))
      BY DistinctCounts
    <3> QED BY <1>1, <1>3, <2>4, <2>6, <3>1, <3>2
  <2>8. out \in Seq(S)
    BY <2>4, <2>6
  <2>9. Len(out) = IF Len(s) < limit THEN Len(s) ELSE limit
    BY <1>0, <1>3, <2>7
  <2> QED BY Zenon, <2>4, <2>5, <2>6, <2>8, <2>9
<1> QED BY <1>2, <1>3

(* One more axis appends each of its points to each combination.             *)
Grown(C, P) == {Append(c, p) : c \in C, p \in P}
EachAppended(list, c, values) == list \o [j \in DOMAIN values |-> Append(c, values[j])]

LEMMA GrowsByOne ==
  ASSUME NEW C, NEW P, NEW c
  PROVE  Grown(C \cup {c}, P) = Grown(C, P) \cup Grown({c}, P)
BY DEF Grown

LEMMA AppendedPoints ==
  ASSUME NEW S, NEW list \in Seq(Seq(S)), NEW c \in Seq(S), NEW values \in Seq(S)
  PROVE  /\ EachAppended(list, c, values) \in Seq(Seq(S))
         /\ Range(EachAppended(list, c, values)) = Range(list) \cup Grown({c}, Range(values))
<1> DEFINE more == [j \in DOMAIN values |-> Append(c, values[j])]
           both == list \o more
<1>1. /\ Len(values) \in Nat /\ DOMAIN values = 1 .. Len(values)
      /\ Len(list) \in Nat /\ DOMAIN list = 1 .. Len(list)
  OBVIOUS
<1>2. \A j \in 1 .. Len(values) : values[j] \in S /\ Append(c, values[j]) \in Seq(S)
  BY <1>1
<1>3. more \in Seq(Seq(S)) /\ Len(more) = Len(values) /\ DOMAIN more = 1 .. Len(values)
  BY <1>1, <1>2
<1>4. Range(more) = Grown({c}, Range(values))
  BY <1>1 DEF Range, Grown
<1> HIDE DEF more
<1>5. both \in Seq(Seq(S)) /\ Range(both) = Range(list) \cup Range(more)
  <2>1. /\ both \in Seq(Seq(S)) /\ Len(both) = Len(list) + Len(more)
        /\ \A i \in 1 .. Len(list) + Len(more) :
             both[i] = IF i <= Len(list) THEN list[i] ELSE more[i - Len(list)]
    BY <1>3, ConcatProperties
  <2> HIDE DEF both
  <2>2. DOMAIN both = 1 .. Len(list) + Len(more) /\ Len(more) \in Nat
    BY <1>1, <1>3, <2>1
  <2>3. ASSUME NEW i \in 1 .. Len(list) PROVE list[i] \in Range(both)
    <3>1. i \in DOMAIN both /\ both[i] = list[i]
      BY <1>1, <2>1, <2>2
    <3> QED BY <3>1 DEF Range
  <2>4. ASSUME NEW j \in 1 .. Len(more) PROVE more[j] \in Range(both)
    <3>1. Len(list) + j \in DOMAIN both /\ ~(Len(list) + j <= Len(list)) /\ Len(list) + j - Len(list) = j
      BY <1>1, <2>2
    <3>2. both[Len(list) + j] = more[j]
      BY <2>1, <2>2, <3>1
    <3> QED BY <3>1, <3>2 DEF Range
  <2>5. ASSUME NEW i \in DOMAIN both PROVE both[i] \in Range(list) \cup Range(more)
    <3>1. i \in 1 .. Len(list) \/ i - Len(list) \in 1 .. Len(more)
      BY <1>1, <2>2
    <3> QED BY <1>1, <1>3, <2>1, <2>2, <3>1 DEF Range
  <2>6. Range(list) \subseteq Range(both)
    BY <1>1, <2>3 DEF Range
  <2>7. Range(more) \subseteq Range(both)
    BY <1>3, <2>4 DEF Range
  <2>8. Range(both) \subseteq Range(list) \cup Range(more)
    BY <2>5 DEF Range
  <2> QED BY <2>1, <2>6, <2>7, <2>8
<1>6. EachAppended(list, c, values) = both
  BY DEF EachAppended, both, more
<1> QED BY <1>4, <1>5, <1>6

LEMMA ExtendAppends ==
  ASSUME NEW S, NEW list \in Seq(Seq(S)), NEW values \in Seq(S)
  PROVE  /\ Extend(list, values) \in Seq(Seq(S))
         /\ Range(Extend(list, values)) = Grown(Range(list), Range(values))
<1> DEFINE Step(x, y) == EachAppended(x, y, values)
           n == Len(list)
           T == Seq(Seq(S))
           base == << >>
           step == [k \in 1 .. n |-> [x \in T |-> Step(x, list[k])]]
           Unrolls(it) == it = [s \in SUBSET (DOMAIN list) |->
                              IF s = {} THEN base ELSE Step(it[s \ {Max(s)}], list[Max(s)])]
           it == CHOOSE f : Unrolls(f)
<1>1. n \in Nat /\ DOMAIN list = 1 .. n
  OBVIOUS
<1>2. base \in T
  OBVIOUS
<1>3. ASSUME NEW k \in 1 .. n, NEW x \in T PROVE Step(x, list[k]) \in T
  <2>1. list[k] \in Seq(S)
    BY <1>1
  <2> QED BY <2>1, AppendedPoints
<1>4. Extend(list, values) = it[1 .. n]
  BY <1>1 DEF Extend, EachAppended, FoldLeft, MapThenFoldSet
<1> HIDE DEF Step, T, base
<1>5. PICK f \in [SUBSET (1 .. n) -> T] : Folds(f, n, base, step)
  <2>1. step \in [1 .. n -> [T -> T]]
    BY <1>3
  <2> HIDE DEF step, n
  <2> QED BY <1>1, <1>2, <2>1, FoldRuns
<1>6. Unrolls(it)
  <2>1. ASSUME NEW s \in SUBSET (1 .. n), s # {}
        PROVE  step[Max(s)][f[s \ {Max(s)}]] = Step(f[s \ {Max(s)}], list[Max(s)])
    <3>1. s \in SUBSET (0 .. n)
      BY <1>1
    <3>2. Max(s) \in 1 .. n
      BY <1>1, <2>1, <3>1, LastPosition
    <3> QED BY <3>2
  <2> HIDE DEF step, n
  <2>2. Unrolls(f)
    BY <1>1, <1>5, <2>1 DEF Folds
  <2> HIDE DEF Unrolls
  <2> QED BY <2>2
<1> HIDE DEF it
<1>7. it[1 .. 0] = base /\ \A k \in 1 .. n : it[1 .. k] = Step(it[1 .. k - 1], list[k])
  <2>1. it[1 .. 0] = base
    BY <1>1, <1>6
  <2> SUFFICES ASSUME NEW k \in 1 .. n PROVE it[1 .. k] = Step(it[1 .. k - 1], list[k])
    BY <2>1
  <2>2. 1 .. k \in SUBSET (1 .. n) /\ 1 .. k # {} /\ Max(1 .. k) = k /\ (1 .. k) \ {k} = 1 .. k - 1
    BY <1>1, Prefix
  <2> HIDE DEF n
  <2> QED BY <1>1, <1>6, <2>2
<1>8. \A k \in 0 .. n : it[1 .. k] \in T
  <2> DEFINE runs == [k \in 0 .. n |-> it[1 .. k]]
  <2>1. runs[0] \in T /\ \A k \in 1 .. n : runs[k - 1] \in T => runs[k] \in T
    <3> HIDE DEF n
    <3> QED BY <1>1, <1>2, <1>3, <1>7
  <2>2. \A k \in 0 .. n : runs[k] \in T
    <3> HIDE DEF runs, n
    <3> QED BY <1>1, <2>1, RunsTyped
  <2> QED BY <2>2
<1> DEFINE First(k) == {list[i] : i \in 1 .. k}
           Upto(k) == Grown(First(k), Range(values))
           G == {k \in 0 .. n : Range(it[1 .. k]) = Upto(k)}
<1>9. \A k \in 0 .. n : k \in G
  <2>1. 0 \in G
    <3>1. it[1 .. 0] = << >> /\ 1 .. 0 = {} /\ 0 \in 0 .. n
      BY <1>1, <1>7 DEF base
    <3>2. Range(<< >>) = {}
      BY DEF Range
    <3>3. Upto(0) = {}
      BY <3>1 DEF Grown
    <3> HIDE DEF Upto
    <3> QED BY <3>1, <3>2, <3>3
  <2>2. ASSUME NEW k \in 1 .. n, k - 1 \in G PROVE k \in G
    <3> DEFINE before == it[1 .. k - 1]
               after == it[1 .. k]
    <3> DEFINE c == list[k]
    <3> HIDE DEF Upto
    <3>0. Range(before) = Upto(k - 1)
      BY <2>2
    <3>1. /\ Range(before) = Upto(k - 1) /\ k - 1 \in 0 .. n /\ k \in 0 .. n
          /\ after = Step(before, c)
      BY <1>1, <1>7, <3>0
    <3>2. before \in Seq(Seq(S)) /\ c \in Seq(S)
      BY <1>1, <1>8, <3>1 DEF T
    <3>4. First(k) = First(k - 1) \cup {c}
      <4>1. 1 .. k = (1 .. k - 1) \cup {k}
        BY <1>1
      <4> QED BY <4>1
    <3> HIDE DEF before, after, n, c, First
    <3>3. Range(after) = Range(before) \cup Grown({c}, Range(values))
      <4>1. Range(EachAppended(before, c, values)) = Range(before) \cup Grown({c}, Range(values))
        BY <3>2, AppendedPoints
      <4>2. after = EachAppended(before, c, values)
        BY <3>1 DEF Step
      <4> QED BY <4>1, <4>2
    <3>5. Upto(k) = Upto(k - 1) \cup Grown({c}, Range(values))
      <4>1. Upto(k) = Grown(First(k), Range(values)) /\ Upto(k - 1) = Grown(First(k - 1), Range(values))
        BY Zenon DEF Upto
      <4>2. Grown(First(k - 1) \cup {c}, Range(values))
              = Grown(First(k - 1), Range(values)) \cup Grown({c}, Range(values))
        BY Zenon, GrowsByOne
      <4> QED BY Zenon, <3>4, <4>1, <4>2
    <3>6. Range(after) = Upto(k)
      BY <3>1, <3>3, <3>5
    <3> QED BY <3>1, <3>6 DEF after
  <2>3. G \in SUBSET (0 .. n)
    OBVIOUS
  <2> HIDE DEF G, n
  <2> QED BY <1>1, <2>1, <2>2, <2>3, IntervalInduction
<1>10. n \in 0 .. n
  BY <1>1
<1>11. Range(it[1 .. n]) = Upto(n)
  <2> HIDE DEF n, Upto
  <2> QED BY <1>9, <1>10
<1>12. it[1 .. n] \in T
  BY <1>8, <1>10
<1>13. Range(list) = First(n)
  BY <1>1 DEF Range
<1> QED BY <1>4, <1>11, <1>12, <1>13 DEF T

(* The points of an axis that is accepted.                                   *)
LEMMA AxisHasPoints ==
  ASSUME NEW axis \in [Bounds -> Int], AxisOK(axis)
  PROVE  Values(axis) \in Seq(Points(axis))
<1> DEFINE m == 1 + (axis.max - axis.min) \div axis.step
<1>1. axis.min \in Int /\ axis.max \in Int /\ axis.step \in Int /\ axis.step > 0 /\ axis.max - axis.min >= 0
  BY DEF AxisOK, Bounds
<1>2. (axis.max - axis.min) \div axis.step >= 0 /\ (axis.max - axis.min) \div axis.step \in Int
  <2> DEFINE d == axis.max - axis.min
             w == axis.step
             q == d \div w
             r == d % w
  <2>1. d \in Int /\ d >= 0 /\ w \in Int /\ w > 0
    BY <1>1
  <2> HIDE DEF d, w
  <2>2. q \in Int /\ r \in 0 .. w - 1 /\ d = w * q + r
    BY <2>1
  <2> HIDE DEF q, r
  <2>3. q >= 0
    <3> SUFFICES ASSUME q <= -1 PROVE FALSE
      BY <2>2
    <3>1. w * q <= w * (-1)
      BY <2>1, <2>2
    <3> QED BY <2>1, <2>2, <3>1
  <2> QED BY <2>2, <2>3 DEF d, w, q
<1>3. m \in Nat
  BY <1>2
<1>4. DOMAIN Values(axis) = 1 .. m /\ Values(axis) = [i \in 1 .. m |-> Values(axis)[i]]
  BY DEF Values
<1>5. \A i \in 1 .. m : Values(axis)[i] \in Points(axis)
  BY <1>4 DEF Points, Range
<1> HIDE DEF m
<1> QED BY <1>3, <1>4, <1>5

(* The tuples over the first k axes.                                         *)
TuplesOf(S, axes, k) == {c \in Seq(S) : Len(c) = k /\ \A i \in 1 .. k : c[i] \in Points(axes[i])}

LEMMA TuplesGrow ==
  ASSUME NEW S, NEW axes, NEW k \in Nat \ {0}, Points(axes[k]) \subseteq S
  PROVE  TuplesOf(S, axes, k) = Grown(TuplesOf(S, axes, k - 1), Points(axes[k]))
<1>1. k \in Nat /\ k - 1 \in Nat /\ k \in 1 .. k /\ 1 .. k - 1 \subseteq 1 .. k /\ k \notin 1 .. k - 1
      /\ \A i \in 1 .. k : i \in 1 .. k - 1 \/ i = k
  OBVIOUS
<1>2. ASSUME NEW c \in TuplesOf(S, axes, k - 1), NEW p \in Points(axes[k])
      PROVE  Append(c, p) \in TuplesOf(S, axes, k)
  <2>1. c \in Seq(S) /\ Len(c) = k - 1 /\ p \in S /\ \A i \in 1 .. k - 1 : c[i] \in Points(axes[i])
    BY <1>2 DEF TuplesOf
  <2>2. /\ Append(c, p) \in Seq(S) /\ Len(Append(c, p)) = (k - 1) + 1
        /\ \A i \in 1 .. k - 1 : Append(c, p)[i] = c[i]
        /\ Append(c, p)[(k - 1) + 1] = p
    BY <2>1, Appends
  <2>3. (k - 1) + 1 = k
    BY <1>1
  <2> QED BY <1>1, <1>2, <2>1, <2>2, <2>3 DEF TuplesOf
<1>3. ASSUME NEW c \in TuplesOf(S, axes, k)
      PROVE  \E f \in TuplesOf(S, axes, k - 1), p \in Points(axes[k]) : c = Append(f, p)
  <2> DEFINE f == [i \in 1 .. k - 1 |-> c[i]]
             p == c[k]
             t == Append(f, p)
  <2>1. c \in Seq(S) /\ Len(c) = k /\ DOMAIN c = 1 .. k /\ \A i \in 1 .. k : c[i] \in Points(axes[i])
    BY <1>3 DEF TuplesOf
  <2>2. f \in Seq(S) /\ Len(f) = k - 1 /\ \A i \in 1 .. k - 1 : f[i] = c[i]
    <3>1. \A i \in 1 .. k - 1 : c[i] \in S
      BY <1>1, <2>1
    <3> QED BY <1>1, <3>1
  <2> HIDE DEF f
  <2>3. f \in TuplesOf(S, axes, k - 1) /\ p \in Points(axes[k]) /\ p \in S
    BY <1>1, <2>1, <2>2 DEF TuplesOf
  <2>4. /\ t \in Seq(S) /\ Len(t) = (k - 1) + 1 /\ DOMAIN t = 1 .. (k - 1) + 1
        /\ \A i \in 1 .. k - 1 : t[i] = f[i]
        /\ t[(k - 1) + 1] = p
    BY <2>2, <2>3, Appends
  <2>5. (k - 1) + 1 = k
    BY <1>1
  <2> HIDE DEF t
  <2>6. DOMAIN t = DOMAIN c /\ \A i \in DOMAIN c : t[i] = c[i]
    BY <1>1, <2>1, <2>2, <2>4, <2>5
  <2>7. t = c
    <3>1. t = [i \in DOMAIN t |-> t[i]] /\ c = [i \in DOMAIN c |-> c[i]]
      BY <2>1, <2>4
    <3> QED BY <2>6, <3>1
  <2> QED BY <2>3, <2>7 DEF t
<1>4. \A t : t \in Grown(TuplesOf(S, axes, k - 1), Points(axes[k])) <=>
             \E f \in TuplesOf(S, axes, k - 1), p \in Points(axes[k]) : t = Append(f, p)
  BY DEF Grown
<1>5. \A t : t \in TuplesOf(S, axes, k) <=> t \in Grown(TuplesOf(S, axes, k - 1), Points(axes[k]))
  <2> DEFINE A == TuplesOf(S, axes, k)
             B == TuplesOf(S, axes, k - 1)
             P == Points(axes[k])
             C == Grown(B, P)
  <2>1. \A f \in B, p \in P : Append(f, p) \in A
    BY <1>2
  <2>2. \A c \in A : \E f \in B, p \in P : c = Append(f, p)
    BY <1>3
  <2>3. \A t : t \in C <=> \E f \in B, p \in P : t = Append(f, p)
    BY <1>4
  <2> HIDE DEF A, B, P, C
  <2>4. ASSUME NEW t \in A PROVE t \in C
    BY Zenon, <2>2, <2>3
  <2>5. ASSUME NEW t \in C PROVE t \in A
    <3>1. PICK f \in B, p \in P : t = Append(f, p)
      BY Zenon, <2>3
    <3> QED BY Zenon, <2>1, <3>1
  <2> QED BY Zenon, <2>4, <2>5 DEF A, B, P, C
<1> QED BY <1>5

(* The combinations are the tuples of points.                                *)
LEMMA CombinationsAreTuples ==
  ASSUME NEW axes \in Seq([Bounds -> Int]), \A i \in DOMAIN axes : AxisOK(axes[i]),
         NEW S, S = UNION {Points(axes[i]) : i \in DOMAIN axes}
  PROVE  /\ Combinations(axes) \in Seq(Seq(S))
         /\ Range(Combinations(axes)) = TuplesOf(S, axes, Len(axes))
<1> DEFINE Step(x, y) == Extend(x, Values(y))
           n == Len(axes)
           T == Seq(Seq(S))
           base == << << >> >>
           step == [k \in 1 .. n |-> [x \in T |-> Step(x, axes[k])]]
           Unrolls(it) == it = [s \in SUBSET (DOMAIN axes) |->
                              IF s = {} THEN base ELSE Step(it[s \ {Max(s)}], axes[Max(s)])]
           it == CHOOSE f : Unrolls(f)
<1>1. n \in Nat /\ DOMAIN axes = 1 .. n
  OBVIOUS
<1>2. base \in T
  OBVIOUS
<1>3. ASSUME NEW k \in 1 .. n, NEW x \in T PROVE Step(x, axes[k]) \in T
  <2>1. Values(axes[k]) \in Seq(S)
    <3>1. axes[k] \in [Bounds -> Int] /\ AxisOK(axes[k]) /\ Points(axes[k]) \subseteq S
      BY <1>1
    <3>2. Values(axes[k]) \in Seq(Points(axes[k]))
      BY <3>1, AxisHasPoints
    <3> QED BY <3>1, <3>2
  <2> QED BY <2>1, ExtendAppends
<1>4. Combinations(axes) = it[1 .. n]
  BY <1>1 DEF Combinations, FoldLeft, MapThenFoldSet
<1> HIDE DEF Step, T, base
<1>5. PICK f \in [SUBSET (1 .. n) -> T] : Folds(f, n, base, step)
  <2>1. step \in [1 .. n -> [T -> T]]
    BY <1>3
  <2> HIDE DEF step, n
  <2> QED BY <1>1, <1>2, <2>1, FoldRuns
<1>6. Unrolls(it)
  <2>1. ASSUME NEW s \in SUBSET (1 .. n), s # {}
        PROVE  step[Max(s)][f[s \ {Max(s)}]] = Step(f[s \ {Max(s)}], axes[Max(s)])
    <3>1. s \in SUBSET (0 .. n)
      BY <1>1
    <3>2. Max(s) \in 1 .. n
      BY <1>1, <2>1, <3>1, LastPosition
    <3> QED BY <3>2
  <2> HIDE DEF step, n
  <2>2. Unrolls(f)
    BY <1>1, <1>5, <2>1 DEF Folds
  <2> HIDE DEF Unrolls
  <2> QED BY <2>2
<1> HIDE DEF it
<1>7. it[1 .. 0] = base /\ \A k \in 1 .. n : it[1 .. k] = Step(it[1 .. k - 1], axes[k])
  <2>1. it[1 .. 0] = base
    BY <1>1, <1>6
  <2> SUFFICES ASSUME NEW k \in 1 .. n PROVE it[1 .. k] = Step(it[1 .. k - 1], axes[k])
    BY <2>1
  <2>2. 1 .. k \in SUBSET (1 .. n) /\ 1 .. k # {} /\ Max(1 .. k) = k /\ (1 .. k) \ {k} = 1 .. k - 1
    BY <1>1, Prefix
  <2> HIDE DEF n
  <2> QED BY <1>1, <1>6, <2>2
<1>8. \A k \in 0 .. n : it[1 .. k] \in T
  <2> DEFINE runs == [k \in 0 .. n |-> it[1 .. k]]
  <2>1. runs[0] \in T /\ \A k \in 1 .. n : runs[k - 1] \in T => runs[k] \in T
    <3> HIDE DEF n
    <3> QED BY <1>1, <1>2, <1>3, <1>7
  <2>2. \A k \in 0 .. n : runs[k] \in T
    <3> HIDE DEF runs, n
    <3> QED BY <1>1, <2>1, RunsTyped
  <2> QED BY <2>2
<1> DEFINE G == {k \in 0 .. n : Range(it[1 .. k]) = TuplesOf(S, axes, k)}
<1>9. \A k \in 0 .. n : k \in G
  <2>1. 0 \in G
    <3>1. it[1 .. 0] = << << >> >> /\ 0 \in 0 .. n
      BY <1>1, <1>7 DEF base
    <3>2. Range(<< << >> >>) = {<< >>}
      BY DEF Range
    <3>3. TuplesOf(S, axes, 0) = {<< >>}
      <4>1. << >> \in Seq(S) /\ Len(<< >>) = 0 /\ 1 .. 0 = {}
        OBVIOUS
      <4>2. << >> \in TuplesOf(S, axes, 0)
        BY <4>1 DEF TuplesOf
      <4>3. \A c \in TuplesOf(S, axes, 0) : c = << >>
        BY EmptySeq DEF TuplesOf
      <4> QED BY <4>2, <4>3
    <3> QED BY <3>1, <3>2, <3>3
  <2>2. ASSUME NEW k \in 1 .. n, k - 1 \in G PROVE k \in G
    <3> DEFINE before == it[1 .. k - 1]
               after == it[1 .. k]
    <3>1. /\ Range(before) = TuplesOf(S, axes, k - 1) /\ k - 1 \in 0 .. n /\ k \in 0 .. n
          /\ after = Extend(before, Values(axes[k]))
      BY <1>1, <1>7, <2>2 DEF Step
    <3>2. before \in Seq(Seq(S))
      BY <1>1, <1>8, <3>1 DEF T
    <3> HIDE DEF before
    <3>3. axes[k] \in [Bounds -> Int] /\ AxisOK(axes[k]) /\ Points(axes[k]) \subseteq S /\ k \in Nat \ {0}
      BY <1>1
    <3> HIDE DEF n
    <3>4. Values(axes[k]) \in Seq(S)
      <4>1. Values(axes[k]) \in Seq(Points(axes[k]))
        BY <3>3, AxisHasPoints
      <4> QED BY <3>3, <4>1
    <3>5. Range(after) = Grown(Range(before), Range(Values(axes[k])))
      BY <3>1, <3>2, <3>4, ExtendAppends
    <3>6. TuplesOf(S, axes, k) = Grown(TuplesOf(S, axes, k - 1), Points(axes[k]))
      BY Zenon, <3>3, TuplesGrow
    <3>7. Range(after) = TuplesOf(S, axes, k)
      BY <3>1, <3>5, <3>6 DEF Points
    <3> QED BY <3>1, <3>7
  <2>3. G \in SUBSET (0 .. n)
    OBVIOUS
  <2> HIDE DEF G, n
  <2> QED BY <1>1, <2>1, <2>2, <2>3, IntervalInduction
<1>10. n \in 0 .. n
  BY <1>1
<1>11. Range(it[1 .. n]) = TuplesOf(S, axes, n)
  <2> HIDE DEF n
  <2> QED BY <1>9, <1>10
<1>12. it[1 .. n] \in T
  BY <1>8, <1>10
<1> QED BY <1>4, <1>11, <1>12 DEF T

LEMMA TuplesAreThese ==
  ASSUME NEW axes \in Seq([Bounds -> Int]),
         NEW S, S = UNION {Points(axes[i]) : i \in DOMAIN axes}
  PROVE  TuplesOf(S, axes, Len(axes)) = Tuples(axes)
<1> DEFINE n == Len(axes)
<1>1. n \in Nat /\ DOMAIN axes = 1 .. n
  OBVIOUS
<1>2. Tuples(axes) = {c \in [1 .. n -> S] : \A i \in 1 .. n : c[i] \in Points(axes[i])}
  BY <1>1 DEF Tuples
<1>3. \A c : c \in [1 .. n -> S] <=> c \in Seq(S) /\ Len(c) = n
  <2> HIDE DEF n
  <2>1. ASSUME NEW c \in [1 .. n -> S] PROVE c \in Seq(S) /\ Len(c) = n
    BY <1>1
  <2>2. ASSUME NEW c \in Seq(S), Len(c) = n PROVE c \in [1 .. n -> S]
    BY <2>2
  <2> QED BY <2>1, <2>2
<1>4. TuplesOf(S, axes, n) = {c \in Seq(S) : Len(c) = n /\ \A i \in 1 .. n : c[i] \in Points(axes[i])}
  BY DEF TuplesOf
<1> HIDE DEF n
<1>5. TuplesOf(S, axes, n) = Tuples(axes)
  BY <1>2, <1>3, <1>4
<1> QED BY <1>5 DEF n

(* build_runtime_grid, for any axes and any limit.                           *)
LEMMA GridSamples ==
  ASSUME NEW f, f.axes \in Seq([Bounds -> Int]), \A i \in DOMAIN f.axes : AxisOK(f.axes[i]),
         f.limit \in Nat \ {0}
  PROVE  GridIsASample(Grid(f.axes, f.limit), f)
<1> DEFINE axes == f.axes
           S == UNION {Points(axes[i]) : i \in DOMAIN axes}
           all == Combinations(axes)
           once == Deduped(all)
           out == Downsampled(once, f.limit)
<1>1. all \in Seq(Seq(S)) /\ Range(all) = TuplesOf(S, axes, Len(axes))
  BY CombinationsAreTuples
<1>2. TuplesOf(S, axes, Len(axes)) = Tuples(axes)
  BY TuplesAreThese
<1> HIDE DEF S, all
<1>3. once \in Seq(Seq(S)) /\ Distinct(once) /\ Range(once) = Tuples(axes)
  BY <1>1, <1>2, DedupedKeepsAll
<1> HIDE DEF once
<1>4. /\ out \in Seq(Seq(S)) /\ Distinct(out) /\ Range(out) \subseteq Range(once)
      /\ Len(out) = IF Len(once) < f.limit THEN Len(once) ELSE f.limit
  BY <1>3, DownsampledSamples
<1>5. Grid(f.axes, f.limit) = out
  BY DEF Grid, all, once
<1> HIDE DEF out
<1>6. Cardinality(Range(once)) = Len(once) /\ Cardinality(Range(out)) = Len(out)
  BY <1>3, <1>4, DistinctCounts
<1> QED BY <1>3, <1>4, <1>5, <1>6 DEF GridIsASample

(* What a file that loads is parsed to.                                      *)
LEMMA ParsedIsTyped ==
  ASSUME NEW settings, settings = DefaultSettings \/ settings \in Files, Loads(settings), Enabled(settings)
  PROVE  LET f == Parsed(settings)
         IN  /\ f.axes \in Seq([Bounds -> Int]) /\ \A i \in DOMAIN f.axes : AxisOK(f.axes[i])
             /\ f.limit \in Nat \ {0}
<1> DEFINE f == Parsed(settings)
           given == DefaultSettings.axes
<1>1. settings # Missing /\ f.limit > 0 /\ \A i \in DOMAIN f.axes : AxisOK(f.axes[i])
  BY DEF Loads, Enabled
<1>2. DefaultSettings.limit \in Nat /\ given \in Seq([Bounds -> Int])
  BY SettingsAssumption
<1>3. WellTyped(settings)
  <2>1. CASE settings \in Files
    BY <1>1, <2>1, FilesAssumption
  <2>2. CASE settings = DefaultSettings
    <3>1. \A i \in DOMAIN given : \A b \in DOMAIN given[i] : given[i][b] \in Int
      BY <1>2
    <3> QED BY <1>2, <2>2, <3>1 DEF WellTyped
  <2> QED BY <2>1, <2>2
<1>4. f.limit \in Nat
  BY <1>2, <1>3 DEF Parsed, Setting, WellTyped
<1>5. f.axes \in Seq([Bounds -> Int])
  <2>1. f.axes = [i \in DOMAIN given |-> IF i \in DOMAIN settings.axes
                                         THEN NamedAxis(settings.axes[i]) ELSE given[i]]
    BY DEF Parsed
  <2>2. ASSUME NEW i \in DOMAIN settings.axes PROVE NamedAxis(settings.axes[i]) \in [Bounds -> Int]
    <3>1. \A b \in DOMAIN settings.axes[i] : settings.axes[i][b] \in Int
      BY <1>3 DEF WellTyped
    <3>2. \A b \in Bounds : DefaultAxis[b] \in Int
      BY DEF DefaultAxis, Bounds
    <3> QED BY <3>1, <3>2 DEF NamedAxis
  <2>3. Len(given) \in Nat /\ DOMAIN given = 1 .. Len(given)
        /\ \A i \in 1 .. Len(given) : given[i] \in [Bounds -> Int]
    BY <1>2
  <2> HIDE DEF f, given
  <2>4. f.axes = [i \in 1 .. Len(given) |-> f.axes[i]]
        /\ \A i \in 1 .. Len(given) : f.axes[i] \in [Bounds -> Int]
    BY <2>1, <2>2, <2>3
  <2> QED BY <2>3, <2>4
<1>6. f.limit \in Nat \ {0}
  BY <1>1, <1>4
<1> QED BY <1>1, <1>5, <1>6

(* What is pending was generated from a file that loads.                     *)
GridInv ==
  /\ file = DefaultSettings \/ file \in Files
  /\ GenerationSamplesItsGrid

LEMMA GenerationIsASample ==
  ASSUME NEW settings, settings = DefaultSettings \/ settings \in Files, Loads(settings), Enabled(settings)
  PROVE  GridIsASample(Generation(settings).configs, Generation(settings).config)
<1> DEFINE f == Parsed(settings)
<1>1. Generation(settings).configs = Grid(f.axes, f.limit) /\ Generation(settings).config = f
  BY DEF Generation
<1>2. GridIsASample(Grid(f.axes, f.limit), f)
  BY ParsedIsTyped, GridSamples
<1> QED BY <1>1, <1>2

LEMMA GridStep == GridInv /\ [Next]_vars => GridInv'
<1> SUFFICES ASSUME GridInv, [Next]_vars PROVE GridInv'
  OBVIOUS
<1> USE DEF GridInv, GenerationSamplesItsGrid
<1>1. ASSUME NEW f \in Files, EditFile(f) PROVE GridInv'
  BY <1>1 DEF EditFile
<1>2. ASSUME GridRefresh PROVE GridInv'
  <2>1. file' = file /\ (pending' = pending \/ pending' = None
          \/ (Loads(file) /\ Enabled(file) /\ pending' = Generation(file)))
    BY <1>2 DEF GridRefresh
  <2>2. CASE Loads(file) /\ Enabled(file) /\ pending' = Generation(file)
    <3>1. GridIsASample(Generation(file).configs, Generation(file).config)
      BY <2>2, GenerationIsASample
    <3> QED BY <2>1, <2>2, <3>1
  <2> QED BY <2>1, <2>2
<1>3. ASSUME GridDrain \/ GridDecide \/ GridWrite \/ GridPatch PROVE GridInv'
  <2>1. file' = file /\ pending' \in {pending, None}
    BY <1>3 DEF GridDrain, GridDecide, GridWrite, GridPatch
  <2> QED BY <2>1
<1>4. ASSUME UNCHANGED <<file, pending>> PROVE GridInv'
  BY <1>4
<1>5. ASSUME NEW s \in Symbols, TickFleet(s) \/ Prune(s) PROVE UNCHANGED <<file, pending>>
  BY <1>5 DEF TickFleet, Prune, gridVars
<1>6. ASSUME BatchLoop PROVE UNCHANGED <<file, pending>>
  BY <1>6 DEF BatchLoop, BatchStart, BatchUpsert, BatchPatch, BatchSignal, gridVars
<1>7. ASSUME FreshRead \/ FreshReplace PROVE UNCHANGED <<file, pending>>
  BY <1>7 DEF FreshRead, FreshReplace, gridVars
<1>8. ASSUME UNCHANGED vars PROVE UNCHANGED <<file, pending>>
  BY <1>8 DEF vars, gridVars
<1> QED BY <1>1, <1>2, <1>3, <1>4, <1>5, <1>6, <1>7, <1>8 DEF Next, GridLoop

(* Whatever the axes, their steps and the limit are, and however the file is *)
(* edited while a generation waits: what waits to be applied is a sample of  *)
(* the grid in its file, as many different combinations of its points as     *)
(* there are or as max_configs allows.                                       *)
THEOREM GridsAreSampled == Spec => []GenerationSamplesItsGrid
<1>1. Init => GridInv
  BY DEF Init, GridInv, GenerationSamplesItsGrid, Ensured
<1> QED BY <1>1, GridStep, PTL DEF Spec, GridInv
=============================================================================
