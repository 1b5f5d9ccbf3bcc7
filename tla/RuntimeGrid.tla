----------------------------- MODULE RuntimeGrid -----------------------------
(***************************************************************************)
(* How runtime-grid.toml becomes a generation of configs                   *)
(* (src/runtime_grid.rs): the points of each axis, their combinations      *)
(* without repetition, and a sample of them that keeps within max_configs. *)
(*                                                                         *)
(* A config is the tuple of its points.  The points of a real axis are     *)
(* counted in units finer than the Precision they are rounded to.          *)
(***************************************************************************)
EXTENDS Integers, Sequences, FiniteSets, SequencesExt

CONSTANTS
  Precision,       \* fine units in the sixth decimal place
  DefaultSettings  \* RuntimeGridConfig::default: every setting and axis

Bounds == {"min", "max", "step"}

ASSUME SettingsAssumption ==
  DefaultSettings.limit \in Nat /\ DefaultSettings.axes \in Seq([Bounds -> Int])

(* What toml can hold: a setting that is there has its type.               *)
WellTyped(settings) ==
  /\ "limit" \in DOMAIN settings => settings.limit \in Nat
  /\ \A i \in DOMAIN settings.axes : \A b \in DOMAIN settings.axes[i] : settings.axes[i][b] \in Int

(* A file names the settings and the axes it changes, and of an axis the   *)
(* bounds it changes: serde fills in the rest, an axis that is named from  *)
(* the axis default and not from its own.                                  *)
DefaultAxis == [min |-> 0, max |-> 0, step |-> 1]
Setting(settings, name) ==
  IF name \in DOMAIN settings THEN settings[name] ELSE DefaultSettings[name]
NamedAxis(axis) == [b \in Bounds |-> IF b \in DOMAIN axis THEN axis[b] ELSE DefaultAxis[b]]
Parsed(settings) ==
  [ enabled |-> Setting(settings, "enabled"),
    limit |-> Setting(settings, "limit"),
    axes |-> [i \in DOMAIN DefaultSettings.axes |->
                IF i \in DOMAIN settings.axes THEN NamedAxis(settings.axes[i])
                                             ELSE DefaultSettings.axes[i]] ]

(* ensure_runtime_grid_config_file: a missing file is written with every   *)
(* default spelled out.                                                    *)
Missing == [kind |-> "missing"]
Ensured(settings) == IF settings = Missing THEN DefaultSettings ELSE settings

(* An axis [min, max, step] that GridAxis::values accepts.                 *)
AxisOK(axis) == axis.step > 0 /\ axis.max >= axis.min

Rounded(v) == ((v + Precision \div 2) \div Precision) * Precision

Values(axis) ==
  [i \in 1 .. 1 + (axis.max - axis.min) \div axis.step |->
     Rounded(axis.min + (i - 1) * axis.step)]

(* The combinations, the last axis running fastest.                        *)
Extend(combinations, values) ==
  FoldLeft(LAMBDA out, c : out \o [j \in DOMAIN values |-> Append(c, values[j])],
           <<>>, combinations)
Combinations(axes) ==
  FoldLeft(LAMBDA combinations, axis : Extend(combinations, Values(axis)), <<(<<>>)>>, axes)

(* Each config once, where it comes first.                                 *)
Keep(out, c) == IF c \in Range(out) THEN out ELSE Append(out, c)
Deduped(s) == FoldLeft(Keep, <<>>, s)

(* Mutation of Downsampled: every n-th config, n a whole number.           *)
Downsampled_WholeStride(s, limit) ==
  IF Len(s) <= limit THEN s
  ELSE LET stride == 1 + (Len(s) - 1) \div limit
       IN  [i \in 1 .. 1 + (Len(s) - 1) \div stride |-> s[1 + (i - 1) * stride]]

(* downsample_configs: `limit` configs at a fractional stride, filled up   *)
(* with the first others should two strides fall on the same one.          *)
Picked(s, limit) == [i \in 1 .. limit |-> s[1 + ((i - 1) * Len(s)) \div limit]]
FilledUp(out, s, limit) ==
  FoldLeft(LAMBDA kept, c : IF Len(kept) = limit THEN kept ELSE Keep(kept, c), out, s)
Downsampled(s, limit) ==
  IF Len(s) <= limit THEN s ELSE FilledUp(Deduped(Picked(s, limit)), s, limit)

(* build_runtime_grid.                                                     *)
Grid(axes, limit) == Downsampled(Deduped(Combinations(axes)), limit)

(* load_runtime_grid_generation: the file's error, or what it loads to.    *)
Loads(settings) ==
  /\ settings # Missing
  /\ LET f == Parsed(settings)
     IN  f.enabled => f.limit > 0 /\ \A i \in DOMAIN f.axes : AxisOK(f.axes[i])
Enabled(settings) == Parsed(settings).enabled
Generation(settings) ==
  LET f == Parsed(settings)
  IN  [kind |-> "generation", config |-> f, configs |-> Grid(f.axes, f.limit)]

-----------------------------------------------------------------------------
(* What a grid promises: as many different configs as there are            *)
(* combinations of its points, or its limit, none of them listed twice.    *)
Points(axis) == Range(Values(axis))
Tuples(axes) ==
  {c \in [DOMAIN axes -> UNION {Points(axes[i]) : i \in DOMAIN axes}] :
     \A i \in DOMAIN axes : c[i] \in Points(axes[i])}
GridIsASample(grid, f) ==
  /\ Range(grid) \subseteq Tuples(f.axes)
  /\ Cardinality(Range(grid)) = Len(grid)
  /\ Len(grid) = IF Cardinality(Tuples(f.axes)) < f.limit
                 THEN Cardinality(Tuples(f.axes)) ELSE f.limit
=============================================================================
