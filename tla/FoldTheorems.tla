----------------------------- MODULE FoldTheorems -----------------------------
(* Induction over an interval, and FoldLeft, which runs over the prefixes  *)
(* of a sequence: what the proofs about lists of candidates, trades and    *)
(* configs have in common.  A fold has an operator, so its runs cannot be  *)
(* a lemma; each use of FoldRuns names the step of its own fold.           *)
EXTENDS Integers, SequencesExt, FiniteSetTheorems, SequenceTheorems, WellFoundedInduction, TLAPS

(* Induction over an interval, for a set.                                  *)
LEMMA IntervalInduction ==
  ASSUME NEW n \in Nat, NEW G \in SUBSET (0 .. n), 0 \in G,
         \A k \in 1 .. n : k - 1 \in G => k \in G
  PROVE  \A k \in 0 .. n : k \in G
<1> DEFINE Rest == (0 .. n) \ G
<1> SUFFICES ASSUME Rest # {} PROVE FALSE
  OBVIOUS
<1>1. Rest \in SUBSET Nat
  OBVIOUS
<1>2. PICK k \in Rest : \A b \in Rest : ~(<<b, k>> \in OpToRel(<, Nat))
  <2>1. IsWellFoundedOn(OpToRel(<, Nat), Nat)
    BY NatLessThanWellFounded
  <2> HIDE DEF Rest
  <2> QED BY <2>1, <1>1, WFMin
<1>3. k \in 1 .. n /\ k - 1 \in 0 .. n
  OBVIOUS
<1>4. k - 1 \notin Rest
  <2> SUFFICES ASSUME k - 1 \in Rest PROVE FALSE
    OBVIOUS
  <2>1. k - 1 \in Nat /\ k \in Nat /\ k - 1 < k
    BY <1>3
  <2>2. <<k - 1, k>> \in OpToRel(<, Nat)
    BY <2>1 DEF OpToRel
  <2> QED BY <1>2, <2>2
<1> QED BY <1>3, <1>4

(* A set of positions has a last one.                                      *)
LEMMA LastPosition ==
  ASSUME NEW n \in Nat, NEW S \in SUBSET (0 .. n), S # {}
  PROVE  Max(S) \in S /\ \A x \in S : x <= Max(S)
<1> DEFINE Dist == {n - x : x \in S}
<1>1. Dist \in SUBSET Nat /\ Dist # {}
  <2>1. \A x \in S : x \in Int /\ 0 <= x /\ x <= n
    OBVIOUS
  <2>2. \A x \in S : n - x \in Nat
    BY <2>1
  <2> QED BY <2>2
<1>2. PICK d \in Dist : \A b \in Dist : ~(<<b, d>> \in OpToRel(<, Nat))
  <2>1. IsWellFoundedOn(OpToRel(<, Nat), Nat)
    BY NatLessThanWellFounded
  <2> HIDE DEF Dist
  <2> QED BY <2>1, <1>1, WFMin
<1>3. PICK m \in S : d = n - m
  OBVIOUS
<1>4. \A x \in S : m >= x
  <2> SUFFICES ASSUME NEW x \in S, x > m PROVE FALSE
    OBVIOUS
  <2>1. n - x \in Dist /\ n - x < d /\ n - x \in Nat /\ d \in Nat
    BY <1>3
  <2> HIDE DEF Dist
  <2> QED BY <1>2, <2>1 DEF OpToRel
<1>5. \E x \in S : \A y \in S : x >= y
  BY <1>4
<1>6. Max(S) \in S /\ \A y \in S : Max(S) >= y
  BY <1>5 DEF Max
<1> QED BY <1>6

Folds(it, n, base, step) ==
  \A s \in SUBSET (1 .. n) :
    it[s] = IF s = {} THEN base ELSE step[Max(s)][it[s \ {Max(s)}]]

(* FoldLeft is defined by recursion over the sets of positions: that there *)
(* is such a function, and that it runs through the prefixes.              *)
LEMMA FoldRuns ==
  ASSUME NEW n \in Nat, NEW T, NEW base \in T, NEW step \in [1 .. n -> [T -> T]]
  PROVE  \E it \in [SUBSET (1 .. n) -> T] : Folds(it, n, base, step)
<1> DEFINE Unrolls(f, k) == Folds(f, k, base, step)
           G == {k \in 0 .. n : \E f \in [SUBSET (1 .. k) -> T] : Unrolls(f, k)}
<1>1. 0 \in G
  <2> DEFINE f == [s \in SUBSET (1 .. 0) |-> base]
  <2>1. 1 .. 0 = {}
    OBVIOUS
  <2>2. f \in [SUBSET (1 .. 0) -> T] /\ Unrolls(f, 0)
    BY <2>1 DEF Folds
  <2>3. 0 \in 0 .. n
    OBVIOUS
  <2> HIDE DEF f, Unrolls
  <2> QED BY <2>2, <2>3
<1>2. ASSUME NEW k \in 1 .. n, k - 1 \in G PROVE k \in G
  <2>1. PICK f \in [SUBSET (1 .. k - 1) -> T] : Unrolls(f, k - 1)
    BY <1>2
  <2> DEFINE g == [s \in SUBSET (1 .. k) |-> IF k \in s THEN step[k][f[s \ {k}]] ELSE f[s]]
  <2>2. ASSUME NEW s \in SUBSET (1 .. k)
        PROVE  /\ k \in s => s \ {k} \in SUBSET (1 .. k - 1) /\ Max(s) = k
               /\ k \notin s => s \in SUBSET (1 .. k - 1)
               /\ s # {} => Max(s) \in s
    <3>1. s # {} => Max(s) \in s /\ \A x \in s : x <= Max(s)
      <4>1. k \in Nat /\ s \in SUBSET (0 .. k)
        OBVIOUS
      <4> QED BY <4>1, LastPosition
    <3>2. k \in s => Max(s) = k
      <4>1. \A x \in s : x \in Int /\ x <= k
        OBVIOUS
      <4> DEFINE m == Max(s)
      <4>2. k \in s => m \in Int /\ m <= k /\ k <= m /\ k \in Int
        BY <3>1, <4>1
      <4> HIDE DEF m
      <4>3. k \in s => m = k
        BY <4>2
      <4> QED BY <4>3 DEF m
    <3> QED BY <3>1, <3>2
  <2>3. g \in [SUBSET (1 .. k) -> T]
    BY <2>2
  <2>4. ASSUME NEW s \in SUBSET (1 .. k)
        PROVE  g[s] = IF s = {} THEN base ELSE step[Max(s)][g[s \ {Max(s)}]]
    <3>1. CASE k \in s
      <4>1. g[s] = step[k][f[s \ {k}]] /\ Max(s) = k
        BY <2>2, <3>1
      <4>2. s \ {k} \in SUBSET (1 .. k)
        OBVIOUS
      <4>3. g[s \ {k}] = f[s \ {k}]
        BY <4>2
      <4> HIDE DEF g
      <4> QED BY <3>1, <4>1, <4>3
    <3>2. CASE k \notin s
      <4>1. g[s] = f[s] /\ s \in SUBSET (1 .. k - 1)
        BY <2>2, <3>2
      <4>2. s \ {Max(s)} \in SUBSET (1 .. k) /\ k \notin s \ {Max(s)}
        BY <3>2
      <4>3. g[s \ {Max(s)}] = f[s \ {Max(s)}]
        BY <4>2
      <4> HIDE DEF g
      <4>4. f[s] = IF s = {} THEN base ELSE step[Max(s)][f[s \ {Max(s)}]]
        BY <2>1, <4>1 DEF Folds
      <4> QED BY <4>1, <4>3, <4>4
    <3> QED BY <3>1, <3>2
  <2> HIDE DEF g
  <2>5. Unrolls(g, k)
    BY <2>4 DEF Folds
  <2> HIDE DEF Unrolls
  <2> QED BY <2>3, <2>5
<1>3. \A k \in 0 .. n : k \in G
  <2>1. G \in SUBSET (0 .. n)
    OBVIOUS
  <2> HIDE DEF G
  <2> QED BY <1>1, <1>2, <2>1, IntervalInduction
<1>4. n \in G
  <2>1. n \in 0 .. n
    OBVIOUS
  <2> HIDE DEF G
  <2> QED BY <1>3, <2>1
<1> QED BY <1>4

(* The prefixes of the positions.                                          *)
LEMMA Prefix ==
  ASSUME NEW n \in Nat, NEW k \in 1 .. n
  PROVE  /\ 1 .. k \in SUBSET (1 .. n) /\ 1 .. k # {} /\ Max(1 .. k) = k
         /\ (1 .. k) \ {k} = 1 .. k - 1
<1>1. k \in Nat /\ 1 .. k \in SUBSET (0 .. k) /\ k \in 1 .. k
  OBVIOUS
<1>2. Max(1 .. k) \in 1 .. k /\ k <= Max(1 .. k)
  BY <1>1, LastPosition
<1>3. Max(1 .. k) = k
  BY <1>1, <1>2
<1>4. (1 .. k) \ {k} = 1 .. k - 1
  OBVIOUS
<1> QED BY <1>1, <1>3, <1>4

(* What holds of the first run and is kept by each holds of all.           *)
LEMMA RunsTyped ==
  ASSUME NEW n \in Nat, NEW T, NEW runs, runs[0] \in T,
         \A k \in 1 .. n : runs[k - 1] \in T => runs[k] \in T
  PROVE  \A k \in 0 .. n : runs[k] \in T
<1> DEFINE G == {k \in 0 .. n : runs[k] \in T}
<1>1. 0 \in G /\ G \in SUBSET (0 .. n) /\ \A k \in 1 .. n : k - 1 \in G => k \in G
  OBVIOUS
<1>2. \A k \in 0 .. n : k \in G
  <2> HIDE DEF G
  <2> QED BY <1>1, IntervalInduction
<1> QED BY <1>2

LEMMA RisesThroughout ==
  ASSUME NEW n \in Nat, NEW f \in [0 .. n -> Int], \A k \in 1 .. n : f[k - 1] <= f[k]
  PROVE  \A k \in 0 .. n : \A i \in 0 .. k : f[i] <= f[k]
<1> DEFINE G == {k \in 0 .. n : \A i \in 0 .. k : f[i] <= f[k]}
<1>1. 0 \in G
  <2>1. \A i \in 0 .. 0 : i = 0
    OBVIOUS
  <2> QED BY <2>1
<1>2. ASSUME NEW k \in 1 .. n, k - 1 \in G PROVE k \in G
  <2>1. \A i \in 0 .. k : i \in 0 .. n /\ (i = k \/ i \in 0 .. k - 1)
    OBVIOUS
  <2>2. k \in 0 .. n /\ k - 1 \in 0 .. n /\ f[k - 1] <= f[k]
    OBVIOUS
  <2>3. \A i \in 0 .. k - 1 : f[i] <= f[k - 1]
    BY <1>2
  <2>4. ASSUME NEW i \in 0 .. k PROVE f[i] <= f[k]
    <3>1. f[i] \in Int /\ f[k] \in Int /\ f[k - 1] \in Int
      BY <2>1, <2>2
    <3>2. CASE i = k
      BY <3>1, <3>2
    <3>3. CASE i \in 0 .. k - 1
      <4>1. f[i] <= f[k - 1]
        BY <2>3, <3>3
      <4> QED BY <2>2, <3>1, <4>1
    <3> QED BY <2>1, <3>2, <3>3
  <2> QED BY <2>2, <2>4
<1>3. G \in SUBSET (0 .. n)
  OBVIOUS
<1> HIDE DEF G
<1>4. \A k \in 0 .. n : k \in G
  BY <1>1, <1>2, <1>3, IntervalInduction
<1> QED BY <1>4 DEF G

(* The greatest number of a set, and sequences element by element.         *)
LEMMA GreatestIsMax ==
  ASSUME NEW S \in SUBSET Int, NEW m \in S, \A x \in S : x <= m
  PROVE  Max(S) = m
<1>1. \E x \in S : \A y \in S : x >= y
  OBVIOUS
<1>2. Max(S) \in S /\ \A y \in S : Max(S) >= y
  BY <1>1 DEF Max
<1>3. Max(S) >= m /\ Max(S) <= m /\ Max(S) \in Int /\ m \in Int
  BY <1>2
<1> QED BY <1>3

LEMMA Elements ==
  ASSUME NEW S, NEW s \in Seq(S), NEW i \in DOMAIN s
  PROVE  s[i] \in S /\ Len(s) \in Nat /\ DOMAIN s = 1 .. Len(s) /\ i \in 1 .. Len(s)
  OBVIOUS

LEMMA Appends ==
  ASSUME NEW S, NEW s \in Seq(S), NEW x \in S
  PROVE  /\ Len(s) \in Nat /\ DOMAIN s = 1 .. Len(s) /\ Append(s, x) \in Seq(S)
         /\ Len(Append(s, x)) = Len(s) + 1 /\ DOMAIN Append(s, x) = 1 .. Len(s) + 1
         /\ \A i \in 1 .. Len(s) : Append(s, x)[i] = s[i]
         /\ Append(s, x)[Len(s) + 1] = x
  BY AppendProperties
-----------------------------------------------------------------------------
(* Sorting.                                                                *)

(* Fractions with positive denominators are compared crosswise, and that   *)
(* is transitive.                                                          *)
LEMMA CrosswiseTransitive ==
  ASSUME NEW a \in Int, NEW b \in Nat \ {0}, NEW c \in Int, NEW d \in Nat \ {0},
         NEW e \in Int, NEW f \in Nat \ {0}, a * d >= c * b, c * f >= e * d
  PROVE  /\ a * f >= e * b
         /\ a * f = e * b => a * d = c * b /\ c * f = e * d
<1> DEFINE u == a * d - c * b
           v == c * f - e * d
           w == a * f - e * b
<1>1. u \in Nat /\ v \in Nat /\ w \in Int
  OBVIOUS
<1>2. w * d = u * f + v * b
  OBVIOUS
<1>3. u * f \in Nat /\ v * b \in Nat /\ (u * f = 0 => u = 0) /\ (v * b = 0 => v = 0)
  <2> HIDE DEF u, v
  <2> QED BY <1>1
<1>4. w >= 0 /\ (w = 0 => u = 0 /\ v = 0)
  <2> HIDE DEF u, v, w
  <2>1. w * d \in Nat
    BY <1>1, <1>2, <1>3
  <2>2. w >= 0
    BY <1>1, <2>1
  <2>3. w = 0 => u * f = 0 /\ v * b = 0
    BY <1>1, <1>2, <1>3
  <2> QED BY <1>3, <2>2, <2>3
<1> QED BY <1>1, <1>4

(* R orders any two members of S, strictly.                                *)
Orders(R, S) ==
  /\ \A x \in S : <<x, x>> \notin R
  /\ \A x, y \in S : x # y => <<x, y>> \in R \/ <<y, x>> \in R
  /\ \A x, y, z \in S : <<x, y>> \in R /\ <<y, z>> \in R => <<x, z>> \in R

(* One member comes behind all others.                                     *)
LEMMA LastOfOrder ==
  ASSUME NEW S, IsFiniteSet(S), S # {}, NEW R, Orders(R, S)
  PROVE  \E m \in S : \A x \in S : x # m => <<x, m>> \in R
<1> DEFINE Behind(x) == {y \in S : <<x, y>> \in R}
           counts == {Cardinality(Behind(x)) : x \in S}
<1>1. ASSUME NEW x PROVE IsFiniteSet(Behind(x)) /\ Cardinality(Behind(x)) \in Nat
  <2>1. Behind(x) \in SUBSET S
    OBVIOUS
  <2> QED BY <2>1, FS_Subset, FS_CardinalityType
<1>2. counts \in SUBSET Nat /\ counts # {}
  BY <1>1
<1>3. PICK d \in counts : \A b \in counts : ~(<<b, d>> \in OpToRel(<, Nat))
  <2>1. IsWellFoundedOn(OpToRel(<, Nat), Nat)
    BY NatLessThanWellFounded
  <2> HIDE DEF counts
  <2> QED BY <2>1, <1>2, WFMin
<1>4. PICK m \in S : d = Cardinality(Behind(m))
  OBVIOUS
<1>5. ASSUME NEW x \in S, x # m, <<x, m>> \notin R PROVE FALSE
  <2>1. <<m, x>> \in R
    BY <1>5 DEF Orders
  <2>2. Behind(x) \in SUBSET Behind(m)
    BY <2>1 DEF Orders
  <2>3. x \in Behind(m) /\ x \notin Behind(x)
    BY <2>1 DEF Orders
  <2> HIDE DEF Behind
  <2>4. Cardinality(Behind(x)) <= Cardinality(Behind(m)) /\ Cardinality(Behind(m)) # Cardinality(Behind(x))
    <3>1. IsFiniteSet(Behind(m)) /\ Behind(x) # Behind(m)
      BY <1>1, <2>3
    <3> QED BY Zenon, <2>2, <3>1, FS_Subset
  <2>5. Cardinality(Behind(x)) \in Nat /\ Cardinality(Behind(m)) \in Nat
    BY <1>1
  <2>6. <<Cardinality(Behind(x)), d>> \in OpToRel(<, Nat)
    BY <1>4, <2>4, <2>5 DEF OpToRel
  <2> QED BY <1>3, <2>6
<1> QED BY <1>5

(* A finite set can be listed in order.                                    *)
LEMMA SortedExists ==
  ASSUME NEW S, IsFiniteSet(S), NEW R, Orders(R, S)
  PROVE  /\ Cardinality(S) \in Nat
         /\ \E f \in [1 .. Cardinality(S) -> S] :
              \A i, k \in 1 .. Cardinality(S) : i < k => <<f[i], f[k]>> \in R
<1> DEFINE n == Cardinality(S)
           Sorted(f, k) == \A i, j \in 1 .. k : i < j => <<f[i], f[j]>> \in R
           G == {k \in 0 .. n : \A U \in SUBSET S :
                   Cardinality(U) = k => \E f \in [1 .. k -> U] : Sorted(f, k)}
<1>0. n \in Nat
  BY FS_CardinalityType
<1>1. 0 \in G
  <2> SUFFICES ASSUME NEW U \in SUBSET S, Cardinality(U) = 0
               PROVE  \E f \in [1 .. 0 -> U] : Sorted(f, 0)
    BY <1>0
  <2> DEFINE f == [i \in 1 .. 0 |-> i]
  <2>1. f \in [1 .. 0 -> U] /\ Sorted(f, 0)
    OBVIOUS
  <2> HIDE DEF f, Sorted
  <2> QED BY <2>1
<1>2. ASSUME NEW k \in 1 .. n, k - 1 \in G PROVE k \in G
  <2> SUFFICES ASSUME NEW U \in SUBSET S, Cardinality(U) = k
               PROVE  \E f \in [1 .. k -> U] : Sorted(f, k)
    BY <1>0
  <2>1. k \in Nat /\ k >= 1
    BY <1>0
  <2>2. IsFiniteSet(U) /\ U # {} /\ Orders(R, U)
    <3>1. IsFiniteSet(U)
      BY FS_Subset
    <3>2. U # {}
      BY <2>1, FS_EmptySet
    <3> QED BY <3>1, <3>2 DEF Orders
  <2>3. PICK m \in U : \A x \in U : x # m => <<x, m>> \in R
    BY <2>2, LastOfOrder
  <2>4. Cardinality(U \ {m}) = k - 1
    BY <2>2, FS_RemoveElement
  <2>5. PICK f \in [1 .. k - 1 -> U \ {m}] : Sorted(f, k - 1)
    BY <1>2, <2>4
  <2> DEFINE g == [i \in 1 .. k |-> IF i = k THEN m ELSE f[i]]
  <2>6. \A i \in 1 .. k : i = k \/ i \in 1 .. k - 1
    BY <2>1
  <2>7. g \in [1 .. k -> U] /\ Sorted(g, k)
    BY <2>1, <2>3, <2>5, <2>6
  <2> HIDE DEF g, Sorted
  <2> QED BY <2>7
<1>3. n \in G
  <2>1. G \in SUBSET (0 .. n) /\ n \in 0 .. n
    BY <1>0
  <2> HIDE DEF G, n
  <2> QED BY <1>0, <1>1, <1>2, <2>1, IntervalInduction
<1> QED BY <1>0, <1>3

(* A list of as many different members as there are lists all.             *)
LEMMA ListsAll ==
  ASSUME NEW S, IsFiniteSet(S), NEW f \in [1 .. Cardinality(S) -> S],
         \A i, k \in 1 .. Cardinality(S) : i < k => f[i] # f[k]
  PROVE  \A x \in S : \E i \in 1 .. Cardinality(S) : f[i] = x
<1> DEFINE n == Cardinality(S)
           listed == {f[i] : i \in 1 .. n}
<1>1. n \in Nat
  BY FS_CardinalityType
<1>2. f \in Bijection(1 .. n, listed)
  <2>1. \A i, k \in 1 .. n : i # k => i < k \/ k < i
    BY <1>1
  <2> HIDE DEF n
  <2>2. \A i, k \in 1 .. n : f[i] = f[k] => i = k
    BY <2>1 DEF n
  <2>3. f \in [1 .. n -> listed]
    BY DEF n
  <2> QED BY <2>2, <2>3 DEF Bijection, Injection, IsInjective, Surjection
<1>3. IsFiniteSet(1 .. n) /\ Cardinality(1 .. n) = n
  <2>1. 1 \in Int /\ n \in Int /\ (IF 1 > n THEN 0 ELSE n - 1 + 1) = n
    BY <1>1
  <2> HIDE DEF n
  <2> QED BY <2>1, FS_Interval
<1>4. listed \in SUBSET S
  OBVIOUS
<1>5. Cardinality(listed) = n
  <2>1. ExistsBijection(1 .. n, listed)
    BY <1>2 DEF ExistsBijection
  <2> HIDE DEF n, listed
  <2> QED BY <1>3, <2>1, FS_Bijection
<1>6. listed = S
  <2> HIDE DEF listed
  <2> QED BY <1>4, <1>5, FS_Subset
<1> QED BY <1>6
==============================================================================
