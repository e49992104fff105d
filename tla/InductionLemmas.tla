---------------------------- MODULE InductionLemmas ----------------------------
(***************************************************************************)
(* Induction over the naturals without a theorem that takes an operator: a *)
(* set of numbers with 0 in it and the successor of each of its elements   *)
(* holds them all, because a least number outside cannot be.  From it, what*)
(* a function defined by recursion on a number is: the run of its steps.   *)
(***************************************************************************)
EXTENDS Integers, FiniteSetsExt, NaturalsInduction, WellFoundedInduction, FiniteSetTheorems, TLAPS

LEMMA SetInduction ==
    ASSUME NEW S, 0 \in S, \A n \in Nat : n \in S => n + 1 \in S
    PROVE  Nat \subseteq S
<1> DEFINE Less == {p \in Nat \X Nat : p[1] < p[2]}
           T == {n \in Nat : n \notin S}
<1>1. IsWellFoundedOn(Less, Nat)
  BY NatLessThanWellFounded, Zenon DEF OpToRel
<1> SUFFICES ASSUME ~(Nat \subseteq S) PROVE FALSE
  OBVIOUS
<1>2. T \subseteq Nat /\ T # {}
  OBVIOUS
<1>3. PICK m \in T : \A y \in T : ~(<<y, m>> \in Less)
  <2> HIDE DEF T, Less
  <2> QED
    BY <1>1, <1>2, WFMin
<1>4. m \in Nat /\ m - 1 \in Nat /\ m - 1 \notin T
  <2>1. m \in Nat /\ m # 0
    OBVIOUS
  <2>2. m - 1 \in Nat /\ m - 1 < m
    BY <2>1
  <2>3. m - 1 \in T => <<m - 1, m>> \in Less
    BY <2>1, <2>2
  <2> QED
    BY <1>3, <2>1, <2>2, <2>3
<1>5. m - 1 \in S => m \in S
  <2>1. (m - 1) + 1 = m
    BY <1>4
  <2> QED
    BY <1>4, <2>1
<1> QED
  BY <1>3, <1>4, <1>5

\* A value computed step by step, step i from the value before it.
Run(f, lo, hi, z, g) ==
    f[lo] = z /\ \A i \in (lo + 1)..hi : f[i] = g[<<i, f[i - 1]>>]

LEMMA RunExists ==
    ASSUME NEW D, NEW z \in D, NEW lo \in Nat, NEW hi \in Nat, lo <= hi,
           NEW g \in [((lo + 1)..hi) \X D -> D]
    PROVE  \E f \in [lo..hi -> D] : Run(f, lo, hi, z, g)
<1> DEFINE S == {m \in Nat : lo + m <= hi => \E f \in [lo..(lo + m) -> D] : Run(f, lo, lo + m, z, g)}
<1>1. 0 \in S
  <2>1. [i \in lo..lo |-> z] \in [lo..(lo + 0) -> D]
    OBVIOUS
  <2>2. Run([i \in lo..lo |-> z], lo, lo + 0, z, g)
    BY DEF Run
  <2> QED
    BY <2>1, <2>2
<1>2. ASSUME NEW m \in Nat, m \in S PROVE m + 1 \in S
  <2> SUFFICES ASSUME lo + (m + 1) <= hi
               PROVE  \E f \in [lo..(lo + (m + 1)) -> D] : Run(f, lo, lo + (m + 1), z, g)
    OBVIOUS
  <2>0. PICK k \in Nat : k = lo + m
    OBVIOUS
  <2>1. k \in lo..hi /\ k + 1 \in (lo + 1)..hi /\ lo + (m + 1) = k + 1
    BY <2>0
  <2>2. PICK f \in [lo..k -> D] : Run(f, lo, k, z, g)
    BY <1>2, <2>0, <2>1
  <2> DEFINE h == [i \in lo..(k + 1) |-> IF i = k + 1 THEN g[<<k + 1, f[k]>>] ELSE f[i]]
  <2>3. f[k] \in D /\ g[<<k + 1, f[k]>>] \in D
    BY <2>1, <2>2
  <2>4. h \in [lo..(k + 1) -> D]
    BY <2>1, <2>3
  <2>5. h[lo] = z
    BY <2>1, <2>2 DEF Run
  <2>6. ASSUME NEW i \in (lo + 1)..(k + 1) PROVE h[i] = g[<<i, h[i - 1]>>]
    <3>1. CASE i = k + 1
      <4>1. h[k + 1] = g[<<k + 1, f[k]>>] /\ h[k] = f[k] /\ i - 1 = k
        BY <2>1, <3>1
      <4> QED
        BY <3>1, <4>1
    <3>2. CASE i # k + 1
      <4>1. i \in (lo + 1)..k /\ i - 1 \in lo..k /\ i \in lo..k /\ i - 1 # k + 1
        BY <2>1, <3>2
      <4>2. h[i] = f[i] /\ h[i - 1] = f[i - 1]
        BY <2>1, <3>2, <4>1
      <4> QED
        BY <2>2, <4>1, <4>2 DEF Run
    <3> QED
      BY <3>1, <3>2
  <2>7. Run(h, lo, k + 1, z, g)
    <3> HIDE DEF h
    <3> QED
      BY <2>5, <2>6 DEF Run
  <2> QED
    BY <2>1, <2>4, <2>7
<1> HIDE DEF S
<1>3. hi - lo \in S
  BY <1>1, <1>2, SetInduction
<1>4. lo + (hi - lo) = hi /\ hi - lo \in Nat
  OBVIOUS
<1> QED
  BY <1>3, <1>4 DEF S

\* Two runs of the same steps agree as far as both go.
LEMMA RunsAgree ==
    ASSUME NEW lo \in Nat, NEW m \in Nat, NEW n \in Nat, NEW z, NEW g, NEW f, NEW h,
           Run(f, lo, m, z, g), Run(h, lo, n, z, g),
           NEW i \in Nat, lo <= i, i <= m, i <= n
    PROVE  f[i] = h[i]
<1> DEFINE S == {k \in Nat : lo + k <= m /\ lo + k <= n => f[lo + k] = h[lo + k]}
<1>1. 0 \in S
  <2>1. lo + 0 = lo
    OBVIOUS
  <2> QED
    BY <2>1 DEF Run
<1>2. ASSUME NEW k \in Nat, k \in S PROVE k + 1 \in S
  <2> SUFFICES ASSUME lo + (k + 1) <= m, lo + (k + 1) <= n
               PROVE  f[lo + (k + 1)] = h[lo + (k + 1)]
    OBVIOUS
  <2>0. PICK j \in Nat : j = lo + k
    OBVIOUS
  <2>1. f[j] = h[j]
    BY <1>2, <2>0
  <2>2. j + 1 \in (lo + 1)..m /\ j + 1 \in (lo + 1)..n /\ (j + 1) - 1 = j /\ lo + (k + 1) = j + 1
    BY <2>0
  <2> QED
    BY <2>1, <2>2 DEF Run
<1> HIDE DEF S
<1>3. i - lo \in S
  BY <1>1, <1>2, SetInduction
<1>4. lo + (i - lo) = i
  OBVIOUS
<1> QED
  BY <1>3, <1>4 DEF S

\* A function that goes on by those steps from every value of D.
GoesOn(f, lo, hi, z, g, D) ==
    /\ f = [i \in lo..hi |-> f[i]] /\ f[lo] = z
    /\ \A i \in (lo + 1)..hi : f[i - 1] \in D => f[i] = g[<<i, f[i - 1]>>]

\* It stays in D.
LEMMA RunOf ==
    ASSUME NEW D, NEW z \in D, NEW lo \in Nat, NEW hi \in Nat, lo <= hi,
           NEW g \in [((lo + 1)..hi) \X D -> D], NEW f, GoesOn(f, lo, hi, z, g, D)
    PROVE  f \in [lo..hi -> D] /\ Run(f, lo, hi, z, g)
<1> USE DEF GoesOn
<1> DEFINE S == {m \in Nat : lo + m <= hi => f[lo + m] \in D}
<1>1. 0 \in S
  <2>1. lo + 0 = lo
    OBVIOUS
  <2> QED
    BY <2>1
<1>2. ASSUME NEW m \in Nat, m \in S PROVE m + 1 \in S
  <2> SUFFICES ASSUME lo + (m + 1) <= hi PROVE f[lo + (m + 1)] \in D
    OBVIOUS
  <2>0. PICK k \in Nat : k = lo + m
    OBVIOUS
  <2>1. f[k] \in D /\ k + 1 \in (lo + 1)..hi /\ (k + 1) - 1 = k /\ lo + (m + 1) = k + 1
    BY <1>2, <2>0
  <2>2. f[k + 1] = g[<<k + 1, f[k]>>] /\ <<k + 1, f[k]>> \in ((lo + 1)..hi) \X D
    BY <2>1
  <2> QED
    BY <2>1, <2>2
<1> HIDE DEF S
<1>3. ASSUME NEW i \in lo..hi PROVE f[i] \in D
  <2>1. i - lo \in Nat /\ lo + (i - lo) = i /\ i <= hi
    OBVIOUS
  <2>2. i - lo \in S
    BY <1>1, <1>2, <2>1, SetInduction
  <2> QED
    BY <2>1, <2>2 DEF S
<1>4. \A i \in (lo + 1)..hi : i - 1 \in lo..hi
  OBVIOUS
<1> QED
  BY <1>3, <1>4 DEF Run
-----------------------------------------------------------------------------
\* The lowest of a set of numbers.
LEMMA LowestOf ==
    ASSUME NEW S \in SUBSET Nat, S # {}
    PROVE  /\ Min(S) \in S
           /\ \A n \in S : Min(S) <= n
<1> DEFINE Less == {p \in Nat \X Nat : p[1] < p[2]}
<1>1. IsWellFoundedOn(Less, Nat)
  BY NatLessThanWellFounded, Zenon DEF OpToRel
<1>2. PICK m \in S : \A y \in S : ~(<<y, m>> \in Less)
  <2> HIDE DEF Less
  <2> QED
    BY <1>1, WFMin
<1>3. ASSUME NEW n \in S PROVE m <= n
  <2>1. n < m => <<n, m>> \in Less
    OBVIOUS
  <2>2. ~(n < m)
    BY <1>2, <2>1
  <2> QED
    BY <2>2
<1>4. \E x \in S : \A n \in S : x <= n
  BY <1>3
<1> QED
  BY <1>4, Zenon DEF Min

\* And the highest.
LEMMA HighestIs ==
    ASSUME NEW S \in SUBSET Nat, NEW m \in S, \A n \in S : n <= m
    PROVE  Max(S) = m
<1>1. m \in S /\ \A y \in S : m >= y
  OBVIOUS
<1>2. Max(S) \in S /\ \A y \in S : Max(S) >= y
  BY <1>1, Zenon DEF Max
<1>3. PICK x \in Nat : x = Max(S) /\ x \in S
  BY <1>2
<1>4. x >= m /\ x <= m
  BY <1>2, <1>3
<1> QED
  BY <1>3, <1>4

(* Sums over finite sets: the folds of the community modules pick elements   *)
(* in an order of their own, which makes no difference.                      *)

Sums(F, S, w) ==
    /\ F \in [SUBSET S -> Nat] /\ F[{}] = 0
    /\ \A s \in SUBSET S : \A x \in s : F[s] = w[x] + F[s \ {x}]

LEMMA WithoutOne ==
    ASSUME NEW s, IsFiniteSet(s), NEW e \in s, NEW n \in Nat, Cardinality(s) = n + 1
    PROVE  Cardinality(s \ {e}) = n
<1>1. Cardinality(s \ {e}) = Cardinality(s) - 1
  BY FS_RemoveElement
<1>2. PICK k \in Nat : k = n + 1
  OBVIOUS
<1>3. Cardinality(s) = k
  BY <1>2
<1>4. Cardinality(s \ {e}) = k - 1
  BY <1>1, <1>3
<1> QED
  BY <1>2, <1>4

LEMMA SumWithOne ==
    ASSUME NEW S, IsFiniteSet(S), NEW e \in S, NEW w \in [S -> Nat],
           NEW F, Sums(F, S \ {e}, w)
    PROVE  \E G : Sums(G, S, w)
<1> DEFINE G == [s \in SUBSET S |-> IF e \in s THEN w[e] + F[s \ {e}] ELSE F[s]]
<1>1. F \in [SUBSET (S \ {e}) -> Nat] /\ F[{}] = 0
  BY DEF Sums
<1>2. ASSUME NEW s \in SUBSET S PROVE G[s] \in Nat
  <2>1. s \ {e} \in SUBSET (S \ {e}) /\ (e \notin s => s \in SUBSET (S \ {e}))
    OBVIOUS
  <2> QED
    BY <1>1, <2>1
<1>3. G \in [SUBSET S -> Nat] /\ G[{}] = 0
  BY <1>1, <1>2
<1>4. ASSUME NEW s \in SUBSET S, NEW x \in s PROVE G[s] = w[x] + G[s \ {x}]
  <2>1. CASE x = e
    <3>1. G[s] = w[e] + F[s \ {e}] /\ G[s \ {e}] = F[s \ {e}]
      BY <2>1
    <3> QED
      BY <2>1, <3>1
  <2>2. CASE x # e /\ e \in s
    <3>1. s \ {e} \in SUBSET (S \ {e}) /\ x \in s \ {e} /\ (s \ {e}) \ {x} \in SUBSET (S \ {e})
      BY <2>2
    <3>2. F[s \ {e}] = w[x] + F[(s \ {e}) \ {x}]
      BY <3>1 DEF Sums
    <3>3. (s \ {e}) \ {x} = (s \ {x}) \ {e}
      OBVIOUS
    <3>4. G[s] = w[e] + F[s \ {e}] /\ G[s \ {x}] = w[e] + F[(s \ {x}) \ {e}]
      BY <2>2
    <3>5. w[e] \in Nat /\ w[x] \in Nat /\ F[(s \ {e}) \ {x}] \in Nat
      BY <1>1, <3>1
    <3>6. PICK k \in Nat : k = F[(s \ {e}) \ {x}]
      BY <3>5
    <3>7. F[s \ {e}] = w[x] + k /\ F[(s \ {x}) \ {e}] = k
      BY <3>2, <3>3, <3>6
    <3> HIDE DEF G
    <3> QED
      BY <3>4, <3>5, <3>6, <3>7
  <2>3. CASE e \notin s
    <3>1. s \in SUBSET (S \ {e}) /\ s \ {x} \in SUBSET S /\ e \notin s \ {x}
      BY <2>3
    <3>2. F[s] = w[x] + F[s \ {x}]
      BY <3>1 DEF Sums
    <3> QED
      BY <2>3, <3>1, <3>2
  <2> QED
    BY <2>1, <2>2, <2>3
<1> HIDE DEF G
<1> QED
  BY <1>3, <1>4 DEF Sums

LEMMA SumExists ==
    ASSUME NEW S, IsFiniteSet(S), NEW w \in [S -> Nat]
    PROVE  \E F : Sums(F, S, w)
<1> DEFINE T == {n \in Nat : \A s \in SUBSET S : Cardinality(s) = n => \E F : Sums(F, s, w)}
<1>1. 0 \in T
  <2> SUFFICES ASSUME NEW s \in SUBSET S, Cardinality(s) = 0 PROVE \E F : Sums(F, s, w)
    OBVIOUS
  <2>1. s = {}
    BY FS_EmptySet, FS_Subset
  <2>2. Sums([r \in SUBSET {} |-> 0], {}, w)
    BY DEF Sums
  <2> QED
    BY <2>1, <2>2
<1>2. ASSUME NEW n \in Nat, n \in T PROVE n + 1 \in T
  <2> SUFFICES ASSUME NEW s \in SUBSET S, Cardinality(s) = n + 1 PROVE \E F : Sums(F, s, w)
    OBVIOUS
  <2>1. IsFiniteSet(s) /\ s # {}
    <3>1. IsFiniteSet(s)
      BY FS_Subset
    <3>2. n + 1 # 0
      OBVIOUS
    <3> QED
      BY <3>1, <3>2, FS_EmptySet
  <2>2. PICK e \in s : TRUE
    BY <2>1
  <2>3. Cardinality(s \ {e}) = n
    BY <2>1, <2>2, WithoutOne
  <2>4. PICK F : Sums(F, s \ {e}, w)
    BY <1>2, <2>3
  <2> DEFINE v == [x \in s |-> w[x]]
  <2>5. v \in [s -> Nat] /\ \A x \in s : v[x] = w[x]
    OBVIOUS
  <2> HIDE DEF v
  <2>6. Sums(F, s \ {e}, v)
    BY <2>4, <2>5 DEF Sums
  <2>7. PICK G : Sums(G, s, v)
    BY <2>1, <2>2, <2>5, <2>6, SumWithOne
  <2>8. Sums(G, s, w)
    BY <2>5, <2>7 DEF Sums
  <2> QED
    BY <2>8
<1> HIDE DEF T
<1>3. Cardinality(S) \in T
  BY <1>1, <1>2, SetInduction, FS_CardinalityType
<1> QED
  BY <1>3 DEF T

\* A recursion that takes its elements in some order.
Picks(pick, S) == \A s \in (SUBSET S) \ {{}} : pick[s] \in s
AddsUp(f, pick, S, w) ==
    \A s \in SUBSET S : f[s] = IF s = {} THEN 0 ELSE w[pick[s]] + f[s \ {pick[s]}]

\* Whatever element it takes first, it computes the sum.
LEMMA SumOnly ==
    ASSUME NEW S, IsFiniteSet(S), NEW w \in [S -> Nat], NEW F, Sums(F, S, w),
           NEW pick, Picks(pick, S), NEW f, AddsUp(f, pick, S, w)
    PROVE  f[S] = F[S]
<1> DEFINE T == {n \in Nat : \A s \in SUBSET S : Cardinality(s) = n => f[s] = F[s]}
<1>1. 0 \in T
  <2> SUFFICES ASSUME NEW s \in SUBSET S, Cardinality(s) = 0 PROVE f[s] = F[s]
    OBVIOUS
  <2>1. s = {}
    BY FS_EmptySet, FS_Subset
  <2> QED
    BY <2>1 DEF Sums, AddsUp
<1>2. ASSUME NEW n \in Nat, n \in T PROVE n + 1 \in T
  <2> SUFFICES ASSUME NEW s \in SUBSET S, Cardinality(s) = n + 1 PROVE f[s] = F[s]
    OBVIOUS
  <2>1. IsFiniteSet(s) /\ s # {}
    <3>1. IsFiniteSet(s)
      BY FS_Subset
    <3>2. n + 1 # 0
      OBVIOUS
    <3> QED
      BY <3>1, <3>2, FS_EmptySet
  <2>2. pick[s] \in s /\ s \ {pick[s]} \in SUBSET S
    BY <2>1 DEF Picks
  <2>3. Cardinality(s \ {pick[s]}) = n
    BY <2>1, <2>2, WithoutOne
  <2>4. f[s \ {pick[s]}] = F[s \ {pick[s]}]
    BY <1>2, <2>2, <2>3
  <2>5. F[s] = w[pick[s]] + F[s \ {pick[s]}]
    BY <2>2 DEF Sums
  <2>6. f[s] = w[pick[s]] + f[s \ {pick[s]}]
    BY <2>1 DEF AddsUp
  <2> QED
    BY <2>4, <2>5, <2>6
<1> HIDE DEF T
<1>3. Nat \subseteq T
  BY <1>1, <1>2, SetInduction
<1>4. Cardinality(S) \in Nat
  BY FS_CardinalityType
<1> QED
  BY <1>3, <1>4 DEF T

\* More and larger summands make no smaller sum.
LEMMA SumGrows ==
    ASSUME NEW R, NEW S, IsFiniteSet(R), IsFiniteSet(S), NEW v \in [R -> Nat], NEW w \in [S -> Nat],
           NEW F, NEW G, Sums(F, R, v), Sums(G, S, w),
           R \subseteq S, \A x \in R : v[x] <= w[x]
    PROVE  F[R] <= G[S]
<1> DEFINE T == {n \in Nat : \A s \in SUBSET R, t \in SUBSET S :
                    (s \subseteq t /\ Cardinality(t) = n) => F[s] <= G[t]}
<1>0. F \in [SUBSET R -> Nat] /\ G \in [SUBSET S -> Nat] /\ F[{}] = 0
  BY DEF Sums
<1>1. 0 \in T
  <2> SUFFICES ASSUME NEW s \in SUBSET R, NEW t \in SUBSET S, s \subseteq t, Cardinality(t) = 0
               PROVE  F[s] <= G[t]
    OBVIOUS
  <2>1. t = {} /\ s = {}
    BY FS_EmptySet, FS_Subset
  <2>2. G[t] \in Nat
    BY <1>0
  <2> QED
    BY <1>0, <2>1, <2>2
<1>2. ASSUME NEW n \in Nat, n \in T PROVE n + 1 \in T
  <2> SUFFICES ASSUME NEW s \in SUBSET R, NEW t \in SUBSET S, s \subseteq t, Cardinality(t) = n + 1
               PROVE  F[s] <= G[t]
    OBVIOUS
  <2>1. IsFiniteSet(t) /\ t # {}
    <3>1. IsFiniteSet(t)
      BY FS_Subset
    <3>2. n + 1 # 0
      OBVIOUS
    <3> QED
      BY <3>1, <3>2, FS_EmptySet
  <2>2. PICK e \in t : TRUE
    BY <2>1
  <2>3. Cardinality(t \ {e}) = n /\ s \ {e} \in SUBSET R /\ t \ {e} \in SUBSET S
    BY <2>1, <2>2, WithoutOne
  <2>4. s \ {e} \subseteq t \ {e}
    OBVIOUS
  <2>5. F[s \ {e}] <= G[t \ {e}]
    BY <1>2, <2>3, <2>4
  <2>6. G[t] = w[e] + G[t \ {e}]
    BY <2>2 DEF Sums
  <2>7. w[e] \in Nat /\ F[s \ {e}] \in Nat /\ G[t \ {e}] \in Nat
    BY <1>0, <2>2, <2>3
  <2>8. CASE e \in s
    <3>1. F[s] = v[e] + F[s \ {e}] /\ v[e] <= w[e] /\ v[e] \in Nat
      BY <2>8 DEF Sums
    <3> QED
      BY <2>5, <2>6, <2>7, <3>1
  <2>9. CASE e \notin s
    <3>1. s \ {e} = s
      BY <2>9
    <3>2. F[s] <= G[t \ {e}] /\ F[s] \in Nat
      BY <2>5, <2>7, <3>1
    <3> QED
      BY <2>6, <2>7, <3>2
  <2> QED
    BY <2>8, <2>9
<1> HIDE DEF T
<1>3. Cardinality(S) \in T
  BY <1>1, <1>2, SetInduction, FS_CardinalityType
<1> QED
  BY <1>3 DEF T
LEMMA HighestOf ==
    ASSUME NEW n \in Nat, NEW S \in SUBSET (0..n), S # {}
    PROVE  Max(S) \in S /\ \A x \in S : x <= Max(S)
<1> DEFINE B == {m \in Nat : \A x \in S : x <= m}
<1>1. B \in SUBSET Nat /\ n \in B
  OBVIOUS
<1> HIDE DEF B
<1>2. Min(B) \in B /\ \A m \in B : Min(B) <= m
  BY <1>1, LowestOf
<1>3. PICK k \in Nat : k = Min(B)
  BY <1>1, <1>2
<1>4. (\A x \in S : x <= k) /\ \A m \in B : k <= m
  BY <1>2, <1>3 DEF B
<1>5. k \in S
  <2> SUFFICES ASSUME k \notin S PROVE FALSE
    OBVIOUS
  <2>1. PICK e \in S : e \in Nat /\ e < k
    <3>1. PICK e \in S : TRUE
      OBVIOUS
    <3>2. e \in Nat /\ e <= k /\ e # k
      BY <1>4
    <3> QED
      BY <3>2
  <2>2. k - 1 \in Nat
    BY <2>1
  <2>3. \A x \in S : x <= k - 1
    <3>1. ASSUME NEW x \in S PROVE x <= k - 1
      <4>1. x \in Nat /\ x <= k /\ x # k
        BY <1>4
      <4> QED
        BY <4>1
    <3> QED
      BY <3>1
  <2>4. k - 1 \in B
    BY <2>2, <2>3 DEF B
  <2> QED
    BY <1>4, <2>2, <2>4
<1>6. S \in SUBSET Nat
  OBVIOUS
<1>7. Max(S) = k
  BY <1>4, <1>5, <1>6, HighestIs
<1> QED
  BY <1>4, <1>5, <1>7
=============================================================================
