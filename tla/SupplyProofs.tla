----------------------------- MODULE SupplyProofs -----------------------------
(***************************************************************************)
(* Theorems about Supply, for every set of collections, seeds and holders, *)
(* every creation term and every limit of the schedule.                    *)
(*                                                                         *)
(* The caps are checked by the handlers against counters, and what the     *)
(* caps promise is about rows; an archived collection may come back under  *)
(* its old id, with whatever its first life left behind.  What ties these  *)
(* together is SupplyInv: counters are row counts, rows hang on the rows   *)
(* they belong to, and a number is taken exactly when it is not above the  *)
(* seed's `distributed`.                                                   *)
(***************************************************************************)
EXTENDS Supply, FiniteSetTheorems, FunctionTheorems, TLAPS

-----------------------------------------------------------------------------
(* Counting. *)

LEMMA UnitsFinite ==
    ASSUME NEW S, IsFiniteSet(S), NEW q, \A x \in S : q[x] \in Int
    PROVE  IsFiniteSet(Units(q, S))
<1> DEFINE Part(x) == {x} \X (1..q[x])
           Parts == {Part(x) : x \in S}
           part == [x \in S |-> Part(x)]
<1>1. part \in Surjection(S, Parts)
  BY DEF Surjection
<1>2. IsFiniteSet(Parts)
  BY <1>1, FS_Surjection
<1>3. ASSUME NEW x \in S
      PROVE  IsFiniteSet(Part(x))
  <2>1. IsFiniteSet({x})
    BY FS_Singleton
  <2>2. q[x] \in Int /\ 1 \in Int
    OBVIOUS
  <2>3. IsFiniteSet(1..q[x])
    BY <2>2, FS_Interval
  <2> QED
    BY <2>1, <2>3, FS_Product
<1>4. \A P \in Parts : IsFiniteSet(P)
  BY <1>3
<1>5. IsFiniteSet(UNION Parts)
  BY <1>2, <1>4, FS_UNION
<1> QED
  BY <1>5 DEF Units

\* What is split over S, with at most q[x] for each x, is no more than the
\* total: a check against a sum of counters bounds what they count.
LEMMA SplitCount ==
    ASSUME NEW S, IsFiniteSet(S), NEW q, \A x \in S : q[x] \in Int,
           NEW T, IsFiniteSet(T), NEW g \in [T -> S],
           \A x \in S : Cardinality({e \in T : g[e] = x}) <= q[x]
    PROVE  Cardinality(T) <= Total(q, S)
<1> DEFINE P(x) == {e \in T : g[e] = x}
           N(x) == 1..Cardinality(P(x))
           B == [x \in S |-> CHOOSE b : b \in Bijection(N(x), P(x))]
           f == [e \in T |-> <<g[e], CHOOSE n \in N(g[e]) : B[g[e]][n] = e>>]
<1>1. ASSUME NEW x \in S
      PROVE  /\ Cardinality(P(x)) \in Nat
             /\ N(x) \subseteq 1..q[x]
             /\ B[x] \in Bijection(N(x), P(x))
  <2>1. IsFiniteSet(P(x))
    BY FS_Subset
  <2>2. Cardinality(P(x)) \in Nat /\ ExistsBijection(N(x), P(x))
    BY <2>1, FS_CardinalityType
  <2>3. N(x) \subseteq 1..q[x]
    <3>1. Cardinality(P(x)) <= q[x] /\ q[x] \in Int
      OBVIOUS
    <3> HIDE DEF P
    <3> QED
      BY <2>2, <3>1
  <2>4. B[x] \in Bijection(N(x), P(x))
    BY <2>2, Zenon DEF ExistsBijection
  <2> QED
    BY <2>2, <2>3, <2>4
<1>p. \A e \in T : g[e] \in S /\ e \in P(g[e])
  OBVIOUS
<1> HIDE DEF P, N, B
<1>2. ASSUME NEW e \in T
      PROVE  /\ g[e] \in S
             /\ f[e][1] = g[e] /\ f[e][2] \in N(g[e]) /\ B[g[e]][f[e][2]] = e
             /\ f[e] = <<g[e], f[e][2]>>
  <2>1. g[e] \in S /\ e \in P(g[e])
    BY <1>p
  <2>2. \A t \in P(g[e]) : \E n \in N(g[e]) : B[g[e]][n] = t
    BY <1>1, <2>1 DEF Bijection, Surjection
  <2>3. \E n \in N(g[e]) : B[g[e]][n] = e
    BY <2>1, <2>2
  <2> QED
    BY <2>1, <2>3
<1>3. ASSUME NEW e \in T
      PROVE  f[e] \in Units(q, S)
  <2>1. /\ g[e] \in S /\ f[e] = <<g[e], f[e][2]>> /\ f[e][2] \in N(g[e])
    BY <1>2
  <2> HIDE DEF f
  <2>2. f[e][2] \in 1..q[g[e]]
    BY <2>1, <1>1
  <2>3. f[e] \in {g[e]} \X (1..q[g[e]])
    BY <2>1, <2>2
  <2> QED
    BY <2>1, <2>3 DEF Units
<1>4. ASSUME NEW d \in T, NEW e \in T, f[d] = f[e]
      PROVE  d = e
  <2> HIDE DEF f
  <2> QED
    BY <1>2, <1>4
<1>5. f \in Injection(T, Units(q, S))
  <2>1. f \in [T -> Units(q, S)]
    BY <1>3
  <2> HIDE DEF f
  <2> QED
    BY <2>1, <1>4, Fun_IsInj
<1> QED
  BY <1>5, UnitsFinite, FS_Injection DEF Total

-----------------------------------------------------------------------------
(* Ids. *)

LEMMA InstanceIdParts ==
    ASSUME NEW i \in InstanceIds
    PROVE  /\ SeedOf(i) \in SeedIds /\ SeriesOf(i) \in Series
           /\ SeriesOf(SeedOf(i)) = SeriesOf(i)
           /\ i[3] \in 1..MaxNumber
           /\ i = <<SeedOf(i)[1], SeedOf(i)[2], i[3]>>
  BY DEF InstanceIds, SeedIds, SeedOf, SeriesOf

LEMMA SeedIdParts ==
    ASSUME NEW s \in SeedIds
    PROVE  /\ SeriesOf(s) \in Series
           /\ s = <<s[1], s[2]>>
           /\ s \notin InstanceIds
           /\ \A n \in 1..MaxNumber :
                /\ <<s[1], s[2], n>> \in InstanceIds
                /\ SeedOf(<<s[1], s[2], n>>) = s
                /\ SeriesOf(<<s[1], s[2], n>>) = SeriesOf(s)
                /\ <<s[1], s[2], n>>[3] = n
  BY DEF InstanceIds, SeedIds, SeedOf, SeriesOf

\* What an order distributes: the ids it names, and those of them that have no
\* row yet.
Named(items) ==
    UNION {{<<s[1], s[2], n>> : n \in Numbers(s, items[s])} : s \in DOMAIN items}
FreshOf(items) == {i \in Named(items) : instance[i] = NoRow}
FreshIn(items, s) == {i \in FreshOf(items) : SeedOf(i) = s}
FreshUnder(items, c) == {i \in FreshOf(items) : SeriesOf(i) = c}

LEMMA BulkDistributeParts ==
    ASSUME NEW u, NEW items, NEW to, NEW data, BulkDistribute(u, items, to, data)
    PROVE  /\ \A s \in DOMAIN items :
                /\ seed[s] # NoRow
                /\ items[s] <= seed[s].max - seed[s].distributed
           /\ WithinBudgets(items)
           /\ Named(items) \subseteq InstanceIds /\ FreshOf(items) \cap burned = {}
           /\ instance' = [i \in InstanceIds |->
                IF i \in FreshOf(items) THEN [owner |-> to, data |-> data] ELSE instance[i]]
           /\ seed' = [s \in SeedIds |->
                IF s \in DOMAIN items
                THEN [seed[s] EXCEPT !.distributed = @ + Cardinality(FreshIn(items, s))]
                ELSE seed[s]]
           /\ counted' = [c \in Series |->
                Recounted(counted[c], 0, Cardinality(FreshUnder(items, c)))]
           /\ UNCHANGED <<series, burned, operators, sealed>>
  BY DEF BulkDistribute, Named, FreshOf, FreshIn, FreshUnder

LEMMA ShipmentType ==
    ASSUME NEW items \in Shipments
    PROVE  DOMAIN items \subseteq SeedIds /\ items \in [DOMAIN items -> 1..MaxQuantity]
  BY DEF Shipments

-----------------------------------------------------------------------------
(* Types. *)

LEMMA SupplyTypeInit == SupplyInit => SupplyTypeOK
<1> SUFFICES ASSUME SupplyInit
             PROVE  SupplyTypeOK
  OBVIOUS
<1>1. counted \in [Series -> Counters]
  BY DEF SupplyInit, NothingCounted, Counters
<1>2. /\ series \in [Series -> SeriesRow \cup {NoRow}]
      /\ seed \in [SeedIds -> SeedRow \cup {NoRow}]
      /\ instance \in [InstanceIds -> InstanceRow \cup {NoRow}]
      /\ sealed \in [Series -> (SUBSET Fields) \cup {NoRow}]
  BY DEF SupplyInit
<1>3. burned \subseteq SeedIds \cup InstanceIds /\ operators \in [Series -> SUBSET Holders]
  BY DEF SupplyInit
<1> QED
  BY <1>1, <1>2, <1>3 DEF SupplyTypeOK

LEMMA FiniteCount ==
    ASSUME NEW S \in SUBSET InstanceIds
    PROVE  IsFiniteSet(S) /\ Cardinality(S) \in Nat
  BY SupplyAssumption, FS_Subset, FS_CardinalityType

LEMMA CountType ==
    ASSUME SupplyTypeOK, NEW c \in Series, NEW m \in Int, NEW n \in Int, Count(c, m, n)
    PROVE  counted' \in [Series -> Counters]
  BY DEF SupplyTypeOK, Count, Recounted, Counters

\* An operation that rewrites a column of a row leaves a row there, with the
\* columns it does not write as they were.
LEMMA ExtendedRow ==
    ASSUME SupplyTypeOK, NEW c \in Series, NEW new \in Schema, ExtendSchema(c, new)
    PROVE  /\ series'[c] \in SeriesRow /\ series'[c].cap = series[c].cap
           /\ series'[c].potential = series[c].potential
           /\ series' = [series EXCEPT ![c] = series'[c]]
<1>1. series[c] \in SeriesRow
  BY DEF ExtendSchema, Exists, SupplyTypeOK
<1>2. series[c].schema # NoSchema => Extended(series[c].schema, new) \in Schema
  BY <1>1 DEF SeriesRow, Extended, Schema
<1>3. PICK schema \in Schema :
          series' = [series EXCEPT ![c].schema = schema, ![c].version = @ + 1]
  BY <1>2 DEF ExtendSchema
<1> QED
  BY <1>1, <1>3 DEF SeriesRow, SupplyTypeOK

LEMMA RewrittenSeed ==
    ASSUME SupplyTypeOK, NEW s \in SeedIds, NEW u \in Holders,
           (\E data \in Payloads : SetSeedData(s, u, data)) \/ TransferSeed(s, u)
    PROVE  /\ seed[s] \in SeedRow /\ seed'[s] \in SeedRow
           /\ seed'[s].distributed = seed[s].distributed /\ seed'[s].max = seed[s].max
           /\ seed' = [seed EXCEPT ![s] = seed'[s]]
<1>1. seed[s] \in SeedRow /\ Payloads \subseteq Data
  BY SupplyAssumption DEF SetSeedData, TransferSeed, SupplyTypeOK, Data
<1>2. CASE \E data \in Payloads : SetSeedData(s, u, data)
  BY <1>1, <1>2 DEF SetSeedData, SeedRow, SupplyTypeOK
<1>3. CASE TransferSeed(s, u)
  BY <1>1, <1>3 DEF TransferSeed, SeedRow, SupplyTypeOK
<1> QED
  BY <1>2, <1>3

LEMMA RewrittenInstance ==
    ASSUME SupplyTypeOK, NEW i \in InstanceIds, NEW u \in Holders,
           (\E data \in Payloads : SetInstanceData(i, u, data)) \/ TransferInstance(i, u)
    PROVE  /\ instance[i] \in InstanceRow /\ instance'[i] \in InstanceRow
           /\ instance' = [instance EXCEPT ![i] = instance'[i]]
<1>1. instance[i] \in InstanceRow /\ Payloads \subseteq Data
  BY SupplyAssumption DEF SetInstanceData, TransferInstance, SupplyTypeOK, Data
<1>2. CASE \E data \in Payloads : SetInstanceData(i, u, data)
  BY <1>1, <1>2 DEF SetInstanceData, InstanceRow, SupplyTypeOK
<1>3. CASE TransferInstance(i, u)
  BY <1>1, <1>3 DEF TransferInstance, InstanceRow, SupplyTypeOK
<1> QED
  BY <1>2, <1>3

LEMMA SupplyTypeStep ==
    SupplyTypeOK /\ [SupplyNext]_supplyVars => SupplyTypeOK'
<1> SUFFICES ASSUME SupplyTypeOK, [SupplyNext]_supplyVars
             PROVE  SupplyTypeOK'
  OBVIOUS
<1> USE DEF SupplyTypeOK
<1>1. ASSUME NEW c \in Series, NEW terms \in Terms, NEW schema \in FirstSchemas,
             CreateCollection(c, terms, schema)
      PROVE  SupplyTypeOK'
  <2>1. [potential |-> terms.potential, cap |-> terms.cap,
         transferable |-> terms.transferable, burnable |-> terms.burnable,
         schema |-> schema, version |-> IF schema = NoSchema THEN 0 ELSE 1] \in SeriesRow
    BY SupplyAssumption DEF SeriesRow
  <2> QED
    BY <1>1, <2>1 DEF CreateCollection
<1>2. ASSUME NEW c \in Series, NEW new \in Schema, ExtendSchema(c, new)
      PROVE  SupplyTypeOK'
  BY <1>2, ExtendedRow DEF ExtendSchema
<1>3. ASSUME NEW c \in Series, ArchiveCollection(c)
      PROVE  SupplyTypeOK'
  BY <1>3 DEF ArchiveCollection, NothingCounted, Counters
<1>4. ASSUME NEW c \in Series, NEW u \in Holders, NEW approved \in BOOLEAN,
             DataOperatorApprove(c, u, approved)
      PROVE  SupplyTypeOK'
  BY <1>4 DEF DataOperatorApprove
<1>5. ASSUME NEW s \in SeedIds, NEW u \in Holders, NEW data \in Payloads,
             NEW max \in MintSupplies, NEW fixed \in SUBSET Fields,
             Mint(s, u, max, fixed, data)
      PROVE  SupplyTypeOK'
  <2>0. SeriesOf(s) \in Series
    BY SeedIdParts
  <2>1. [owner |-> u, max |-> max, distributed |-> 0, data |-> data] \in SeedRow
    BY SupplyAssumption DEF SeedRow, Data
  <2>2. counted' \in [Series -> Counters]
    BY <1>5, <2>0, CountType DEF Mint
  <2>3. series[SeriesOf(s)] \in SeriesRow
    BY <1>5, <2>0 DEF Mint, Exists
  <2>4. ImmutableFields(SeriesOf(s)) \in SUBSET Fields
    BY <2>3 DEF ImmutableFields, SeriesRow, Schema
  <2>5. sealed' \in [Series -> (SUBSET Fields) \cup {NoRow}]
    BY <1>5, <2>0, <2>4 DEF Mint
  <2> QED
    BY <1>5, <2>1, <2>2, <2>5 DEF Mint
<1>6. ASSUME NEW s \in SeedIds, NEW u \in Holders,
             (\E data \in Payloads : SetSeedData(s, u, data)) \/ TransferSeed(s, u)
      PROVE  SupplyTypeOK'
  BY <1>6, RewrittenSeed DEF SetSeedData, WriteData, TransferSeed
<1>7. ASSUME NEW i \in InstanceIds, NEW u \in Holders,
             (\E data \in Payloads : SetInstanceData(i, u, data)) \/ TransferInstance(i, u)
      PROVE  SupplyTypeOK'
  BY <1>7, RewrittenInstance DEF SetInstanceData, WriteData, TransferInstance
<1>8. ASSUME NEW items \in Shipments, NEW u, NEW to \in Holders, NEW data \in Payloads,
             BulkDistribute(u, items, to, data)
      PROVE  SupplyTypeOK'
  <2>0. data \in Data
    BY SupplyAssumption DEF Data
  <2>1. FreshOf(items) \subseteq InstanceIds
    BY <1>8, BulkDistributeParts DEF FreshOf
  <2>2. /\ \A s : Cardinality(FreshIn(items, s)) \in Nat
        /\ \A c : Cardinality(FreshUnder(items, c)) \in Nat
    BY <2>1, FiniteCount DEF FreshIn, FreshUnder
  <2>p. /\ instance' = [i \in InstanceIds |->
              IF i \in FreshOf(items) THEN [owner |-> to, data |-> data] ELSE instance[i]]
        /\ seed' = [s \in SeedIds |->
              IF s \in DOMAIN items
              THEN [seed[s] EXCEPT !.distributed = @ + Cardinality(FreshIn(items, s))]
              ELSE seed[s]]
        /\ counted' = [c \in Series |->
              Recounted(counted[c], 0, Cardinality(FreshUnder(items, c)))]
    BY <1>8, BulkDistributeParts
  <2>3. instance' \in [InstanceIds -> InstanceRow \cup {NoRow}]
    <3>1. [owner |-> to, data |-> data] \in InstanceRow
      BY <2>0 DEF InstanceRow
    <3> QED
      BY <2>p, <3>1
  <2>4. \A s \in SeedIds : s \in DOMAIN items => seed[s] \in SeedRow
    BY <1>8, BulkDistributeParts
  <2>5. seed' \in [SeedIds -> SeedRow \cup {NoRow}]
    <3>1. ASSUME NEW s \in SeedIds, s \in DOMAIN items
          PROVE  [seed[s] EXCEPT !.distributed = @ + Cardinality(FreshIn(items, s))] \in SeedRow
      BY <2>2, <2>4, <3>1 DEF SeedRow
    <3> QED
      BY <2>p, <3>1
  <2>6. counted' \in [Series -> Counters]
    <3>1. ASSUME NEW c \in Series
          PROVE  Recounted(counted[c], 0, Cardinality(FreshUnder(items, c))) \in Counters
      BY <2>2 DEF Counters, Recounted
    <3> QED
      BY <2>p, <3>1
  <2> QED
    BY <1>8, <2>3, <2>5, <2>6, BulkDistributeParts
<1>9. ASSUME NEW s \in SeedIds, BurnSeed(s)
       PROVE  SupplyTypeOK'
  <2>0. SeriesOf(s) \in Series /\ -1 \in Int /\ 0 \in Int
    BY SeedIdParts
  <2>1. counted' \in [Series -> Counters]
    BY <1>9, <2>0, CountType DEF BurnSeed
  <2> QED
    BY <1>9, <2>1 DEF BurnSeed
<1>10. ASSUME NEW i \in InstanceIds, BurnInstance(i)
       PROVE  SupplyTypeOK'
  <2>0. SeriesOf(i) \in Series /\ -1 \in Int /\ 0 \in Int
    BY InstanceIdParts
  <2>1. counted' \in [Series -> Counters]
    BY <1>10, <2>0, CountType DEF BurnInstance
  <2> QED
    BY <1>10, <2>1 DEF BurnInstance
<1>11. CASE UNCHANGED supplyVars
  BY <1>11 DEF supplyVars
<1> QED
  BY <1>1, <1>2, <1>3, <1>4, <1>5, <1>6, <1>7, <1>8, <1>9, <1>10, <1>11
  DEF SupplyNext

\* Every row of every supply table keeps its type.
THEOREM SupplyTypeCorrect == SupplySpec => []SupplyTypeOK
  BY SupplyTypeInit, SupplyTypeStep, PTL DEF SupplySpec

-----------------------------------------------------------------------------
(* The inductive invariant. *)

SeedsOf(c) == {s \in SeedIds : SeriesOf(s) = c /\ seed[s] # NoRow}
InstancesOf(c) == {i \in InstanceIds : SeriesOf(i) = c /\ instance[i] # NoRow}
Taken(i) == instance[i] # NoRow \/ i \in burned

\* The row of statistics for m seeds and n instances.
Statistics(m, n) == [total |-> m + n, seeds |-> m, instances |-> n]

\* The trigger's counters are the numbers of rows.
CountersExact ==
    \A c \in Series :
        counted[c] = Statistics(Cardinality(SeedsOf(c)), Cardinality(InstancesOf(c)))

\* No row refers to one that is gone.
Rooted ==
    /\ \A s \in SeedIds : seed[s] # NoRow => Exists(SeriesOf(s))
    /\ \A i \in InstanceIds : instance[i] # NoRow => seed[SeedOf(i)] # NoRow

\* A number is taken exactly when the seed's row says it was distributed, and
\* numbers of a seed without a row are left over from a seed that was burned.
Numbered ==
    /\ \A s \in SeedIds : seed[s] # NoRow =>
        /\ seed[s].distributed <= MaxNumber
        /\ \A i \in InstanceIds : SeedOf(i) = s => (Taken(i) <=> i[3] <= seed[s].distributed)
    /\ \A i \in InstanceIds : Taken(i) /\ seed[SeedOf(i)] = NoRow => SeedOf(i) \in burned

BurnedGone ==
    \A id \in burned : /\ id \in SeedIds => seed[id] = NoRow
                       /\ id \in InstanceIds => instance[id] = NoRow

SupplyInv == SupplyTypeOK /\ CountersExact /\ Rooted /\ Numbered /\ BurnedGone

LEMMA SupplyInvInit == SupplyInit => SupplyInv
<1> SUFFICES ASSUME SupplyInit
             PROVE  SupplyInv
  OBVIOUS
<1>1. ASSUME NEW c \in Series
      PROVE  SeedsOf(c) = {} /\ InstancesOf(c) = {} /\ counted[c] = NothingCounted
  BY DEF SupplyInit, SeedsOf, InstancesOf
<1>2. CountersExact
  BY <1>1, FS_EmptySet DEF CountersExact, NothingCounted, Statistics
<1>3. Rooted /\ Numbered /\ BurnedGone
  BY InstanceIdParts DEF SupplyInit, Rooted, Numbered, BurnedGone, Taken
<1> QED
  BY <1>2, <1>3, SupplyTypeInit DEF SupplyInv

\* The step changes no row's existence and nothing that the counts and the
\* caps depend on; a collection may come into being.
Repaints ==
    /\ UNCHANGED <<burned, counted, sealed>>
    /\ \A s \in SeedIds :
        /\ seed'[s] = NoRow <=> seed[s] = NoRow
        /\ seed[s] # NoRow =>
            seed'[s].distributed = seed[s].distributed /\ seed'[s].max = seed[s].max
    /\ \A i \in InstanceIds : instance'[i] = NoRow <=> instance[i] = NoRow
    /\ \A c \in Series : Exists(c) =>
        Exists(c)' /\ series'[c].cap = series[c].cap /\ series'[c].potential = series[c].potential

\* Seven of the twelve operations, and stuttering, only repaint.
LEMMA SupplyStepKinds ==
    ASSUME SupplyTypeOK, [SupplyNext]_supplyVars
    PROVE  \/ Repaints
           \/ \E c \in Series : ArchiveCollection(c)
           \/ \E s \in SeedIds, u \in Holders, data \in Payloads, max \in MintSupplies,
                  fixed \in SUBSET Fields :
                Mint(s, u, max, fixed, data)
           \/ \E items \in Shipments, u \in Holders, to \in Holders, data \in Payloads :
                BulkDistribute(u, items, to, data)
           \/ \E s \in SeedIds : BurnSeed(s)
           \/ \E i \in InstanceIds : BurnInstance(i)
<1>1. ASSUME NEW c \in Series, NEW terms \in Terms, NEW schema \in FirstSchemas,
             CreateCollection(c, terms, schema)
      PROVE  Repaints
  <2>1. [potential |-> terms.potential, cap |-> terms.cap,
         transferable |-> terms.transferable, burnable |-> terms.burnable,
         schema |-> schema, version |-> IF schema = NoSchema THEN 0 ELSE 1] \in SeriesRow
    BY SupplyAssumption DEF SeriesRow
  <2>2. \A d \in Series : Exists(d) => series'[d] = series[d]
    BY <1>1 DEF CreateCollection, Exists, SupplyTypeOK
  <2> QED
    BY <1>1, <2>2 DEF CreateCollection, Repaints, Exists
<1>2. ASSUME NEW c \in Series, NEW new \in Schema, ExtendSchema(c, new)
      PROVE  Repaints
  <2>1. /\ series'[c] # NoRow /\ series'[c].cap = series[c].cap
        /\ series'[c].potential = series[c].potential
        /\ \A d \in Series \ {c} : series'[d] = series[d]
    BY <1>2, ExtendedRow, SupplyAssumption DEF SupplyTypeOK
  <2> QED
    BY <1>2, <2>1 DEF ExtendSchema, Repaints, Exists
<1>3. ASSUME NEW c, NEW u, NEW approved, DataOperatorApprove(c, u, approved)
      PROVE  Repaints
  BY <1>3 DEF DataOperatorApprove, Repaints, Exists
<1>4. ASSUME NEW s \in SeedIds, NEW u \in Holders,
             (\E data \in Payloads : SetSeedData(s, u, data)) \/ TransferSeed(s, u)
      PROVE  Repaints
  <2>1. /\ seed[s] # NoRow /\ seed'[s] # NoRow
        /\ seed'[s].distributed = seed[s].distributed /\ seed'[s].max = seed[s].max
        /\ \A t \in SeedIds \ {s} : seed'[t] = seed[t]
    BY <1>4, RewrittenSeed, SupplyAssumption DEF SupplyTypeOK
  <2> QED
    BY <1>4, <2>1 DEF SetSeedData, WriteData, TransferSeed, Repaints, Exists
<1>5. ASSUME NEW i \in InstanceIds, NEW u \in Holders,
             (\E data \in Payloads : SetInstanceData(i, u, data)) \/ TransferInstance(i, u)
      PROVE  Repaints
  <2>1. /\ instance[i] # NoRow /\ instance'[i] # NoRow
        /\ \A j \in InstanceIds \ {i} : instance'[j] = instance[j]
    BY <1>5, RewrittenInstance, SupplyAssumption DEF SupplyTypeOK
  <2> QED
    BY <1>5, <2>1 DEF SetInstanceData, WriteData, TransferInstance, Repaints, Exists
<1>6. CASE UNCHANGED supplyVars
  BY <1>6 DEF supplyVars, Repaints, Exists
<1> QED
  BY <1>1, <1>2, <1>3, <1>4, <1>5, <1>6 DEF SupplyNext

-----------------------------------------------------------------------------
(* Each kind of step keeps the invariant. *)

LEMMA RowSetsFinite ==
    ASSUME NEW c
    PROVE  /\ IsFiniteSet(SeedsOf(c)) /\ Cardinality(SeedsOf(c)) \in Nat
           /\ IsFiniteSet(InstancesOf(c)) /\ Cardinality(InstancesOf(c)) \in Nat
<1>1. SeedsOf(c) \in SUBSET SeedIds /\ InstancesOf(c) \in SUBSET InstanceIds
  BY DEF SeedsOf, InstancesOf
<1> QED
  BY <1>1, SupplyAssumption, FS_Subset, FS_CardinalityType

LEMMA RecountedStatistics ==
    ASSUME NEW m \in Int, NEW n \in Int, NEW a \in Int, NEW b \in Int
    PROVE  Recounted(Statistics(m, n), a, b) = Statistics(m + a, n + b)
  BY DEF Recounted, Statistics

LEMMA StatisticsTotal ==
    ASSUME NEW m \in Int, NEW n \in Int
    PROVE  Statistics(m, n).total = m + n
  BY DEF Statistics

LEMMA CountersRead ==
    ASSUME SupplyInv, NEW c \in Series
    PROVE  /\ counted[c].seeds = Cardinality(SeedsOf(c))
           /\ counted[c].instances = Cardinality(InstancesOf(c))
<1> DEFINE m == Cardinality(SeedsOf(c))
           n == Cardinality(InstancesOf(c))
<1>1. counted[c] = Statistics(m, n)
  BY DEF SupplyInv, CountersExact
<1> HIDE DEF m, n
<1>2. Statistics(m, n).seeds = m /\ Statistics(m, n).instances = n
  BY DEF Statistics
<1>3. counted[c].seeds = m /\ counted[c].instances = n
  BY <1>1, <1>2
<1> QED
  BY <1>3 DEF m, n

LEMMA CountersNow ==
    ASSUME SupplyInv, NEW c \in Series
    PROVE  counted[c] = Statistics(Cardinality(SeedsOf(c)), Cardinality(InstancesOf(c)))
  BY DEF SupplyInv, CountersExact

LEMMA RepaintKeeps ==
    ASSUME SupplyInv, Repaints
    PROVE  (CountersExact /\ Rooted /\ Numbered /\ BurnedGone)'
<1>1. \A c : SeedsOf(c)' = SeedsOf(c) /\ InstancesOf(c)' = InstancesOf(c)
  BY DEF Repaints, SeedsOf, InstancesOf
<1>2. CountersExact'
  BY <1>1 DEF SupplyInv, CountersExact, Repaints
<1>3. Rooted'
  BY InstanceIdParts, SeedIdParts DEF SupplyInv, Rooted, Repaints
<1>4. \A i \in InstanceIds : Taken(i)' <=> Taken(i)
  BY DEF Repaints, Taken
<1>5. Numbered'
  BY <1>4, InstanceIdParts DEF SupplyInv, Numbered, Repaints
<1>6. BurnedGone'
  BY DEF SupplyInv, BurnedGone, Repaints
<1> QED
  BY <1>2, <1>3, <1>5, <1>6

\* Archiving takes away only a row that nothing refers to: the counter it
\* consults is the number of the rows that do.
LEMMA ArchiveKeeps ==
    ASSUME SupplyInv, NEW c \in Series, ArchiveCollection(c)
    PROVE  (CountersExact /\ Rooted /\ Numbered /\ BurnedGone)'
<1>1. Cardinality(SeedsOf(c)) + Cardinality(InstancesOf(c)) = 0
  <2>1. counted[c].total = 0
    BY DEF ArchiveCollection
  <2>2. counted[c].total = Cardinality(SeedsOf(c)) + Cardinality(InstancesOf(c))
    <3>1. Cardinality(SeedsOf(c)) \in Int /\ Cardinality(InstancesOf(c)) \in Int
      BY RowSetsFinite
    <3>2. counted[c] = Statistics(Cardinality(SeedsOf(c)), Cardinality(InstancesOf(c)))
      BY CountersNow
    <3>3. Statistics(Cardinality(SeedsOf(c)), Cardinality(InstancesOf(c))).total
            = Cardinality(SeedsOf(c)) + Cardinality(InstancesOf(c))
      BY <3>1, StatisticsTotal
    <3> QED
      BY <3>2, <3>3
  <2> QED
    BY <2>1, <2>2
<1>2. SeedsOf(c) = {} /\ InstancesOf(c) = {}
  <2>1. Cardinality(SeedsOf(c)) = 0 /\ Cardinality(InstancesOf(c)) = 0
    BY <1>1, RowSetsFinite
  <2> QED
    BY <2>1, RowSetsFinite, FS_EmptySet
<1>3. UNCHANGED <<seed, instance, burned>>
  BY DEF ArchiveCollection
<1>4. \A d : SeedsOf(d)' = SeedsOf(d) /\ InstancesOf(d)' = InstancesOf(d)
  BY <1>3 DEF SeedsOf, InstancesOf
<1>5. CountersExact'
  <2> SUFFICES ASSUME NEW d \in Series
               PROVE  counted'[d] =
                        Statistics(Cardinality(SeedsOf(d)), Cardinality(InstancesOf(d)))
    BY <1>4 DEF CountersExact
  <2>1. CASE d = c
    <3>1. counted'[d] = NothingCounted
      BY <2>1 DEF ArchiveCollection, SupplyInv, SupplyTypeOK
    <3> QED
      BY <3>1, <2>1, <1>2, FS_EmptySet DEF NothingCounted, Statistics
  <2>2. CASE d # c
    <3>1. counted'[d] = counted[d]
      BY <2>2 DEF ArchiveCollection, SupplyInv, SupplyTypeOK
    <3> QED
      BY <3>1 DEF SupplyInv, CountersExact
  <2> QED
    BY <2>1, <2>2
<1>6. Rooted'
  <2>1. \A s \in SeedIds : seed[s] # NoRow => SeriesOf(s) # c
    BY <1>2 DEF SeedsOf
  <2>2. \A d \in Series \ {c} : series'[d] = series[d]
    BY DEF ArchiveCollection, SupplyInv, SupplyTypeOK
  <2> QED
    BY <1>3, <2>1, <2>2, SeedIdParts DEF SupplyInv, Rooted, Exists
<1>7. Numbered' /\ BurnedGone'
  BY <1>3 DEF SupplyInv, Numbered, BurnedGone, Taken
<1> QED
  BY <1>5, <1>6, <1>7

LEMMA MintKeeps ==
    ASSUME SupplyInv, NEW s \in SeedIds, NEW u \in Holders, NEW data \in Payloads,
           NEW max \in MintSupplies, NEW fixed, Mint(s, u, max, fixed, data)
    PROVE  (CountersExact /\ Rooted /\ Numbered /\ BurnedGone)'
<1> DEFINE row == [owner |-> u, max |-> max, distributed |-> 0, data |-> data]
<1>1. row \in SeedRow /\ row # NoRow
  BY SupplyAssumption DEF SeedRow, Data
<1>2. /\ s \notin burned /\ seed[s] = NoRow /\ Exists(SeriesOf(s))
      /\ UNCHANGED <<series, instance, burned>>
      /\ seed'[s] = row /\ \A t \in SeedIds \ {s} : seed'[t] = seed[t]
  BY DEF Mint, Mintable, SupplyInv, SupplyTypeOK
<1>3. row.distributed = 0
  OBVIOUS
<1> HIDE DEF row
<1>4. CountersExact'
  <2> DEFINE c == SeriesOf(s)
  <2>0. c \in Series
    BY SeedIdParts
  <2>1. SeedsOf(c)' = SeedsOf(c) \cup {s} /\ s \notin SeedsOf(c)
    BY <1>1, <1>2 DEF SeedsOf
  <2>2. \A d : d # c => SeedsOf(d)' = SeedsOf(d)
    BY <1>2 DEF SeedsOf
  <2>3. \A d : InstancesOf(d)' = InstancesOf(d)
    BY <1>2 DEF InstancesOf
  <2>4. Cardinality(SeedsOf(c)') = Cardinality(SeedsOf(c)) + 1
    BY <2>1, RowSetsFinite, FS_AddElement
  <2>5. \A d \in Series : counted'[d] = IF d = c THEN Recounted(counted[d], 1, 0) ELSE counted[d]
    BY <2>0 DEF Mint, Count, SupplyInv, SupplyTypeOK
  <2> HIDE DEF c
  <2>6. /\ Cardinality(SeedsOf(c)) \in Int /\ Cardinality(InstancesOf(c)) \in Int
        /\ 1 \in Int /\ 0 \in Int
    BY RowSetsFinite
  <2>7. counted'[c] = Statistics(Cardinality(SeedsOf(c)) + 1,
                                 Cardinality(InstancesOf(c)) + 0)
    <3>1. counted[c] = Statistics(Cardinality(SeedsOf(c)), Cardinality(InstancesOf(c)))
      BY <2>0, CountersNow
    <3>2. counted'[c] = Recounted(counted[c], 1, 0)
      BY <2>0, <2>5
    <3>3. Recounted(Statistics(Cardinality(SeedsOf(c)), Cardinality(InstancesOf(c))), 1, 0)
            = Statistics(Cardinality(SeedsOf(c)) + 1, Cardinality(InstancesOf(c)) + 0)
      BY <2>6, RecountedStatistics
    <3> QED
      BY <3>1, <3>2, <3>3
  <2>8. counted'[c] = Statistics(Cardinality(SeedsOf(c)'), Cardinality(InstancesOf(c)'))
    BY <2>3, <2>4, <2>6, <2>7
  <2> QED
    BY <2>2, <2>3, <2>5, <2>8, CountersNow DEF CountersExact
<1>5. Rooted'
  BY <1>1, <1>2, SeedIdParts, InstanceIdParts DEF SupplyInv, Rooted, Exists
<1>6. \A i \in InstanceIds : Taken(i)' <=> Taken(i)
  BY <1>2 DEF Taken
<1>7. \A i \in InstanceIds : SeedOf(i) = s => ~Taken(i)
  BY <1>2 DEF SupplyInv, Numbered
<1>8. Numbered'
  BY <1>1, <1>2, <1>3, <1>6, <1>7, InstanceIdParts, SupplyAssumption
  DEF SupplyInv, Numbered
<1>9. BurnedGone'
  BY <1>2 DEF SupplyInv, BurnedGone
<1> QED
  BY <1>4, <1>5, <1>8, <1>9

LEMMA BurnSeedKeeps ==
    ASSUME SupplyInv, NEW s \in SeedIds, BurnSeed(s)
    PROVE  (CountersExact /\ Rooted /\ Numbered /\ BurnedGone)'
<1>1. /\ seed[s] # NoRow /\ seed[s].distributed = 0 /\ LiveInstances(s) = {}
      /\ UNCHANGED <<series, instance>> /\ burned' = burned \cup {s}
      /\ seed'[s] = NoRow /\ \A t \in SeedIds \ {s} : seed'[t] = seed[t]
  BY DEF BurnSeed, SupplyInv, SupplyTypeOK
<1>2. CountersExact'
  <2> DEFINE c == SeriesOf(s)
  <2>0. c \in Series
    BY SeedIdParts
  <2>1. SeedsOf(c)' = SeedsOf(c) \ {s} /\ s \in SeedsOf(c)
    BY <1>1 DEF SeedsOf
  <2>2. \A d : d # c => SeedsOf(d)' = SeedsOf(d)
    BY <1>1 DEF SeedsOf
  <2>3. \A d : InstancesOf(d)' = InstancesOf(d)
    BY <1>1 DEF InstancesOf
  <2>4. Cardinality(SeedsOf(c)') = Cardinality(SeedsOf(c)) - 1
    BY <2>1, RowSetsFinite, FS_RemoveElement
  <2>5. \A d \in Series : counted'[d] = IF d = c THEN Recounted(counted[d], -1, 0) ELSE counted[d]
    BY <2>0 DEF BurnSeed, Count, SupplyInv, SupplyTypeOK
  <2> HIDE DEF c
  <2>6. /\ Cardinality(SeedsOf(c)) \in Int /\ Cardinality(InstancesOf(c)) \in Int
        /\ -1 \in Int /\ 0 \in Int
    BY RowSetsFinite
  <2>7. counted'[c] = Statistics(Cardinality(SeedsOf(c)) + -1,
                                 Cardinality(InstancesOf(c)) + 0)
    <3>1. counted[c] = Statistics(Cardinality(SeedsOf(c)), Cardinality(InstancesOf(c)))
      BY <2>0, CountersNow
    <3>2. counted'[c] = Recounted(counted[c], -1, 0)
      BY <2>0, <2>5
    <3>3. Recounted(Statistics(Cardinality(SeedsOf(c)), Cardinality(InstancesOf(c))), -1, 0)
            = Statistics(Cardinality(SeedsOf(c)) + -1, Cardinality(InstancesOf(c)) + 0)
      BY <2>6, RecountedStatistics
    <3> QED
      BY <3>1, <3>2, <3>3
  <2>8. counted'[c] = Statistics(Cardinality(SeedsOf(c)'), Cardinality(InstancesOf(c)'))
    BY <2>3, <2>4, <2>6, <2>7
  <2> QED
    BY <2>2, <2>3, <2>5, <2>8, CountersNow DEF CountersExact
<1>3. \A i \in InstanceIds : SeedOf(i) = s => instance[i] = NoRow
  BY <1>1 DEF LiveInstances
<1>4. Rooted'
  BY <1>1, <1>3, InstanceIdParts DEF SupplyInv, Rooted, Exists
<1>5. \A i \in InstanceIds : Taken(i)' <=> Taken(i)
  BY <1>1, SeedIdParts DEF Taken
<1>6. Numbered'
  BY <1>1, <1>5, InstanceIdParts DEF SupplyInv, Numbered
<1>7. BurnedGone'
  BY <1>1, SeedIdParts DEF SupplyInv, BurnedGone
<1> QED
  BY <1>2, <1>4, <1>6, <1>7

LEMMA BurnInstanceKeeps ==
    ASSUME SupplyInv, NEW i \in InstanceIds, BurnInstance(i)
    PROVE  (CountersExact /\ Rooted /\ Numbered /\ BurnedGone)'
<1>1. /\ instance[i] # NoRow
      /\ UNCHANGED <<series, seed>> /\ burned' = burned \cup {i}
      /\ instance'[i] = NoRow /\ \A j \in InstanceIds \ {i} : instance'[j] = instance[j]
  BY DEF BurnInstance, SupplyInv, SupplyTypeOK
<1>2. CountersExact'
  <2> DEFINE c == SeriesOf(i)
  <2>0. c \in Series
    BY InstanceIdParts
  <2>1. InstancesOf(c)' = InstancesOf(c) \ {i} /\ i \in InstancesOf(c)
    BY <1>1 DEF InstancesOf
  <2>2. \A d : d # c => InstancesOf(d)' = InstancesOf(d)
    BY <1>1 DEF InstancesOf
  <2>3. \A d : SeedsOf(d)' = SeedsOf(d)
    BY <1>1 DEF SeedsOf
  <2>4. Cardinality(InstancesOf(c)') = Cardinality(InstancesOf(c)) - 1
    BY <2>1, RowSetsFinite, FS_RemoveElement
  <2>5. \A d \in Series : counted'[d] = IF d = c THEN Recounted(counted[d], 0, -1) ELSE counted[d]
    BY <2>0 DEF BurnInstance, Count, SupplyInv, SupplyTypeOK
  <2> HIDE DEF c
  <2>6. /\ Cardinality(SeedsOf(c)) \in Int /\ Cardinality(InstancesOf(c)) \in Int
        /\ 0 \in Int /\ -1 \in Int
    BY RowSetsFinite
  <2>7. counted'[c] = Statistics(Cardinality(SeedsOf(c)) + 0,
                                 Cardinality(InstancesOf(c)) + -1)
    <3>1. counted[c] = Statistics(Cardinality(SeedsOf(c)), Cardinality(InstancesOf(c)))
      BY <2>0, CountersNow
    <3>2. counted'[c] = Recounted(counted[c], 0, -1)
      BY <2>0, <2>5
    <3>3. Recounted(Statistics(Cardinality(SeedsOf(c)), Cardinality(InstancesOf(c))), 0, -1)
            = Statistics(Cardinality(SeedsOf(c)) + 0, Cardinality(InstancesOf(c)) + -1)
      BY <2>6, RecountedStatistics
    <3> QED
      BY <3>1, <3>2, <3>3
  <2>8. counted'[c] = Statistics(Cardinality(SeedsOf(c)'), Cardinality(InstancesOf(c)'))
    BY <2>3, <2>4, <2>6, <2>7
  <2> QED
    BY <2>2, <2>3, <2>5, <2>8, CountersNow DEF CountersExact
<1>3. Rooted'
  BY <1>1 DEF SupplyInv, Rooted, Exists
<1>4. \A j \in InstanceIds : Taken(j)' <=> Taken(j)
  BY <1>1 DEF Taken
<1>5. i \notin SeedIds
  BY SeedIdParts
<1>6. Numbered'
  BY <1>1, <1>4, <1>5, InstanceIdParts DEF SupplyInv, Numbered
<1>7. BurnedGone'
  BY <1>1, <1>5 DEF SupplyInv, BurnedGone
<1> QED
  BY <1>2, <1>3, <1>6, <1>7

Distributes(items) ==
    \E u \in Holders, to \in Holders, data \in Payloads : BulkDistribute(u, items, to, data)

\* What an order names of a seed are the numbers that come next, none of which
\* was ever used, so that everything it names is new.
LEMMA OrderIsFresh ==
    ASSUME SupplyInv, NEW items \in Shipments, Distributes(items), NEW s \in DOMAIN items
    PROVE  /\ s \in SeedIds /\ seed[s] \in SeedRow /\ items[s] \in 1..MaxQuantity
           /\ seed[s].distributed \in Nat /\ items[s] \in Nat
           /\ \A i \in InstanceIds : SeedOf(i) = s =>
                (i \in FreshOf(items) <=> i[3] \in Numbers(s, items[s]))
           /\ FreshIn(items, s) = {<<s[1], s[2], n>> : n \in Numbers(s, items[s])}
           /\ seed[s].distributed + items[s] <= MaxNumber
<1>1. /\ seed[s] # NoRow /\ Named(items) \subseteq InstanceIds
      /\ s \in SeedIds /\ items[s] \in 1..MaxQuantity /\ DOMAIN items \subseteq SeedIds
  BY BulkDistributeParts, ShipmentType DEF Distributes
<1>2. seed[s] \in SeedRow
  BY <1>1 DEF SupplyInv, SupplyTypeOK
<1>3. seed[s].distributed \in Nat /\ items[s] \in Nat /\ items[s] >= 1
  BY <1>1, <1>2, SupplyAssumption DEF SeedRow
<1>4. ASSUME NEW i \in InstanceIds, SeedOf(i) = s
      PROVE  i \in Named(items) <=> i[3] \in Numbers(s, items[s])
  <2>1. ASSUME i \in Named(items)
        PROVE  i[3] \in Numbers(s, items[s])
    <3>1. PICK t \in DOMAIN items : \E n \in Numbers(t, items[t]) : i = <<t[1], t[2], n>>
      BY <2>1 DEF Named
    <3>2. PICK n \in Numbers(t, items[t]) : i = <<t[1], t[2], n>>
      BY <3>1
    <3>3. t \in SeedIds /\ t = <<t[1], t[2]>>
      BY <1>1, SeedIdParts
    <3>4. SeedOf(i) = <<t[1], t[2]>> /\ i[3] = n
      BY <3>2 DEF SeedOf
    <3> QED
      BY <1>4, <3>3, <3>4
  <2>2. ASSUME i[3] \in Numbers(s, items[s])
        PROVE  i \in Named(items)
    <3>1. i = <<s[1], s[2], i[3]>>
      BY <1>4, InstanceIdParts
    <3> QED
      BY <2>2, <3>1 DEF Named
  <2> QED
    BY <2>1, <2>2
<1>5. ASSUME NEW i \in InstanceIds, SeedOf(i) = s
      PROVE  i \in FreshOf(items) <=> i[3] \in Numbers(s, items[s])
  <2>1. ASSUME i[3] \in Numbers(s, items[s])
        PROVE  instance[i] = NoRow
    <3>1. i[3] \in Nat /\ ~(i[3] <= seed[s].distributed)
      BY <2>1, <1>3 DEF Numbers
    <3>2. ~Taken(i)
      BY <1>1, <1>5, <3>1 DEF SupplyInv, Numbered
    <3> QED
      BY <3>2 DEF Taken
  <2> QED
    BY <1>4, <1>5, <2>1 DEF FreshOf
<1>6. \A n \in Numbers(s, items[s]) :
        /\ <<s[1], s[2], n>> \in InstanceIds /\ SeedOf(<<s[1], s[2], n>>) = s
        /\ <<s[1], s[2], n>>[3] = n /\ n \in 1..MaxNumber
  <2> SUFFICES ASSUME NEW n \in Numbers(s, items[s])
               PROVE  /\ <<s[1], s[2], n>> \in InstanceIds
                      /\ SeedOf(<<s[1], s[2], n>>) = s
                      /\ <<s[1], s[2], n>>[3] = n /\ n \in 1..MaxNumber
    OBVIOUS
  <2>1. <<s[1], s[2], n>> \in Named(items)
    BY DEF Named
  <2>2. <<s[1], s[2], n>> \in InstanceIds
    BY <1>1, <2>1
  <2>3. n \in 1..MaxNumber
    BY <2>2 DEF InstanceIds
  <2> QED
    BY <1>1, <2>3, SeedIdParts
<1>7. FreshIn(items, s) = {<<s[1], s[2], n>> : n \in Numbers(s, items[s])}
  <2>1. ASSUME NEW i \in FreshIn(items, s)
        PROVE  i \in {<<s[1], s[2], n>> : n \in Numbers(s, items[s])}
    <3>1. i \in InstanceIds /\ SeedOf(i) = s /\ i \in FreshOf(items)
      BY <1>1 DEF FreshIn, FreshOf
    <3>2. i = <<s[1], s[2], i[3]>> /\ i[3] \in Numbers(s, items[s])
      BY <1>5, <3>1, InstanceIdParts
    <3> QED
      BY <3>2
  <2>2. ASSUME NEW n \in Numbers(s, items[s])
        PROVE  <<s[1], s[2], n>> \in FreshIn(items, s)
    BY <1>5, <1>6 DEF FreshIn
  <2> QED
    BY <2>1, <2>2
<1>8. seed[s].distributed + items[s] <= MaxNumber
  <2>1. seed[s].distributed + items[s] \in Numbers(s, items[s])
    BY <1>3 DEF Numbers
  <2>2. seed[s].distributed + items[s] \in 1..MaxNumber
    BY <1>6, <2>1
  <2> QED
    BY <1>3, <2>2, SupplyAssumption
<1> QED
  BY <1>1, <1>2, <1>3, <1>5, <1>7, <1>8

\* It distributes as many instances of a seed as it says.
LEMMA OrderCount ==
    ASSUME SupplyInv, NEW items \in Shipments, Distributes(items), NEW s \in DOMAIN items
    PROVE  IsFiniteSet(FreshIn(items, s)) /\ Cardinality(FreshIn(items, s)) = items[s]
<1> DEFINE d == seed[s].distributed
           N == Numbers(s, items[s])
           f == [n \in N |-> <<s[1], s[2], n>>]
<1>1. d \in Nat /\ items[s] \in Nat
  BY OrderIsFresh
<1>2. IsFiniteSet(N) /\ Cardinality(N) = items[s]
  <2>1. d + 1 \in Int /\ d + items[s] \in Int
    BY <1>1
  <2>2. /\ IsFiniteSet((d + 1)..(d + items[s]))
        /\ Cardinality((d + 1)..(d + items[s])) =
             IF d + 1 > d + items[s] THEN 0 ELSE (d + items[s]) - (d + 1) + 1
    BY <2>1, FS_Interval
  <2> HIDE DEF d
  <2>3. IF d + 1 > d + items[s] THEN items[s] = 0
        ELSE (d + items[s]) - (d + 1) + 1 = items[s]
    BY <1>1
  <2> QED
    BY <2>2, <2>3 DEF Numbers, d
<1>3. FreshIn(items, s) = {<<s[1], s[2], n>> : n \in N}
  BY OrderIsFresh
<1> HIDE DEF N
<1>4. f \in Surjection(N, FreshIn(items, s))
  BY <1>3 DEF Surjection
<1>5. f \in Injection(N, FreshIn(items, s))
  BY <1>3, Fun_IsInj
<1> QED
  BY <1>2, <1>4, <1>5, FS_Surjection
\* What it distributes is of the seeds it names, new, and not burned.
LEMMA OrderNames ==
    ASSUME NEW items \in Shipments, Distributes(items)
    PROVE  /\ DOMAIN items \subseteq SeedIds
           /\ \A s \in DOMAIN items : seed[s] # NoRow
           /\ WithinBudgets(items)
           /\ UNCHANGED <<series, burned, operators, sealed>>
           /\ FreshOf(items) \subseteq InstanceIds /\ FreshOf(items) \cap burned = {}
           /\ \A i \in FreshOf(items) : instance[i] = NoRow /\ SeedOf(i) \in DOMAIN items
<1>1. PICK u \in Holders, to \in Holders, data \in Payloads : BulkDistribute(u, items, to, data)
  BY DEF Distributes
<1>2. /\ Named(items) \subseteq InstanceIds /\ FreshOf(items) \cap burned = {}
      /\ \A s \in DOMAIN items : seed[s] # NoRow
      /\ WithinBudgets(items) /\ UNCHANGED <<series, burned, operators, sealed>>
  BY <1>1, BulkDistributeParts
<1>3. DOMAIN items \subseteq SeedIds
  BY ShipmentType
<1>4. ASSUME NEW i \in Named(items)
      PROVE  SeedOf(i) \in DOMAIN items
  <2>1. PICK s \in DOMAIN items : \E n \in Numbers(s, items[s]) : i = <<s[1], s[2], n>>
    BY <1>4 DEF Named
  <2>2. s = <<s[1], s[2]>>
    BY <1>3, SeedIdParts
  <2> QED
    BY <2>1, <2>2 DEF SeedOf
<1> QED
  BY <1>2, <1>3, <1>4 DEF FreshOf

\* It changes no seed but the ones it names, and of those the number alone.
LEMMA OrderSeeds ==
    ASSUME SupplyInv, NEW items \in Shipments, Distributes(items)
    PROVE  /\ \A s \in SeedIds : s \notin DOMAIN items => seed'[s] = seed[s]
           /\ \A s \in DOMAIN items :
                /\ seed'[s].distributed = seed[s].distributed + items[s]
                /\ seed'[s].max = seed[s].max
                /\ seed'[s].distributed <= seed'[s].max
           /\ \A s \in SeedIds : seed'[s] # NoRow <=> seed[s] # NoRow
<1>1. \A s \in SeedIds : s \notin DOMAIN items => seed'[s] = seed[s]
  BY BulkDistributeParts DEF Distributes
<1>2. ASSUME NEW s \in DOMAIN items
      PROVE  /\ seed[s] # NoRow /\ seed'[s] # NoRow
             /\ seed'[s].distributed = seed[s].distributed + items[s]
             /\ seed'[s].max = seed[s].max
             /\ seed'[s].distributed <= seed'[s].max
  <2>1. /\ seed[s] \in SeedRow /\ seed[s].distributed \in Nat /\ items[s] \in Nat
        /\ s \in SeedIds
    BY OrderIsFresh
  <2>2. /\ seed'[s] = [seed[s] EXCEPT !.distributed = @ + Cardinality(FreshIn(items, s))]
        /\ seed[s] # NoRow /\ items[s] <= seed[s].max - seed[s].distributed
    BY <2>1, BulkDistributeParts DEF Distributes
  <2>3. Cardinality(FreshIn(items, s)) = items[s]
    BY OrderCount
  <2>4. seed'[s] = [seed[s] EXCEPT !.distributed = @ + items[s]]
    BY <2>2, <2>3
  <2>5. /\ seed'[s].distributed = seed[s].distributed + items[s]
        /\ seed'[s] \in SeedRow /\ seed'[s].max = seed[s].max
    BY <2>1, <2>4 DEF SeedRow
  <2>6. seed[s].max \in Nat
    BY <2>1 DEF SeedRow
  <2>7. seed'[s].distributed <= seed'[s].max
    BY <2>1, <2>2, <2>5, <2>6
  <2> QED
    BY <2>2, <2>5, <2>7, SupplyAssumption
<1> QED
  BY <1>1, <1>2

LEMMA BulkDistributeKeeps ==
    ASSUME SupplyInv, NEW items \in Shipments, Distributes(items)
    PROVE  (CountersExact /\ Rooted /\ Numbered /\ BurnedGone)'
<1>1. /\ DOMAIN items \subseteq SeedIds
      /\ \A s \in DOMAIN items : seed[s] \in SeedRow /\ seed[s] # NoRow
      /\ UNCHANGED <<series, burned>>
      /\ FreshOf(items) \subseteq InstanceIds /\ FreshOf(items) \cap burned = {}
      /\ \A i \in FreshOf(items) : instance[i] = NoRow /\ SeedOf(i) \in DOMAIN items
  BY OrderNames DEF SupplyInv, SupplyTypeOK
<1>2. /\ \A i \in InstanceIds : instance'[i] # NoRow <=> instance[i] # NoRow \/ i \in FreshOf(items)
      /\ \A c \in Series : counted'[c] =
            Recounted(counted[c], 0, Cardinality(FreshUnder(items, c)))
  <2>1. PICK u \in Holders, to \in Holders, data \in Payloads : BulkDistribute(u, items, to, data)
    BY DEF Distributes
  <2>2. [owner |-> to, data |-> data] \in InstanceRow
    BY SupplyAssumption DEF InstanceRow, Data
  <2>3. [owner |-> to, data |-> data] # NoRow
    BY <2>2, SupplyAssumption
  <2>4. /\ instance' = [i \in InstanceIds |->
              IF i \in FreshOf(items) THEN [owner |-> to, data |-> data] ELSE instance[i]]
        /\ counted' = [c \in Series |->
              Recounted(counted[c], 0, Cardinality(FreshUnder(items, c)))]
    BY <2>1, BulkDistributeParts
  <2> QED
    BY <2>3, <2>4
<1>3. \A s \in SeedIds : s \notin DOMAIN items => seed'[s] = seed[s]
  BY OrderSeeds
<1>4. \A s \in DOMAIN items : seed'[s].distributed = seed[s].distributed + items[s]
  BY OrderSeeds
<1>5. \A s \in SeedIds : seed'[s] # NoRow <=> seed[s] # NoRow
  BY OrderSeeds
<1>6. CountersExact'
  <2> SUFFICES ASSUME NEW c \in Series
               PROVE  counted'[c] =
                        Statistics(Cardinality(SeedsOf(c)'), Cardinality(InstancesOf(c)'))
    BY DEF CountersExact
  <2>1. SeedsOf(c)' = SeedsOf(c)
    BY <1>5 DEF SeedsOf
  <2>2. InstancesOf(c)' = InstancesOf(c) \cup FreshUnder(items, c)
    BY <1>1, <1>2 DEF InstancesOf, FreshUnder
  <2>3. InstancesOf(c) \cap FreshUnder(items, c) = {}
    BY <1>1 DEF InstancesOf, FreshUnder
  <2>4. IsFiniteSet(FreshUnder(items, c)) /\ Cardinality(FreshUnder(items, c)) \in Nat
    BY <1>1, FiniteCount DEF FreshUnder
  <2>5. Cardinality(InstancesOf(c)')
          = Cardinality(InstancesOf(c)) + Cardinality(FreshUnder(items, c))
    <3>1. Cardinality(InstancesOf(c) \cup FreshUnder(items, c))
            = Cardinality(InstancesOf(c)) + Cardinality(FreshUnder(items, c))
                - Cardinality(InstancesOf(c) \cap FreshUnder(items, c))
      BY <2>4, RowSetsFinite, FS_Union
    <3>2. Cardinality(InstancesOf(c) \cap FreshUnder(items, c)) = 0
      BY <2>3, FS_EmptySet
    <3> QED
      BY <2>2, <2>4, <3>1, <3>2, RowSetsFinite
  <2>6. /\ Cardinality(SeedsOf(c)) \in Int /\ Cardinality(InstancesOf(c)) \in Int
        /\ Cardinality(FreshUnder(items, c)) \in Int /\ 0 \in Int
    BY <2>4, RowSetsFinite
  <2>7. counted'[c] = Statistics(Cardinality(SeedsOf(c)) + 0,
                        Cardinality(InstancesOf(c)) + Cardinality(FreshUnder(items, c)))
    <3>1. counted[c] = Statistics(Cardinality(SeedsOf(c)), Cardinality(InstancesOf(c)))
      BY CountersNow
    <3>2. counted'[c] = Recounted(counted[c], 0, Cardinality(FreshUnder(items, c)))
      BY <1>2
    <3>3. Recounted(Statistics(Cardinality(SeedsOf(c)), Cardinality(InstancesOf(c))),
                    0, Cardinality(FreshUnder(items, c)))
            = Statistics(Cardinality(SeedsOf(c)) + 0,
                Cardinality(InstancesOf(c)) + Cardinality(FreshUnder(items, c)))
      BY <2>6, RecountedStatistics
    <3> QED
      BY <3>1, <3>2, <3>3
  <2>8. Cardinality(SeedsOf(c)) + 0 = Cardinality(SeedsOf(c))
    BY <2>6
  <2> QED
    BY <2>1, <2>5, <2>7, <2>8
<1>7. Rooted'
  BY <1>1, <1>2, <1>5, SeedIdParts, InstanceIdParts DEF SupplyInv, Rooted, Exists
<1>8. \A i \in InstanceIds : Taken(i)' <=> Taken(i) \/ i \in FreshOf(items)
  BY <1>1, <1>2 DEF Taken
<1>9. ASSUME NEW s \in SeedIds, seed'[s] # NoRow
      PROVE  /\ seed'[s].distributed <= MaxNumber
             /\ \A i \in InstanceIds : SeedOf(i) = s =>
                    (Taken(i)' <=> i[3] <= seed'[s].distributed)
  <2>1. CASE s \in DOMAIN items
    <3>1. /\ seed[s].distributed \in Nat /\ items[s] \in Nat
          /\ \A i \in InstanceIds : SeedOf(i) = s =>
               (i \in FreshOf(items) <=> i[3] \in Numbers(s, items[s]))
          /\ seed[s].distributed + items[s] <= MaxNumber
      BY <2>1, OrderIsFresh
    <3>2. \A i \in InstanceIds : i[3] \in Nat
      BY InstanceIdParts
    <3>3. \A i \in InstanceIds : SeedOf(i) = s => (Taken(i) <=> i[3] <= seed[s].distributed)
      BY <1>1, <2>1 DEF SupplyInv, Numbered
    <3>4. ASSUME NEW i \in InstanceIds, SeedOf(i) = s
          PROVE  Taken(i)' <=> i[3] <= seed[s].distributed + items[s]
      <4>1. Taken(i)' <=> i[3] <= seed[s].distributed \/ i[3] \in Numbers(s, items[s])
        BY <1>8, <3>1, <3>3, <3>4
      <4> QED
        BY <3>1, <3>2, <4>1 DEF Numbers
    <3> QED
      BY <1>4, <2>1, <3>1, <3>4
  <2>2. CASE s \notin DOMAIN items
    <3>1. seed'[s] = seed[s]
      BY <1>3, <2>2
    <3>2. \A i \in InstanceIds : SeedOf(i) = s => (Taken(i)' <=> Taken(i))
      BY <1>1, <1>8, <2>2
    <3> QED
      BY <1>9, <3>1, <3>2 DEF SupplyInv, Numbered
  <2> QED
    BY <2>1, <2>2
<1>10. \A i \in InstanceIds : Taken(i)' /\ seed'[SeedOf(i)] = NoRow => SeedOf(i) \in burned'
  BY <1>1, <1>5, <1>8, InstanceIdParts DEF SupplyInv, Numbered
<1>11. Numbered'
  BY <1>9, <1>10 DEF Numbered
<1>12. BurnedGone'
  BY <1>1, <1>2, <1>5 DEF SupplyInv, BurnedGone
<1> QED
  BY <1>6, <1>7, <1>11, <1>12

LEMMA SupplyInvStep == SupplyInv /\ [SupplyNext]_supplyVars => SupplyInv'
<1> SUFFICES ASSUME SupplyInv, [SupplyNext]_supplyVars
             PROVE  SupplyInv'
  OBVIOUS
<1>1. SupplyTypeOK'
  BY SupplyTypeStep DEF SupplyInv
<1>2. (CountersExact /\ Rooted /\ Numbered /\ BurnedGone)'
  <2>1. CASE Repaints
    BY <2>1, RepaintKeeps
  <2>2. CASE \E c \in Series : ArchiveCollection(c)
    BY <2>2, ArchiveKeeps
  <2>3. CASE \E s \in SeedIds, u \in Holders, data \in Payloads, max \in MintSupplies,
                 fixed \in SUBSET Fields :
                Mint(s, u, max, fixed, data)
    BY <2>3, MintKeeps
  <2>4. CASE \E items \in Shipments : Distributes(items)
    BY <2>4, BulkDistributeKeeps
  <2>5. CASE \E s \in SeedIds : BurnSeed(s)
    BY <2>5, BurnSeedKeeps
  <2>6. CASE \E i \in InstanceIds : BurnInstance(i)
    BY <2>6, BurnInstanceKeeps
  <2> QED
    BY <2>1, <2>2, <2>3, <2>4, <2>5, <2>6, SupplyStepKinds DEF SupplyInv, Distributes
<1> QED
  BY <1>1, <1>2 DEF SupplyInv

LEMMA SupplyCorrect == SupplySpec => []SupplyInv
  BY SupplyInvInit, SupplyInvStep, PTL DEF SupplySpec

-----------------------------------------------------------------------------
(* What follows of numbers, burned ids and sealed shapes. *)

\* Every number a seed ever gave out belongs to exactly one instance, alive or
\* burned, and no row outlives what it belongs to: the deletion of a seed's or
\* a collection's row (handleBurn, handleArchiveCollection) meets no foreign
\* key, and a distribution never meets an id that is taken.
THEOREM NumbersAccounted == SupplySpec => []EveryNumberAccountedFor
<1>1. SupplyInv => EveryNumberAccountedFor
  <2> SUFFICES ASSUME SupplyInv
               PROVE  EveryNumberAccountedFor
    OBVIOUS
  <2> DEFINE Used(s) == {i \in InstanceIds :
                           SeedOf(i) = s /\ (instance[i] # NoRow \/ i \in burned)}
  <2>1. ASSUME NEW s \in SeedIds, seed[s] = NoRow
        PROVE  LiveInstances(s) = {}
    BY <2>1 DEF SupplyInv, Rooted, LiveInstances
  <2>2. ASSUME NEW s \in SeedIds, seed[s] # NoRow
        PROVE  {i[3] : i \in Used(s)} = 1..seed[s].distributed
    <3>1. seed[s].distributed \in Nat /\ MaxNumber \in Nat
      BY <2>2, SupplyAssumption DEF SupplyInv, SupplyTypeOK, SeedRow
    <3>2. seed[s].distributed <= MaxNumber
      BY <2>2 DEF SupplyInv, Numbered
    <3>3. ASSUME NEW i \in Used(s)
          PROVE  i[3] \in 1..seed[s].distributed
      <4>1. i[3] \in 1..MaxNumber /\ SeedOf(i) = s /\ Taken(i)
        BY InstanceIdParts DEF Taken
      <4>2. i[3] <= seed[s].distributed
        BY <2>2, <4>1 DEF SupplyInv, Numbered
      <4> QED
        BY <3>1, <4>1, <4>2
    <3>4. ASSUME NEW n \in 1..seed[s].distributed
          PROVE  \E i \in Used(s) : n = i[3]
      <4>1. n \in 1..MaxNumber /\ n <= seed[s].distributed
        BY <3>1, <3>2
      <4>2. /\ <<s[1], s[2], n>> \in InstanceIds /\ SeedOf(<<s[1], s[2], n>>) = s
            /\ <<s[1], s[2], n>>[3] = n
        BY <4>1, SeedIdParts
      <4>3. Taken(<<s[1], s[2], n>>)
        BY <2>2, <4>1, <4>2 DEF SupplyInv, Numbered
      <4> QED
        BY <4>2, <4>3 DEF Taken
    <3> HIDE DEF Used
    <3> QED
      BY <3>3, <3>4
  <2>3. \A s \in SeedIds : seed[s] # NoRow => Exists(SeriesOf(s))
    BY DEF SupplyInv, Rooted
  <2>4. \A i \in burned \cap InstanceIds : instance[i] = NoRow
    BY DEF SupplyInv, BurnedGone
  <2> QED
    BY <2>1, <2>2, <2>3, <2>4 DEF EveryNumberAccountedFor
<1> QED
  BY <1>1, SupplyCorrect, PTL

\* A burned id has no row in any later state: neither mint nor distribution,
\* nor the second life of an archived collection, brings it back.
THEOREM BurnedForever == SupplySpec => BurnedStaysGone
<1>1. SupplyInv /\ SupplyInv' /\ [SupplyNext]_supplyVars =>
        [\A id \in burned : /\ id \in burned'
                            /\ id \in SeedIds => seed'[id] = NoRow
                            /\ id \in InstanceIds => instance'[id] = NoRow]_supplyVars
  <2> SUFFICES ASSUME SupplyInv, SupplyInv', [SupplyNext]_supplyVars
               PROVE  \A id \in burned : /\ id \in burned'
                                         /\ id \in SeedIds => seed'[id] = NoRow
                                         /\ id \in InstanceIds => instance'[id] = NoRow
    OBVIOUS
  <2>1. burned \subseteq burned'
    <3>1. SupplyTypeOK
      BY DEF SupplyInv
    <3> QED
      BY <3>1, SupplyStepKinds, BulkDistributeParts
      DEF Repaints, ArchiveCollection, Mint, BurnSeed, BurnInstance
  <2> QED
    BY <2>1 DEF SupplyInv, BurnedGone
<1> QED
  BY <1>1, SupplyCorrect, PTL DEF SupplySpec, BurnedStaysGone

\* What handleExtendSchema finds when it asks whether a collection was ever
\* minted in: a seed of it, or an id of it among the burned.
SealedIsMinted ==
    \A c \in Series : sealed[c] # NoRow =>
        SeedsOf(c) # {} \/ \E id \in burned : SeriesOf(id) = c

LEMMA SealedIsMintedStep ==
    SupplyInv /\ SealedIsMinted /\ [SupplyNext]_supplyVars => SealedIsMinted'
<1> SUFFICES ASSUME SupplyInv, SealedIsMinted, [SupplyNext]_supplyVars,
                    NEW c \in Series, sealed'[c] # NoRow
             PROVE  (SeedsOf(c) # {})' \/ \E id \in burned' : SeriesOf(id) = c
  BY DEF SealedIsMinted
<1>t. SupplyTypeOK /\ Rooted
  BY DEF SupplyInv
<1>1. ASSUME NEW s \in SeedIds, NEW u \in Holders, NEW data \in Payloads,
             NEW max \in MintSupplies, NEW fixed, Mint(s, u, max, fixed, data)
      PROVE  (SeedsOf(c) # {})' \/ \E id \in burned' : SeriesOf(id) = c
  <2>1. [owner |-> u, max |-> max, distributed |-> 0, data |-> data] \in SeedRow
    BY SupplyAssumption DEF SeedRow, Data
  <2>2. seed'[s] # NoRow /\ \A t \in SeedIds : seed[t] # NoRow => seed'[t] # NoRow
    BY <1>1, <1>t, <2>1, SupplyAssumption DEF Mint, SupplyTypeOK
  <2>3. burned' = burned /\ (SeriesOf(s) # c => sealed'[c] = sealed[c])
    BY <1>1, <1>t DEF Mint, SupplyTypeOK
  <2>4. CASE SeriesOf(s) = c
    BY <2>2, <2>4 DEF SeedsOf
  <2>5. CASE SeriesOf(s) # c
    <3>1. SeedsOf(c) # {} \/ \E id \in burned : SeriesOf(id) = c
      BY <2>3, <2>5 DEF SealedIsMinted
    <3>2. SeedsOf(c) # {} => SeedsOf(c)' # {}
      BY <2>2 DEF SeedsOf
    <3> QED
      BY <2>3, <3>1, <3>2
  <2> QED
    BY <2>4, <2>5
<1>2. ASSUME NEW s \in SeedIds, BurnSeed(s)
      PROVE  (SeedsOf(c) # {})' \/ \E id \in burned' : SeriesOf(id) = c
  <2>1. SeedsOf(c) # {} \/ \E id \in burned : SeriesOf(id) = c
    BY <1>2 DEF BurnSeed, SealedIsMinted
  <2>2. SeriesOf(s) # c => SeedsOf(c)' = SeedsOf(c)
    BY <1>2, <1>t DEF BurnSeed, SeedsOf, SupplyTypeOK
  <2> QED
    BY <1>2, <2>1, <2>2 DEF BurnSeed
<1>3. ASSUME UNCHANGED sealed, burned \subseteq burned',
             \A s \in SeedIds : seed[s] # NoRow => seed'[s] # NoRow
      PROVE  (SeedsOf(c) # {})' \/ \E id \in burned' : SeriesOf(id) = c
  <2>1. SeedsOf(c) # {} \/ \E id \in burned : SeriesOf(id) = c
    BY <1>3 DEF SealedIsMinted
  <2>2. SeedsOf(c) # {} => SeedsOf(c)' # {}
    BY <1>3 DEF SeedsOf
  <2> QED
    BY <1>3, <2>1, <2>2
<1>4. CASE Repaints
  BY <1>3, <1>4 DEF Repaints
<1>5. CASE \E d \in Series : ArchiveCollection(d)
  BY <1>3, <1>5 DEF ArchiveCollection
<1>6. CASE \E items \in Shipments : Distributes(items)
  <2>1. UNCHANGED <<sealed, burned>>
    BY <1>6, BulkDistributeParts DEF Distributes
  <2>2. \A s \in SeedIds : seed[s] # NoRow => seed'[s] # NoRow
    BY <1>6, OrderSeeds
  <2> QED
    BY <1>3, <2>1, <2>2
<1>7. CASE \E i \in InstanceIds : BurnInstance(i)
  BY <1>3, <1>7 DEF BurnInstance
<1> QED
  BY <1>t, <1>1, <1>2, <1>4, <1>5, <1>6, <1>7, SupplyStepKinds DEF Distributes

\* An extension changes the row of its collection.
LEMMA ExtendingIs ==
    ASSUME NEW d, NEW new, ExtendSchema(d, new)
    PROVE  \E row : series' = [series EXCEPT ![d] = row]
  BY Zenon DEF ExtendSchema

LEMMA ShapeKept ==
    ASSUME SupplyInv, SealedIsMinted, [SupplyNext]_supplyVars, NEW c \in Series,
           Exists(c), series'[c] # NoRow, sealed[c] # NoRow
    PROVE  ImmutableFields(c)' = ImmutableFields(c)
<1>t. SupplyTypeOK
  BY DEF SupplyInv
<1>1. HasMinted(c)
  <2>1. CASE SeedsOf(c) # {}
    <3>1. Cardinality(SeedsOf(c)) \in Nat /\ Cardinality(SeedsOf(c)) # 0
      BY <2>1, RowSetsFinite, FS_EmptySet
    <3>2. counted[c].seeds = Cardinality(SeedsOf(c))
      BY CountersRead
    <3> QED
      BY <3>1, <3>2 DEF HasMinted
  <2>2. CASE \E id \in burned : SeriesOf(id) = c
    BY <2>2 DEF HasMinted
  <2> QED
    BY <2>1, <2>2 DEF SealedIsMinted
<1>2. CASE series'[c] = series[c]
  BY <1>2 DEF ImmutableFields
<1>3. CASE \E new \in Schema : ExtendSchema(c, new)
  <2>1. PICK new \in Schema : ExtendSchema(c, new)
    BY <1>3
  <2>2. new.immutable = {} /\ new # NoSchema
    BY <1>1, <2>1, SupplyAssumption DEF ExtendSchema
  <2>3. series[c] \in SeriesRow
    BY <1>t DEF Exists, SupplyTypeOK
  <2>4. CASE series[c].schema = NoSchema
    <3>1. series'[c].schema = new
      BY <1>t, <2>1, <2>3, <2>4 DEF ExtendSchema, SupplyTypeOK, SeriesRow
    <3> QED
      BY <2>2, <2>4, <3>1 DEF ImmutableFields
  <2>5. CASE series[c].schema # NoSchema
    <3>1. series'[c].schema = Extended(series[c].schema, new)
      BY <1>t, <2>1, <2>3, <2>5 DEF ExtendSchema, SupplyTypeOK, SeriesRow
    <3>2. series[c].schema \in Schema /\ Extended(series[c].schema, new) \in Schema
      BY <2>3, <2>5 DEF SeriesRow, Extended, Schema
    <3>3. Extended(series[c].schema, new).immutable = series[c].schema.immutable
      BY <2>2 DEF Extended
    <3>4. Extended(series[c].schema, new) # NoSchema
      BY <3>2, SupplyAssumption
    <3> QED
      BY <2>5, <3>1, <3>3, <3>4 DEF ImmutableFields
  <2> QED
    BY <2>4, <2>5
<1>4. CASE \E d \in Series, terms \in Terms, schema \in FirstSchemas :
              CreateCollection(d, terms, schema)
  BY <1>2, <1>4, <1>t DEF CreateCollection, Exists, SupplyTypeOK
<1>5. CASE \E d \in Series, new \in Schema : ExtendSchema(d, new)
  <2>1. PICK d \in Series, new \in Schema : ExtendSchema(d, new)
    BY <1>5
  <2>2. \E row : series' = [series EXCEPT ![d] = row]
    BY <2>1, ExtendingIs
  <2>3. CASE d # c
    BY <1>2, <1>t, <2>2, <2>3 DEF SupplyTypeOK
  <2> QED
    BY <1>3, <2>1, <2>3
<1>6. CASE \E d \in Series : ArchiveCollection(d)
  BY <1>2, <1>6, <1>t DEF ArchiveCollection, SupplyTypeOK
<1> QED
  BY <1>2, <1>4, <1>5, <1>6, BulkDistributeParts
  DEF SupplyNext, supplyVars, DataOperatorApprove, Mint, SetSeedData, SetInstanceData,
      WriteData, BurnSeed, TransferSeed, BurnInstance, TransferInstance

\* The immutable fields of a collection's schema stay as they are from its
\* first mint on, as long as it exists: what extend_schema asks, whether a seed
\* or a burned id is there, is true of every collection ever minted in.
THEOREM ShapeFrozen == SupplySpec => ImmutableShapeFrozen
<1>1. SupplyInit => SealedIsMinted
  BY DEF SupplyInit, SealedIsMinted
<1>2. SupplyInv /\ SealedIsMinted /\ [SupplyNext]_supplyVars =>
        [\A c \in Series :
            Exists(c) /\ series'[c] # NoRow /\ sealed[c] # NoRow
                => ImmutableFields(c)' = ImmutableFields(c)]_supplyVars
  BY ShapeKept
<1> QED
  BY <1>1, <1>2, SealedIsMintedStep, SupplyCorrect, PTL DEF SupplySpec, ImmutableShapeFrozen

\* No collection that was ever minted in is archived.
NoneArchived ==
    [][\A c \in Series : Exists(c) /\ series'[c] = NoRow => sealed[c] = NoRow]_supplyVars

Standing ==
    \A c \in Series : sealed[c] # NoRow => Exists(c) /\ ImmutableFields(c) = sealed[c]

\* A mint seals the shape that the collection has, and keeps it.
LEMMA MintSeals ==
    ASSUME SupplyTypeOK, Standing, NEW s \in SeedIds, NEW u \in Holders, NEW data \in Payloads,
           NEW max \in MintSupplies, NEW fixed, Mint(s, u, max, fixed, data)
    PROVE  Standing'
<1>1. /\ series' = series /\ Exists(SeriesOf(s))
      /\ sealed' = [sealed EXCEPT ![SeriesOf(s)] =
                      IF @ = NoRow THEN ImmutableFields(SeriesOf(s)) ELSE @]
  BY Zenon DEF Mint
<1>2. ASSUME NEW c \in Series, sealed'[c] # NoRow
      PROVE  Exists(c)' /\ (ImmutableFields(c) = sealed[c])'
  <2>1. ImmutableFields(c)' = ImmutableFields(c) /\ Exists(c)' = Exists(c)
    BY <1>1 DEF ImmutableFields, Exists
  <2>2. CASE sealed'[c] = sealed[c]
    BY <1>2, <2>1, <2>2 DEF Standing
  <2>3. CASE sealed'[c] # sealed[c]
    <3>1. c = SeriesOf(s) /\ sealed'[c] = ImmutableFields(c)
      BY <1>1, <2>3 DEF SupplyTypeOK
    <3> QED
      BY <1>1, <2>1, <3>1
  <2> QED
    BY <2>2, <2>3
<1> QED
  BY <1>2 DEF Standing

LEMMA StandingStep ==
    /\ SupplyInv /\ SealedIsMinted /\ Standing /\ [SupplyNext]_supplyVars
    /\ [\A c \in Series : Exists(c) /\ series'[c] = NoRow => sealed[c] = NoRow]_supplyVars
    => Standing'
<1> SUFFICES ASSUME SupplyInv, SealedIsMinted, Standing, [SupplyNext]_supplyVars,
                    [\A c \in Series : Exists(c) /\ series'[c] = NoRow => sealed[c] = NoRow]_supplyVars
             PROVE  Standing'
  OBVIOUS
<1>1. \A c \in Series : Exists(c) /\ series'[c] = NoRow => sealed[c] = NoRow
  BY DEF Exists, supplyVars
<1>2. ASSUME sealed' = sealed PROVE Standing'
  <2>1. ASSUME NEW c \in Series, sealed[c] # NoRow
        PROVE  Exists(c)' /\ ImmutableFields(c)' = sealed[c]
    <3>1. Exists(c) /\ ImmutableFields(c) = sealed[c]
      BY <2>1 DEF Standing
    <3>2. series'[c] # NoRow
      BY <1>1, <2>1, <3>1
    <3>3. ImmutableFields(c)' = ImmutableFields(c)
      BY <2>1, <3>1, <3>2, ShapeKept
    <3> QED
      BY <3>1, <3>2, <3>3 DEF Exists
  <2> QED
    BY <1>2, <2>1 DEF Standing
<1>3. SupplyTypeOK
  BY DEF SupplyInv
<1>4. CASE \E s \in SeedIds, u \in Holders, data \in Payloads, max \in MintSupplies,
                fixed \in SUBSET Fields :
             Mint(s, u, max, fixed, data)
  BY <1>3, <1>4, MintSeals
<1>5. Repaints => sealed' = sealed
  BY DEF Repaints
<1>6. \A c \in Series : ArchiveCollection(c) => sealed' = sealed
  BY DEF ArchiveCollection
<1>7. \A items \in Shipments, u \in Holders, to \in Holders, data \in Payloads :
         BulkDistribute(u, items, to, data) => sealed' = sealed
  BY BulkDistributeParts
<1>8. (\A s \in SeedIds : BurnSeed(s) => sealed' = sealed)
      /\ \A i \in InstanceIds : BurnInstance(i) => sealed' = sealed
  BY DEF BurnSeed, BurnInstance
<1> QED
  BY <1>2, <1>3, <1>4, <1>5, <1>6, <1>7, <1>8, SupplyStepKinds

\* What the comment in handleExtendSchema says of an id that was ever minted,
\* that its immutable shape is stable across burn and remint, is so as long as
\* the collection is not archived and created again.
THEOREM SealedUnlessArchived == SupplySpec /\ NoneArchived => []SealedForGood
<1>1. SupplyInit => SealedIsMinted /\ Standing
  BY DEF SupplyInit, SealedIsMinted, Standing
<1>2. Standing => SealedForGood
  BY DEF Standing, SealedForGood
<1> QED
  BY <1>1, <1>2, SealedIsMintedStep, StandingStep, SupplyCorrect, PTL
  DEF SupplySpec, NoneArchived

-----------------------------------------------------------------------------
(* The caps. *)

\* The instances that count against a creator's limit, whatever the series.
CreatedBy(u) == {i \in InstanceIds : CreatorOf[SeriesOf(i)] = u /\ instance[i] # NoRow}
FreshBy(items, u) == {i \in FreshOf(items) : CreatorOf[SeriesOf(i)] = u}

SeedCaps == \A s \in SeedIds : seed[s] # NoRow => seed[s].distributed <= seed[s].max
SeriesCaps ==
    \A c \in Series : Exists(c) =>
        /\ WithinLimit(series[c].cap, Cardinality(InstancesOf(c)))
        /\ WithinLimit(series[c].potential, Cardinality(SeedsOf(c)))
CreatorCaps == \A u \in Holders : WithinLimit(InstanceLimit, Cardinality(CreatedBy(u)))

LEMMA CapsKeptParts == CapsKept <=> SeedCaps /\ SeriesCaps /\ CreatorCaps
  BY DEF CapsKept, SeedCaps, SeriesCaps, CreatorCaps, InstancesOf, SeedsOf, CreatedBy

LEMMA WithinFewer ==
    ASSUME NEW limit \in Int, NEW m \in Int, NEW n \in Int, m <= n, WithinLimit(limit, n)
    PROVE  WithinLimit(limit, m)
  BY DEF WithinLimit

LEMMA FewerInstances ==
    ASSUME NEW S \in SUBSET InstanceIds, NEW T \in SUBSET S
    PROVE  Cardinality(T) <= Cardinality(S)
  BY FiniteCount, FS_Subset

\* What the handlers add up for a creator is no less than the rows there are.
LEMMA CreatorCount ==
    ASSUME SupplyInv, NEW u \in Holders
    PROVE  Cardinality(CreatedBy(u)) <= InstancesBy(u) /\ InstancesBy(u) \in Nat
<1> DEFINE S == SeriesBy(u)
           q == [c \in Series |-> counted[c].instances]
           T == CreatedBy(u)
           g == [i \in T |-> SeriesOf(i)]
<1>1. S \subseteq Series /\ IsFiniteSet(S)
  BY SupplyAssumption, FS_Subset DEF SeriesBy
<1>2. T \in SUBSET InstanceIds /\ IsFiniteSet(T)
  BY FiniteCount DEF CreatedBy
<1>3. g \in [T -> S]
  <2>1. ASSUME NEW i \in T
        PROVE  SeriesOf(i) \in S
    <3>1. i \in InstanceIds /\ instance[i] # NoRow /\ CreatorOf[SeriesOf(i)] = u
      BY DEF CreatedBy
    <3>2. Exists(SeriesOf(i)) /\ SeriesOf(i) \in Series
      BY <3>1, InstanceIdParts DEF SupplyInv, Rooted
    <3> QED
      BY <3>1, <3>2 DEF SeriesBy
  <2> QED
    BY <2>1
<1>4. ASSUME NEW c \in S
      PROVE  /\ q[c] = Cardinality(InstancesOf(c)) /\ q[c] \in Int
             /\ {i \in T : g[i] = c} \subseteq InstancesOf(c)
  <2>1. q[c] = Cardinality(InstancesOf(c))
    BY <1>1, CountersRead
  <2>2. {i \in T : g[i] = c} \subseteq InstancesOf(c)
    BY <1>2 DEF CreatedBy, InstancesOf
  <2> QED
    BY <2>1, <2>2, RowSetsFinite
<1>5. ASSUME NEW c \in S
      PROVE  Cardinality({i \in T : g[i] = c}) <= q[c]
  <2>1. InstancesOf(c) \in SUBSET InstanceIds
    BY DEF InstancesOf
  <2> HIDE DEF q, g, T
  <2> QED
    BY <1>4, <2>1, FewerInstances
<1>6. \A c \in S : q[c] \in Int
  BY <1>4
<1>7. Total(q, S) = InstancesBy(u)
  BY DEF InstancesBy
<1> HIDE DEF S, q, T, g
<1>8. Cardinality(T) <= Total(q, S)
  BY <1>1, <1>2, <1>3, <1>5, <1>6, SplitCount
<1>9. Total(q, S) \in Nat
  BY <1>1, <1>6, UnitsFinite, FS_CardinalityType DEF Total
<1> QED
  BY <1>7, <1>8, <1>9 DEF T

\* What an order plans for some of its items is no less than what is new of
\* their ids.
LEMMA PlanCount ==
    ASSUME SupplyInv, NEW items \in Shipments, Distributes(items),
           NEW S \in SUBSET DOMAIN items, NEW T \in SUBSET FreshOf(items),
           \A i \in T : SeedOf(i) \in S
    PROVE  Cardinality(T) <= Planned(items, S) /\ Planned(items, S) \in Nat
<1> DEFINE g == [i \in T |-> SeedOf(i)]
<1>1. /\ DOMAIN items \subseteq SeedIds /\ FreshOf(items) \subseteq InstanceIds
      /\ T \subseteq InstanceIds
  BY ShipmentType, BulkDistributeParts DEF Distributes, FreshOf
<1>2. IsFiniteSet(S) /\ IsFiniteSet(T)
  BY <1>1, SupplyAssumption, FS_Subset
<1>3. \A s \in S : items[s] \in Int
  BY OrderIsFresh
<1>4. g \in [T -> S]
  OBVIOUS
<1>5. ASSUME NEW s \in S
      PROVE  Cardinality({i \in T : g[i] = s}) <= items[s]
  <2>1. {i \in T : g[i] = s} \subseteq FreshIn(items, s)
    BY DEF FreshIn
  <2>2. IsFiniteSet(FreshIn(items, s)) /\ Cardinality(FreshIn(items, s)) = items[s]
    BY OrderCount
  <2> HIDE DEF g
  <2>3. Cardinality({i \in T : g[i] = s}) <= Cardinality(FreshIn(items, s))
    BY <2>1, <2>2, FS_Subset
  <2> QED
    BY <2>2, <2>3
<1> HIDE DEF g
<1>6. Cardinality(T) <= Total(items, S)
  BY <1>2, <1>3, <1>4, <1>5, SplitCount
<1>7. Total(items, S) \in Nat
  BY <1>2, <1>3, UnitsFinite, FS_CardinalityType DEF Total
<1> QED
  BY <1>6, <1>7 DEF Planned

\* An order that is within its budgets leaves its creators and its series within
\* their caps, although every item is checked before any row is there.
LEMMA OrderWithinCaps ==
    ASSUME SupplyInv, SeriesCaps, CreatorCaps, NEW items \in Shipments, Distributes(items)
    PROVE  SeriesCaps' /\ CreatorCaps'
<1>0. PICK u \in Holders, to \in Holders, data \in Payloads : BulkDistribute(u, items, to, data)
  BY DEF Distributes
<1>1. /\ DOMAIN items \subseteq SeedIds /\ FreshOf(items) \subseteq InstanceIds
      /\ WithinBudgets(items) /\ UNCHANGED series
      /\ \A i \in FreshOf(items) : SeedOf(i) \in DOMAIN items
  BY OrderNames
<1>2. \A i \in InstanceIds : instance'[i] # NoRow => instance[i] # NoRow \/ i \in FreshOf(items)
  BY <1>0, BulkDistributeParts
<1>3. \A c : SeedsOf(c)' = SeedsOf(c)
  BY OrderSeeds DEF SeedsOf
<1>4. ASSUME NEW c \in Series, Exists(c)
      PROVE  WithinLimit(series[c].cap, Cardinality(InstancesOf(c)'))
  <2> DEFINE F == FreshUnder(items, c)
  <2>1. /\ F \subseteq FreshOf(items) /\ F \subseteq InstanceIds
        /\ InstancesOf(c)' \in SUBSET (InstancesOf(c) \cup F)
        /\ InstancesOf(c) \in SUBSET InstanceIds
    BY <1>1, <1>2 DEF InstancesOf, FreshUnder
  <2>2. series[c].cap \in Nat /\ WithinLimit(series[c].cap, Cardinality(InstancesOf(c)))
    BY <1>4 DEF Exists, SeriesCaps, SupplyInv, SupplyTypeOK, SeriesRow
  <2>3. /\ Cardinality(InstancesOf(c)) \in Nat /\ Cardinality(F) \in Nat
        /\ Cardinality(InstancesOf(c)') \in Nat
        /\ Cardinality(InstancesOf(c)') <= Cardinality(InstancesOf(c)) + Cardinality(F)
    <3>1. (InstancesOf(c) \cup F) \in SUBSET InstanceIds
      BY <2>1
    <3>2. /\ IsFiniteSet(InstancesOf(c)) /\ IsFiniteSet(F)
          /\ Cardinality(InstancesOf(c) \cap F) \in Nat
          /\ Cardinality(InstancesOf(c)) \in Nat /\ Cardinality(F) \in Nat
          /\ Cardinality(InstancesOf(c)') \in Nat
          /\ Cardinality(InstancesOf(c) \cup F) \in Nat
      BY <2>1, <3>1, FiniteCount
    <3>3. Cardinality(InstancesOf(c)') <= Cardinality(InstancesOf(c) \cup F)
      BY <2>1, <3>1, FewerInstances
    <3>4. Cardinality(InstancesOf(c) \cup F) =
            Cardinality(InstancesOf(c)) + Cardinality(F) - Cardinality(InstancesOf(c) \cap F)
      BY <3>2, FS_Union
    <3> HIDE DEF F
    <3> QED
      BY <3>2, <3>3, <3>4
  <2>4. CASE F = {}
    <3>1. InstancesOf(c)' \in SUBSET InstancesOf(c)
      BY <2>1, <2>4
    <3>2. Cardinality(InstancesOf(c)') <= Cardinality(InstancesOf(c))
      BY <2>1, <3>1, FewerInstances
    <3> QED
      BY <2>2, <2>3, <3>2, WithinFewer
  <2>5. CASE F # {}
    <3> DEFINE S == {t \in DOMAIN items : SeriesOf(t) = c}
    <3>1. \A i \in F : SeedOf(i) \in S
      BY <1>1, InstanceIdParts DEF FreshUnder
    <3>2. PICK s \in DOMAIN items : SeriesOf(s) = c
      BY <2>5, <3>1
    <3>3. WithinLimit(series[c].cap, counted[c].instances + Planned(items, S))
      BY <1>1, <3>2 DEF WithinBudgets
    <3>4. S \in SUBSET DOMAIN items
      OBVIOUS
    <3>5. counted[c].instances = Cardinality(InstancesOf(c))
      BY CountersRead
    <3> HIDE DEF F, S
    <3>6. Cardinality(F) <= Planned(items, S) /\ Planned(items, S) \in Nat
      BY <2>1, <3>1, <3>4, PlanCount
    <3>7. /\ Cardinality(InstancesOf(c)) + Planned(items, S) \in Nat
          /\ Cardinality(InstancesOf(c)') <= Cardinality(InstancesOf(c)) + Planned(items, S)
      BY <2>3, <3>6
    <3> QED
      BY <2>2, <2>3, <3>3, <3>5, <3>7, WithinFewer
  <2> QED
    BY <2>4, <2>5
<1>5. SeriesCaps'
  BY <1>1, <1>3, <1>4 DEF SeriesCaps, Exists
<1>6. ASSUME NEW v \in Holders
      PROVE  WithinLimit(InstanceLimit, Cardinality(CreatedBy(v)'))
  <2> DEFINE F == FreshBy(items, v)
  <2>1. /\ F \subseteq FreshOf(items) /\ F \subseteq InstanceIds
        /\ CreatedBy(v)' \in SUBSET (CreatedBy(v) \cup F)
        /\ CreatedBy(v) \in SUBSET InstanceIds
    BY <1>1, <1>2 DEF CreatedBy, FreshBy
  <2>2. InstanceLimit \in Nat /\ WithinLimit(InstanceLimit, Cardinality(CreatedBy(v)))
    BY SupplyAssumption DEF CreatorCaps
  <2>3. /\ Cardinality(CreatedBy(v)) \in Nat /\ Cardinality(F) \in Nat
        /\ Cardinality(CreatedBy(v)') \in Nat
        /\ Cardinality(CreatedBy(v)') <= Cardinality(CreatedBy(v)) + Cardinality(F)
    <3>1. (CreatedBy(v) \cup F) \in SUBSET InstanceIds
      BY <2>1
    <3>2. /\ IsFiniteSet(CreatedBy(v)) /\ IsFiniteSet(F)
          /\ Cardinality(CreatedBy(v) \cap F) \in Nat
          /\ Cardinality(CreatedBy(v)) \in Nat /\ Cardinality(F) \in Nat
          /\ Cardinality(CreatedBy(v)') \in Nat
          /\ Cardinality(CreatedBy(v) \cup F) \in Nat
      BY <2>1, <3>1, FiniteCount
    <3>3. Cardinality(CreatedBy(v)') <= Cardinality(CreatedBy(v) \cup F)
      BY <2>1, <3>1, FewerInstances
    <3>4. Cardinality(CreatedBy(v) \cup F) =
            Cardinality(CreatedBy(v)) + Cardinality(F) - Cardinality(CreatedBy(v) \cap F)
      BY <3>2, FS_Union
    <3> HIDE DEF F
    <3> QED
      BY <3>2, <3>3, <3>4
  <2>4. CASE F = {}
    <3>1. CreatedBy(v)' \in SUBSET CreatedBy(v)
      BY <2>1, <2>4
    <3>2. Cardinality(CreatedBy(v)') <= Cardinality(CreatedBy(v))
      BY <2>1, <3>1, FewerInstances
    <3> QED
      BY <2>2, <2>3, <3>2, WithinFewer
  <2>5. CASE F # {}
    <3> DEFINE S == {t \in DOMAIN items : CreatorOf[SeriesOf(t)] = v}
    <3>1. \A i \in F : SeedOf(i) \in S
      BY <1>1, InstanceIdParts DEF FreshBy
    <3>2. PICK s \in DOMAIN items : CreatorOf[SeriesOf(s)] = v
      BY <2>5, <3>1
    <3>3. WithinLimit(InstanceLimit, InstancesBy(v) + Planned(items, S))
      BY <1>1, <3>2 DEF WithinBudgets
    <3>4. S \in SUBSET DOMAIN items
      OBVIOUS
    <3>5. Cardinality(CreatedBy(v)) <= InstancesBy(v) /\ InstancesBy(v) \in Nat
      BY CreatorCount
    <3> HIDE DEF F, S
    <3>6. Cardinality(F) <= Planned(items, S) /\ Planned(items, S) \in Nat
      BY <2>1, <3>1, <3>4, PlanCount
    <3>7. /\ InstancesBy(v) + Planned(items, S) \in Nat
          /\ Cardinality(CreatedBy(v)') <= InstancesBy(v) + Planned(items, S)
      BY <2>3, <3>5, <3>6
    <3> QED
      BY <2>2, <2>3, <3>3, <3>7, WithinFewer
  <2> QED
    BY <2>4, <2>5
<1> QED
  BY <1>5, <1>6 DEF CreatorCaps

\* A step that adds no row keeps the caps of what was there; a collection that
\* comes into being has no rows yet, even under an id that had them once.
LEMMA NoNewRowsKeepCaps ==
    ASSUME SupplyInv, SupplyInv', SeriesCaps, CreatorCaps,
           \A s \in SeedIds : seed'[s] # NoRow => seed[s] # NoRow,
           \A i \in InstanceIds : instance'[i] # NoRow => instance[i] # NoRow,
           \A c \in Series : Exists(c) /\ Exists(c)' =>
               series'[c].cap = series[c].cap /\ series'[c].potential = series[c].potential
    PROVE  SeriesCaps' /\ CreatorCaps'
<1>1. ASSUME NEW c \in Series
      PROVE  /\ SeedsOf(c)' \subseteq SeedsOf(c) /\ InstancesOf(c)' \subseteq InstancesOf(c)
             /\ Cardinality(SeedsOf(c)') \in Nat /\ Cardinality(InstancesOf(c)') \in Nat
             /\ Cardinality(SeedsOf(c)') <= Cardinality(SeedsOf(c))
             /\ Cardinality(InstancesOf(c)') <= Cardinality(InstancesOf(c))
  <2>1. SeedsOf(c)' \subseteq SeedsOf(c) /\ InstancesOf(c)' \subseteq InstancesOf(c)
    BY DEF SeedsOf, InstancesOf
  <2> QED
    BY <2>1, RowSetsFinite, FS_Subset, FS_CardinalityType
<1>2. ASSUME NEW c \in Series, Exists(c)'
      PROVE  /\ WithinLimit(series'[c].cap, Cardinality(InstancesOf(c)'))
             /\ WithinLimit(series'[c].potential, Cardinality(SeedsOf(c)'))
  <2>1. series'[c].cap \in Nat /\ series'[c].potential \in Nat
    BY <1>2 DEF Exists, SupplyInv, SupplyTypeOK, SeriesRow
  <2>2. CASE Exists(c)
    <3>1. /\ WithinLimit(series'[c].cap, Cardinality(InstancesOf(c)))
          /\ WithinLimit(series'[c].potential, Cardinality(SeedsOf(c)))
      BY <1>2, <2>2 DEF SeriesCaps
    <3> QED
      BY <1>1, <2>1, <3>1, RowSetsFinite, WithinFewer
  <2>3. CASE ~Exists(c)
    <3>1. SeedsOf(c) = {} /\ InstancesOf(c) = {}
      BY <2>3, InstanceIdParts DEF SupplyInv, Rooted, SeedsOf, InstancesOf
    <3>2. SeedsOf(c)' = {} /\ InstancesOf(c)' = {}
      BY <1>1, <3>1
    <3>3. Cardinality(SeedsOf(c)') = 0 /\ Cardinality(InstancesOf(c)') = 0
      BY <3>2, FS_EmptySet
    <3> QED
      BY <2>1, <3>3 DEF WithinLimit
  <2> QED
    BY <2>2, <2>3
<1>3. ASSUME NEW u \in Holders
      PROVE  WithinLimit(InstanceLimit, Cardinality(CreatedBy(u)'))
  <2>1. CreatedBy(u)' \in SUBSET CreatedBy(u) /\ CreatedBy(u) \in SUBSET InstanceIds
    BY DEF CreatedBy
  <2>2. /\ Cardinality(CreatedBy(u)') <= Cardinality(CreatedBy(u))
        /\ Cardinality(CreatedBy(u)') \in Nat /\ Cardinality(CreatedBy(u)) \in Nat
    BY <2>1, FewerInstances, FiniteCount
  <2> QED
    BY <2>2, SupplyAssumption, WithinFewer DEF CreatorCaps
<1> QED
  BY <1>2, <1>3 DEF SeriesCaps, CreatorCaps

LEMMA CapsStep ==
    ASSUME SupplyInv, SupplyInv', CapsKept, [SupplyNext]_supplyVars
    PROVE  CapsKept'
<1>t. SupplyTypeOK /\ SupplyTypeOK' /\ SeedCaps /\ SeriesCaps /\ CreatorCaps
  BY CapsKeptParts DEF SupplyInv
<1>p. SeedCaps' /\ SeriesCaps' /\ CreatorCaps' => CapsKept'
  BY DEF CapsKept, SeedCaps, SeriesCaps, CreatorCaps, InstancesOf, SeedsOf, CreatedBy
<1>1. CASE Repaints
  <2>1. SeedCaps'
    BY <1>t, <1>1 DEF SeedCaps, Repaints
  <2>2. SeriesCaps' /\ CreatorCaps'
    BY <1>t, <1>1, NoNewRowsKeepCaps DEF Repaints
  <2> QED
    BY <2>1, <2>2, <1>p
<1>2. ASSUME NEW c \in Series, ArchiveCollection(c)
      PROVE  CapsKept'
  <2>1. SeedCaps'
    BY <1>t, <1>2 DEF SeedCaps, ArchiveCollection
  <2>2. \A d \in Series : Exists(d)' => series'[d] = series[d]
    BY <1>t, <1>2 DEF ArchiveCollection, Exists, SupplyTypeOK
  <2>3. SeriesCaps' /\ CreatorCaps'
    BY <1>t, <1>2, <2>2, NoNewRowsKeepCaps DEF ArchiveCollection
  <2> QED
    BY <2>1, <2>3, <1>p
<1>3. ASSUME NEW s \in SeedIds, NEW u \in Holders, NEW data \in Payloads,
             NEW max \in MintSupplies, NEW fixed, Mint(s, u, max, fixed, data)
      PROVE  CapsKept'
  <2> DEFINE row == [owner |-> u, max |-> max, distributed |-> 0, data |-> data]
             k == SeriesOf(s)
  <2>0. k \in Series /\ Exists(k)
    BY <1>3, SeedIdParts DEF Mint
  <2>1. /\ seed[s] = NoRow /\ UNCHANGED <<series, instance>>
        /\ seed'[s] = row /\ \A t \in SeedIds \ {s} : seed'[t] = seed[t]
        /\ WithinLimit(series[k].potential, counted[k].seeds + 1)
    BY <1>3, <1>t DEF Mint, Mintable, SupplyTypeOK
  <2>2. row.distributed = 0 /\ row.max = max /\ max \in Nat
    BY SupplyAssumption
  <2>3. row \in SeedRow /\ row # NoRow
    BY SupplyAssumption DEF SeedRow, Data
  <2> HIDE DEF row
  <2>4. SeedCaps'
    <3>1. row.distributed <= row.max
      BY <2>2
    <3> QED
      BY <1>t, <2>1, <3>1 DEF SeedCaps
  <2>5. \A d : InstancesOf(d)' = InstancesOf(d) /\ CreatedBy(d)' = CreatedBy(d)
    BY <2>1 DEF InstancesOf, CreatedBy
  <2>6. SeedsOf(k)' = SeedsOf(k) \cup {s} /\ s \notin SeedsOf(k)
    BY <2>1, <2>3 DEF SeedsOf
  <2>7. \A d : d # k => SeedsOf(d)' = SeedsOf(d)
    BY <2>1 DEF SeedsOf
  <2>8. Cardinality(SeedsOf(k)') = counted[k].seeds + 1
    BY <2>0, <2>6, RowSetsFinite, FS_AddElement, CountersRead
  <2> HIDE DEF k
  <2>9. SeriesCaps'
    BY <1>t, <2>1, <2>5, <2>7, <2>8 DEF SeriesCaps, Exists
  <2>10. CreatorCaps'
    BY <1>t, <2>5 DEF CreatorCaps
  <2> QED
    BY <2>4, <2>9, <2>10, <1>p
<1>4. ASSUME NEW items \in Shipments, Distributes(items)
      PROVE  CapsKept'
  <2>1. SeedCaps'
    BY <1>t, <1>4, OrderSeeds DEF SeedCaps
  <2>2. SeriesCaps' /\ CreatorCaps'
    BY <1>t, <1>4, OrderWithinCaps
  <2> QED
    BY <2>1, <2>2, <1>p
<1>5. ASSUME NEW s \in SeedIds, BurnSeed(s)
      PROVE  CapsKept'
  <2>1. /\ UNCHANGED <<series, instance>> /\ seed'[s] = NoRow
        /\ \A t \in SeedIds \ {s} : seed'[t] = seed[t]
    BY <1>5, <1>t DEF BurnSeed, SupplyTypeOK
  <2>2. SeedCaps'
    BY <1>t, <2>1 DEF SeedCaps
  <2>3. \A t \in SeedIds : seed'[t] # NoRow => seed[t] # NoRow
    BY <2>1
  <2>4. SeriesCaps' /\ CreatorCaps'
    BY <1>t, <2>1, <2>3, NoNewRowsKeepCaps
  <2> QED
    BY <2>2, <2>4, <1>p
<1>6. ASSUME NEW i \in InstanceIds, BurnInstance(i)
      PROVE  CapsKept'
  <2>1. /\ UNCHANGED <<series, seed>> /\ instance'[i] = NoRow
        /\ \A j \in InstanceIds \ {i} : instance'[j] = instance[j]
    BY <1>6, <1>t DEF BurnInstance, SupplyTypeOK
  <2>2. SeedCaps'
    BY <1>t, <2>1 DEF SeedCaps
  <2>3. \A j \in InstanceIds : instance'[j] # NoRow => instance[j] # NoRow
    BY <2>1
  <2>4. SeriesCaps' /\ CreatorCaps'
    BY <1>t, <2>1, <2>3, NoNewRowsKeepCaps
  <2> QED
    BY <2>2, <2>4, <1>p
<1> QED
  BY <1>t, <1>1, <1>2, <1>3, <1>4, <1>5, <1>6, SupplyStepKinds DEF Distributes

\* A seed's supply, a collection's caps and a creator's instance limit hold of
\* the rows, although bulk_distribute and mint (handleBulkDistribute,
\* handleMint) check them against counters and sums of counters, and a
\* collection may be archived and created again.  The limits are those of the
\* schedule's current entry.
THEOREM CapsNeverExceeded == SupplySpec => []CapsKept
<1>1. SupplyInit => CapsKept
  <2> SUFFICES ASSUME SupplyInit
               PROVE  SeedCaps /\ SeriesCaps /\ CreatorCaps
    BY CapsKeptParts
  <2>1. SeedCaps /\ SeriesCaps
    BY DEF SupplyInit, SeedCaps, SeriesCaps, Exists
  <2>2. ASSUME NEW u \in Holders
        PROVE  WithinLimit(InstanceLimit, Cardinality(CreatedBy(u)))
    <3>1. CreatedBy(u) = {}
      BY DEF SupplyInit, CreatedBy
    <3> QED
      BY <3>1, FS_EmptySet, SupplyAssumption DEF WithinLimit
  <2> QED
    BY <2>1, <2>2 DEF CreatorCaps
<1>2. SupplyInv /\ SupplyInv' /\ CapsKept /\ [SupplyNext]_supplyVars => CapsKept'
  BY CapsStep
<1> QED
  BY <1>1, <1>2, SupplyCorrect, PTL DEF SupplySpec

=============================================================================
