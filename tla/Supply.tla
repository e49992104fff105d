------------------------------- MODULE Supply -------------------------------
(***************************************************************************)
(* Collections and what is issued in them: creation, schemas, minting of   *)
(* seeds, distribution of instances, mutable data, burning and archiving.  *)
(* One action per protocol operation; a rejected operation leaves no trace *)
(* and is a stuttering step.                                               *)
(*                                                                         *)
(* An id is a function of what it names: a collection's of its creator,    *)
(* name and symbol, a seed's of collection and art, an instance's of seed  *)
(* and number.  Archiving deletes the collection's row and, by cascade, its*)
(* statistics, schema versions and data operators; the rows of             *)
(* burned_assets stay.  A schema is the pair of its sets of field names.   *)
(* Listings and loans, which also keep an asset from being moved or burned,*)
(* are in Market.                                                          *)
(***************************************************************************)
EXTENDS Integers, FiniteSets

CONSTANTS
    NoRow,          \* what a table holds where it has no row
    Holders,        \* Hive accounts
    Series,         \* ids of collections that may be created
    CreatorOf,      \* CreatorOf[c]: the creator c's id was derived from
    SymbolOf,       \* SymbolOf[c]: the symbol c's id was derived from
    Arts,           \* artIds used in a collection
    Fields,         \* names of schema fields
    Terms,          \* bound: potential, cap and flags collections are created with
    FirstSchemas,   \* bound: the schemas collections are created with
    MintSupplies,   \* bound: values of maxSupply
    Payloads,       \* bound: the data that operations carry, NoData for none
    MaxNumber,      \* bound: instances distributed per seed
    MaxFields,      \* MAX_SCHEMA_FIELDS
    MaxVersions,    \* bound: schema versions of a collection
    MaxItems,       \* MAX_BULK_DISTRIBUTE_ITEMS
    MaxQuantity,    \* MAX_BULK_DISTRIBUTE_TOTAL_QUANTITY
    SeriesLimit, SeedLimit, InstanceLimit   \* LIMIT_SCHEDULE; 0 = unlimited

NoSchema == [immutable |-> {"-"}, mutable |-> {"-"}]
NoData == {"-"}     \* data_operation_id IS NULL

Schema == [immutable : SUBSET Fields, mutable : SUBSET Fields]
SeriesRow == [potential : Nat, cap : Nat, transferable : BOOLEAN, burnable : BOOLEAN,
              schema : Schema \cup {NoSchema}, version : Nat]
Data == (SUBSET Fields) \cup {NoData}
SeedRow == [owner : Holders, max : Nat, distributed : Nat, data : Data]
InstanceRow == [owner : Holders, data : Data]
Counters == [total : Int, seeds : Int, instances : Int]

SeedIds == Series \X Arts
InstanceIds == Series \X Arts \X (1..MaxNumber)
SeedOf(i) == <<i[1], i[2]>>
SeriesOf(id) == id[1]

ASSUME SupplyAssumption ==
    /\ IsFiniteSet(Series) /\ IsFiniteSet(SeedIds) /\ IsFiniteSet(InstanceIds)
    /\ IsFiniteSet(Holders)
    /\ CreatorOf \in [Series -> Holders]
    /\ Terms \subseteq [potential : Nat, cap : Nat, transferable : BOOLEAN, burnable : BOOLEAN]
    /\ FirstSchemas \subseteq Schema \cup {NoSchema}
    /\ Payloads \subseteq (SUBSET Fields) \cup {NoData}
    /\ MintSupplies \subseteq Nat \ {0}
    /\ {MaxNumber, MaxFields, MaxVersions, MaxItems, MaxQuantity} \subseteq Nat
    /\ {SeriesLimit, SeedLimit, InstanceLimit} \subseteq Nat
    /\ NoRow \notin SeriesRow \cup SeedRow \cup InstanceRow
    /\ NoSchema \notin Schema

VARIABLES
    series,         \* the row of collections, or NoRow
    counted,        \* collection_stats: total, seeds, instances
    seed,           \* the asset row of a seed, or NoRow
    instance,       \* the asset row of an instance, or NoRow
    burned,         \* ids in burned_assets
    operators,      \* data_operators of the collection
    sealed          \* history: the immutable fields at the id's first mint

supplyVars == <<series, counted, seed, instance, burned, operators, sealed>>

SupplyTypeOK ==
    /\ series \in [Series -> SeriesRow \cup {NoRow}]
    /\ counted \in [Series -> Counters]
    /\ seed \in [SeedIds -> SeedRow \cup {NoRow}]
    /\ instance \in [InstanceIds -> InstanceRow \cup {NoRow}]
    /\ burned \subseteq SeedIds \cup InstanceIds
    /\ operators \in [Series -> SUBSET Holders]
    /\ sealed \in [Series -> (SUBSET Fields) \cup {NoRow}]

NothingCounted == [total |-> 0, seeds |-> 0, instances |-> 0]

SupplyInit ==
    /\ series = [c \in Series |-> NoRow]
    /\ counted = [c \in Series |-> NothingCounted]
    /\ seed = [s \in SeedIds |-> NoRow]
    /\ instance = [i \in InstanceIds |-> NoRow]
    /\ burned = {}
    /\ operators = [c \in Series |-> {}]
    /\ sealed = [c \in Series |-> NoRow]
-----------------------------------------------------------------------------
(* What handlers look up. *)

Exists(c) == series[c] # NoRow
SeriesBy(u) == {c \in Series : Exists(c) /\ CreatorOf[c] = u}

LiveInstances(s) == {i \in InstanceIds : SeedOf(i) = s /\ instance[i] # NoRow}

\* The sum of q[x] over S, as the number of units there are to count.
Units(q, S) == UNION {{x} \X (1..q[x]) : x \in S}
Total(q, S) == Cardinality(Units(q, S))

InstancesBy(u) == Total([c \in Series |-> counted[c].instances], SeriesBy(u))
SeedsBy(u) == Total([c \in Series |-> counted[c].seeds], SeriesBy(u))

WithinLimit(limit, n) == limit > 0 => n <= limit

ImmutableFields(c) == IF series[c].schema = NoSchema THEN {} ELSE series[c].schema.immutable

\* Mutant: what was burned no longer counts.
HasSeeds(c) == counted[c].seeds > 0

\* "Ever minted": a seed exists, or some asset of the collection was burned.
HasMinted(c) ==
    \/ counted[c].seeds > 0
    \/ \E id \in burned : SeriesOf(id) = c

\* The counter trigger on insertion and deletion of asset rows.
Recounted(row, seeds, instances) ==
    [total |-> row.total + seeds + instances,
     seeds |-> row.seeds + seeds,
     instances |-> row.instances + instances]

Count(c, seeds, instances) ==
    counted' = [counted EXCEPT ![c] = Recounted(@, seeds, instances)]

\* A schema that may be declared: some field, not too many, no name twice.
WellFormed(schema) ==
    LET fields == Cardinality(schema.immutable) + Cardinality(schema.mutable)
    IN  fields \in 1..MaxFields /\ schema.immutable \cap schema.mutable = {}

\* An extension adds fields; none may be a field already.  That the new names
\* differ from each other is not checked.
Extendable(old, new) ==
    LET names == old.immutable \cup old.mutable
    IN  /\ new.immutable \cup new.mutable # {}
        /\ (new.immutable \cup new.mutable) \cap names = {}
        /\ Cardinality(old.immutable) + Cardinality(old.mutable)
             + Cardinality(new.immutable) + Cardinality(new.mutable) <= MaxFields

Extended(old, new) ==
    [immutable |-> old.immutable \cup new.immutable,
     mutable |-> old.mutable \cup new.mutable]

\* What a mint's data must look like; without a schema anything goes.
MintDataOK(schema, fixed, data) ==
    schema # NoSchema =>
        /\ schema.immutable # {} => fixed = schema.immutable
        /\ data # NoData => data \subseteq schema.mutable

\* What distribution accepts: some of the mutable fields.
UpdateOK(schema, data) ==
    schema # NoSchema /\ data # NoData =>
        data \cap schema.immutable = {} /\ data \subseteq schema.mutable

\* What set_data accepts: all mutable fields, and at least one.
SnapshotOK(schema, data) ==
    /\ schema # NoSchema
    /\ data # {} /\ data \cap schema.immutable = {} /\ data = schema.mutable
-----------------------------------------------------------------------------
(* Operations on collections. *)

\* Another collection with this id leaves the operation without effect.
CreateCollection(c, terms, schema) ==
    LET creator == CreatorOf[c]
    IN  /\ ~Exists(c)
        /\ WithinLimit(SeriesLimit, Cardinality(SeriesBy(creator)) + 1)
        /\ ~\E d \in SeriesBy(creator) : SymbolOf[d] = SymbolOf[c]
        /\ schema # NoSchema => WellFormed(schema)
        /\ series' = [series EXCEPT ![c] =
              [potential |-> terms.potential, cap |-> terms.cap,
               transferable |-> terms.transferable, burnable |-> terms.burnable,
               schema |-> schema, version |-> IF schema = NoSchema THEN 0 ELSE 1]]
        /\ UNCHANGED <<counted, seed, instance, burned, operators, sealed>>

ExtendSchema(c, new) ==
    LET old == series[c].schema
        schema == IF old = NoSchema THEN new ELSE Extended(old, new)
    IN  /\ Exists(c) /\ series[c].version < MaxVersions
        /\ HasMinted(c) => new.immutable = {}
        /\ IF old = NoSchema THEN WellFormed(schema) ELSE Extendable(old, new)
        /\ series' = [series EXCEPT ![c].schema = schema, ![c].version = @ + 1]
        /\ UNCHANGED <<counted, seed, instance, burned, operators, sealed>>

ArchiveCollection(c) ==
    /\ Exists(c) /\ counted[c].total = 0
    /\ series' = [series EXCEPT ![c] = NoRow]
    /\ counted' = [counted EXCEPT ![c] = NothingCounted]
    /\ operators' = [operators EXCEPT ![c] = {}]
    /\ UNCHANGED <<seed, instance, burned, sealed>>

DataOperatorApprove(c, u, approved) ==
    /\ Exists(c) /\ u # CreatorOf[c]
    /\ operators' = [operators EXCEPT ![c] = IF approved THEN @ \cup {u} ELSE @ \ {u}]
    /\ UNCHANGED <<series, counted, seed, instance, burned, sealed>>
-----------------------------------------------------------------------------
(* Operations on assets. *)

\* Mutant: the resurrection guard is missing.
MintableAgain(s) == seed[s] = NoRow

\* A burned id is refused; an existing one leaves the operation without effect.
Mintable(s) == s \notin burned /\ seed[s] = NoRow

Mint(s, to, max, fixed, data) ==
    LET c == SeriesOf(s)
    IN  /\ Exists(c) /\ Mintable(s)
        /\ WithinLimit(series[c].potential, counted[c].seeds + 1)
        /\ WithinLimit(SeedLimit, SeedsBy(CreatorOf[c]) + 1)
        /\ MintDataOK(series[c].schema, fixed, data)
        /\ seed' = [seed EXCEPT ![s] = [owner |-> to, max |-> max, distributed |-> 0, data |-> data]]
        /\ Count(c, 1, 0)
        /\ sealed' = [sealed EXCEPT ![c] = IF @ = NoRow THEN ImmutableFields(c) ELSE @]
        /\ UNCHANGED <<series, instance, burned, operators>>

Planned(items, seeds) == Total(items, seeds)

\* Mutant: each item is held against the stored counters alone.
WithinItemBudgets(items) ==
    \A s \in DOMAIN items :
        LET c == SeriesOf(s)
        IN  /\ WithinLimit(InstanceLimit, InstancesBy(CreatorOf[c]) + items[s])
            /\ WithinLimit(series[c].cap, counted[c].instances + items[s])

\* Instances of a creator, and of a capped collection, with all items so far.
WithinBudgets(items) ==
    \A s \in DOMAIN items :
        LET c == SeriesOf(s)
            ofSeries == {t \in DOMAIN items : SeriesOf(t) = c}
            ofCreator == {t \in DOMAIN items : CreatorOf[SeriesOf(t)] = CreatorOf[c]}
        IN  /\ WithinLimit(InstanceLimit, InstancesBy(CreatorOf[c]) + Planned(items, ofCreator))
            /\ WithinLimit(series[c].cap, counted[c].instances + Planned(items, ofSeries))

\* The numbers an item distributes: the next ones of the seed.
Numbers(s, quantity) == (seed[s].distributed + 1)..(seed[s].distributed + quantity)

\* items maps distinct seeds to quantities.  All are distributed, or none.
BulkDistribute(u, items, to, data) ==
    LET seeds == DOMAIN items
        Id(s, n) == <<s[1], s[2], n>>
        named == UNION {{Id(s, n) : n \in Numbers(s, items[s])} : s \in seeds}
        fresh == {i \in named : instance[i] = NoRow}
        Fresh(s) == Cardinality({i \in fresh : SeedOf(i) = s})
        touched == {SeriesOf(s) : s \in seeds}
    IN  /\ \A s \in seeds : seed[s] # NoRow
        /\ \A s \in seeds :
              /\ seed[s].owner = u
              /\ items[s] <= seed[s].max - seed[s].distributed
              /\ UpdateOK(series[SeriesOf(s)].schema, data)
        /\ Cardinality(seeds) \in 1..MaxItems /\ Planned(items, seeds) <= MaxQuantity
        /\ WithinBudgets(items)
        /\ named \subseteq InstanceIds /\ fresh \cap burned = {}
        /\ instance' = [i \in InstanceIds |->
              IF i \in fresh THEN [owner |-> to, data |-> data] ELSE instance[i]]
        /\ seed' = [s \in SeedIds |->
              IF s \in seeds THEN [seed[s] EXCEPT !.distributed = @ + Fresh(s)] ELSE seed[s]]
        /\ counted' = [c \in Series |->
              Recounted(counted[c], 0, Cardinality({i \in fresh : SeriesOf(i) = c}))]
        /\ UNCHANGED <<series, burned, operators, sealed>>

\* set_data by the creator, set_data_from by an approved operator.
WriteData(c, u, data) ==
    /\ Exists(c) /\ (u = CreatorOf[c] \/ u \in operators[c])
    /\ SnapshotOK(series[c].schema, data)
    /\ UNCHANGED <<series, counted, burned, operators, sealed>>

SetSeedData(s, u, data) ==
    /\ seed[s] # NoRow
    /\ WriteData(SeriesOf(s), u, data)
    /\ seed' = [seed EXCEPT ![s].data = data]
    /\ UNCHANGED instance

SetInstanceData(i, u, data) ==
    /\ instance[i] # NoRow
    /\ WriteData(SeriesOf(i), u, data)
    /\ instance' = [instance EXCEPT ![i].data = data]
    /\ UNCHANGED seed

\* A seed with distributed instances is not transferable.
TransferSeed(s, to) ==
    /\ seed[s] # NoRow /\ seed[s].distributed = 0 /\ seed[s].owner # to
    /\ series[SeriesOf(s)].transferable
    /\ seed' = [seed EXCEPT ![s].owner = to]
    /\ UNCHANGED <<series, counted, instance, burned, operators, sealed>>

TransferInstance(i, to) ==
    /\ instance[i] # NoRow /\ instance[i].owner # to
    /\ series[SeriesOf(i)].transferable
    /\ instance' = [instance EXCEPT ![i].owner = to]
    /\ UNCHANGED <<series, counted, seed, burned, operators, sealed>>

BurnSeed(s) ==
    /\ seed[s] # NoRow /\ seed[s].distributed = 0 /\ LiveInstances(s) = {}
    /\ series[SeriesOf(s)].burnable
    /\ seed' = [seed EXCEPT ![s] = NoRow]
    /\ burned' = burned \cup {s}
    /\ Count(SeriesOf(s), -1, 0)
    /\ UNCHANGED <<series, instance, operators, sealed>>

\* Mutant: the number of a burned instance is given back to its seed.
BurnAndReissue(i) ==
    /\ instance[i] # NoRow
    /\ series[SeriesOf(i)].burnable
    /\ instance' = [instance EXCEPT ![i] = NoRow]
    /\ seed' = [seed EXCEPT ![SeedOf(i)].distributed = @ - 1]
    /\ burned' = burned \cup {i}
    /\ Count(SeriesOf(i), 0, -1)
    /\ UNCHANGED <<series, operators, sealed>>

BurnInstance(i) ==
    /\ instance[i] # NoRow
    /\ series[SeriesOf(i)].burnable
    /\ instance' = [instance EXCEPT ![i] = NoRow]
    /\ burned' = burned \cup {i}
    /\ Count(SeriesOf(i), 0, -1)
    /\ UNCHANGED <<series, seed, operators, sealed>>

Shipments == UNION {[S -> 1..MaxQuantity] :
                    S \in {T \in SUBSET SeedIds : Cardinality(T) \in 1..MaxItems}}

SupplyNext ==
    \/ \E c \in Series :
        \/ \E terms \in Terms, schema \in FirstSchemas : CreateCollection(c, terms, schema)
        \/ \E new \in Schema : ExtendSchema(c, new)
        \/ ArchiveCollection(c)
        \/ \E u \in Holders, approved \in BOOLEAN : DataOperatorApprove(c, u, approved)
    \/ \E s \in SeedIds, u \in Holders, data \in Payloads :
        \/ \E max \in MintSupplies, fixed \in SUBSET Fields : Mint(s, u, max, fixed, data)
        \/ SetSeedData(s, u, data)
    \/ \E i \in InstanceIds, u \in Holders, data \in Payloads : SetInstanceData(i, u, data)
    \/ \E items \in Shipments, u \in Holders, to \in Holders, data \in Payloads :
        BulkDistribute(u, items, to, data)
    \/ \E s \in SeedIds : BurnSeed(s) \/ \E to \in Holders : TransferSeed(s, to)
    \/ \E i \in InstanceIds : BurnInstance(i) \/ \E to \in Holders : TransferInstance(i, to)

SupplySpec == SupplyInit /\ [][SupplyNext]_supplyVars
-----------------------------------------------------------------------------
(* Properties. *)

\* The caps hold of the rows themselves, whatever the counters the handlers
\* consult say: neither the check on a seed's supply nor the trigger on a
\* collection's instances, which would stop the indexer, ever fires.
CapsKept ==
    /\ \A s \in SeedIds : seed[s] # NoRow => seed[s].distributed <= seed[s].max
    /\ \A c \in Series : Exists(c) =>
        /\ WithinLimit(series[c].cap,
              Cardinality({i \in InstanceIds : SeriesOf(i) = c /\ instance[i] # NoRow}))
        /\ WithinLimit(series[c].potential,
              Cardinality({s \in SeedIds : SeriesOf(s) = c /\ seed[s] # NoRow}))
    /\ \A u \in Holders : WithinLimit(InstanceLimit, Cardinality({i \in InstanceIds :
              CreatorOf[SeriesOf(i)] = u /\ instance[i] # NoRow}))

\* Every number up to `distributed` was used for exactly one instance, which
\* lives or is burned; and nothing outlives its seed or its collection, so
\* that archiving meets no foreign key.
EveryNumberAccountedFor ==
    /\ \A s \in SeedIds :
        LET used == {i \in InstanceIds : SeedOf(i) = s /\ (instance[i] # NoRow \/ i \in burned)}
        IN  IF seed[s] = NoRow
            THEN LiveInstances(s) = {}
            ELSE Exists(SeriesOf(s)) /\ {i[3] : i \in used} = 1..seed[s].distributed
    /\ \A i \in burned \cap InstanceIds : instance[i] = NoRow

\* A burned id never comes back, not by minting, not by distribution, and not
\* by creating an archived collection again.
BurnedStaysGone ==
    [][\A id \in burned : /\ id \in burned'
                          /\ id \in SeedIds => seed'[id] = NoRow
                          /\ id \in InstanceIds => instance'[id] = NoRow]_supplyVars

\* Once a seed was ever minted under a collection's id, even in an earlier
\* life of the collection, its immutable fields stay as they are for as long
\* as the collection exists.
ImmutableShapeFrozen ==
    [][\A c \in Series :
        Exists(c) /\ series'[c] # NoRow /\ sealed[c] # NoRow
            => ImmutableFields(c)' = ImmutableFields(c)]_supplyVars

\* "Immutable namespace freezes permanently at the first seed mint, even across
\* burn and remint, so that the immutable shape is stable for any id that was
\* ever minted" (the comment in handleExtendSchema).
SealedForGood ==
    \A c \in Series : Exists(c) /\ sealed[c] # NoRow => ImmutableFields(c) = sealed[c]
=============================================================================
