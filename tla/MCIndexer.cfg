SPECIFICATION IndexerSpec
CONSTANTS
    LastBlock = 4
    TTL = 1
    Every = 2
    Chains <- SomeChains
    NoRoot = NoRoot
    Procs = {p1, p2}
    NoProc = NoProc
    BlockRange = 2
    Massive = 1
    Regression = 1
    Tolerance = 1
    Lag = 2
    Faults = {"crash", "fetch", "abort"}
    MaxFaults = 2
    NoRow = NoRow
    u1 = u1
    u2 = u2
    c1 = c1
    c2 = c2
    a1 = a1
    a2 = a2
    f = f
    g = g
    x = x
    y = y
    t1 = t1
    t2 = t2
    o1 = o1
    o2 = o2
    o3 = o3
    o4 = o4
    Holders = {u1, u2}
    Series = {c1, c2}
    CreatorOf <- Creator
    SymbolOf <- Symbol
    Arts = {a1, a2}
    Fields = {f, g}
    Terms <- SomeTerms
    FirstSchemas <- SomeSchemas
    Payloads <- SomePayloads
    MintSupplies = {2}
    MaxNumber = 2
    MaxFields = 3
    MaxVersions = 2
    MaxItems = 2
    MaxQuantity = 2
    SeriesLimit = 2
    SeedLimit = 3
    InstanceLimit = 3
    Ids = {x, y}
    HiveTxs = {t1, t2}
    Streams <- SomeStreams
    Bodies <- SomeBodies
    MaxLosses = 1
    Interval = 3
    Staleness = 7
    Boundary = 3
    PollEvery = 2
    MaxDelay = 2
    MaxBlock = 13
    MaxMisfortunes = 1
    Endpoints = 2
    Callers = {"range", "plain"}
    OpenAfter = 2
    CooldownBase = 1
    CooldownMax = 2
    RateLimit = 1
    Asked = {1, 2}
    Wanted <- ThreeOps
    Books <- SomeBooks
    MaxPages = 3
    Heads <- SomeHeads
    Turns = 2
    LastMoment = 1
    mono = mono
    api = api
    sync = sync
    Replicas = {mono, api, sync}
    Role <- Roles
    Genesis = 3
    Tip = 6
    Batch = 2
    Stores <- SomeStores
    Anchors = 3
    WorkerRestarts = 2
    MaxMishaps = 3
SYMMETRY ProcSymmetry
INVARIANTS
    CapsKept
    EveryNumberAccountedFor
    RootIsFullScan
    PoolExact
    CheckpointsInOrder
    HealthyNodeStaysActive
    RangeSettled
    HeadIsBacked
    ProjectionSound
PROPERTIES
    ImplementsReplay
    ImplementsBatches
    BurnedStaysGone
    ImmutableShapeFrozen
CHECK_DEADLOCK FALSE
