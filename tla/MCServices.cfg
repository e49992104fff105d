SPECIFICATION ServicesSpec
CONSTANTS
    n1 = n1
    n2 = n2
    t1 = t1
    t2 = t2
    NoTx = NoTx
    Nodes = {n1, n2}
    Txs = {t1, t2}
    NodeOf <- OneNodeEach
    TTL = 2
    MinLeft = 1
    MaxLeft = 2
    Wait = 2
    ApiLag = 1
    Stale = 1
    Drift = 1
    PoolLife = 1
    Finality = 0
    LastBlock = 4
    Ends = {9}
    Silences = {9}
    Backlog = 0
    Lossy = {}
    Prompt = TRUE
    MaxListings = 1
    MaxFaults = 0
    r1 = r1
    r2 = r2
    r3 = r3
    r4 = r4
    S1 = S1
    S2 = S2
    k1 = k1
    NoKey = NoKey
    Inquiries <- SomeInquiries
    Elsewhere <- OthersDrafts
    CollectionCap = 1
    MinLife = 1
    MaxLife = 2
    SignLockTtl = 2
    CacheTtl = 2
    CacheSize = 2
    HeadAge = 1
    IndexLag = 2
    Horizon = 4
    MaxBreakdowns = 1
    ann = ann
    bob = bob
    m1 = m1
    m2 = m2
    b1 = b1
    b2 = b2
    b3 = b3
    Folk = {ann, bob}
    BuyTxs <- SomeBuys
    Prices <- SomePrices
    Lifetimes = {2, 9}
    SaleTerms <- SomeTerms
    Mirrors <- TwoMirrors
    CommitTtl = 1
    LastHeight = 5
    MaxTrail = 6
    s1 = s1
    s2 = s2
    Draws = {s1, s2}
    Weight <- Weights
    TableOrder <- Table
    PerPack = 2
    PackSupply = 1
    Stock <- Amounts
    Batch = 3
    v1 = v1
    v2 = v2
    Replicas = {v1, v2}
    Submissions <- SomeSubmissions
    SettledAfter = 1
    RpcLag = 1
    LastTick = 4
SYMMETRY PairSymmetry
INVARIANTS
    BuyNeverOutlivesReservation
    OnePaysPerListing
    OneLiveSignature
    LostToTheOneBefore
    BuysJudgedAlike
    HonestProofHolds
    PlanFitsDistinctDraws
    SignedIsAccepted
    SameVerdictWhenever
CHECK_DEADLOCK FALSE
