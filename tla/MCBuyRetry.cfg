SPECIFICATION Spec
CONSTANTS
    n1 = n1
    n2 = n2
    t1 = t1
    t2 = t2
    NoTx = NoTx
    Nodes = {n1}
    Txs = {t1}
    NodeOf <- OneNode
    TTL = 4
    MinLeft = 3
    MaxLeft = 4
    Wait = 4
    ApiLag = 1
    Stale = 1
    Drift = 1
    PoolLife = 2
    Finality = 1
    LastBlock = 7
    Ends = {5, 12}
    Silences = {5, 12}
    Backlog = 1
    Lossy = {"buy"}
    Prompt = TRUE
    MaxListings = 2
    MaxFaults = 2
INVARIANT NeverCommittedTwice
CHECK_DEADLOCK FALSE
INVARIANT PaidWhileLiveIsDelivered
