SPECIFICATION TrailSpec
CONSTANTS
    ann = ann
    bob = bob
    m1 = m1
    m2 = m2
    b1 = b1
    b2 = b2
    b3 = b3
    Folk = {ann, bob}
    BuyTxs <- SomeBuys
    Prices <- SomePrices
    Lifetimes = {2, 9}
    SaleTerms <- SomeTerms
    Mirrors <- TwoMirrors
    CommitTtl = 1
    LastHeight = 5
    MaxTrail = 6
INVARIANT HonestBuyVerifies
CHECK_DEADLOCK FALSE
