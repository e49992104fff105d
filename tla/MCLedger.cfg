SPECIFICATION FairSpec
CONSTANTS
    a1 = a1
    a2 = a2
    a3 = a3
    seed = seed
    plain = plain
    bound = bound
    Null = Null
    Nodes = {n1}
    MinBeat = 1
    MaxStale = 1
    MaxBlock = 4
    Accounts = {u1, u2, u3}
    Spenders = {}
    Borrowers = {}
    Assets = {a1, a2}
    Seeds = {}
    Issued = {}
    Collections = {plain}
    CollectionOf <- OneCollection
    Transferable = {plain}
    Burnable = {}
    ListingTTL = {2}
    CommitTTL = 1
    NodeCap = 1
    MaxListings = 2
INVARIANT ReservationCoherent
INVARIANT NodeCapRespected
INVARIANT ListedCounterExact
PROPERTY ImplementsCustody
CHECK_DEADLOCK FALSE
INVARIANT ReservedBuySettles
PROPERTY SilentNodeRevivedOnlyByHeartbeat
PROPERTY ReservationEnds
