SPECIFICATION Spec
CONSTANTS
    a1 = a1
    a2 = a2
    a3 = a3
    seed = seed
    plain = plain
    bound = bound
    Null = Null
    Nodes = {n1}
    MinBeat = 1
    MaxStale = 2
    MaxBlock = 3
    Accounts = {u1, u2}
    Spenders = {}
    Borrowers = {}
    Assets = {a1}
    Seeds = {}
    Issued = {}
    Collections = {plain}
    CollectionOf <- OneCollection
    Transferable = {plain}
    Burnable = {}
    ListingTTL = {2}
    CommitTTL = 1
    NodeCap = 1
    MaxListings = 1
INVARIANT NeverWedged
CHECK_DEADLOCK FALSE
