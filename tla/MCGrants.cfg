SPECIFICATION Spec
CONSTANTS
    a1 = a1
    a2 = a2
    a3 = a3
    seed = seed
    plain = plain
    bound = bound
    Null = Null
    Nodes = {n1}
    MinBeat = 1
    MaxStale = 1
    MaxBlock = 2
    Accounts = {u1, u2, u3}
    Spenders = {u2, u3}
    Borrowers = {u2, u3}
    Assets = {a1, a3, seed}
    Seeds = {seed}
    Issued = {seed}
    Collections = {plain, bound}
    CollectionOf <- TwoCollections
    Transferable = {plain}
    Burnable = {plain, bound}
    ListingTTL = {1}
    CommitTTL = 1
    NodeCap = 1
    MaxListings = 1
SYMMETRY SpenderSymmetry
INVARIANT TypeOK
INVARIANT UnsellableNeverEncumbered
CHECK_DEADLOCK FALSE
INVARIANT LoanBacksLent
INVARIANT AllowanceFresh
INVARIANT ApprovalBacked
