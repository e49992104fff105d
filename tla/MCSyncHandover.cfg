SPECIFICATION EngineFairSpec
CONSTANTS
    LastBlock = 3
    TTL = 1
    Every = 2
    Chains <- HastyChain
    NoRoot = NoRoot
    Procs = {p1, p2}
    NoProc = NoProc
    BlockRange = 2
    Massive = 1
    Regression = 0
    Tolerance = 1
    Lag = 1
    Faults = {"crash", "drop", "stop", "abort", "fetch"}
    MaxFaults = 1
INVARIANT NeverAheadOfDatabase
INVARIANT WritesFencedAndFinal
INVARIANT ConfirmedOnce
PROPERTY CatchesUp
