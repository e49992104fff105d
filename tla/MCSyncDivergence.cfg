SPECIFICATION EngineSpec
CONSTANTS
    LastBlock = 3
    TTL = 1
    Every = 2
    Chains <- HastyChain
    NoRoot = NoRoot
    Procs = {p1, p2}
    NoProc = NoProc
    BlockRange = 2
    Massive = 1
    Regression = 1
    Tolerance = 1
    Lag = 0
    Faults = {"stop"}
    MaxFaults = 1
INVARIANT NoDivergence
