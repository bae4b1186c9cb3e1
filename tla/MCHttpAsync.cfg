CONSTANTS
    w1 = w1
    w2 = w2
    Workers = {w1, w2}
    NumReqs = 3
    MaxGen = 2
    MaxThrows = 1
SPECIFICATION FairSpec
INVARIANTS
    WellFormed
    NoLostWakeup
    PumpCountsFetches
PROPERTIES
    FetchSettles
    PumpStops
    ImplementsBoard
