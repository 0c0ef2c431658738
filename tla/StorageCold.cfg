CONSTANTS
    Root = Root
    Nil = Nil
    Evictor = Evictor
    Refresher = Refresher
    Elem = {e1, e2, e3}
    Client = {c1, c2}
    Request = {"r1", "r2", "r3"}
    Body = {"b1"}
    KeyOf <- OwnKeys
    PrintOf <- OwnPrints
    TotalShards = 3
    Fat = 2
    Threshold = 2
    Overhead = 1
    Eviction = TRUE
    Refresh = FALSE
    Repeat = FALSE
    MaxClears = 0
    WeightOf <- Weights
SPECIFICATION FairSpec
INVARIANTS RingsIntact MappedAreListed NeverPanics MemAccounted
PROPERTY EvictionConverges
CHECK_DEADLOCK FALSE
