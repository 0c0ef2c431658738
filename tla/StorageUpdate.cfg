CONSTANTS
    Root = Root
    Nil = Nil
    Evictor = Evictor
    Refresher = Refresher
    Elem = {e1, e2}
    Client = {c1, c2}
    Request = {"r1"}
    Body = {"b1", "b2"}
    KeyOf <- OwnKeys
    PrintOf <- OwnPrints
    TotalShards = 1
    Fat = 1
    Threshold = 9
    Overhead = 0
    Eviction = FALSE
    Refresh = FALSE
    Repeat = TRUE
    MaxClears = 0
    WeightOf <- Weights
SPECIFICATION Spec
INVARIANT MemAccounted
CHECK_DEADLOCK FALSE
