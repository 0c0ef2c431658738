CONSTANTS
    Root = Root
    Nil = Nil
    Evictor = Evictor
    Refresher = Refresher
    Elem = {e1, e2, e3}
    Client = {c1, c2}
    Request = {"r1", "r2"}
    Body = {"b1"}
    KeyOf <- OwnKeys
    PrintOf <- OwnPrints
    TotalShards = 1
    Fat = 1
    Threshold = 2
    Overhead = 0
    Eviction = TRUE
    Refresh = FALSE
    Repeat = TRUE
    MaxClears = 0
    WeightOf <- Weights
SPECIFICATION Spec
INVARIANT RingsIntact
CHECK_DEADLOCK FALSE
