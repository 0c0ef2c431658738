CONSTANTS
    Root = Root
    Nil = Nil
    Evictor = Evictor
    Refresher = Refresher
    Elem = {e1, e2}
    Client = {c1, c2}
    Request = {"r1", "r2"}
    Body = {"b1", "b2"}
    KeyOf <- OwnKeys
    PrintOf <- OwnPrints
    TotalShards = 1
    Fat = 1
    Threshold = 2
    Overhead = 0
    Eviction = FALSE
    Refresh = TRUE
    Repeat = TRUE
    MaxClears = 1
    WeightOf <- Weights
SPECIFICATION Spec
SYMMETRY Handlers
INVARIANTS RingsIntact
CHECK_DEADLOCK FALSE
