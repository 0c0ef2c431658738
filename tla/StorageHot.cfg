CONSTANTS
    Root = Root
    Nil = Nil
    Evictor = Evictor
    Refresher = Refresher
    Elem = {e1, e2}
    Client = {c1, c2}
    Request = {"r1", "r2"}
    Body = {"b1", "b2"}
    KeyOf <- SameKey
    PrintOf <- TwoPrints
    TotalShards = 1
    Fat = 1
    Threshold = 2
    Overhead = 0
    Eviction = TRUE
    Refresh = FALSE
    Repeat = TRUE
    MaxClears = 0
    WeightOf <- Weights
SPECIFICATION Spec
SYMMETRY Handlers
INVARIANTS TypeOK AnswersMatch
PROPERTIES CountersDriftOnlyByClearOrUpdate ImplementsCache
CHECK_DEADLOCK FALSE
