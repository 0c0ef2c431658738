CONSTANTS
    Nil = Nil
    Backend = {b1}
    Handler = {h1}
    Provider = {p1, p2}
    Renewal = {g1}
    Rate <- OneRate
    Await = FALSE
    Steps = 3
    ProbesInRow = 1
    MinRequests = 0
    ErrMin = 50
    ErrMax = 150
    SlotChCap = 1
    MaxChecks = 1
    MaxTotal = 1
SPECIFICATION Spec
INVARIANTS TypeOK SingletonProvider SilencedOnlyAtCureLimit ErrorsOverrunByInFlight NoCrashFromTen
PROPERTIES ImplementsLife
CHECK_DEADLOCK FALSE
