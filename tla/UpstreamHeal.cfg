CONSTANTS
    Nil = Nil
    Backend = {b1}
    Handler = {}
    Provider = {p1, p2}
    Renewal = {g1, g2}
    Rate <- OneRate
    Await = FALSE
    Steps = 3
    ProbesInRow = 1
    MinRequests = 0
    ErrMin = 50
    ErrMax = 150
    SlotChCap = 0
    MaxChecks = 2
    MaxTotal = 0
SPECIFICATION FairSpec
PROPERTIES HealsUnlessBurialHangs
CHECK_DEADLOCK FALSE
