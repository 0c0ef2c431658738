CONSTANTS
    Elem = {e1, e2, e3, e4}
    Goroutine = {g1, g2}
    Root = Root
    Nil = Nil
SPECIFICATION Spec
INVARIANTS TypeOK RingIntegrity
PROPERTY OrderSpec
CHECK_DEADLOCK FALSE
