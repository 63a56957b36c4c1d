SPECIFICATION Spec
CONSTANTS
    NoToken = NoToken
    Op = {o1, o2}
    Host = {1, 2}
    Request <- FreshRequests
    Entry <- FirstCube
    StartFile <- Fresh
    MaxFaults = 1
SYMMETRY Ops
INVARIANTS InsertUnifies OwnTokenLast
PROPERTY TokenNeverCleared
CHECK_DEADLOCK FALSE
