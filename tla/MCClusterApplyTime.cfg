SPECIFICATION Spec
CONSTANTS
    NoToken = NoToken
    Op = {o1}
    Host = {1, 2}
    Request <- InsertOnly
    Entry <- AllCubes
    StartFile <- Fresh
    MaxFaults = 1
INVARIANT SuccessConfiguresTime
CHECK_DEADLOCK FALSE
