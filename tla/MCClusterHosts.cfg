SPECIFICATION MCSpec
CONSTANTS
    NoToken = NoToken
    Op = {o1, o2}
    OneOp = {o1}
    Host = {1, 2, 3}
    Request <- VMRequests
    Entry <- FirstTwoCubes
    StartFile <- GrowingVM
    MaxFaults = 0
    MaxHCIFaults = 1
SYMMETRY Ops
INVARIANT MachinesAgree
CHECK_DEADLOCK FALSE
