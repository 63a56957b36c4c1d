SPECIFICATION Spec
CONSTANTS
    Job = {j1, j2}
    JobLimit = 3
    Type = "ablestack-hci"
    Hosts <- FiveHosts
    PCSList <- ThreeHosts
    Local = 1
INVARIANT CephDrainedFirst
CHECK_DEADLOCK FALSE
