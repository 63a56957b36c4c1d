SPECIFICATION FairSpec
CONSTANTS
    Job = {j1, j2}
    JobLimit = 3
    Type = "ablestack-hci"
    Hosts <- FourHosts
    PCSList <- ThreeHosts
    Local = 1
PROPERTY SuccessIsLasting
CHECK_DEADLOCK FALSE
