SPECIFICATION FairSpec
CONSTANTS
    Job = {j1, j2}
    JobLimit = 1
    Type = "ablestack-hci-filesystem"
    Hosts <- FourHosts
    PCSList <- FourHosts
    Local = 1
INVARIANT DismantledInOrder
PROPERTIES SuccessMeansRemoved JobEnds
CHECK_DEADLOCK FALSE
