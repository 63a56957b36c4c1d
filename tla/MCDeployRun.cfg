SPECIFICATION FairSpec
CONSTANTS
    Job = {j1, j2}
    JobLimit = 1
    Request <- Requests
    MaxRewrite = 1
    MaxRestart = 1
INVARIANTS OneDeployment GFSOnMappedImages  FlagsTruthful
PROPERTIES ImplementsLifecycle JobEnds
CHECK_DEADLOCK FALSE
