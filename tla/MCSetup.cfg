SPECIFICATION MCSpec
CONSTANTS
    Job = {j1, j2}
    JobLimit = 1
    HostLists <- OneOrTwo
    MaxChange = 1
    Staging = {TRUE}
    Client = {j1, j2}
    MaxFaults = 1
    Here = "h1"
    Index = {1, 2, 3}
    CCVM = ccvm
    Node = {"h1", "h2"}
    Name = {1, 2}
    Default = 1
    Key = {k1, k2}
    NoKey = none
    Machine = {"h1", "h2", "h3"}
    VM = {s1}
    OwnSCVM = s1
    MaxRetries = 2
    MaxTrouble = 2
    Peer = {"h1", "h2"}
    NewKey = {"k1", "k2"}
    TrustKey = {"cloud1", "cloud2"}
    MaxAttempts = 2
SYMMETRY Alike
INVARIANTS TypesOK NothingTwice   AccessIsKept
 
CHECK_DEADLOCK FALSE
