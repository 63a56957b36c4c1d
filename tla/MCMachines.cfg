SPECIFICATION MCSpec
CONSTANTS
    Host = {"h1", "h2"}
    Targets <- TwoTargets
    Client = {c1}
    Entry = {"h2"}
    NoHost = NoHost
    Limit = 3
    OldSnaps <- Three
    MaxFaults = 1
    MaxMoves = 2
    Requester = {r1, r2}
    Here = "h1"
    SizeLimit = 3
    Added = {1, 2}
    Value = {v1, v2}
SYMMETRY Requesters
INVARIANTS TypesOK   DisksAreHeld
PROPERTIES SuccessIsQuiesced NewestKept
CHECK_DEADLOCK FALSE
