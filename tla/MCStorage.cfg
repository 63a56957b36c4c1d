SPECIFICATION MCSpec
CONSTANTS
    Client = {c1, c2}
    MaxFaults = 1
    Host = {h1, h2}
    Disk = {d1, d2}
    Actions = {"init", "stonith", "control", "alert", "create", "delete", "extend", "add"}
    MaxPieces = 2
    MaxImage = 4
    Image = {i1, i2}
    Iqn = {t1, t2}
    Malformed = bad
    Vol = {v1, v2}
    Group = {g1}
    Pseudo = {p1, p2}
    None = none
SYMMETRY Requests
INVARIANTS   EndsWhatItBegan 
CHECK_DEADLOCK FALSE
