SPECIFICATION FairSpec
CONSTANTS
    Handler = {h1, h2}
    Starter = {s1, s2}
    Stopper = {p1, p2}
    Worker = {w1, w2}
    MaxRegister = 2
    MaxGen = 2
INVARIANTS TypeOK NoOverlap SingleLoop StoppedIsQuiet
PROPERTIES StopReturns HandlersKeepRunning
CHECK_DEADLOCK FALSE
