CONSTANTS
    Length = 2
    Requests = {r1, r2}
    Creator = creator
    Sweeper = sweeper
    Ops = {"patch", "terminate"}
    Faults = {"db"}
    Events = {"expire"}
SPECIFICATION FairSpec
INVARIANT NoBytesLeftBehind
PROPERTY AbandonedRemoved
CHECK_DEADLOCK FALSE
