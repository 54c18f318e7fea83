CONSTANTS
    Length = 2
    Requests = {r1, r2}
    Creator = creator
    Sweeper = sweeper
    Ops = {"patch"}
    Faults = {}
    Events = {}
SPECIFICATION Spec
SYMMETRY Symmetry
INVARIANT SavedWhole
CHECK_DEADLOCK FALSE
