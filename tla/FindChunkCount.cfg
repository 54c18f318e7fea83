CONSTANTS
    TotalChunks = 2
    Bodies = {b1}
    Requests = {r1, r2}
    Ops = {"chunk"}
    Faults = {}
    Workers = {}
SPECIFICATION Spec
SYMMETRY Symmetry
INVARIANT CountsItsChunks
CHECK_DEADLOCK FALSE
