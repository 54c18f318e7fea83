CONSTANTS
    Length = 2
    Requests = {r1, r2}
    Creator = creator
    Sweeper = sweeper
    Ops = {"patch", "head", "terminate"}
    Faults = {"db", "storage", "crash"}
    Events = {"expire", "block"}
SPECIFICATION Spec
SYMMETRY Symmetry
INVARIANTS ChunksTile RecordedBytesStored NeverTorn
PROPERTY UploadPromised
CHECK_DEADLOCK FALSE
