CONSTANTS
    Puts = {"c1", "c2", "c3"}
    DiskDeletes = {"c4"}
    Blocks = 2
    Inodes = {1, 2, 3, 4}
    NoInode = 0
    DiskFaults = {}
SPECIFICATION DiskSpec
INVARIANT PutIsAtomic
CHECK_DEADLOCK FALSE
