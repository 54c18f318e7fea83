CONSTANTS
    MediaUrls = {"a"}
    MediaContents = {"h1"}
    MediaServes <- Origins
    MediaRequests = {"r1", "r2"}
    Procs = {"p1"}
    CacheMax = 1
    LowWater = 0
    MediaFaults = {"fetch"}
SPECIFICATION MediaFairSpec
PROPERTIES ClaimReclaimed
CHECK_DEADLOCK FALSE
