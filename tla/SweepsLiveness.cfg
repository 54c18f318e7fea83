CONSTANTS
    h1 = h1
    Pubkeys = {p1, p2}
    Hashes = {h1, h2}
    Requests = {r1, r2}
    Size <- SizeOf
    StoredSize <- EncryptedSize
    GCBatch = 1
    ExpireBatch = 1
    Quota = 3
    Ops = {"upload", "uploadexp", "delete"}
    Faults = {"crash"}
    Sweeps = {"gc", "expire"}
SPECIFICATION FairSweepSpec
PROPERTIES OwnerlessReclaimed ExpiredDeleted
