CONSTANTS
    Pubkeys = {p1, p2}
    Small = h1
    Hashes = {h1, h2}
    OwnedHashes = {h1}
    Requests = {r1, r2, r3}
    Size <- SizeOf
    StoredSize <- StoredSizeOf
    GCBatch = 1
    ExpireBatch = 2
    Quota = 3
    OwnerQuota = 2
    Ops = {"upload", "mirror", "delete", "admin"}
    OwnerOps = {"upload", "uploadexp", "mirror", "delete"}
SPECIFICATION RequestsSpec
SYMMETRY Symmetry
INVARIANTS TypeOK ChargeMatched NeverUndercharged NoOrphanObject
PROPERTY OwnedBlobsStay
