CONSTANTS
    Pubkeys = {p1, p2}
    Hashes = {h1}
    Requests = {r1, r2}
    Size <- PlainSize
    StoredSize <- EncryptedSize
    GCBatch = 1
    ExpireBatch = 2
    Quota = 3
    Ops = {"uploadexp", "delete", "admin"}
SPECIFICATION Spec
SYMMETRY Symmetry
INVARIANTS NoOrphanAfterSweeps NoOwnerlessRow
