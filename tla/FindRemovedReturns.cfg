CONSTANTS
    ModPubkeys = {"k"}
    ModNobody = "nobody"
    Names = {"h"}
    ModHashes = {"h"}
    Reports = {"r1"}
    About <- ReportedBlob
    Signed = {}
    Decisions = {"d1"}
    ModUploads = {"u1"}
    ModKey <- BatchKey
    Blob <- BatchBlob
    ModFaults = {}
SPECIFICATION BatchSpec
INVARIANT RemovedStaysOut
CHECK_DEADLOCK FALSE
