---------------------------- MODULE MCSweepFaults ----------------------------
\* BlobSweeps on one blob under two sets of faults over the same state: those of
\* the database, which may leave rows without an owner, and those of the storage
\* backend, which may leave objects without a row.  Which of the two a behaviour
\* has is fixed from its start.  The instances are of BlobSweepsProofs, which
\* extends BlobSweeps, so that its theorems are about them too.
EXTENDS Integers, TLC

CONSTANTS Pubkeys, Hashes, Requests, Size, StoredSize, GCBatch, ExpireBatch, Quota, Ops

VARIABLES
    faults,     \* "database" or "storage"
    rows, refs, refCount, uploader, expiring, removed, banned, used, objects,
    op, pk, hash, pc, cur, todo, settled, forfeited,
    gcPc, gcTodo, gcHash, exPc, exTodo, exHash, exUploader, exOwners, freed,
    modPc, modHash, modOwner

Database == INSTANCE BlobSweepsProofs WITH
    Faults <- {"db", "usage"}, Sweeps <- {"gc", "expire", "removed", "user_banned"}

Storage == INSTANCE BlobSweepsProofs WITH
    Faults <- {"storage", "usage", "restart"},
    Sweeps <- {"gc", "expire", "removed", "user_banned", "recalculate"}

\* Encryption adds to the stored size.
PlainSize == [h \in Hashes |-> 1]
EncryptedSize == [h \in Hashes |-> 2]

Symmetry == Permutations(Pubkeys) \cup Permutations(Requests)

ASSUME FaultsAssumption ==
    /\ Database!ConstantsAssumption /\ Database!SweepAssumption
    /\ Storage!ConstantsAssumption /\ Storage!SweepAssumption

Init ==
    \/ faults = "database" /\ Database!SweepInit
    \/ faults = "storage" /\ Storage!SweepInit

Next ==
    /\ UNCHANGED faults
    /\ \/ faults = "database" /\ Database!SweepNext
       \/ faults = "storage" /\ Storage!SweepNext

Spec == Init /\ [][Next]_<<faults, Storage!allVars>>

\* A database that fails leaves no object behind that has no row (BlobSweeps).
NoOrphanAfterSweeps == faults = "database" => Database!NoOrphanAfterSweeps

\* A storage backend that fails leaves no row behind that has no owner
\* (BlobStore, of the sweeps too).
NoOwnerlessRow == faults = "storage" => Storage!NoOwnerlessRow
==============================================================================
