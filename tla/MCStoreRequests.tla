--------------------------- MODULE MCStoreRequests ---------------------------
\* BlobSweeps twice more over the state of MCSweepFaults, with requests in place
\* of sweeps: the accounting of several blobs, where only statements fail, and
\* the ownership of some of them beside the collector, where anything may fail.
\* Which of the two a behaviour is about is fixed from its start.
EXTENDS MCSweepFaults

CONSTANTS
    Small,              \* a blob
    OwnedHashes, OwnerQuota, OwnerOps   \* Hashes, Quota and Ops of the second kind

Accounting == INSTANCE BlobSweepsProofs WITH Faults <- {"db"}, Sweeps <- {}

Owners == INSTANCE BlobSweepsProofs WITH
    Hashes <- OwnedHashes, Quota <- OwnerQuota, Ops <- OwnerOps,
    Size <- [h \in OwnedHashes |-> Size[h]], StoredSize <- [h \in OwnedHashes |-> StoredSize[h]],
    Faults <- {"db", "storage", "usage", "crash", "restart"}, Sweeps <- {"gc"}

\* Blobs of different sizes, so that a credit for the wrong one shows; encryption
\* adds to the stored size.
SizeOf == [h \in Hashes |-> IF h = Small THEN 1 ELSE 2]
StoredSizeOf == [h \in Hashes |-> SizeOf[h] + 1]

\* An operator's delete takes references from their owners: not in the second kind.
ASSUME RequestsAssumption ==
    /\ Accounting!ConstantsAssumption /\ Accounting!SweepAssumption
    /\ Owners!ConstantsAssumption /\ Owners!SweepAssumption
    /\ "admin" \notin OwnerOps

sweepVars == <<gcPc, gcTodo, gcHash, exPc, exTodo, exHash, exUploader, exOwners, freed,
               modPc, modHash, modOwner>>

RequestsInit ==
    \/ faults = "statements" /\ Accounting!SweepInit
    \/ faults = "anything" /\ Owners!SweepInit

RequestsNext ==
    /\ UNCHANGED faults
    /\ \/ faults = "statements" /\ Accounting!Next /\ UNCHANGED sweepVars
       \/ faults = "anything" /\ Owners!CollectorNext

RequestsSpec == RequestsInit /\ [][RequestsNext]_<<faults, Owners!allVars>>

\* The state's types (BlobStore).
TypeOK == IF faults = "statements" THEN Accounting!TypeOK ELSE Owners!TypeOK

\* With statements that fail, charges less credits and forfeits of a key for a
\* blob are its references (BlobStore), ...
ChargeMatched == faults = "statements" => Accounting!ChargeMatched

\* ... no key is charged less than it references, credits that came before their
\* charge apart (BlobSweeps), ...
NeverUndercharged == faults = "statements" => Accounting!NeverUndercharged

\* ... and at rest no object is without a row (BlobStore).
NoOrphanObject == faults = "statements" => Accounting!NoOrphanObject

\* Whatever fails, and beside the collector, a blob that some key references keeps
\* its row until that key's own reference is removed (BlobStore: the contract
\* BlobOwnership is implemented).
OwnedBlobsStay ==
    /\ faults = "anything" => Owners!Ownership!Init
    /\ [][faults = "anything" => Owners!Ownership!Next]_<<rows, refs>>
==============================================================================
