------------------------------ MODULE BlobStore ------------------------------
(***************************************************************************)
(* The reference-counted blob store and its usage accounting: PUT /upload, *)
(* PUT /mirror, DELETE /<sha256> and the operator's delete, as concurrent  *)
(* requests on one database and one object store.                          *)
(*                                                                         *)
(* Each database statement, each database transaction and each call to the *)
(* storage backend is one atomic step.  A handler is the sequence of the   *)
(* steps it makes, kept in pc[r]; the steps of different requests          *)
(* interleave freely, as do those of several replicas on one database.     *)
(***************************************************************************)
EXTENDS Integers, FiniteSets

CONSTANTS
    Pubkeys,    \* the keys that upload and delete
    Hashes,     \* the SHA-256 names of the blobs
    Requests,   \* identities of the requests, each used once: the bound on their number
    Size,       \* plaintext bytes of each blob, what a reference to it is charged
    Quota,      \* users.quota_bytes, the same for every key
    Ops,        \* the operations that are requested, a subset of OpNames
    Faults      \* what may fail, a subset of FaultNames

OpNames == {"upload", "uploadexp", "mirror", "delete", "admin"}

\* "db"      a statement or transaction returns an error and changes nothing
\* "storage" a Put or a Delete of the object store returns an error
\* "usage"   IncrementUsage or DecrementUsage returns an error
\* "crash"   the replica that serves a request dies between two of its steps
\* "restart" the replica that runs a sweep dies between two of its steps (BlobSweeps)
FaultNames == {"db", "storage", "usage", "crash", "restart"}

ASSUME ConstantsAssumption ==
    /\ IsFiniteSet(Requests)
    /\ Size \in [Hashes -> Nat]
    /\ Quota \in Nat
    /\ Ops \subseteq OpNames
    /\ Faults \subseteq FaultNames

VARIABLES
    \* the database
    rows,       \* hashes that have a row in blobs
    refs,       \* blob_references: the keys that hold a reference to each hash
    refCount,   \* blobs.ref_count
    uploader,   \* {blobs.pubkey}, the key that inserted the row; {} without a row
    expiring,   \* rows whose expires_at is set
    removed,    \* removed_blobs
    banned,     \* users.is_banned
    used,       \* users.used_bytes
    \* the storage backend
    objects,    \* hashes that have an object
    \* each request; the first three are its input, any value from the start
    op,         \* its operation
    pk,         \* the key it acts for
    hash,       \* the blob it is about
    pc,         \* the step it makes next
    cur,        \* the key whose reference it removes
    todo,       \* admin delete: owners listed and not yet visited
    \* history, read by no step: charges less credits made for each key and
    \* blob, and references that went with a row without a credit
    settled, forfeited

db == <<rows, refs, refCount, uploader, expiring>>
policy == <<removed, banned>>
input == <<op, pk, hash>>
history == <<settled, forfeited>>
vars == <<rows, refs, refCount, uploader, expiring, removed, banned, used, objects,
          op, pk, hash, pc, cur, todo, settled, forfeited>>

UploadSteps == {"quota", "removed", "lookup", "hasref", "addref", "put", "insert",
                "cleanup", "refer", "charge", "expire", "mquota", "mfetch"}
DeleteSteps == {"find", "owns", "unref", "objdel", "credit"}
AdminSteps == {"adesc", "alist", "anext", "arecheck", "aexists", "arowdel", "rowobj"}
Labels == UploadSteps \cup DeleteSteps \cup AdminSteps \cup {"idle", "done"}

Init ==
    /\ rows = {} /\ objects = {} /\ expiring = {} /\ removed = {} /\ banned = {}
    /\ refs = [h \in Hashes |-> {}]
    /\ refCount = [h \in Hashes |-> 0]
    /\ uploader = [h \in Hashes |-> {}]
    /\ used = [p \in Pubkeys |-> 0]
    /\ op \in [Requests -> Ops]
    /\ pk \in [Requests -> Pubkeys]
    /\ hash \in [Requests -> Hashes]
    /\ pc = [r \in Requests |-> "idle"]
    /\ cur = pk
    /\ todo = [r \in Requests |-> {}]
    /\ settled = [p \in Pubkeys |-> [h \in Hashes |-> 0]]
    /\ forfeited = [p \in Pubkeys |-> [h \in Hashes |-> 0]]

------------------------------------------------------------------------------
\* r is about to make step l; r makes step l next.
At(r, l) == pc[r] = l
Goto(r, l) == pc' = [pc EXCEPT ![r] = l]

\* A step that only reads: r goes on at l.
Read(r, l) ==
    /\ Goto(r, l)
    /\ UNCHANGED <<db, policy, used, objects, input, cur, todo, history>>

\* The request ends on an error of the database.
DbError(r) == "db" \in Faults /\ Read(r, "done")

FirstStep(o) == CASE o = "mirror" -> "mquota"
                  [] o = "delete" -> "find"
                  [] o = "admin"  -> "adesc"
                  [] OTHER        -> "quota"

\* A client sends the request.  The checks that read nothing this module holds
\* (authorization, access rules, MIME type, size limits, the hash of the bytes)
\* all precede the first change a handler makes: a request they refuse is one
\* that never starts.
Start(r) == At(r, "idle") /\ Read(r, FirstStep(op[r]))

------------------------------------------------------------------------------
\* CheckQuota(pubkey, n): banned keys and usage beyond the quota are refused.
QuotaAdmits(p, n) == p \notin banned /\ used[p] + n <= Quota

MirrorQuota(r) ==
    /\ At(r, "mquota")
    /\ \/ Read(r, IF QuotaAdmits(pk[r], 1) THEN "mfetch" ELSE "done")
       \/ DbError(r)

\* The bytes come from the stored blob, whose row holds them too; when there is
\* none or it cannot be read or decrypted, from the source, which may fail.
MirrorFetch(r) ==
    /\ At(r, "mfetch")
    /\ \/ Read(r, "quota")
       \/ (hash[r] \notin rows \/ Faults \cap {"db", "storage"} # {}) /\ Read(r, "done")

UploadQuota(r) ==
    /\ At(r, "quota")
    /\ \/ Read(r, IF QuotaAdmits(pk[r], Size[hash[r]]) THEN "removed" ELSE "done")
       \/ DbError(r)

\* An error of this lookup lets the upload go on.
UploadRemoved(r) ==
    /\ At(r, "removed")
    /\ \/ Read(r, IF hash[r] \in removed THEN "done" ELSE "lookup")
       \/ "db" \in Faults /\ Read(r, "lookup")

\* SaveWithDedup takes any error of its lookup for "there is no such blob".
SaveLookup(r) ==
    /\ At(r, "lookup")
    /\ \/ Read(r, IF hash[r] \in rows THEN "hasref" ELSE "put")
       \/ "db" \in Faults /\ Read(r, "put")

\* What follows a save and its charge.
AfterSave(r) == IF op[r] = "uploadexp" THEN "expire" ELSE "done"

\* What follows a save that added no reference: newReference is false.
MutantChargedAgain(r) == "charge"
NotCharged(r) == AfterSave(r)

SaveHasRef(r) ==
    /\ At(r, "hasref")
    /\ \/ Read(r, IF pk[r] \in refs[hash[r]] THEN NotCharged(r) ELSE "addref")
       \/ DbError(r)

\* pk[r] gets its reference to a stored blob, and is to be charged for it.
GainReference(r) ==
    /\ hash[r] \in rows /\ pk[r] \notin refs[hash[r]]
    /\ refs' = [refs EXCEPT ![hash[r]] = @ \cup {pk[r]}]
    /\ Goto(r, "charge")
    /\ UNCHANGED <<rows, uploader, expiring, policy, used, objects, input, cur, todo, history>>

\* addReference: one transaction under the lock of the blob's row.
AddReference(r) ==
    /\ At(r, "addref")
    /\ \/ hash[r] \notin rows /\ Read(r, "put")
       \/ hash[r] \in rows /\ pk[r] \in refs[hash[r]] /\ Read(r, NotCharged(r))
       \/ GainReference(r) /\ refCount' = [refCount EXCEPT ![hash[r]] = @ + 1]
       \/ DbError(r)

\* Save, first half: the bytes are encrypted and put in the object store.  A
\* failed Put may have written the object or not.
PutObject(r, l) ==
    /\ objects' = objects \cup {hash[r]}
    /\ Goto(r, l)
    /\ UNCHANGED <<db, policy, used, input, cur, todo, history>>

SavePut(r) ==
    /\ At(r, "put")
    /\ \/ PutObject(r, "insert")
       \/ "storage" \in Faults /\ (PutObject(r, "done") \/ Read(r, "done"))

\* InsertBlob.  blobs.hash is the primary key: a second insert is an error.
InsertRow(r) ==
    /\ hash[r] \notin rows
    /\ rows' = rows \cup {hash[r]}
    /\ refCount' = [refCount EXCEPT ![hash[r]] = 1]
    /\ uploader' = [uploader EXCEPT ![hash[r]] = {pk[r]}]
    /\ Goto(r, "refer")
    /\ UNCHANGED <<refs, expiring, policy, used, objects, input, cur, todo, history>>

SaveInsert(r) ==
    /\ At(r, "insert")
    /\ \/ InsertRow(r)
       \/ (hash[r] \in rows \/ "db" \in Faults) /\ Read(r, "cleanup")

\* Delete of the object named hash[r], and then step l.
RemoveObject(r, l) ==
    /\ objects' = objects \ {hash[r]}
    /\ Goto(r, l)
    /\ UNCHANGED <<db, policy, used, input, cur, todo, history>>

DeleteObject(r, l) == RemoveObject(r, l) \/ ("storage" \in Faults /\ Read(r, l))

MutantNoCleanup(r) == At(r, "cleanup") /\ Read(r, "done")
SaveCleanup(r) == At(r, "cleanup") /\ DeleteObject(r, "done")

\* CreateBlobReference for the key that inserted the row, outside any
\* transaction.  The foreign key refuses it when the row has gone.
SaveReference(r) ==
    /\ At(r, "refer")
    /\ \/ hash[r] \notin rows /\ Read(r, "done")
       \/ hash[r] \in rows /\ pk[r] \in refs[hash[r]] /\ Read(r, NotCharged(r))
       \/ GainReference(r) /\ UNCHANGED refCount
       \/ DbError(r)

\* IncrementUsage; its error is ignored.
Charge(r) ==
    /\ used' = [used EXCEPT ![pk[r]] = @ + Size[hash[r]]]
    /\ settled' = [settled EXCEPT ![pk[r]][hash[r]] = @ + 1]
    /\ Goto(r, AfterSave(r))
    /\ UNCHANGED <<db, policy, objects, input, cur, todo, forfeited>>

UploadCharge(r) ==
    /\ At(r, "charge")
    /\ Charge(r) \/ ("usage" \in Faults /\ Read(r, AfterSave(r)))

\* SetExpiration on the row every owner of the blob shares; best effort.
SetExpiration(r) ==
    /\ expiring' = expiring \cup ({hash[r]} \cap rows)
    /\ Goto(r, "done")
    /\ UNCHANGED <<rows, refs, refCount, uploader, policy, used, objects, input, cur, todo,
                   history>>

UploadExpiration(r) == At(r, "expire") /\ (SetExpiration(r) \/ DbError(r))

------------------------------------------------------------------------------
\* DeleteBlob: the blob must exist and the key must hold a reference to it.
DeleteFind(r) ==
    /\ At(r, "find")
    /\ \/ Read(r, IF hash[r] \in rows THEN "owns" ELSE "done")
       \/ DbError(r)

DeleteOwns(r) ==
    /\ At(r, "owns")
    /\ \/ Read(r, IF pk[r] \in refs[hash[r]] THEN "unref" ELSE "done")
       \/ DbError(r)

\* The admin delete removes one reference after another, the user's only one.
AfterUnref(r) == IF op[r] = "admin" THEN "anext" ELSE "done"

\* What follows ErrReferenceNotFound: another delete was first.
MutantCreditedAgain(r) == "credit"
ReferenceNotFound(r) == AfterUnref(r)

\* DeleteOwnerlessBlob, after the reference has gone: does no other remain?
MutantNeverLast(r) == FALSE
LastReference(r) == refs[hash[r]] = {cur[r]}

\* The row of h goes, with what only the row holds.
DropRow(h) ==
    /\ rows' = rows \ {h}
    /\ uploader' = [uploader EXCEPT ![h] = {}]
    /\ expiring' = expiring \ {h}

LoseReference(r) ==
    /\ cur[r] \in refs[hash[r]]
    /\ refs' = [refs EXCEPT ![hash[r]] = @ \ {cur[r]}]
    /\ refCount' = [refCount EXCEPT ![hash[r]] = @ - 1]
    /\ \/ LastReference(r) /\ DropRow(hash[r]) /\ Goto(r, "objdel")
       \/ ~LastReference(r) /\ UNCHANGED <<rows, uploader, expiring>> /\ Goto(r, "credit")
    /\ UNCHANGED <<policy, used, objects, input, cur, todo, history>>

\* DeleteReference: one transaction under the lock of the blob's row, which
\* goes with its last reference.
DeleteReference(r) ==
    /\ At(r, "unref")
    /\ \/ cur[r] \notin refs[hash[r]] /\ Read(r, ReferenceNotFound(r))
       \/ LoseReference(r)
       \/ DbError(r)

\* The object of a row that went with its last reference, after the commit.
ReferenceObject(r) == At(r, "objdel") /\ DeleteObject(r, "credit")

\* DecrementUserUsage: used_bytes stops at zero.
MutantBelowZero(n, bytes) == n - bytes
Credited(n, bytes) == IF n >= bytes THEN n - bytes ELSE 0

\* DecrementUsage; its error is ignored.
GiveBack(r) ==
    /\ used' = [used EXCEPT ![cur[r]] = Credited(@, Size[hash[r]])]
    /\ settled' = [settled EXCEPT ![cur[r]][hash[r]] = @ - 1]
    /\ Goto(r, AfterUnref(r))
    /\ UNCHANGED <<db, policy, objects, input, cur, todo, forfeited>>

Credit(r) ==
    /\ At(r, "credit")
    /\ GiveBack(r) \/ ("usage" \in Faults /\ Read(r, AfterUnref(r)))

------------------------------------------------------------------------------
\* AdminDeleteBlob (not the dry run, which only reads).
AdminDescriptor(r) ==
    /\ At(r, "adesc")
    /\ \/ Read(r, IF hash[r] \in rows THEN "alist" ELSE "done")
       \/ DbError(r)

ListOwners(r) ==
    /\ todo' = [todo EXCEPT ![r] = refs[hash[r]]]
    /\ Goto(r, "anext")
    /\ UNCHANGED <<db, policy, used, objects, input, cur, history>>

AdminListOwners(r) == At(r, "alist") /\ (ListOwners(r) \/ DbError(r))

\* The next owner of the listing, skipped when its reference has gone.
NextOwner(r, p) ==
    /\ todo' = [todo EXCEPT ![r] = @ \ {p}]
    /\ cur' = [cur EXCEPT ![r] = p]
    /\ Goto(r, IF p \in refs[hash[r]] THEN "unref" ELSE "anext")
    /\ UNCHANGED <<db, policy, used, objects, input, history>>

AdminNextOwner(r) ==
    /\ At(r, "anext")
    /\ \/ todo[r] = {} /\ Read(r, "arecheck")
       \/ \E p \in todo[r] : NextOwner(r, p)
       \/ DbError(r)

AdminRecheckOwners(r) ==
    /\ At(r, "arecheck")
    /\ \/ Read(r, IF refs[hash[r]] = {} THEN "aexists" ELSE "done")
       \/ DbError(r)

AdminRecheckBlob(r) ==
    /\ At(r, "aexists")
    /\ \/ Read(r, IF hash[r] \in rows THEN "arowdel" ELSE "done")
       \/ DbError(r)

\* DeleteBlobFromHash: the row, and by ON DELETE CASCADE every reference.
CascadeRow(h) ==
    /\ DropRow(h)
    /\ refs' = [refs EXCEPT ![h] = {}]
    /\ forfeited' = [p \in Pubkeys |->
                       [forfeited[p] EXCEPT ![h] = @ + IF p \in refs[h] THEN 1 ELSE 0]]
    /\ UNCHANGED refCount

\* DeleteFromHash, as the admin delete calls it.
DeleteRow(r) ==
    /\ CascadeRow(hash[r])
    /\ Goto(r, "rowobj")
    /\ UNCHANGED <<policy, used, objects, input, cur, todo, settled>>

AdminDeleteRow(r) == At(r, "arowdel") /\ (DeleteRow(r) \/ DbError(r))

RowObject(r) == At(r, "rowobj") /\ DeleteObject(r, "done")

------------------------------------------------------------------------------
\* The replica dies: nobody carries on with the request.
Crash(r) ==
    /\ "crash" \in Faults
    /\ pc[r] \notin {"idle", "done"}
    /\ Read(r, "done")

UploadStep(r) ==
    \/ MirrorQuota(r) \/ MirrorFetch(r)
    \/ UploadQuota(r) \/ UploadRemoved(r)
    \/ SaveLookup(r) \/ SaveHasRef(r) \/ AddReference(r)
    \/ SavePut(r) \/ SaveInsert(r) \/ SaveCleanup(r) \/ SaveReference(r)
    \/ UploadCharge(r) \/ UploadExpiration(r)

DeleteStep(r) ==
    \/ DeleteFind(r) \/ DeleteOwns(r)
    \/ DeleteReference(r) \/ ReferenceObject(r) \/ Credit(r)

AdminStep(r) ==
    \/ AdminDescriptor(r) \/ AdminListOwners(r) \/ AdminNextOwner(r)
    \/ AdminRecheckOwners(r) \/ AdminRecheckBlob(r) \/ AdminDeleteRow(r) \/ RowObject(r)

Step(r) == Start(r) \/ UploadStep(r) \/ DeleteStep(r) \/ AdminStep(r) \/ Crash(r)

\* Every request has ended: the model's bound, not a deadlock of the system.
Quiet == \A r \in Requests : pc[r] \in {"idle", "done"}
AllDone == (\A r \in Requests : pc[r] = "done") /\ UNCHANGED vars

Next == (\E r \in Requests : Step(r)) \/ AllDone

Spec == Init /\ [][Next]_vars

------------------------------------------------------------------------------
\* The state's types; used_bytes never falls below zero.
TypeOK ==
    /\ rows \subseteq Hashes /\ objects \subseteq Hashes
    /\ expiring \subseteq rows /\ removed \subseteq Hashes /\ banned \subseteq Pubkeys
    /\ refs \in [Hashes -> SUBSET Pubkeys]
    /\ refCount \in [Hashes -> Int]
    /\ uploader \in [Hashes -> SUBSET Pubkeys]
    /\ used \in [Pubkeys -> Nat]
    /\ op \in [Requests -> OpNames]
    /\ pk \in [Requests -> Pubkeys]
    /\ hash \in [Requests -> Hashes]
    /\ pc \in [Requests -> Labels]
    /\ cur \in [Requests -> Pubkeys]
    /\ todo \in [Requests -> SUBSET Pubkeys]
    /\ settled \in [Pubkeys -> [Hashes -> Int]]
    /\ forfeited \in [Pubkeys -> [Hashes -> Nat]]

\* A reference needs its row (the foreign key of blob_references), and what
\* the row holds goes with it.
RowsOwnTheirState ==
    \A h \in Hashes \ rows : refs[h] = {} /\ uploader[h] = {} /\ h \notin expiring

\* The store implements what it promises about ownership.
Ownership == INSTANCE BlobOwnership WITH stored <- rows, owners <- refs

\* Whatever fails, a blob that some key references keeps its row until that
\* key's own reference is removed (blob_service.go, DeleteReference: "never
\* because ref_count hit 0"), and beside the collector too (gc.sql: "the row is
\* skipped ... instead of destroying a live blob").
OwnedBlobsStay == Ownership!Spec

\* The requests that will still delete the object of h, or give it a row.
Settling(h) == {r \in Requests : hash[r] = h /\ pc[r] \in {"insert", "cleanup", "objdel", "rowobj"}}

\* An object without a row is on some request's way to a row or to deletion.
OrphanCovered == \A h \in objects \ rows : Settling(h) # {}

\* When no request is under way, every stored object has a row: no bytes are
\* left in the storage backend that no delete can reach any more.
NoOrphanObject == Quiet => objects \subseteq rows

\* A row without references is about to be referenced by its inserter.
OwnerlessCovered ==
    \A h \in rows : refs[h] = {} => \E r \in Requests : hash[r] = h /\ pc[r] = "refer"

\* When no request is under way, every blob has an owner who can delete it.
NoOwnerlessRow == Quiet => \A h \in rows : refs[h] # {}

Charging(p, h) == {r \in Requests : pk[r] = p /\ hash[r] = h /\ pc[r] = "charge"}
Crediting(p, h) == {r \in Requests : cur[r] = p /\ hash[r] = h /\ pc[r] \in {"objdel", "credit"}}
Holds(p, h) == IF p \in refs[h] THEN 1 ELSE 0

\* Charges and credits of one key for one blob match its references one for
\* one, those under way included (upload.go: "Charge the key once per blob it
\* owns"; delete.go: "a concurrent delete that got there first ... credits
\* nothing").  Only a row deleted with its references forfeits a credit.
ChargeMatched ==
    \A p \in Pubkeys, h \in Hashes :
        settled[p][h] + Cardinality(Charging(p, h))
          = Cardinality(Crediting(p, h)) + Holds(p, h) + forfeited[p][h]
==============================================================================
