----------------------------- MODULE BlobSweeps -----------------------------
(***************************************************************************)
(* The blob store of BlobStore with everything else that deletes blobs or  *)
(* changes usage behind its requests' back: the garbage collector, the     *)
(* expiration sweep, a moderator's decision on a report and the operator's *)
(* recalculation of a key's usage.                                         *)
(*                                                                         *)
(* Each sweep holds a database advisory lock while it runs and skips its   *)
(* turn when another replica holds it, so there is one of each at a time.  *)
(***************************************************************************)
EXTENDS BlobStore, FiniteSetsExt

CONSTANTS
    StoredSize,     \* blobs.size: bytes as stored, more than Size when encrypted
    GCBatch,        \* gc.BatchSize, the rows one sweep of the collector lists
    ExpireBatch,    \* expiration.BatchSize, the rows one expiration sweep lists
    Sweeps          \* what runs beside the requests, a subset of SweepNames

SweepNames == {"gc", "expire", "removed", "user_banned", "recalculate"}

ASSUME SweepAssumption ==
    /\ IsFiniteSet(Hashes) /\ StoredSize \in [Hashes -> Nat]
    /\ GCBatch \in Nat \ {0} /\ ExpireBatch \in Nat \ {0}
    /\ Sweeps \subseteq SweepNames

VARIABLES
    gcPc, gcTodo, gcHash,               \* the collector: listing not yet visited, current hash
    exPc, exTodo, exHash,               \* the expiration sweep, likewise
    exUploader, exOwners, freed,        \* uploaders as listed, owners of exHash, bytes to release
    modPc, modHash, modOwner            \* the moderator: the reported blob, {blob.Pubkey}

gcVars == <<gcPc, gcTodo, gcHash>>
exVars == <<exPc, exTodo, exHash, exUploader, exOwners, freed>>
modVars == <<modPc, modHash, modOwner>>
requestVars == <<input, pc, cur, todo>>
allVars == <<vars, gcVars, exVars, modVars>>

SweepInit ==
    /\ Init
    /\ gcPc = "idle" /\ gcTodo = {} /\ gcHash = {}
    /\ exPc = "idle" /\ exTodo = {} /\ exHash = {} /\ exOwners = {}
    /\ exUploader = uploader
    /\ freed = [p \in Pubkeys |-> 0]
    /\ modPc = "idle" /\ modOwner = {}
    /\ modHash \in Hashes

\* The object of h goes, or stays when the backend fails.
ObjectGone(h) ==
    objects' \in {objects \ {h}} \cup (IF "storage" \in Faults THEN {objects} ELSE {})

------------------------------------------------------------------------------
\* The collector.  gcHash and exHash are singletons, {} between two blobs.
MutantZeroRef == {h \in rows : refCount[h] <= 0}
Ownerless == {h \in rows : refs[h] = {}}

\* One tick of the worker, or POST /admin/gc: the lock and ListOwnerlessBlobs.
\* A tick that finds nothing changes nothing.
GCList ==
    /\ "gc" \in Sweeps
    /\ gcPc = "idle"
    /\ \E S \in SUBSET Ownerless :
         /\ S # {} /\ Cardinality(S) = Min({GCBatch, Cardinality(Ownerless)})
         /\ gcTodo' = S
    /\ gcPc' = "delete"
    /\ UNCHANGED <<gcHash, vars, exVars, modVars>>

\* DeleteOwnerlessBlob on the next blob of the listing: only if it still has no
\* owner.  An error skips the blob, as an owner does.
MutantTrustsListing(h) == h \in rows
StillOwnerless(h) == h \in Ownerless

GCDelete ==
    /\ gcPc = "delete"
    /\ \E h \in gcTodo :
         /\ gcTodo' = gcTodo \ {h}
         /\ \/ /\ StillOwnerless(h)
               /\ CascadeRow(h)
               /\ gcHash' = {h} /\ gcPc' = "object"
            \/ /\ ~StillOwnerless(h) \/ "db" \in Faults
               /\ UNCHANGED <<db, forfeited, gcHash, gcPc>>
    /\ UNCHANGED <<policy, used, objects, requestVars, settled, exVars, modVars>>

GCObject ==
    /\ gcPc = "object"
    /\ \E h \in gcHash : ObjectGone(h)
    /\ gcHash' = {} /\ gcPc' = "delete"
    /\ UNCHANGED <<db, policy, used, requestVars, history, gcTodo, exVars, modVars>>

\* The end of the sweep releases the lock.
GCEnd ==
    /\ gcPc = "delete" /\ gcTodo = {}
    /\ gcPc' = "idle"
    /\ UNCHANGED <<gcTodo, gcHash, vars, exVars, modVars>>

\* The replica dies in its sweep; the end of its session frees the lock.
GCCrash ==
    /\ "restart" \in Faults /\ gcPc # "idle"
    /\ gcPc' = "idle" /\ gcTodo' = {} /\ gcHash' = {}
    /\ UNCHANGED <<vars, exVars, modVars>>

GCStep == GCList \/ GCDelete \/ GCObject \/ GCEnd

------------------------------------------------------------------------------
\* The expiration sweep.  Time is not modelled: any of the rows whose expires_at
\* is set may have passed it, and the grace period with it.  GetExpiredBlobs lists
\* so many of them and no more.
GetExpiredBlobs == {S \in SUBSET expiring : Cardinality(S) <= ExpireBatch}

\* Whose references the blob has.
GetBlobOwners(h) == refs[h]

ExpireList ==
    /\ "expire" \in Sweeps
    /\ exPc = "idle"
    /\ exTodo' \in GetExpiredBlobs \ {{}}
    /\ exUploader' = uploader
    /\ exPc' = "owners"
    /\ UNCHANGED <<exHash, exOwners, freed, vars, gcVars, modVars>>

\* GetBlobOwners for the next blob; on an error the uploader listed stands in.
ExpireOwners ==
    /\ exPc = "owners"
    /\ \E h \in exTodo :
         /\ exTodo' = exTodo \ {h}
         /\ exHash' = {h}
         /\ exOwners' \in {GetBlobOwners(h)} \cup (IF "db" \in Faults THEN {exUploader[h]} ELSE {})
    /\ exPc' = "row"
    /\ UNCHANGED <<exUploader, freed, vars, gcVars, modVars>>

\* DeleteBlobFromHash, however many rows it deletes; an error skips the blob.
ExpireRow ==
    /\ exPc = "row"
    /\ \E h \in exHash :
         \/ CascadeRow(h) /\ exPc' = "object"
         \/ "db" \in Faults /\ exPc' = "owners" /\ UNCHANGED <<db, forfeited>>
    /\ UNCHANGED <<policy, used, objects, requestVars, settled, exTodo, exHash, exUploader,
                   exOwners, freed, gcVars, modVars>>

\* The object, and each owner's share of what the sweep frees.
ExpireObject ==
    /\ exPc = "object"
    /\ \E h \in exHash :
         /\ ObjectGone(h)
         /\ freed' = [p \in Pubkeys |-> freed[p] + IF p \in exOwners THEN StoredSize[h] ELSE 0]
    /\ exPc' = "owners"
    /\ UNCHANGED <<db, policy, used, requestVars, history, exTodo, exHash, exUploader,
                   exOwners, gcVars, modVars>>

\* DecrementUsage for one owner after the other, once every blob is done.
ExpireCredit ==
    /\ exPc = "owners" /\ exTodo = {}
    /\ \E p \in Pubkeys :
         /\ freed[p] > 0
         /\ used' \in {[used EXCEPT ![p] = Credited(@, freed[p])]}
                        \cup (IF "usage" \in Faults THEN {used} ELSE {})
         /\ freed' = [freed EXCEPT ![p] = 0]
    /\ UNCHANGED <<db, policy, objects, requestVars, history, exPc, exTodo, exHash, exUploader,
                   exOwners, gcVars, modVars>>

MutantLockKept ==
    /\ exPc = "owners" /\ exTodo = {} /\ \A p \in Pubkeys : freed[p] = 0
    /\ exPc' = "held"
    /\ UNCHANGED <<exTodo, exHash, exOwners, exUploader, freed, vars, gcVars, modVars>>
ExpireEnd ==
    /\ exPc = "owners" /\ exTodo = {} /\ \A p \in Pubkeys : freed[p] = 0
    /\ exPc' = "idle" /\ exHash' = {} /\ exOwners' = {}
    /\ UNCHANGED <<exTodo, exUploader, freed, vars, gcVars, modVars>>

\* The replica dies in its sweep: what it freed is never credited.
ExpireCrash ==
    /\ "restart" \in Faults /\ exPc # "idle"
    /\ exPc' = "idle" /\ exTodo' = {} /\ exHash' = {} /\ exOwners' = {}
    /\ freed' = [p \in Pubkeys |-> 0]
    /\ UNCHANGED <<exUploader, vars, gcVars, modVars>>

ExpireStep ==
    ExpireList \/ ExpireOwners \/ ExpireRow \/ ExpireObject \/ ExpireCredit \/ ExpireEnd

------------------------------------------------------------------------------
\* ActionReport on one report.  Every error on the way is logged and ignored.
\* A report already acted on may be acted on again; here there is one decision.
LogOnly(change, same) == change \/ ("db" \in Faults /\ same)

ModerateFind ==
    /\ modPc = "idle"
    /\ \/ /\ "removed" \in Sweeps
          /\ modPc' = IF modHash \in rows THEN "row" ELSE "mark"
       \/ /\ "user_banned" \in Sweeps
          /\ modPc' = IF modHash \in rows THEN "ban" ELSE "mark"
       \/ "db" \in Faults /\ Sweeps \cap {"removed", "user_banned"} # {} /\ modPc' = "mark"
    /\ modOwner' = uploader[modHash]
    /\ UNCHANGED <<modHash, vars, gcVars, exVars>>

\* BanUser.  The entry on the blocklist that follows refuses the same key.
ModerateBan ==
    /\ modPc = "ban"
    /\ LogOnly(banned' = banned \cup modOwner, banned' = banned)
    /\ modPc' = "banrow"
    /\ UNCHANGED <<db, removed, used, objects, requestVars, history, modHash, modOwner,
                   gcVars, exVars>>

\* DeleteFromHash: no storage call when the row cannot be deleted.
ModerateRow ==
    /\ modPc \in {"row", "banrow"}
    /\ LET credit == IF modPc = "row" THEN "credit" ELSE "mark" IN
       \/ CascadeRow(modHash) /\ modPc' = (IF modPc = "row" THEN "object" ELSE "banobject")
       \/ "db" \in Faults /\ modPc' = credit /\ UNCHANGED <<db, forfeited>>
    /\ UNCHANGED <<policy, used, objects, requestVars, settled, modHash, modOwner, gcVars, exVars>>

ModerateObject ==
    /\ modPc \in {"object", "banobject"}
    /\ ObjectGone(modHash)
    /\ modPc' = IF modPc = "object" THEN "credit" ELSE "mark"
    /\ UNCHANGED <<db, policy, used, requestVars, history, modHash, modOwner, gcVars, exVars>>

\* DecrementUsage for blob.Pubkey, whoever holds references.
ModerateCredit ==
    /\ modPc = "credit"
    /\ used' \in {[p \in Pubkeys |-> IF p \in modOwner THEN Credited(used[p], Size[modHash])
                                                       ELSE used[p]]}
                   \cup (IF "usage" \in Faults THEN {used} ELSE {})
    /\ modPc' = "mark"
    /\ UNCHANGED <<db, policy, objects, requestVars, history, modHash, modOwner, gcVars, exVars>>

\* AddRemovedBlob, and the report's new status.
ModerateMark ==
    /\ modPc = "mark"
    /\ LogOnly(removed' = removed \cup {modHash}, removed' = removed)
    /\ modPc' = "done"
    /\ UNCHANGED <<db, banned, used, objects, requestVars, history, modHash, modOwner,
                   gcVars, exVars>>

ModerateStep ==
    ModerateFind \/ ModerateBan \/ ModerateRow \/ ModerateObject \/ ModerateCredit \/ ModerateMark

------------------------------------------------------------------------------
\* RecalculateUserUsage: one statement, over the sizes as stored.
Recalculate(p) ==
    /\ "recalculate" \in Sweeps
    /\ used' = [used EXCEPT ![p] = SumFunctionOnSet(StoredSize, {h \in rows : p \in refs[h]})]
    /\ UNCHANGED <<db, policy, objects, requestVars, history, gcVars, exVars, modVars>>

\* Requests beside the collector alone, beside the two workers that a ticker
\* drives as long as no replica dies in a sweep, and beside everything.
CollectorNext ==
    \/ Next /\ UNCHANGED <<gcVars, exVars, modVars>>
    \/ GCStep \/ GCCrash

WorkersNext ==
    \/ Next /\ UNCHANGED <<gcVars, exVars, modVars>>
    \/ GCStep \/ ExpireStep

SweepNext ==
    \/ CollectorNext \/ ExpireStep \/ ExpireCrash
    \/ ModerateStep
    \/ \E p \in Pubkeys : Recalculate(p)

CollectorSpec == SweepInit /\ [][CollectorNext]_allVars
SweepSpec == SweepInit /\ [][SweepNext]_allVars

\* The worker's ticker goes off again and again and nothing but its stop
\* channel ends it, so a sweep that can make a step makes one; clients owe
\* nothing to anybody.
FairSweepSpec ==
    SweepInit /\ [][WorkersNext]_allVars /\ WF_allVars(GCStep) /\ WF_allVars(ExpireStep)

------------------------------------------------------------------------------
\* The types of what the sweeps hold.
SweepTypeOK ==
    /\ TypeOK
    /\ gcPc \in {"idle", "delete", "object"} /\ gcTodo \subseteq Hashes /\ gcHash \subseteq Hashes
    /\ exPc \in {"idle", "owners", "row", "object"} /\ exTodo \subseteq Hashes
    /\ exHash \subseteq Hashes /\ exOwners \subseteq Pubkeys
    /\ exUploader \in [Hashes -> SUBSET Pubkeys]
    /\ freed \in [Pubkeys -> Nat]
    /\ modPc \in {"idle", "row", "object", "credit", "ban", "banrow", "banobject", "mark", "done"}
    /\ modHash \in Hashes /\ modOwner \subseteq Pubkeys

SweepsQuiet == Quiet /\ gcPc = "idle" /\ exPc = "idle" /\ modPc \in {"idle", "done"}

\* Requests, collector, expiration and moderation together leave no object
\* behind that has no row: whoever deletes a row deletes its object.
NoOrphanAfterSweeps == SweepsQuiet => objects \subseteq rows

\* The bytes of the blobs p references, and those of its charges and credits
\* under way.
BytesOf(S) == SumFunctionOnSet([r \in Requests |-> Size[hash[r]]], S)
Owned(p) == SumFunctionOnSet(Size, {h \in Hashes : p \in refs[h]})
ToCharge(p) == BytesOf({r \in Requests : pk[r] = p /\ pc[r] = "charge"})
ToCredit(p) == BytesOf({r \in Requests : cur[r] = p /\ pc[r] \in {"objdel", "credit"}})

\* No key ever has less on its account than the blobs it references, once the
\* charges and credits under way are made (quota_service.go, DecrementUsage).
NeverUndercharged ==
    \A p \in Pubkeys : used[p] + ToCharge(p) >= Owned(p) + ToCredit(p)

\* A row left without an owner (core/gc.go: drift of the bookkeeping) is
\* reclaimed by the worker, or gains an owner, in the end.
OwnerlessReclaimed ==
    \A h \in Hashes : (h \in rows /\ refs[h] = {}) ~> ~(h \in rows /\ refs[h] = {})

\* A row whose expiration has passed is deleted in the end, whoever owns it.
ExpiredDeleted == \A h \in Hashes : (h \in expiring) ~> (h \notin expiring)
==============================================================================
