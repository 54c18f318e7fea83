--------------------------------- MODULE Batch ---------------------------------
(***************************************************************************)
(* Batch uploads and deletes of one key, side by side (a single upload or  *)
(* delete is a batch of one).  Each item is a transaction of the blob      *)
(* store (BlobStore), which adds or removes the key's reference; the usage *)
(* is charged or credited once, with the sum, when a batch ends.  Of the   *)
(* store only the references of the key are kept here.                     *)
(***************************************************************************)
EXTENDS Integers, Sequences, Functions, FiniteSetsExt

CONSTANTS
    BatchBlobs, Size,           \* blobs by their hash, and their sizes
    BatchUploads, BatchDeletes,  \* identities of batches: the bound on their number
    Items,                      \* the lists of blobs a batch may name, with repetitions
    Quota,
    BatchFaults                 \* what may fail, a subset of BatchFaultNames

\* "item" an item is refused or its statement fails; "charge" the update of the
\* usage fails; "crash" the process dies.
BatchFaultNames == {"item", "charge", "crash"}
Batches == BatchUploads \cup BatchDeletes

\* A batch of no items is refused.
BatchAssumption ==
    /\ IsFiniteSet(BatchBlobs) /\ IsFiniteSet(Batches)
    /\ Size \in [BatchBlobs -> Nat]
    /\ Items \subseteq Seq(BatchBlobs) \ {<<>>}
    /\ BatchUploads \cap BatchDeletes = {}
    /\ Quota \in Nat /\ BatchFaults \subseteq BatchFaultNames

VARIABLES
    batchRefs,  \* the blobs the key has a reference to
    batchUsed,  \* users.used_bytes of the key
    \* each batch: its items, the step it makes next, the item it is at, the sum
    \* to charge or credit, and the size it has read
    items, batchPc, batchAt, sum, read,
    \* history: the bytes of every reference ever made, and those whose charge
    \* was lost with a crash or an error
    granted, lost

batchVars == <<batchRefs, batchUsed, items, batchPc, batchAt, sum, read, granted, lost>>

BatchBytesOf(S) == SumFunctionOnSet(Size, S)

\* The key may own blobs already, and is charged for them.
BatchInit ==
    /\ batchRefs \in SUBSET BatchBlobs /\ batchUsed = BatchBytesOf(batchRefs)
    /\ items \in [Batches -> Items]
    /\ batchPc = [b \in Batches |-> "idle"] /\ batchAt = [b \in Batches |-> 1]
    /\ sum = [b \in Batches |-> 0] /\ read = [b \in Batches |-> 0]
    /\ granted = batchUsed /\ lost = 0

------------------------------------------------------------------------------
BatchIn(b, l) == batchPc[b] = l
BatchGoto(b, l) == batchPc' = [batchPc EXCEPT ![b] = l]
Item(b) == items[b][batchAt[b]]
BatchSizeOf(s) == SumFunction([i \in DOMAIN s |-> Size[s[i]]])

\* On to the next item, or to the end.
NextItem(b, l) ==
    /\ batchAt' = [batchAt EXCEPT ![b] = @ + 1]
    /\ BatchGoto(b, IF batchAt[b] = Len(items[b]) THEN "end" ELSE l)

\* An item that fails leaves the others to go on.
SkipItem(b, l) == NextItem(b, l) /\ UNCHANGED <<batchRefs, batchUsed, items, sum, read, granted, lost>>

\* A batch that is refused whole: a blocked key, or a delete whose token does
\* not name every hash.
BatchStart(b, l) ==
    /\ BatchIn(b, "idle")
    /\ BatchGoto(b, l) \/ BatchGoto(b, "done")
    /\ UNCHANGED <<batchRefs, batchUsed, items, batchAt, sum, read, granted, lost>>

BatchUpload(b) == b \in BatchUploads /\ BatchStart(b, "quota")
BatchDelete(b) == b \in BatchDeletes /\ BatchStart(b, "has")

\* Upload: the quota is checked once, for all the files.
CheckQuota(b) ==
    /\ BatchIn(b, "quota")
    /\ BatchGoto(b, IF batchUsed + BatchSizeOf(items[b]) <= Quota THEN "save" ELSE "done")
    /\ UNCHANGED <<batchRefs, batchUsed, items, batchAt, sum, read, granted, lost>>

\* SaveWithDedup, which tells whether the reference is new.
MutantAny(b) == TRUE
NewReference(b) == Item(b) \notin batchRefs

SaveFile(b) ==
    /\ BatchIn(b, "save")
    /\ \/ /\ batchRefs' = batchRefs \cup {Item(b)}
          /\ sum' = [sum EXCEPT ![b] = @ + (IF NewReference(b) THEN Size[Item(b)] ELSE 0)]
          /\ granted' = granted + (IF Item(b) \in batchRefs THEN 0 ELSE Size[Item(b)])
          /\ NextItem(b, "save")
          /\ UNCHANGED <<batchUsed, items, read, lost>>
       \/ "item" \in BatchFaults /\ SkipItem(b, "save")

\* Delete: HasReference, then the size, then DeleteReference.
HasReference(b) ==
    /\ BatchIn(b, "has")
    /\ \/ /\ Item(b) \in batchRefs
          /\ BatchGoto(b, "size")
          /\ UNCHANGED <<batchRefs, batchUsed, items, batchAt, sum, read, granted, lost>>
       \/ (Item(b) \notin batchRefs \/ "item" \in BatchFaults) /\ SkipItem(b, "has")

\* A blob that cannot be read counts for nothing.
GetSize(b) ==
    /\ BatchIn(b, "size")
    /\ read' \in {[read EXCEPT ![b] = s] :
                    s \in {Size[Item(b)]} \cup (IF "item" \in BatchFaults THEN {0} ELSE {})}
    /\ BatchGoto(b, "delete")
    /\ UNCHANGED <<batchRefs, batchUsed, items, batchAt, sum, granted, lost>>

\* Credited only when this call removed the reference.
MutantCreditsAll(b) == TRUE
Removed(b) == Item(b) \in batchRefs

DeleteReference(b) ==
    /\ BatchIn(b, "delete")
    /\ \/ /\ batchRefs' = batchRefs \ {Item(b)}
          /\ sum' = [sum EXCEPT ![b] = @ + (IF Removed(b) THEN read[b] ELSE 0)]
          /\ NextItem(b, "has")
          /\ UNCHANGED <<batchUsed, items, read, granted, lost>>
       \/ "item" \in BatchFaults /\ SkipItem(b, "has")

\* What uploads among B would have charged.
Uncharged(B) == SumFunctionOnSet(sum, B \cap BatchUploads)

\* The credit stops at zero.
IncrementUsage(n) == batchUsed' = batchUsed + n
DecrementUsage(n) == batchUsed' = Max({0, batchUsed - n})

\* The end of a batch; an error of the update is dropped.
BatchSettle(b, update) ==
    /\ BatchIn(b, "end")
    /\ \/ update /\ UNCHANGED lost
       \/ "charge" \in BatchFaults /\ lost' = lost + Uncharged({b}) /\ UNCHANGED batchUsed
    /\ BatchGoto(b, "done")
    /\ UNCHANGED <<batchRefs, items, batchAt, sum, read, granted>>

BatchCharge(b) == b \in BatchUploads /\ BatchSettle(b, IncrementUsage(sum[b]))
Credit(b) == b \in BatchDeletes /\ BatchSettle(b, DecrementUsage(sum[b]))

BatchCrash ==
    /\ "crash" \in BatchFaults
    /\ batchPc' = [b \in Batches |-> IF BatchIn(b, "idle") THEN "idle" ELSE "done"]
    /\ batchPc' # batchPc
    /\ lost' = lost + Uncharged({b \in Batches : batchPc[b] # "done"})
    /\ UNCHANGED <<batchRefs, batchUsed, items, batchAt, sum, read, granted>>

BatchRun(b) ==
         \/ BatchUpload(b) \/ CheckQuota(b) \/ SaveFile(b) \/ BatchCharge(b)
         \/ BatchDelete(b) \/ HasReference(b) \/ GetSize(b) \/ DeleteReference(b) \/ Credit(b)

BatchNext == (\E b \in Batches : BatchRun(b)) \/ BatchCrash

BatchSpec == BatchInit /\ [][BatchNext]_batchVars

------------------------------------------------------------------------------
BatchQuiet == \A b \in Batches : batchPc[b] \in {"idle", "done"}

\* The state's types.
BatchTypeOK ==
    /\ batchRefs \subseteq BatchBlobs /\ batchUsed \in Nat /\ granted \in Nat /\ lost \in Nat
    /\ items \in [Batches -> Items]
    /\ batchPc \in [Batches -> {"idle", "quota", "save", "has", "size", "delete", "end", "done"}]
    /\ batchAt \in [Batches -> Nat] /\ sum \in [Batches -> Nat] /\ read \in [Batches -> Nat]

\* When no batch runs the key is charged for at least what it holds, less what a
\* crash or a failed charge has lost, though batches that name the same blob, once
\* or twice, in uploads and deletes at once, each sum up what they did and settle
\* it at their end ("a concurrent delete of the same reference is credited once");
\* and it is never charged for more than the references it was given ("Charge once
\* per blob the key owns (not again for a re-upload)").
ChargedForHoldings ==
    /\ BatchQuiet => batchUsed + lost >= BatchBytesOf(batchRefs)
    /\ batchUsed <= granted
==============================================================================
