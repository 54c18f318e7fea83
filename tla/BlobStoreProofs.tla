--------------------------- MODULE BlobStoreProofs ---------------------------
(***************************************************************************)
(* Proofs about BlobStore for any number of keys, blobs and requests.      *)
(*                                                                         *)
(* StepCases says once what a step of a request can be; each invariant is  *)
(* then carried through these few cases.                                   *)
(***************************************************************************)
EXTENDS BlobStore, FiniteSetTheorems, TLAPS

------------------------------------------------------------------------------
\* From and to which labels a step that only reads can lead, and which fault
\* it takes to skip a step that has an effect.
ReadMoves(r, l) ==
    /\ l \in Labels \ {"insert", "refer", "charge", "objdel", "rowobj"}
    /\ l = "credit" => pc[r] = "objdel"
    /\ l = "cleanup" => pc[r] = "insert"
    /\ l \in AdminSteps => op[r] = "admin" \/ pc[r] \in AdminSteps
    /\ pc[r] = "insert" => l = "cleanup" \/ "crash" \in Faults
    /\ pc[r] \in {"cleanup", "objdel", "rowobj"} => Faults \cap {"storage", "crash"} # {}
    /\ pc[r] = "objdel" => l = "credit" \/ "crash" \in Faults
    /\ pc[r] \in {"charge", "credit"} => Faults \cap {"usage", "crash"} # {}
    /\ pc[r] = "refer" => \/ hash[r] \notin rows \/ pk[r] \in refs[hash[r]]
                          \/ Faults \cap {"db", "crash"} # {}

Reads(r) == \E l \in Labels : Read(r, l) /\ ReadMoves(r, l)

Effects(r) ==
    \/ pc[r] \in {"addref", "refer"} /\ GainReference(r) /\ refCount' \in [Hashes -> Int]
    \/ At(r, "put") /\ PutObject(r, "insert")
    \/ At(r, "put") /\ "storage" \in Faults /\ PutObject(r, "done")
    \/ At(r, "insert") /\ InsertRow(r)
    \/ pc[r] \in {"cleanup", "rowobj"} /\ RemoveObject(r, "done")
    \/ At(r, "objdel") /\ RemoveObject(r, "credit")
    \/ At(r, "charge") /\ Charge(r)
    \/ At(r, "expire") /\ SetExpiration(r)
    \/ At(r, "unref") /\ LoseReference(r)
    \/ At(r, "credit") /\ GiveBack(r)
    \/ At(r, "alist") /\ ListOwners(r)
    \/ At(r, "anext") /\ \E p \in todo[r] : NextOwner(r, p)
    \/ At(r, "arowdel") /\ DeleteRow(r)

\* A step of a request only reads, or has one of the effects.
LEMMA StepCases ==
    ASSUME TypeOK, NEW r \in Requests, Step(r)
    PROVE  Reads(r) \/ Effects(r)
<1> USE DEF At, Labels, UploadSteps, DeleteSteps, AdminSteps, DbError
<1>1. ASSUME NEW l \in Labels, Read(r, l), ReadMoves(r, l) PROVE Reads(r)
  BY <1>1 DEF Reads
<1>2. CASE Start(r)
  BY <1>1, <1>2 DEF Start, FirstStep, ReadMoves
<1>3. CASE UploadStep(r)
  <2>1. CASE MirrorQuota(r)
    BY <1>1, <2>1 DEF MirrorQuota, ReadMoves
  <2>2. CASE MirrorFetch(r)
    BY <1>1, <2>2 DEF MirrorFetch, ReadMoves
  <2>3. CASE UploadQuota(r)
    BY <1>1, <2>3 DEF UploadQuota, ReadMoves
  <2>4. CASE UploadRemoved(r)
    BY <1>1, <2>4 DEF UploadRemoved, ReadMoves
  <2>5. CASE SaveLookup(r)
    BY <1>1, <2>5 DEF SaveLookup, ReadMoves
  <2>6. CASE SaveHasRef(r)
    BY <1>1, <2>6 DEF SaveHasRef, NotCharged, AfterSave, ReadMoves
  <2>7. CASE AddReference(r)
    <3>1. CASE Read(r, "put") \/ Read(r, NotCharged(r)) \/ DbError(r)
      BY <1>1, <2>7, <3>1 DEF AddReference, NotCharged, AfterSave, ReadMoves
    <3>2. CASE GainReference(r) /\ refCount' = [refCount EXCEPT ![hash[r]] = @ + 1]
      BY <2>7, <3>2 DEF AddReference, Effects, TypeOK
    <3> QED BY <2>7, <3>1, <3>2 DEF AddReference
  <2>8. CASE SavePut(r)
    BY <1>1, <2>8 DEF SavePut, ReadMoves, Effects
  <2>9. CASE SaveInsert(r)
    BY <1>1, <2>9 DEF SaveInsert, ReadMoves, Effects
  <2>10. CASE SaveCleanup(r)
    BY <1>1, <2>10 DEF SaveCleanup, DeleteObject, ReadMoves, Effects
  <2>11. CASE SaveReference(r)
    <3>1. CASE Read(r, "done") /\ (hash[r] \notin rows \/ "db" \in Faults)
      BY <1>1, <2>11, <3>1 DEF SaveReference, ReadMoves
    <3>2. CASE Read(r, NotCharged(r)) /\ pk[r] \in refs[hash[r]]
      BY <1>1, <2>11, <3>2 DEF SaveReference, NotCharged, AfterSave, ReadMoves
    <3>3. CASE GainReference(r) /\ UNCHANGED refCount
      BY <2>11, <3>3 DEF SaveReference, Effects, TypeOK
    <3> QED BY <2>11, <3>1, <3>2, <3>3 DEF SaveReference
  <2>12. CASE UploadCharge(r)
    BY <1>1, <2>12 DEF UploadCharge, AfterSave, ReadMoves, Effects
  <2>13. CASE UploadExpiration(r)
    BY <1>1, <2>13 DEF UploadExpiration, ReadMoves, Effects
  <2> QED BY <1>3, <2>1, <2>2, <2>3, <2>4, <2>5, <2>6, <2>7, <2>8, <2>9, <2>10, <2>11,
             <2>12, <2>13 DEF UploadStep
<1>4. CASE DeleteStep(r)
  <2>1. CASE DeleteFind(r)
    BY <1>1, <2>1 DEF DeleteFind, ReadMoves
  <2>2. CASE DeleteOwns(r)
    BY <1>1, <2>2 DEF DeleteOwns, ReadMoves
  <2>3. CASE DeleteReference(r)
    BY <1>1, <2>3 DEF DeleteReference, ReferenceNotFound, AfterUnref, ReadMoves, Effects
  <2>4. CASE ReferenceObject(r)
    BY <1>1, <2>4 DEF ReferenceObject, DeleteObject, ReadMoves, Effects
  <2>5. CASE Credit(r)
    BY <1>1, <2>5 DEF Credit, AfterUnref, ReadMoves, Effects
  <2> QED BY <1>4, <2>1, <2>2, <2>3, <2>4, <2>5 DEF DeleteStep
<1>5. CASE AdminStep(r)
  <2>1. CASE AdminDescriptor(r)
    BY <1>1, <2>1 DEF AdminDescriptor, ReadMoves
  <2>2. CASE AdminListOwners(r)
    BY <1>1, <2>2 DEF AdminListOwners, ReadMoves, Effects
  <2>3. CASE AdminNextOwner(r)
    BY <1>1, <2>3 DEF AdminNextOwner, ReadMoves, Effects
  <2>4. CASE AdminRecheckOwners(r)
    BY <1>1, <2>4 DEF AdminRecheckOwners, ReadMoves
  <2>5. CASE AdminRecheckBlob(r)
    BY <1>1, <2>5 DEF AdminRecheckBlob, ReadMoves
  <2>6. CASE AdminDeleteRow(r)
    BY <1>1, <2>6 DEF AdminDeleteRow, ReadMoves, Effects
  <2>7. CASE RowObject(r)
    BY <1>1, <2>7 DEF RowObject, DeleteObject, ReadMoves, Effects
  <2> QED BY <1>5, <2>1, <2>2, <2>3, <2>4, <2>5, <2>6, <2>7 DEF AdminStep
<1>6. CASE Crash(r)
  BY <1>1, <1>6 DEF Crash, ReadMoves
<1> QED BY <1>2, <1>3, <1>4, <1>5, <1>6 DEF Step

------------------------------------------------------------------------------
\* Every step keeps the types.
LEMMA TypeStep == TypeOK /\ [Next]_vars => TypeOK'
<1> USE DEF At, Goto, db, policy, input, history, Labels, UploadSteps, DeleteSteps, AdminSteps
<1> SUFFICES ASSUME TypeOK, [Next]_vars PROVE TypeOK'
    OBVIOUS
<1>1. CASE UNCHANGED vars
  BY <1>1 DEF TypeOK, vars
<1>2. ASSUME NEW r \in Requests, Step(r) PROVE TypeOK'
  <2>1. CASE Reads(r)
    BY <2>1 DEF TypeOK, Reads, Read
  <2>2. CASE GainReference(r) /\ refCount' \in [Hashes -> Int]
    BY <2>2 DEF TypeOK, GainReference
  <2>3. CASE PutObject(r, "insert") \/ PutObject(r, "done")
    BY <2>3 DEF TypeOK, PutObject
  <2>4. CASE InsertRow(r)
    BY <2>4 DEF TypeOK, InsertRow
  <2>5. CASE RemoveObject(r, "done") \/ RemoveObject(r, "credit")
    BY <2>5 DEF TypeOK, RemoveObject
  <2>6. CASE Charge(r)
    <3>1. pk[r] \in Pubkeys /\ hash[r] \in Hashes /\ Size[hash[r]] \in Nat
      BY ConstantsAssumption DEF TypeOK
    <3>2. used' \in [Pubkeys -> Nat] /\ settled' \in [Pubkeys -> [Hashes -> Int]]
      BY <2>6, <3>1 DEF TypeOK, Charge
    <3> QED BY <2>6, <3>2 DEF TypeOK, Charge, AfterSave
  <2>7. CASE SetExpiration(r)
    BY <2>7 DEF TypeOK, SetExpiration
  <2>8. CASE LoseReference(r)
    <3>1. refs' \in [Hashes -> SUBSET Pubkeys] /\ refCount' \in [Hashes -> Int]
      BY <2>8 DEF TypeOK, LoseReference
    <3>2. CASE LastReference(r)
      BY <2>8, <3>1, <3>2 DEF TypeOK, LoseReference, DropRow
    <3>3. CASE ~LastReference(r)
      BY <2>8, <3>1, <3>3 DEF TypeOK, LoseReference
    <3> QED BY <3>2, <3>3
  <2>9. CASE GiveBack(r)
    <3>1. cur[r] \in Pubkeys /\ hash[r] \in Hashes /\ Size[hash[r]] \in Nat
      BY ConstantsAssumption DEF TypeOK
    <3>2. used' \in [Pubkeys -> Nat] /\ settled' \in [Pubkeys -> [Hashes -> Int]]
      BY <2>9, <3>1 DEF TypeOK, GiveBack, Credited
    <3> QED BY <2>9, <3>2 DEF TypeOK, GiveBack, AfterUnref
  <2>10. CASE ListOwners(r) \/ \E p \in todo[r] : NextOwner(r, p)
    <3>1. CASE ListOwners(r)
      BY <3>1 DEF TypeOK, ListOwners
    <3>2. ASSUME NEW p \in todo[r], NextOwner(r, p) PROVE TypeOK'
      <4>1. p \in Pubkeys
        BY DEF TypeOK
      <4>2. todo' \in [Requests -> SUBSET Pubkeys] /\ cur' \in [Requests -> Pubkeys]
        BY <3>2, <4>1 DEF TypeOK, NextOwner
      <4> QED BY <3>2, <4>2 DEF TypeOK, NextOwner
    <3> QED BY <2>10, <3>1, <3>2
  <2>11. CASE DeleteRow(r)
    BY <2>11 DEF TypeOK, DeleteRow, CascadeRow, DropRow
  <2> QED BY <1>2, StepCases, <2>1, <2>2, <2>3, <2>4, <2>5, <2>6, <2>7, <2>8, <2>9, <2>10,
             <2>11 DEF Effects
<1> QED BY <1>1, <1>2 DEF Next, AllDone

\* The variables keep their types for every value of the constants; the clamp
\* of DecrementUserUsage is what keeps used_bytes from going below zero.
THEOREM TypeCorrect == Spec => []TypeOK
<1>1. Init => TypeOK
  BY ConstantsAssumption DEF Init, TypeOK, Labels
<1> QED BY <1>1, TypeStep, PTL DEF Spec

------------------------------------------------------------------------------
\* Every step keeps references, uploader and expiration tied to the row.
LEMMA RowsStep == TypeOK /\ RowsOwnTheirState /\ [Next]_vars => RowsOwnTheirState'
<1> USE DEF RowsOwnTheirState, TypeOK, db
<1> SUFFICES ASSUME TypeOK, RowsOwnTheirState, [Next]_vars PROVE RowsOwnTheirState'
    OBVIOUS
<1>1. CASE UNCHANGED vars
  BY <1>1 DEF vars
<1>2. ASSUME NEW r \in Requests, Step(r) PROVE RowsOwnTheirState'
  <2>1. CASE UNCHANGED <<rows, refs, uploader, expiring>>
    BY <2>1
  <2>2. CASE GainReference(r)
    BY <2>2 DEF GainReference
  <2>3. CASE InsertRow(r)
    BY <2>3 DEF InsertRow
  <2>4. CASE SetExpiration(r)
    BY <2>4 DEF SetExpiration
  <2>5. CASE LoseReference(r)
    BY <2>5 DEF LoseReference, LastReference, DropRow
  <2>6. CASE DeleteRow(r)
    BY <2>6 DEF DeleteRow, CascadeRow, DropRow
  <2> QED BY <1>2, StepCases, <2>1, <2>2, <2>3, <2>4, <2>5, <2>6
          DEF Effects, Reads, Read, PutObject, RemoveObject, Charge, GiveBack, ListOwners,
              NextOwner
<1> QED BY <1>1, <1>2 DEF Next, AllDone

\* A blob without a row has no reference, no uploader and no expiration,
\* whatever fails: the foreign key and its cascade at work.
THEOREM RowsOwn == Spec => []RowsOwnTheirState
<1>1. Init => RowsOwnTheirState
  BY DEF Init, RowsOwnTheirState
<1> QED BY <1>1, RowsStep, TypeCorrect, PTL DEF Spec

------------------------------------------------------------------------------
\* Without storage errors and crashes an object that a step leaves without a
\* row is covered by the request that will delete it or give it a row, unless
\* it was there before and covered by none.
LEMMA OrphanMoves ==
    ASSUME Faults \cap {"storage", "crash"} = {}, TypeOK, [Next]_vars
    PROVE  \A h \in objects' \ rows' :
              Settling(h)' # {} \/ (h \in objects \ rows /\ Settling(h) = {})
<1> USE DEF TypeOK, At, db, input
<1> DEFINE Kept == \A h \in objects' \ rows' :
                      Settling(h)' # {} \/ (h \in objects \ rows /\ Settling(h) = {})
<1>1. CASE UNCHANGED vars
  BY <1>1 DEF vars, Settling
<1>2. ASSUME NEW r \in Requests, Step(r) PROVE Kept
  <2> DEFINE S == {"insert", "cleanup", "objdel", "rowobj"}
  \* No new object without a row, and r does not stop covering one.
  <2>1. ASSUME NEW l, Goto(r, l), hash' = hash, pc[r] \notin S \/ l \in S,
               \A h \in objects' \ rows' : h \in objects \ rows
        PROVE  Kept
    <3>1. ASSUME NEW h \in objects \ rows, NEW q \in Settling(h) PROVE q \in Settling(h)'
      BY <2>1, <3>1 DEF Settling, Goto
    <3> QED BY <2>1, <3>1
  \* The step concerns only the blob of r, which r covers from now on.
  <2>2. ASSUME NEW l \in S, Goto(r, l), hash' = hash,
               \A h \in objects' \ rows' : h = hash[r] \/ h \in objects \ rows
        PROVE  Kept
    <3>1. ASSUME NEW h \in objects \ rows, NEW q \in Settling(h) PROVE q \in Settling(h)'
      BY <2>2, <3>1 DEF Settling, Goto
    <3>2. r \in Settling(hash[r])'
      BY <2>2 DEF Settling, Goto
    <3> QED BY <2>2, <3>1, <3>2
  \* The step leaves r's blob no object without a row.
  <2>3. ASSUME NEW l, Goto(r, l), hash' = hash,
               \A h \in objects' \ rows' : h # hash[r] /\ h \in objects \ rows
        PROVE  Kept
    <3>1. ASSUME NEW h \in objects \ rows, h # hash[r],
                 NEW q \in Settling(h) PROVE q \in Settling(h)'
      BY <2>3, <3>1 DEF Settling, Goto
    <3> QED BY <2>3, <3>1
  <2> HIDE DEF Kept
  <2>4. CASE Reads(r)
    BY <2>4, <2>1 DEF Reads, Read, ReadMoves
  <2>5. CASE GainReference(r) /\ pc[r] \in {"addref", "refer"}
    BY <2>5, <2>1 DEF GainReference
  <2>6. CASE PutObject(r, "insert")
    BY <2>6, <2>2 DEF PutObject
  <2>7. CASE InsertRow(r)
    BY <2>7, <2>3 DEF InsertRow
  <2>8. CASE RemoveObject(r, "done") \/ RemoveObject(r, "credit")
    BY <2>8, <2>3 DEF RemoveObject
  <2>9. CASE At(r, "charge") /\ Charge(r)
    BY <2>9, <2>1 DEF Charge
  <2>10. CASE At(r, "expire") /\ SetExpiration(r)
    BY <2>10, <2>1 DEF SetExpiration
  <2>11. CASE At(r, "unref") /\ LoseReference(r)
    BY <2>11, <2>1, <2>2 DEF LoseReference, DropRow
  <2>12. CASE At(r, "credit") /\ GiveBack(r)
    BY <2>12, <2>1 DEF GiveBack
  <2>13. CASE \/ At(r, "alist") /\ ListOwners(r)
              \/ At(r, "anext") /\ \E p \in todo[r] : NextOwner(r, p)
    BY <2>13, <2>1 DEF ListOwners, NextOwner
  <2>14. CASE DeleteRow(r)
    BY <2>14, <2>2 DEF DeleteRow, CascadeRow, DropRow
  <2> QED BY <1>2, StepCases, <2>4, <2>5, <2>6, <2>7, <2>8, <2>9, <2>10, <2>11, <2>12,
             <2>13, <2>14 DEF Effects
<1> QED BY <1>1, <1>2 DEF Next, AllDone

\* In the store alone, without sweeps, every object without a row is covered.
LEMMA OrphanStep ==
    ASSUME Faults \cap {"storage", "crash"} = {}
    PROVE  TypeOK /\ OrphanCovered /\ [Next]_vars => OrphanCovered'
BY OrphanMoves DEF OrphanCovered

\* As long as the storage backend does not fail and no replica dies, uploads,
\* deletes and operator deletes in any interleaving leave no object without a
\* row once they are all done: database errors and lost races are cleaned up.
THEOREM NoOrphans ==
    ASSUME Faults \cap {"storage", "crash"} = {}
    PROVE  Spec => []NoOrphanObject
<1>1. Init => OrphanCovered
  BY DEF Init, OrphanCovered
<1>2. OrphanCovered => NoOrphanObject
  BY DEF OrphanCovered, NoOrphanObject, Settling, Quiet
<1> QED BY <1>1, <1>2, OrphanStep, TypeCorrect, PTL DEF Spec

------------------------------------------------------------------------------
\* Without database errors and crashes every step leaves a row without
\* references to the request that inserted it and will reference it.
LEMMA OwnerlessStep ==
    ASSUME Faults \cap {"db", "crash"} = {}
    PROVE  TypeOK /\ OwnerlessCovered /\ [Next]_vars => OwnerlessCovered'
<1> USE DEF OwnerlessCovered, TypeOK, At, db, input
<1> SUFFICES ASSUME TypeOK, OwnerlessCovered, [Next]_vars PROVE OwnerlessCovered'
    OBVIOUS
<1>1. CASE UNCHANGED vars
  BY <1>1 DEF vars
<1>2. ASSUME NEW r \in Requests, Step(r) PROVE OwnerlessCovered'
  \* No new row without references but one that r did not cover, or covers now.
  <2>1. ASSUME NEW l, Goto(r, l), hash' = hash,
               \A h \in rows' : refs'[h] = {} =>
                  \/ h \in rows /\ refs[h] = {} /\ (pc[r] # "refer" \/ h # hash[r])
                  \/ h = hash[r] /\ l = "refer"
        PROVE  OwnerlessCovered'
    <3> SUFFICES ASSUME NEW h \in rows', refs'[h] = {}
                 PROVE  \E q \in Requests : hash'[q] = h /\ pc'[q] = "refer"
      OBVIOUS
    <3>1. CASE h = hash[r] /\ l = "refer"
      BY <2>1, <3>1 DEF Goto
    <3>2. CASE h \in rows /\ refs[h] = {} /\ (pc[r] # "refer" \/ h # hash[r])
      <4> PICK q \in Requests : hash[q] = h /\ pc[q] = "refer"
        BY <3>2
      <4> QED BY <2>1, <3>2 DEF Goto
    <3> QED BY <2>1, <3>1, <3>2
  <2>2. CASE Reads(r)
    BY <2>2, <2>1 DEF Reads, Read, ReadMoves
  <2>3. CASE GainReference(r)
    BY <2>3, <2>1 DEF GainReference
  <2>4. CASE At(r, "put") /\ (PutObject(r, "insert") \/ PutObject(r, "done"))
    BY <2>4, <2>1 DEF PutObject
  <2>5. CASE InsertRow(r)
    BY <2>5, <2>1 DEF InsertRow
  <2>6. CASE /\ pc[r] \in {"cleanup", "rowobj", "objdel"}
             /\ RemoveObject(r, "done") \/ RemoveObject(r, "credit")
    BY <2>6, <2>1 DEF RemoveObject
  <2>7. CASE At(r, "charge") /\ Charge(r)
    BY <2>7, <2>1 DEF Charge
  <2>8. CASE At(r, "expire") /\ SetExpiration(r)
    BY <2>8, <2>1 DEF SetExpiration
  <2>9. CASE At(r, "unref") /\ LoseReference(r)
    <3>1. CASE LastReference(r)
      BY <2>9, <3>1, <2>1 DEF LoseReference, LastReference, DropRow
    <3>2. CASE ~LastReference(r)
      <4>1. refs'[hash[r]] # {}
        BY <2>9, <3>2 DEF LoseReference, LastReference
      <4>2. \A h \in Hashes : h # hash[r] => refs'[h] = refs[h]
        BY <2>9 DEF LoseReference
      <4> QED BY <2>9, <3>2, <4>1, <4>2, <2>1 DEF LoseReference
    <3> QED BY <3>1, <3>2
  <2>10. CASE At(r, "credit") /\ GiveBack(r)
    BY <2>10, <2>1 DEF GiveBack
  <2>11. CASE \/ At(r, "alist") /\ ListOwners(r)
              \/ At(r, "anext") /\ \E p \in todo[r] : NextOwner(r, p)
    BY <2>11, <2>1 DEF ListOwners, NextOwner
  <2>12. CASE At(r, "arowdel") /\ DeleteRow(r)
    BY <2>12, <2>1 DEF DeleteRow, CascadeRow, DropRow
  <2> QED BY <1>2, StepCases, <2>2, <2>3, <2>4, <2>5, <2>6, <2>7, <2>8, <2>9, <2>10,
             <2>11, <2>12 DEF Effects
<1> QED BY <1>1, <1>2 DEF Next, AllDone

\* As long as the database does not fail and no replica dies, every blob that
\* is still stored when all requests are done has an owner who can delete it.
THEOREM NoOwnerless ==
    ASSUME Faults \cap {"db", "crash"} = {}
    PROVE  Spec => []NoOwnerlessRow
<1>1. Init => OwnerlessCovered
  BY DEF Init, OwnerlessCovered
<1>2. OwnerlessCovered => NoOwnerlessRow
  BY DEF OwnerlessCovered, NoOwnerlessRow, Quiet
<1> QED BY <1>1, <1>2, OwnerlessStep, TypeCorrect, PTL DEF Spec

------------------------------------------------------------------------------
\* The ledger: charges and credits match references one for one.

\* The requests about to charge or credit a key are finitely many, so that
\* counting them makes sense.
LEMMA Countable ==
    ASSUME NEW p, NEW h
    PROVE  /\ IsFiniteSet(Charging(p, h)) /\ Cardinality(Charging(p, h)) \in Nat
           /\ IsFiniteSet(Crediting(p, h)) /\ Cardinality(Crediting(p, h)) \in Nat
<1>1. Charging(p, h) \subseteq Requests /\ Crediting(p, h) \subseteq Requests
  BY DEF Charging, Crediting
<1> QED BY <1>1, ConstantsAssumption, FS_Subset, FS_CardinalityType

\* What a new element does to the number of elements.
LEMMA OneMore ==
    ASSUME NEW S, IsFiniteSet(S), NEW x, x \notin S
    PROVE  Cardinality(S \cup {x}) = Cardinality(S) + 1
BY FS_AddElement

\* The same for an element that goes.
LEMMA OneLess ==
    ASSUME NEW S, IsFiniteSet(S), NEW x \in S
    PROVE  Cardinality(S \ {x}) = Cardinality(S) - 1
BY FS_RemoveElement

\* The books of one key and one blob balance.
Balanced(p, h) ==
    settled[p][h] + Cardinality(Charging(p, h))
      = Cardinality(Crediting(p, h)) + Holds(p, h) + forfeited[p][h]

\* Without usage errors and crashes every step keeps the books balanced.
LEMMA LedgerStep ==
    ASSUME Faults \cap {"usage", "crash"} = {}
    PROVE  TypeOK /\ ChargeMatched /\ [Next]_vars => ChargeMatched'
<1> USE DEF TypeOK, At, db, input, history
<1> SUFFICES ASSUME TypeOK, ChargeMatched, [Next]_vars,
                    NEW p \in Pubkeys, NEW h \in Hashes
             PROVE  Balanced(p, h)'
    BY DEF ChargeMatched, Balanced
<1>0. Balanced(p, h)
  BY DEF ChargeMatched, Balanced
<1>n. /\ settled[p][h] \in Int /\ forfeited[p][h] \in Int
      /\ Cardinality(Charging(p, h)) \in Int /\ Cardinality(Crediting(p, h)) \in Int
      /\ Holds(p, h) \in Int /\ Holds(p, h)' \in Int
  BY Countable DEF Holds
<1>1. CASE UNCHANGED vars
  BY <1>0, <1>1 DEF vars, Balanced, Charging, Crediting, Holds
<1>2. ASSUME NEW r \in Requests, Step(r) PROVE Balanced(p, h)'
  \* Steps that nobody charges or credits for.
  <2>1. ASSUME Charging(p, h)' = Charging(p, h), Crediting(p, h)' = Crediting(p, h),
               UNCHANGED <<refs, settled, forfeited>>
        PROVE  Balanced(p, h)'
    BY <1>0, <2>1 DEF Balanced, Holds
  <2>2. ASSUME NEW l, l \notin {"charge", "objdel", "credit"}, Goto(r, l),
               pc[r] \notin {"charge", "objdel", "credit"},
               \A q \in Requests \ {r} : cur'[q] = cur[q], UNCHANGED input
        PROVE  Charging(p, h)' = Charging(p, h) /\ Crediting(p, h)' = Crediting(p, h)
    BY <2>2 DEF Goto, Charging, Crediting
  <2>3. ASSUME Goto(r, "credit"), pc[r] = "objdel", UNCHANGED <<input, cur>>
        PROVE  Charging(p, h)' = Charging(p, h) /\ Crediting(p, h)' = Crediting(p, h)
    BY <2>3 DEF Goto, Charging, Crediting
  <2>4. CASE Reads(r)
    BY <2>4, <2>1, <2>2, <2>3 DEF Reads, Read, ReadMoves
  <2>5. CASE At(r, "put") /\ (PutObject(r, "insert") \/ PutObject(r, "done"))
    BY <2>5, <2>1, <2>2 DEF PutObject
  <2>6. CASE At(r, "insert") /\ InsertRow(r)
    BY <2>6, <2>1, <2>2 DEF InsertRow
  <2>7. CASE pc[r] \in {"cleanup", "rowobj"} /\ RemoveObject(r, "done")
    BY <2>7, <2>1, <2>2 DEF RemoveObject
  <2>8. CASE At(r, "objdel") /\ RemoveObject(r, "credit")
    BY <2>8, <2>1, <2>3 DEF RemoveObject
  <2>9. CASE At(r, "expire") /\ SetExpiration(r)
    BY <2>9, <2>1, <2>2 DEF SetExpiration
  <2>10. CASE At(r, "alist") /\ ListOwners(r)
    BY <2>10, <2>1, <2>2 DEF ListOwners
  <2>11. CASE At(r, "anext") /\ \E k \in todo[r] : NextOwner(r, k)
    BY <2>11, <2>1, <2>2 DEF NextOwner
  <2>12. CASE pc[r] \in {"addref", "refer"} /\ GainReference(r)
    <3>1. Crediting(p, h)' = Crediting(p, h) /\ UNCHANGED <<settled, forfeited>>
      BY <2>12 DEF GainReference, Goto, Crediting
    <3>2. CASE p = pk[r] /\ h = hash[r]
      <4>1. Charging(p, h)' = Charging(p, h) \cup {r} /\ r \notin Charging(p, h)
        BY <2>12, <3>2 DEF GainReference, Goto, Charging
      <4>2. Cardinality(Charging(p, h)') = Cardinality(Charging(p, h)) + 1
        BY <4>1, Countable, OneMore
      <4>3. Holds(p, h) = 0 /\ Holds(p, h)' = 1
        BY <2>12, <3>2 DEF GainReference, Holds
      <4> HIDE DEF TypeOK
      <4> QED BY <1>0, <1>n, <3>1, <4>2, <4>3 DEF Balanced
    <3>3. CASE ~(p = pk[r] /\ h = hash[r])
      <4>1. Charging(p, h)' = Charging(p, h)
        BY <2>12, <3>3 DEF GainReference, Goto, Charging
      <4>2. Holds(p, h)' = Holds(p, h)
        BY <2>12, <3>3 DEF GainReference, Holds
      <4> QED BY <1>0, <3>1, <4>1, <4>2 DEF Balanced
    <3> QED BY <3>2, <3>3
  <2>13. CASE At(r, "charge") /\ Charge(r)
    <3>1. Crediting(p, h)' = Crediting(p, h) /\ UNCHANGED forfeited /\ Holds(p, h)' = Holds(p, h)
      BY <2>13 DEF Charge, AfterSave, Goto, Crediting, Holds
    <3>2. CASE p = pk[r] /\ h = hash[r]
      <4>1. Charging(p, h)' = Charging(p, h) \ {r} /\ r \in Charging(p, h)
        BY <2>13, <3>2 DEF Charge, AfterSave, Goto, Charging
      <4>2. Cardinality(Charging(p, h)') = Cardinality(Charging(p, h)) - 1
        BY <4>1, Countable, OneLess
      <4>3. settled'[p][h] = settled[p][h] + 1
        BY <2>13, <3>2 DEF Charge
      <4>4. settled'[p][h] + Cardinality(Charging(p, h)')
              = settled[p][h] + Cardinality(Charging(p, h))
        BY <1>n, <4>2, <4>3
      <4> HIDE DEF TypeOK
      <4> QED BY <1>0, <3>1, <4>4 DEF Balanced
    <3>3. CASE ~(p = pk[r] /\ h = hash[r])
      <4>1. Charging(p, h)' = Charging(p, h)
        BY <2>13, <3>3 DEF Charge, AfterSave, Goto, Charging
      <4>2. settled'[p][h] = settled[p][h]
        BY <2>13, <3>3 DEF Charge
      <4> QED BY <1>0, <3>1, <4>1, <4>2 DEF Balanced
    <3> QED BY <3>2, <3>3
  <2>14. CASE At(r, "unref") /\ LoseReference(r)
    <3>1. Charging(p, h)' = Charging(p, h) /\ UNCHANGED <<settled, forfeited>>
      BY <2>14 DEF LoseReference, Goto, Charging
    <3>2. CASE p = cur[r] /\ h = hash[r]
      <4>1. Crediting(p, h)' = Crediting(p, h) \cup {r} /\ r \notin Crediting(p, h)
        BY <2>14, <3>2 DEF LoseReference, Goto, Crediting
      <4>2. Cardinality(Crediting(p, h)') = Cardinality(Crediting(p, h)) + 1
        BY <4>1, Countable, OneMore
      <4>3. Holds(p, h) = 1 /\ Holds(p, h)' = 0
        BY <2>14, <3>2 DEF LoseReference, Holds
      <4> HIDE DEF TypeOK
      <4> QED BY <1>0, <1>n, <3>1, <4>2, <4>3 DEF Balanced
    <3>3. CASE ~(p = cur[r] /\ h = hash[r])
      <4>1. Crediting(p, h)' = Crediting(p, h)
        BY <2>14, <3>3 DEF LoseReference, Goto, Crediting
      <4>2. Holds(p, h)' = Holds(p, h)
        BY <2>14, <3>3 DEF LoseReference, Holds
      <4> QED BY <1>0, <3>1, <4>1, <4>2 DEF Balanced
    <3> QED BY <3>2, <3>3
  <2>15. CASE At(r, "credit") /\ GiveBack(r)
    <3>1. Charging(p, h)' = Charging(p, h) /\ UNCHANGED forfeited /\ Holds(p, h)' = Holds(p, h)
      BY <2>15 DEF GiveBack, AfterUnref, Goto, Charging, Holds
    <3>2. CASE p = cur[r] /\ h = hash[r]
      <4>1. Crediting(p, h)' = Crediting(p, h) \ {r} /\ r \in Crediting(p, h)
        BY <2>15, <3>2 DEF GiveBack, AfterUnref, Goto, Crediting
      <4>2. Cardinality(Crediting(p, h)') = Cardinality(Crediting(p, h)) - 1
        BY <4>1, Countable, OneLess
      <4>3. settled'[p][h] = settled[p][h] - 1
        BY <2>15, <3>2 DEF GiveBack
      <4> HIDE DEF TypeOK
      <4> QED BY <1>0, <1>n, <3>1, <4>2, <4>3 DEF Balanced
    <3>3. CASE ~(p = cur[r] /\ h = hash[r])
      <4>1. Crediting(p, h)' = Crediting(p, h)
        BY <2>15, <3>3 DEF GiveBack, AfterUnref, Goto, Crediting
      <4>2. settled'[p][h] = settled[p][h]
        BY <2>15, <3>3 DEF GiveBack
      <4> QED BY <1>0, <3>1, <4>1, <4>2 DEF Balanced
    <3> QED BY <3>2, <3>3
  <2>16. CASE At(r, "arowdel") /\ DeleteRow(r)
    <3>1. Charging(p, h)' = Charging(p, h) /\ Crediting(p, h)' = Crediting(p, h)
      BY <2>16, <2>2 DEF DeleteRow
    <3>2. UNCHANGED settled
      BY <2>16 DEF DeleteRow
    <3>3. Holds(p, h)' + forfeited'[p][h] = Holds(p, h) + forfeited[p][h]
      BY <2>16 DEF DeleteRow, CascadeRow, Holds
    <3>4. forfeited'[p][h] \in Int /\ forfeited[p][h] \in Int
      BY <2>16 DEF DeleteRow, CascadeRow
    <3> HIDE DEF TypeOK
    <3> QED BY <1>0, <1>n, <3>1, <3>2, <3>3, <3>4 DEF Balanced
  <2> QED BY <1>2, StepCases, <2>4, <2>5, <2>6, <2>7, <2>8, <2>9, <2>10, <2>11, <2>12, <2>13,
             <2>14, <2>15, <2>16 DEF Effects
<1> QED BY <1>1, <1>2 DEF Next, AllDone

\* As long as no usage update fails and no replica dies, the charges made to a
\* key for a blob, less the credits, are its reference to it, the charges and
\* credits under way and the references that went with a deleted row: no
\* interleaving of uploads and deletes charges or credits a reference twice.
THEOREM ChargesMatchReferences ==
    ASSUME Faults \cap {"usage", "crash"} = {}
    PROVE  Spec => []ChargeMatched
<1>1. Init => ChargeMatched
  <2> SUFFICES ASSUME Init, NEW p \in Pubkeys, NEW h \in Hashes PROVE Balanced(p, h)
    BY DEF ChargeMatched, Balanced
  <2>1. Charging(p, h) = {} /\ Crediting(p, h) = {}
    BY DEF Init, Charging, Crediting
  <2>2. Cardinality({}) = 0
    BY FS_EmptySet
  <2> QED BY <2>1, <2>2 DEF Init, Balanced, Holds
<1> QED BY <1>1, LedgerStep, TypeCorrect, PTL DEF Spec

------------------------------------------------------------------------------
\* Refinement: BlobStore without operator deletes implements BlobOwnership.

\* Only an admin delete reaches the steps of an admin delete.
OnlyAdmins == \A r \in Requests : op[r] \in Ops /\ (pc[r] \in AdminSteps => op[r] = "admin")

\* Every step keeps operations among those requested, each on its own steps.
LEMMA AdminsStep == TypeOK /\ OnlyAdmins /\ [Next]_vars => OnlyAdmins'
<1> USE DEF OnlyAdmins, TypeOK, At, input, AdminSteps
<1> SUFFICES ASSUME TypeOK, OnlyAdmins, [Next]_vars PROVE OnlyAdmins'
    OBVIOUS
<1>1. CASE UNCHANGED vars
  BY <1>1 DEF vars
<1>2. ASSUME NEW r \in Requests, Step(r) PROVE OnlyAdmins'
  <2>1. ASSUME NEW l, Goto(r, l), op' = op, l \in AdminSteps => op[r] = "admin"
        PROVE  OnlyAdmins'
    BY <2>1 DEF Goto
  <2>2. CASE Reads(r)
    BY <2>2, <2>1 DEF Reads, Read, ReadMoves
  <2>3. CASE GainReference(r) \/ InsertRow(r) \/ SetExpiration(r) \/ Charge(r)
    BY <2>3, <2>1 DEF GainReference, InsertRow, SetExpiration, Charge, AfterSave
  <2>4. CASE PutObject(r, "insert") \/ PutObject(r, "done")
    BY <2>4, <2>1 DEF PutObject
  <2>5. CASE RemoveObject(r, "done") \/ RemoveObject(r, "credit")
    BY <2>5, <2>1 DEF RemoveObject
  <2>6. CASE LoseReference(r)
    BY <2>6, <2>1 DEF LoseReference
  <2>7. CASE GiveBack(r)
    BY <2>7, <2>1 DEF GiveBack, AfterUnref
  <2>8. CASE At(r, "alist") /\ ListOwners(r)
    BY <2>8, <2>1 DEF ListOwners
  <2>9. CASE At(r, "anext") /\ \E p \in todo[r] : NextOwner(r, p)
    BY <2>9, <2>1 DEF NextOwner
  <2>10. CASE At(r, "arowdel") /\ DeleteRow(r)
    BY <2>10, <2>1 DEF DeleteRow
  <2> QED BY <1>2, StepCases, <2>2, <2>3, <2>4, <2>5, <2>6, <2>7, <2>8, <2>9, <2>10 DEF Effects
<1> QED BY <1>1, <1>2 DEF Next, AllDone

\* A step that is not an admin delete's implements a step of the ownership
\* specification: an insert publishes, a reference gained or lost acquires or
\* releases, and every other step leaves rows and references alone.
LEMMA OwnershipStep ==
    ASSUME "admin" \notin Ops, TypeOK, OnlyAdmins, [Next]_vars
    PROVE  [Ownership!Next]_<<rows, refs>>
<1> USE DEF TypeOK, At, db
<1>1. CASE UNCHANGED vars
  BY <1>1 DEF vars
<1>2. ASSUME NEW r \in Requests, Step(r) PROVE [Ownership!Next]_<<rows, refs>>
  <2>1. CASE UNCHANGED <<rows, refs>>
    BY <2>1
  <2>2. CASE GainReference(r)
    <3>1. Ownership!Acquire(pk[r], hash[r])
      BY <2>2 DEF GainReference, Ownership!Acquire
    <3> QED BY <3>1 DEF Ownership!Next
  <2>3. CASE InsertRow(r)
    <3>1. Ownership!Publish(hash[r])
      BY <2>3 DEF InsertRow, Ownership!Publish
    <3> QED BY <3>1 DEF Ownership!Next
  <2>4. CASE LoseReference(r)
    <3>1. Ownership!Release(cur[r], hash[r])
      BY <2>4 DEF LoseReference, LastReference, DropRow, Ownership!Release
    <3> QED BY <3>1 DEF Ownership!Next
  <2>5. CASE At(r, "arowdel") /\ DeleteRow(r)
    BY <2>5 DEF OnlyAdmins, AdminSteps
  <2> QED BY <1>2, StepCases, <2>1, <2>2, <2>3, <2>4, <2>5
          DEF Effects, Reads, Read, PutObject, RemoveObject, SetExpiration, Charge, GiveBack,
              ListOwners, NextOwner
<1> QED BY <1>1, <1>2 DEF Next, AllDone

\* Uploads, mirrors and deletes implement the ownership specification under
\* every fault, errors and crashes included: a blob leaves the database only
\* with its last reference, and a key loses its reference only by deleting it.
THEOREM OwnershipImplemented ==
    ASSUME "admin" \notin Ops
    PROVE  Spec => OwnedBlobsStay
<1>1. Init => Ownership!Init
  BY DEF Init, Ownership!Init
<1>2. Init => OnlyAdmins
  BY DEF Init, OnlyAdmins, AdminSteps
<1>3. TypeOK /\ OnlyAdmins /\ [Next]_vars => [Ownership!Next]_<<rows, refs>>
  BY OwnershipStep
<1> QED BY <1>1, <1>2, <1>3, AdminsStep, TypeCorrect, PTL DEF Spec, OwnedBlobsStay, Ownership!Spec
==============================================================================
