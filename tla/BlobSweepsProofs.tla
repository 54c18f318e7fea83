--------------------------- MODULE BlobSweepsProofs ---------------------------
(***************************************************************************)
(* Proofs about the blob store with its sweeps, for any number of keys,    *)
(* blobs and requests.  A step of a request keeps an invariant as the      *)
(* lemmas of BlobStoreProofs say; what is added here is the steps of the   *)
(* collector, the expiration sweep, the moderator and the operator.        *)
(***************************************************************************)
EXTENDS BlobSweeps, BlobStoreProofs, SumTheorems

\* A step of one of the sweeps.
Sweep ==
    \/ GCStep \/ GCCrash \/ ExpireStep \/ ExpireCrash \/ ModerateStep
    \/ \E p \in Pubkeys : Recalculate(p)

\* What a row that goes with its references leaves.
LEMMA CascadeTypes ==
    ASSUME TypeOK, NEW h \in Hashes, CascadeRow(h)
    PROVE  /\ rows' \subseteq Hashes /\ expiring' \subseteq rows'
           /\ refs' \in [Hashes -> SUBSET Pubkeys] /\ uploader' \in [Hashes -> SUBSET Pubkeys]
           /\ refCount' = refCount
           /\ forfeited' \in [Pubkeys -> [Hashes -> Nat]]
BY DEF TypeOK, CascadeRow, DropRow

\* What the sum of sizes of some blobs is.
LEMMA StoredBytes ==
    ASSUME NEW S \in SUBSET Hashes
    PROVE  SumFunctionOnSet(StoredSize, S) \in Nat
<1>1. Counts(StoredSize, S)
  BY SweepAssumption, FS_Subset DEF Counts
<1> QED BY <1>1, SumCountsUnits

\* A credit takes away no more than it says and stops at zero.
LEMMA CreditedType ==
    ASSUME NEW n \in Nat, NEW bytes \in Nat
    PROVE  Credited(n, bytes) \in Nat /\ Credited(n, bytes) + bytes >= n
BY DEF Credited

\* No step of a request or of a sweep leaves the types.
LEMMA SweepTypeStep == SweepTypeOK /\ [SweepNext]_allVars => SweepTypeOK'
<1> SUFFICES ASSUME SweepTypeOK, [SweepNext]_allVars PROVE SweepTypeOK'
    OBVIOUS
<1> USE DEF db, policy, input, history, gcVars, exVars, modVars, requestVars
<1>0. TypeOK
  BY DEF SweepTypeOK
<1>s. ASSUME UNCHANGED vars PROVE TypeOK'
  BY <1>0, <1>s, TypeStep
<1>1. CASE UNCHANGED allVars
  BY <1>1, <1>s DEF allVars, SweepTypeOK
<1>2. CASE Next /\ UNCHANGED <<gcVars, exVars, modVars>>
  BY <1>0, <1>2, TypeStep DEF SweepTypeOK
<1>3. CASE GCStep \/ GCCrash
  <2> SUFFICES TypeOK' /\ gcPc' \in {"idle", "delete", "object"} /\ gcTodo' \subseteq Hashes /\ gcHash' \subseteq Hashes
               /\ UNCHANGED <<exVars, modVars>>
    BY DEF SweepTypeOK
  <2>1. CASE GCList \/ GCEnd \/ GCCrash
    BY <2>1, <1>0, <1>s DEF GCList, GCEnd, GCCrash, SweepTypeOK, TypeOK, Ownerless
  <2>2. CASE GCDelete
    <3>1. PICK h \in gcTodo : /\ gcTodo' = gcTodo \ {h}
                              /\ \/ CascadeRow(h) /\ gcHash' = {h} /\ gcPc' = "object"
                                 \/ UNCHANGED <<db, forfeited, gcHash, gcPc>>
      BY <2>2 DEF GCDelete
    <3>2. h \in Hashes
      BY DEF SweepTypeOK
    <3>3. UNCHANGED <<policy, used, objects, requestVars, settled, exVars, modVars>>
      BY <2>2 DEF GCDelete
    <3>4. CASE CascadeRow(h) /\ gcHash' = {h} /\ gcPc' = "object"
      BY <1>0, <3>1, <3>2, <3>3, <3>4, CascadeTypes DEF SweepTypeOK, TypeOK
    <3>5. CASE UNCHANGED <<db, forfeited, gcHash, gcPc>>
      BY <1>0, <3>1, <3>3, <3>5 DEF SweepTypeOK, TypeOK
    <3> QED BY <3>1, <3>4, <3>5
  <2>3. CASE GCObject
    BY <2>3, <1>0 DEF GCObject, ObjectGone, SweepTypeOK, TypeOK
  <2> QED BY <1>3, <2>1, <2>2, <2>3 DEF GCStep
<1>4. CASE ExpireStep \/ ExpireCrash
  <2> SUFFICES /\ TypeOK'
               /\ exPc' \in {"idle", "owners", "row", "object"}
               /\ exTodo' \subseteq Hashes
               /\ exHash' \subseteq Hashes /\ exOwners' \subseteq Pubkeys
               /\ exUploader' \in [Hashes -> SUBSET Pubkeys] /\ freed' \in [Pubkeys -> Nat]
               /\ UNCHANGED <<gcVars, modVars>>
    BY DEF SweepTypeOK
  <2>1. CASE ExpireList \/ ExpireEnd \/ ExpireCrash
    BY <2>1, <1>0, <1>s DEF ExpireList, ExpireEnd, ExpireCrash, GetExpiredBlobs, SweepTypeOK, TypeOK
  <2>2. CASE ExpireOwners
    BY <2>2, <1>0, <1>s DEF ExpireOwners, GetBlobOwners, SweepTypeOK, TypeOK
  <2>3. CASE ExpireRow
    <3>1. PICK h \in exHash : \/ CascadeRow(h) /\ exPc' = "object"
                              \/ exPc' = "owners" /\ UNCHANGED <<db, forfeited>>
      BY <2>3 DEF ExpireRow
    <3>2. h \in Hashes
      BY DEF SweepTypeOK
    <3>3. UNCHANGED <<policy, used, objects, requestVars, settled, exTodo, exHash, exUploader, exOwners,
                      freed, gcVars, modVars>>
      BY <2>3 DEF ExpireRow
    <3>4. CASE CascadeRow(h) /\ exPc' = "object"
      BY <1>0, <3>2, <3>3, <3>4, CascadeTypes DEF SweepTypeOK, TypeOK
    <3>5. CASE exPc' = "owners" /\ UNCHANGED <<db, forfeited>>
      BY <1>0, <3>3, <3>5 DEF SweepTypeOK, TypeOK
    <3> QED BY <3>1, <3>4, <3>5
  <2>4. CASE ExpireObject
    <3>1. PICK h \in exHash :
             /\ ObjectGone(h)
             /\ freed' = [p \in Pubkeys |-> freed[p] + IF p \in exOwners THEN StoredSize[h] ELSE 0]
      BY <2>4 DEF ExpireObject
    <3>2. StoredSize[h] \in Nat /\ \A p \in Pubkeys : freed[p] \in Nat
      BY SweepAssumption DEF SweepTypeOK
    <3>3. freed' \in [Pubkeys -> Nat]
      BY <3>1, <3>2
    <3> QED BY <2>4, <1>0, <3>1, <3>3 DEF ExpireObject, ObjectGone, SweepTypeOK, TypeOK
  <2>5. CASE ExpireCredit
    <3>1. used' \in [Pubkeys -> Nat] /\ freed' \in [Pubkeys -> Nat]
      <4>1. PICK p \in Pubkeys : /\ used' = [used EXCEPT ![p] = Credited(used[p], freed[p])] \/ used' = used
                                 /\ freed' = [freed EXCEPT ![p] = 0]
        BY <2>5 DEF ExpireCredit
      <4>2. used[p] \in Nat /\ freed[p] \in Nat
        BY <1>0 DEF SweepTypeOK, TypeOK
      <4>3. Credited(used[p], freed[p]) \in Nat
        BY <4>2, CreditedType
      <4>4. used \in [Pubkeys -> Nat] /\ freed \in [Pubkeys -> Nat]
        BY <1>0 DEF SweepTypeOK, TypeOK
      <4> QED BY <4>1, <4>3, <4>4
    <3> QED BY <2>5, <1>0, <3>1 DEF ExpireCredit, SweepTypeOK, TypeOK
  <2> QED BY <1>4, <2>1, <2>2, <2>3, <2>4, <2>5 DEF ExpireStep
<1>5. CASE ModerateStep
  <2> SUFFICES /\ TypeOK' /\ modHash' \in Hashes /\ modOwner' \subseteq Pubkeys
               /\ modPc' \in {"idle", "row", "object", "credit", "ban", "banrow", "banobject", "mark", "done"}
               /\ UNCHANGED <<gcVars, exVars>>
    BY DEF SweepTypeOK
  <2>1. CASE ModerateFind
    BY <2>1, <1>0, <1>s DEF ModerateFind, SweepTypeOK, TypeOK
  <2>2. CASE ModerateBan \/ ModerateMark
    BY <2>2, <1>0 DEF ModerateBan, ModerateMark, LogOnly, SweepTypeOK, TypeOK
  <2>3. CASE ModerateRow
    <3>1. modHash \in Hashes
      BY DEF SweepTypeOK
    <3>2. /\ CascadeRow(modHash) \/ UNCHANGED <<db, forfeited>>
          /\ UNCHANGED <<policy, used, objects, requestVars, settled, modHash, modOwner, gcVars, exVars>>
          /\ modPc' \in {"object", "banobject", "credit", "mark"}
      BY <2>3 DEF ModerateRow
    <3>3. CASE CascadeRow(modHash)
      BY <1>0, <3>1, <3>2, <3>3, CascadeTypes DEF SweepTypeOK, TypeOK
    <3>4. CASE UNCHANGED <<db, forfeited>>
      BY <1>0, <3>2, <3>4 DEF SweepTypeOK, TypeOK
    <3> QED BY <3>2, <3>3, <3>4
  <2>4. CASE ModerateObject
    BY <2>4, <1>0 DEF ModerateObject, ObjectGone, SweepTypeOK, TypeOK
  <2>5. CASE ModerateCredit
    <3>1. used' \in [Pubkeys -> Nat]
      <4>1. Size[modHash] \in Nat /\ \A p \in Pubkeys : used[p] \in Nat
        BY <1>0, ConstantsAssumption DEF SweepTypeOK, TypeOK
      <4>2. \A p \in Pubkeys : Credited(used[p], Size[modHash]) \in Nat
        BY <4>1, CreditedType
      <4>3. \/ used' = used
            \/ used' = [p \in Pubkeys |-> IF p \in modOwner THEN Credited(used[p], Size[modHash]) ELSE used[p]]
        BY <2>5 DEF ModerateCredit
      <4>4. used \in [Pubkeys -> Nat]
        BY <1>0 DEF TypeOK
      <4> QED BY <4>1, <4>2, <4>3, <4>4
    <3> QED BY <2>5, <1>0, <3>1 DEF ModerateCredit, SweepTypeOK, TypeOK
  <2> QED BY <1>5, <2>1, <2>2, <2>3, <2>4, <2>5 DEF ModerateStep
<1>6. ASSUME NEW p \in Pubkeys, Recalculate(p) PROVE SweepTypeOK'
  <2>1. SumFunctionOnSet(StoredSize, {h \in rows : p \in refs[h]}) \in Nat
    BY <1>0, StoredBytes DEF TypeOK
  <2> QED BY <1>0, <1>6, <2>1 DEF Recalculate, SweepTypeOK, TypeOK
<1> QED BY <1>1, <1>2, <1>3, <1>4, <1>5, <1>6 DEF SweepNext, CollectorNext

\* Nor does the store begin outside them.
LEMMA SweepStart == SweepInit => SweepTypeOK
<1>1. Init => TypeOK
  BY ConstantsAssumption DEF Init, TypeOK, Labels
<1> QED BY <1>1 DEF SweepInit, SweepTypeOK, TypeOK

\* The types of the store and of what the sweeps hold, whatever runs beside the
\* requests and whatever fails: neither a sweep nor a moderator's credit takes
\* used_bytes below zero.
THEOREM SweepTypes == SweepSpec => []SweepTypeOK
BY SweepStart, SweepTypeStep, PTL DEF SweepSpec

------------------------------------------------------------------------------
\* An object without a row is on its way to a row or to deletion, by a request
\* or by the sweep that took its row away; a sweep has one blob at a time.
CoveredBySweep(h) ==
    \/ gcPc = "object" /\ h \in gcHash
    \/ exPc = "object" /\ h \in exHash
    \/ modPc \in {"object", "banobject"} /\ h = modHash

OneAtATime == (\A x, y \in gcHash : x = y) /\ (\A x, y \in exHash : x = y)

SweepOrphansCovered ==
    /\ OneAtATime
    /\ \A h \in objects \ rows : Settling(h) # {} \/ CoveredBySweep(h)

\* What a sweep takes away it covers.
LEMMA CascadeUncovers ==
    ASSUME NEW h, CascadeRow(h), UNCHANGED <<objects, pc, hash>>
    PROVE  /\ \A g \in objects' \ rows' : g = h \/ g \in objects \ rows
           /\ \A g : Settling(g)' = Settling(g)
BY DEF CascadeRow, DropRow, Settling

\* Without storage errors and crashes every step, of a request or of a sweep,
\* leaves an object without a row covered.
LEMMA SweepOrphanStep ==
    ASSUME Faults \cap {"storage", "crash", "restart"} = {}, SweepTypeOK, SweepOrphansCovered,
           [SweepNext]_allVars
    PROVE  SweepOrphansCovered'
<1> USE DEF db, policy, input, history, gcVars, exVars, modVars, requestVars
<1>0. TypeOK /\ OneAtATime /\ \A h \in objects \ rows : Settling(h) # {} \/ CoveredBySweep(h)
  BY DEF SweepTypeOK, SweepOrphansCovered
<1> USE DEF OneAtATime, CoveredBySweep
<1>1. CASE UNCHANGED allVars
  BY <1>0, <1>1 DEF allVars, vars, SweepOrphansCovered, Settling
<1>2. CASE Next /\ UNCHANGED <<gcVars, exVars, modVars>>
  BY <1>0, <1>2, OrphanMoves DEF SweepOrphansCovered
\* The store does not change, and the sweep gives up no blob.
<1>3. ASSUME UNCHANGED vars, OneAtATime', \A h : CoveredBySweep(h) => CoveredBySweep(h)'
      PROVE  SweepOrphansCovered'
  BY <1>0, <1>3 DEF vars, Settling, SweepOrphansCovered
\* A row goes, and its blob is the sweep's.
<1>4. ASSUME NEW h, CascadeRow(h), UNCHANGED <<objects, pc, hash>>, OneAtATime', CoveredBySweep(h)',
             \A g : CoveredBySweep(g) => CoveredBySweep(g)'
      PROVE  SweepOrphansCovered'
  <2>1. /\ \A g \in objects' \ rows' : g = h \/ g \in objects \ rows
        /\ \A g : Settling(g)' = Settling(g)
    BY <1>4, CascadeUncovers
  <2> HIDE DEF CoveredBySweep, OneAtATime
  <2> QED BY <1>0, <1>4, <2>1 DEF SweepOrphansCovered
\* An object goes, and no other blob is given up.
<1>5. ASSUME NEW h, objects' = objects \ {h}, UNCHANGED <<rows, pc, hash>>, OneAtATime',
             \A g : g # h /\ CoveredBySweep(g) => CoveredBySweep(g)'
      PROVE  SweepOrphansCovered'
  <2>1. \A g : Settling(g)' = Settling(g)
    BY <1>5 DEF Settling
  <2> HIDE DEF CoveredBySweep, OneAtATime
  <2> QED BY <1>0, <1>5, <2>1 DEF SweepOrphansCovered
<1>6. \A h : ObjectGone(h) => objects' = objects \ {h}
  BY DEF ObjectGone
<1>7. CASE GCStep \/ GCCrash
  <2>1. CASE GCList \/ GCEnd
    BY <1>0, <1>3, <2>1 DEF GCList, GCEnd
  <2>2. CASE GCDelete
    <3>1. CASE UNCHANGED <<db, forfeited, gcHash, gcPc>>
      BY <1>0, <1>3, <2>2, <3>1 DEF GCDelete, vars
    <3>2. CASE \E h \in gcTodo : CascadeRow(h) /\ gcHash' = {h} /\ gcPc' = "object"
      BY <1>0, <1>4, <2>2, <3>2 DEF GCDelete
    <3> QED BY <2>2, <3>1, <3>2 DEF GCDelete
  <2>3. CASE GCObject
    <3> PICK h \in gcHash : objects' = objects \ {h}
      BY <1>6, <2>3 DEF GCObject
    <3> QED BY <1>0, <1>5, <2>3 DEF GCObject
  <2> QED BY <1>7, <2>1, <2>2, <2>3 DEF GCStep, GCCrash
<1>8. CASE ExpireStep \/ ExpireCrash
  <2>1. CASE ExpireList \/ ExpireEnd \/ ExpireOwners
    BY <1>0, <1>3, <2>1 DEF ExpireList, ExpireEnd, ExpireOwners
  <2>2. CASE ExpireRow
    <3>1. CASE exPc' = "owners" /\ UNCHANGED <<db, forfeited>>
      BY <1>0, <1>3, <2>2, <3>1 DEF ExpireRow, vars
    <3>2. CASE \E h \in exHash : CascadeRow(h) /\ exPc' = "object"
      BY <1>0, <1>4, <2>2, <3>2 DEF ExpireRow
    <3> QED BY <2>2, <3>1, <3>2 DEF ExpireRow
  <2>3. CASE ExpireObject
    <3> PICK h \in exHash : objects' = objects \ {h}
      BY <1>6, <2>3 DEF ExpireObject
    <3> QED BY <1>0, <1>5, <2>3 DEF ExpireObject
  <2>4. CASE ExpireCredit
    BY <1>0, <2>4 DEF ExpireCredit, SweepOrphansCovered, Settling
  <2> QED BY <1>8, <2>1, <2>2, <2>3, <2>4 DEF ExpireStep, ExpireCrash
<1>9. CASE ModerateStep
  <2>1. CASE ModerateFind
    BY <1>0, <1>3, <2>1 DEF ModerateFind
  <2>2. CASE ModerateBan \/ ModerateCredit \/ ModerateMark
    BY <1>0, <2>2 DEF ModerateBan, ModerateCredit, ModerateMark, SweepOrphansCovered, Settling
  <2>3. CASE ModerateRow
    <3>1. CASE UNCHANGED <<db, forfeited>>
      BY <1>0, <1>3, <2>3, <3>1 DEF ModerateRow, vars
    <3>2. CASE CascadeRow(modHash) /\ modPc' \in {"object", "banobject"}
      BY <1>0, <1>4, <2>3, <3>2 DEF ModerateRow
    <3> QED BY <2>3, <3>1, <3>2 DEF ModerateRow
  <2>4. CASE ModerateObject
    BY <1>0, <1>5, <1>6, <2>4 DEF ModerateObject
  <2> QED BY <1>9, <2>1, <2>2, <2>3, <2>4 DEF ModerateStep
<1>10. ASSUME NEW p \in Pubkeys, Recalculate(p) PROVE SweepOrphansCovered'
  BY <1>0, <1>10 DEF Recalculate, SweepOrphansCovered, Settling
<1> QED BY <1>1, <1>2, <1>7, <1>8, <1>9, <1>10 DEF SweepNext, CollectorNext

\* As long as the storage backend does not fail and nobody dies, requests, the
\* collector, the expiration sweep and the moderator in any interleaving, errors
\* of the database and lost races included, leave no object without a row.
THEOREM NoOrphansWithSweeps ==
    ASSUME Faults \cap {"storage", "crash", "restart"} = {}
    PROVE  SweepSpec => []NoOrphanAfterSweeps
<1>1. SweepInit => SweepOrphansCovered
  BY DEF SweepInit, Init, SweepOrphansCovered, OneAtATime
<1>2. SweepTypeOK /\ SweepOrphansCovered /\ [SweepNext]_allVars => SweepOrphansCovered'
  BY SweepOrphanStep
<1>3. SweepOrphansCovered => NoOrphanAfterSweeps
  BY DEF SweepOrphansCovered, NoOrphanAfterSweeps, CoveredBySweep, SweepsQuiet, Settling, Quiet
<1> QED BY <1>1, <1>2, <1>3, SweepTypes, PTL DEF SweepSpec

------------------------------------------------------------------------------
\* A row that goes with its references leaves no row without references.
LEMMA SweepOwnerlessStep ==
    ASSUME Faults \cap {"db", "crash"} = {}, SweepTypeOK, OwnerlessCovered, [SweepNext]_allVars
    PROVE  OwnerlessCovered'
<1> USE DEF db, policy, input, history, gcVars, exVars, modVars, requestVars
<1>0. TypeOK
  BY DEF SweepTypeOK
<1>1. ASSUME UNCHANGED <<rows, refs, pc, hash>> PROVE OwnerlessCovered'
  BY <1>1 DEF OwnerlessCovered
<1>2. CASE Next /\ UNCHANGED <<gcVars, exVars, modVars>>
  BY <1>0, <1>2, OwnerlessStep
<1>3. ASSUME NEW h, CascadeRow(h), UNCHANGED <<pc, hash>> PROVE OwnerlessCovered'
  BY <1>0, <1>3 DEF OwnerlessCovered, CascadeRow, DropRow, TypeOK
<1>4. CASE GCStep \/ GCCrash
  BY <1>1, <1>3, <1>4 DEF GCStep, GCList, GCDelete, GCObject, GCEnd, GCCrash, vars
<1>5. CASE ExpireStep \/ ExpireCrash
  BY <1>1, <1>3, <1>5 DEF ExpireStep, ExpireList, ExpireOwners, ExpireRow, ExpireObject, ExpireCredit,
                          ExpireEnd, ExpireCrash, vars
<1>6. CASE ModerateStep
  BY <1>1, <1>3, <1>6 DEF ModerateStep, ModerateFind, ModerateBan, ModerateRow, ModerateObject,
                          ModerateCredit, ModerateMark, vars
<1>7. CASE UNCHANGED allVars \/ \E p \in Pubkeys : Recalculate(p)
  BY <1>1, <1>7 DEF Recalculate, allVars, vars
<1> QED BY <1>2, <1>4, <1>5, <1>6, <1>7 DEF SweepNext, CollectorNext

\* As long as the database does not fail and no replica dies in a request, the
\* sweeps and the moderator leave no row without an owner either, whatever
\* becomes of the sweeps themselves.
THEOREM NoOwnerlessWithSweeps ==
    ASSUME Faults \cap {"db", "crash"} = {}
    PROVE  SweepSpec => []NoOwnerlessRow
<1>1. SweepInit => OwnerlessCovered
  BY DEF SweepInit, Init, OwnerlessCovered
<1>2. SweepTypeOK /\ OwnerlessCovered /\ [SweepNext]_allVars => OwnerlessCovered'
  BY SweepOwnerlessStep
<1>3. OwnerlessCovered => NoOwnerlessRow
  BY DEF OwnerlessCovered, NoOwnerlessRow, Quiet
<1> QED BY <1>1, <1>2, <1>3, SweepTypes, PTL DEF SweepSpec

------------------------------------------------------------------------------
\* The collector takes only rows without references: it reclaims.
LEMMA CollectorOwnershipStep ==
    ASSUME "admin" \notin Ops, SweepTypeOK, OnlyAdmins, [CollectorNext]_allVars
    PROVE  [Ownership!Next]_<<rows, refs>>
<1> USE DEF db, policy, input, history, gcVars, exVars, modVars, requestVars
<1>0. TypeOK
  BY DEF SweepTypeOK
<1>1. CASE UNCHANGED <<rows, refs>>
  BY <1>1
<1>2. CASE Next
  BY <1>0, <1>2, OwnershipStep
<1>3. CASE GCDelete
  <2> PICK h \in gcTodo : \/ StillOwnerless(h) /\ CascadeRow(h)
                          \/ UNCHANGED <<db, forfeited>>
    BY <1>3 DEF GCDelete
  <2>1. CASE StillOwnerless(h) /\ CascadeRow(h)
    <3>1. h \in Hashes
      BY DEF SweepTypeOK
    <3>2. Ownership!Reclaim(h)
      BY <1>0, <2>1, <3>1 DEF StillOwnerless, Ownerless, CascadeRow, DropRow, Ownership!Reclaim, TypeOK
    <3> QED BY <3>1, <3>2 DEF Ownership!Next
  <2> QED BY <2>1
<1>4. CASE GCList \/ GCObject \/ GCEnd \/ GCCrash
  BY <1>4 DEF GCList, GCObject, GCEnd, GCCrash, vars
<1> QED BY <1>1, <1>2, <1>3, <1>4 DEF CollectorNext, GCStep, allVars, vars

\* Each request stays on its own steps beside the collector.
LEMMA CollectorAdmins ==
    ASSUME SweepTypeOK, OnlyAdmins, [CollectorNext]_allVars
    PROVE  OnlyAdmins'
<1> USE DEF requestVars, input
<1>1. CASE Next
  BY <1>1, AdminsStep DEF SweepTypeOK
<1>2. CASE UNCHANGED <<op, pc>>
  BY <1>2 DEF OnlyAdmins
<1>3. CASE GCStep \/ GCCrash
  BY <1>2, <1>3 DEF GCStep, GCList, GCDelete, GCObject, GCEnd, GCCrash, vars
<1> QED BY <1>1, <1>2, <1>3 DEF CollectorNext, allVars, vars

\* Beside the collector too, and whatever fails, a blob leaves the database only
\* when nobody references it and a key loses its reference only by deleting it:
\* what the collector lists and what it deletes may be apart in time.
THEOREM CollectorSparesOwned ==
    ASSUME "admin" \notin Ops
    PROVE  CollectorSpec => OwnedBlobsStay
<1>1. SweepInit => Ownership!Init /\ OnlyAdmins /\ SweepTypeOK
  BY SweepStart DEF SweepInit, Init, Ownership!Init, OnlyAdmins, AdminSteps
<1>2. SweepTypeOK /\ [CollectorNext]_allVars => SweepTypeOK'
  BY SweepTypeStep DEF SweepNext
<1>3. SweepTypeOK /\ OnlyAdmins /\ [CollectorNext]_allVars => [Ownership!Next]_<<rows, refs>> /\ OnlyAdmins'
  BY CollectorOwnershipStep, CollectorAdmins
<1> QED BY <1>1, <1>2, <1>3, PTL DEF CollectorSpec, OwnedBlobsStay, Ownership!Spec

------------------------------------------------------------------------------
\* What the account of a key is about: the requests that are about to charge it
\* or credit it, and the blobs it references.
ChargersOf(p) == {r \in Requests : pk[r] = p /\ pc[r] = "charge"}
CreditorsOf(p) == {r \in Requests : cur[r] = p /\ pc[r] \in {"objdel", "credit"}}
BlobsOf(p) == {h \in Hashes : p \in refs[h]}

Covers(p) == used[p] + ToCharge(p) >= Owned(p) + ToCredit(p)

\* Each of them is a sum over a finite set.
LEMMA SumsTyped ==
    ASSUME TypeOK
    PROVE  /\ \A S \in SUBSET Requests : Counts([r \in Requests |-> Size[hash[r]]], S) /\ BytesOf(S) \in Nat
           /\ \A S \in SUBSET Hashes : Counts(Size, S) /\ SumFunctionOnSet(Size, S) \in Nat
           /\ \A r \in Requests : Size[hash[r]] \in Nat
           /\ \A p : ToCharge(p) = BytesOf(ChargersOf(p)) /\ ToCredit(p) = BytesOf(CreditorsOf(p))
           /\ \A p : Owned(p) = SumFunctionOnSet(Size, BlobsOf(p))
<1>1. \A r \in Requests : Size[hash[r]] \in Nat
  BY ConstantsAssumption DEF TypeOK
<1>2. ASSUME NEW S \in SUBSET Requests
      PROVE  Counts([r \in Requests |-> Size[hash[r]]], S) /\ BytesOf(S) \in Nat
  <2>1. Counts([r \in Requests |-> Size[hash[r]]], S)
    BY <1>1, ConstantsAssumption, FS_Subset DEF Counts
  <2> QED BY <2>1, SumCountsUnits DEF BytesOf
<1>3. ASSUME NEW S \in SUBSET Hashes PROVE Counts(Size, S) /\ SumFunctionOnSet(Size, S) \in Nat
  <2>1. Counts(Size, S)
    BY SweepAssumption, ConstantsAssumption, FS_Subset DEF Counts
  <2> QED BY <2>1, SumCountsUnits
<1> QED BY <1>1, <1>2, <1>3 DEF ToCharge, ToCredit, ChargersOf, CreditorsOf, Owned, BlobsOf

\* A request more or less among those that charge or credit.
LEMMA BytesOfMore ==
    ASSUME TypeOK, NEW S \in SUBSET Requests, NEW r \in Requests, r \notin S
    PROVE  BytesOf(S \cup {r}) = BytesOf(S) + Size[hash[r]]
BY SumsTyped, SumAdd DEF BytesOf

\* And one less.
LEMMA BytesOfLess ==
    ASSUME TypeOK, NEW S \in SUBSET Requests, NEW r \in S
    PROVE  BytesOf(S \ {r}) + Size[hash[r]] = BytesOf(S)
<1> DEFINE T == S \ {r}
<1>1. T \in SUBSET Requests /\ r \notin T /\ S = T \cup {r}
  OBVIOUS
<1> HIDE DEF T
<1>2. BytesOf(S) = BytesOf(T) + Size[hash[r]]
  BY <1>1, BytesOfMore
<1> QED BY <1>2 DEF T

\* The account covers what it has to when it gains no less than that.
LEMMA StillCovers ==
    ASSUME NEW u \in Int, NEW c \in Int, NEW o \in Int, NEW d \in Int, u + c >= o + d,
           NEW n \in Int,
           NEW v \in Int, NEW e \in Int, NEW q \in Int, NEW f \in Int, v + e >= u + c + n, q + f <= o + d + n
    PROVE  v + e >= q + f
OBVIOUS

\* A step of a request keeps every account at what it has to cover: a reference gained
\* is to be charged before it counts, one lost is credited after it has gone.
LEMMA ChargedStep ==
    ASSUME Faults \cap {"usage", "crash"} = {}, TypeOK, TypeOK', NeverUndercharged, [Next]_vars
    PROVE  NeverUndercharged'
<1> USE DEF At, db, input, history
<1> SUFFICES ASSUME NEW p \in Pubkeys PROVE Covers(p)'
  BY DEF NeverUndercharged, Covers
<1>0. Covers(p)
  BY DEF NeverUndercharged, Covers
<1>n. /\ used[p] \in Nat /\ ToCharge(p) \in Nat /\ ToCredit(p) \in Nat /\ Owned(p) \in Nat
      /\ ChargersOf(p) \in SUBSET Requests /\ CreditorsOf(p) \in SUBSET Requests
      /\ BlobsOf(p) \in SUBSET Hashes
      /\ ToCharge(p) = BytesOf(ChargersOf(p)) /\ ToCredit(p) = BytesOf(CreditorsOf(p))
      /\ Owned(p) = SumFunctionOnSet(Size, BlobsOf(p))
  <2>1. /\ ChargersOf(p) \in SUBSET Requests /\ CreditorsOf(p) \in SUBSET Requests
        /\ BlobsOf(p) \in SUBSET Hashes
    BY DEF ChargersOf, CreditorsOf, BlobsOf
  <2> QED BY <2>1, SumsTyped DEF TypeOK
\* The inputs stay, so what the requests are about does too.
<1>k. /\ hash' = hash /\ \A S : BytesOf(S)' = BytesOf(S)
      /\ ToCharge(p)' = BytesOf(ChargersOf(p)') /\ ToCredit(p)' = BytesOf(CreditorsOf(p)')
      /\ Owned(p)' = SumFunctionOnSet(Size, BlobsOf(p)')
  <2>1. hash' = hash
    <3>1. ASSUME NEW r \in Requests, Step(r) PROVE hash' = hash
      BY <3>1, StepCases DEF Effects, Reads, Read, GainReference, PutObject, InsertRow, RemoveObject,
                             Charge, SetExpiration, LoseReference, GiveBack, ListOwners, NextOwner,
                             DeleteRow
    <3> QED BY <3>1 DEF Next, AllDone, vars
  <2> QED BY <2>1 DEF BytesOf, ToCharge, ToCredit, ChargersOf, CreditorsOf, Owned, BlobsOf
<1>1. ASSUME UNCHANGED <<used, refs>>, ChargersOf(p)' = ChargersOf(p),
             CreditorsOf(p)' = CreditorsOf(p)
      PROVE  Covers(p)'
  BY <1>0, <1>k, <1>1, <1>n DEF Covers, BlobsOf
<1>2. CASE UNCHANGED vars
  BY <1>1, <1>2 DEF vars, ChargersOf, CreditorsOf
<1>3. ASSUME NEW r \in Requests, Step(r) PROVE Covers(p)'
  <2>1. ASSUME NEW l, l \notin {"charge", "objdel", "credit"}, Goto(r, l),
               pc[r] \notin {"charge", "objdel", "credit"},
               \A q \in Requests \ {r} : cur'[q] = cur[q], UNCHANGED pk
        PROVE  ChargersOf(p)' = ChargersOf(p) /\ CreditorsOf(p)' = CreditorsOf(p)
    BY <2>1 DEF TypeOK, Goto, ChargersOf, CreditorsOf
  <2>2. ASSUME Goto(r, "credit"), pc[r] = "objdel", UNCHANGED <<pk, cur>>
        PROVE  ChargersOf(p)' = ChargersOf(p) /\ CreditorsOf(p)' = CreditorsOf(p)
    BY <2>2 DEF TypeOK, Goto, ChargersOf, CreditorsOf
  <2>3. CASE Reads(r)
    BY <2>3, <1>1, <2>1, <2>2 DEF Reads, Read, ReadMoves
  <2>4. CASE \/ At(r, "put") /\ (PutObject(r, "insert") \/ PutObject(r, "done"))
             \/ At(r, "insert") /\ InsertRow(r)
             \/ pc[r] \in {"cleanup", "rowobj"} /\ RemoveObject(r, "done")
             \/ At(r, "expire") /\ SetExpiration(r)
             \/ At(r, "alist") /\ ListOwners(r)
    BY <2>4, <1>1, <2>1 DEF PutObject, InsertRow, RemoveObject, SetExpiration, ListOwners
  <2>5. CASE At(r, "objdel") /\ RemoveObject(r, "credit")
    BY <2>5, <1>1, <2>2 DEF RemoveObject
  <2>6. CASE At(r, "anext") /\ \E k \in todo[r] : NextOwner(r, k)
    BY <2>6, <1>1, <2>1 DEF NextOwner, TypeOK
  <2>z. /\ Size[hash[r]] \in Nat /\ used'[p] \in Nat
        /\ \A S \in SUBSET Requests : BytesOf(S) \in Nat
        /\ \A S \in SUBSET Hashes : Counts(Size, S) /\ SumFunctionOnSet(Size, S) \in Nat
    BY SumsTyped DEF TypeOK
  <2>y. /\ ChargersOf(p)' \in SUBSET Requests /\ CreditorsOf(p)' \in SUBSET Requests
        /\ BlobsOf(p)' \in SUBSET Hashes
    BY DEF ChargersOf, CreditorsOf, BlobsOf
  \* What the three sets become decides.
  <2>a. ASSUME NEW n \in Int, NEW v \in Int, NEW e \in Int, NEW o \in Int, NEW d \in Int,
               v = used'[p], e = BytesOf(ChargersOf(p)'), o = SumFunctionOnSet(Size, BlobsOf(p)'),
               d = BytesOf(CreditorsOf(p)'),
               v + e >= used[p] + ToCharge(p) + n, o + d <= Owned(p) + ToCredit(p) + n
        PROVE  Covers(p)'
    <3>1. used[p] + ToCharge(p) >= Owned(p) + ToCredit(p)
      BY <1>0 DEF Covers
    <3>2. v + e >= o + d
      BY <3>1, <1>n, <2>a, StillCovers
    <3>3. used'[p] + ToCharge(p)' >= Owned(p)' + ToCredit(p)'
      BY <3>2, <2>a, <1>k
    <3> QED BY <3>3 DEF Covers
  \* Another key's account is none of its business.
  <2>7. CASE pc[r] \in {"addref", "refer"} /\ GainReference(r) /\ refCount' \in [Hashes -> Int]
    <3>1. CASE pk[r] # p
      <4>1. /\ ChargersOf(p)' = ChargersOf(p)
            /\ CreditorsOf(p)' = CreditorsOf(p)
            /\ BlobsOf(p)' = BlobsOf(p)
            /\ used' = used
        BY <2>7, <3>1 DEF GainReference, Goto, TypeOK, ChargersOf, CreditorsOf, BlobsOf
      <4> QED BY <4>1, <1>0, <1>k, <1>n DEF Covers
    <3>2. CASE pk[r] = p
      <4>1. /\ ChargersOf(p)' = ChargersOf(p) \cup {r} /\ r \notin ChargersOf(p)
            /\ CreditorsOf(p)' = CreditorsOf(p)
            /\ BlobsOf(p)' = BlobsOf(p) \cup {hash[r]} /\ hash[r] \notin BlobsOf(p)
            /\ used'[p] = used[p] /\ hash[r] \in Hashes
        BY <2>7, <3>2 DEF GainReference, Goto, TypeOK, ChargersOf, CreditorsOf, BlobsOf
      <4>2. BytesOf(ChargersOf(p)') = ToCharge(p) + Size[hash[r]]
        BY <4>1, <1>n, BytesOfMore
      <4>3. SumFunctionOnSet(Size, BlobsOf(p)') = Owned(p) + Size[hash[r]]
        BY <4>1, <1>n, <2>z, SumAdd
      <4>4. BytesOf(CreditorsOf(p)') = ToCredit(p)
        BY <4>1, <1>n
      <4>5. PICK n \in Int : n = Size[hash[r]]
        BY <2>z
      <4>6. PICK v \in Int, e \in Int, o \in Int, d \in Int :
               /\ v = used'[p] /\ e = BytesOf(ChargersOf(p)')
               /\ o = SumFunctionOnSet(Size, BlobsOf(p)') /\ d = BytesOf(CreditorsOf(p)')
        BY <2>y, <2>z
      <4>7. v = used[p] /\ e = ToCharge(p) + n /\ o = Owned(p) + n /\ d = ToCredit(p)
        BY <4>1, <4>2, <4>3, <4>4, <4>5, <4>6
      <4>8. v + e >= used[p] + ToCharge(p) + n /\ o + d <= Owned(p) + ToCredit(p) + n
        BY <4>7, <1>n
      <4> QED BY <4>6, <4>8, <2>a
    <3> QED BY <3>1, <3>2
  <2>8. CASE At(r, "charge") /\ Charge(r)
    <3>1. CASE pk[r] # p
      <4>1. /\ ChargersOf(p)' = ChargersOf(p)
            /\ CreditorsOf(p)' = CreditorsOf(p)
            /\ BlobsOf(p)' = BlobsOf(p)
            /\ used'[p] = used[p]
        BY <2>8, <3>1 DEF Charge, AfterSave, Goto, TypeOK, ChargersOf, CreditorsOf, BlobsOf
      <4> QED BY <4>1, <1>0, <1>k, <1>n DEF Covers
    <3>2. CASE pk[r] = p
      <4>1. /\ ChargersOf(p)' = ChargersOf(p) \ {r} /\ r \in ChargersOf(p)
            /\ CreditorsOf(p)' = CreditorsOf(p) /\ BlobsOf(p)' = BlobsOf(p)
            /\ used'[p] = used[p] + Size[hash[r]]
        BY <2>8, <3>2 DEF Charge, AfterSave, Goto, TypeOK, ChargersOf, CreditorsOf, BlobsOf
      <4>2. PICK s \in Nat : s = Size[hash[r]]
        BY <2>z
      <4>3. PICK v \in Int, e \in Int, o \in Int, d \in Int :
               /\ v = used'[p] /\ e = BytesOf(ChargersOf(p)')
               /\ o = SumFunctionOnSet(Size, BlobsOf(p)') /\ d = BytesOf(CreditorsOf(p)')
        BY <2>y, <2>z
      <4>4. BytesOf(ChargersOf(p)') + Size[hash[r]] = ToCharge(p)
        BY <4>1, <1>n, BytesOfLess
      <4>5. BytesOf(CreditorsOf(p)') = ToCredit(p) /\ SumFunctionOnSet(Size, BlobsOf(p)') = Owned(p)
        BY <4>1, <1>n
      <4>6. v = used[p] + s /\ e + s = ToCharge(p) /\ o = Owned(p) /\ d = ToCredit(p)
        BY <4>1, <4>2, <4>3, <4>4, <4>5, <1>n
      <4>7. v + e >= used[p] + ToCharge(p) + 0 /\ o + d <= Owned(p) + ToCredit(p) + 0
        BY <4>6, <1>n
      <4> QED BY <4>3, <4>7, <2>a
    <3> QED BY <3>1, <3>2
  <2>9. CASE At(r, "unref") /\ LoseReference(r)
    <3>1. CASE cur[r] # p
      <4>1. /\ ChargersOf(p)' = ChargersOf(p)
            /\ CreditorsOf(p)' = CreditorsOf(p)
            /\ BlobsOf(p)' = BlobsOf(p)
            /\ used'[p] = used[p]
        BY <2>9, <3>1 DEF LoseReference, Goto, TypeOK, ChargersOf, CreditorsOf, BlobsOf
      <4> QED BY <4>1, <1>0, <1>k, <1>n DEF Covers
    <3>2. CASE cur[r] = p
      <4>1. /\ CreditorsOf(p)' = CreditorsOf(p) \cup {r} /\ r \notin CreditorsOf(p)
            /\ BlobsOf(p)' = BlobsOf(p) \ {hash[r]} /\ hash[r] \in BlobsOf(p)
            /\ ChargersOf(p)' = ChargersOf(p) /\ used'[p] = used[p]
        BY <2>9, <3>2 DEF LoseReference, Goto, TypeOK, ChargersOf, CreditorsOf, BlobsOf
      <4>2. PICK s \in Nat : s = Size[hash[r]]
        BY <2>z
      <4>3. PICK v \in Int, e \in Int, o \in Int, d \in Int :
               /\ v = used'[p] /\ e = BytesOf(ChargersOf(p)')
               /\ o = SumFunctionOnSet(Size, BlobsOf(p)') /\ d = BytesOf(CreditorsOf(p)')
        BY <2>y, <2>z
      <4>4. BytesOf(CreditorsOf(p)') = ToCredit(p) + Size[hash[r]]
        BY <4>1, <1>n, BytesOfMore
      <4>5. Owned(p) = SumFunctionOnSet(Size, BlobsOf(p)') + Size[hash[r]]
        BY <4>1, <1>n, <2>z, SumRemove
      <4>6. v = used[p] /\ e = ToCharge(p) /\ o + s = Owned(p) /\ d = ToCredit(p) + s
        BY <4>1, <4>2, <4>3, <4>4, <4>5, <1>n
      <4>7. v + e >= used[p] + ToCharge(p) + 0 /\ o + d <= Owned(p) + ToCredit(p) + 0
        BY <4>6, <1>n
      <4> QED BY <4>3, <4>7, <2>a
    <3> QED BY <3>1, <3>2
  <2>10. CASE At(r, "credit") /\ GiveBack(r)
    <3>1. CASE cur[r] # p
      <4>1. /\ ChargersOf(p)' = ChargersOf(p)
            /\ CreditorsOf(p)' = CreditorsOf(p)
            /\ BlobsOf(p)' = BlobsOf(p)
            /\ used'[p] = used[p]
        BY <2>10, <3>1 DEF GiveBack, AfterUnref, Goto, TypeOK, ChargersOf, CreditorsOf, BlobsOf
      <4> QED BY <4>1, <1>0, <1>k, <1>n DEF Covers
    <3>2. CASE cur[r] = p
      <4>1. /\ CreditorsOf(p)' = CreditorsOf(p) \ {r} /\ r \in CreditorsOf(p)
            /\ ChargersOf(p)' = ChargersOf(p) /\ BlobsOf(p)' = BlobsOf(p)
            /\ used'[p] = Credited(used[p], Size[hash[r]])
        BY <2>10, <3>2 DEF GiveBack, AfterUnref, Goto, TypeOK, ChargersOf, CreditorsOf, BlobsOf
      <4>2. PICK s \in Nat : s = Size[hash[r]]
        BY <2>z
      <4>3. PICK v \in Int, e \in Int, o \in Int, d \in Int :
               /\ v = used'[p] /\ e = BytesOf(ChargersOf(p)')
               /\ o = SumFunctionOnSet(Size, BlobsOf(p)') /\ d = BytesOf(CreditorsOf(p)')
        BY <2>y, <2>z
      <4>4. BytesOf(CreditorsOf(p)') + Size[hash[r]] = ToCredit(p)
        BY <4>1, <1>n, BytesOfLess
      <4>5. BytesOf(ChargersOf(p)') = ToCharge(p) /\ SumFunctionOnSet(Size, BlobsOf(p)') = Owned(p)
        BY <4>1, <1>n
      <4>6. v = Credited(used[p], s) /\ e = ToCharge(p) /\ o = Owned(p) /\ d + s = ToCredit(p)
        BY <4>1, <4>2, <4>3, <4>4, <4>5, <1>n
      <4>7. v + e >= used[p] + ToCharge(p) + (0 - s) /\ o + d <= Owned(p) + ToCredit(p) + (0 - s)
        <5>1. v \in Nat /\ v + s >= used[p]
          BY <4>2, <4>6, <1>n, CreditedType
        <5> QED BY <4>6, <1>n, <5>1
      <4> QED BY <4>3, <4>7, <2>a
    <3> QED BY <3>1, <3>2
  <2>11. CASE At(r, "arowdel") /\ DeleteRow(r)
    <3>1. /\ ChargersOf(p)' = ChargersOf(p) /\ CreditorsOf(p)' = CreditorsOf(p)
          /\ BlobsOf(p)' \in SUBSET BlobsOf(p) /\ used'[p] = used[p]
      BY <2>11 DEF DeleteRow, CascadeRow, Goto, TypeOK, ChargersOf, CreditorsOf, BlobsOf
    <3> PICK o \in Int : o = SumFunctionOnSet(Size, BlobsOf(p)')
      BY <2>y, <2>z
    <3>2. o <= Owned(p)
      BY <3>1, <1>n, <2>z, SumPart
    <3>3. /\ used[p] = used'[p] /\ ToCharge(p) = BytesOf(ChargersOf(p)')
          /\ ToCredit(p) = BytesOf(CreditorsOf(p)')
      BY <3>1, <1>n
    <3>4. /\ used[p] + ToCharge(p) >= used[p] + ToCharge(p) + 0
          /\ o + ToCredit(p) <= Owned(p) + ToCredit(p) + 0
      BY <3>2, <1>n
    <3> QED BY <3>3, <3>4, <1>n, <2>a
  <2> QED BY <1>3, <2>3, <2>4, <2>5, <2>6, <2>7, <2>8, <2>9, <2>10, <2>11, StepCases DEF Effects
<1> QED BY <1>2, <1>3 DEF Next, AllDone

\* The collector leaves every account and every reference alone.
LEMMA CollectorChargedStep ==
    ASSUME Faults \cap {"usage", "crash"} = {}, SweepTypeOK, SweepTypeOK', NeverUndercharged,
           [CollectorNext]_allVars
    PROVE  NeverUndercharged'
<1> USE DEF db, policy, input, history, gcVars, exVars, modVars, requestVars
<1>1. CASE Next
  BY <1>1, ChargedStep DEF SweepTypeOK
<1>2. ASSUME UNCHANGED <<used, refs, pk, pc, cur, hash>> PROVE NeverUndercharged'
  <2>1. /\ \A S : BytesOf(S)' = BytesOf(S)
        /\ \A p : {r \in Requests : pk[r] = p /\ pc[r] = "charge"}'
                   = {r \in Requests : pk[r] = p /\ pc[r] = "charge"}
        /\ \A p : {r \in Requests : cur[r] = p /\ pc[r] \in {"objdel", "credit"}}'
                   = {r \in Requests : cur[r] = p /\ pc[r] \in {"objdel", "credit"}}
        /\ \A p : {h \in Hashes : p \in refs[h]}' = {h \in Hashes : p \in refs[h]}
    BY <1>2 DEF BytesOf
  <2>2. \A p : ToCharge(p)' = ToCharge(p) /\ ToCredit(p)' = ToCredit(p) /\ Owned(p)' = Owned(p)
    BY <1>2, <2>1 DEF ToCharge, ToCredit, Owned
  <2> QED BY <1>2, <2>2 DEF NeverUndercharged
<1>3. CASE GCDelete
  <2> PICK h \in gcTodo : \/ StillOwnerless(h) /\ CascadeRow(h)
                          \/ UNCHANGED <<db, forfeited>>
    BY <1>3 DEF GCDelete
  <2>1. refs' = refs
    <3>1. CASE StillOwnerless(h) /\ CascadeRow(h)
      <4>1. refs[h] = {} /\ refs' = [refs EXCEPT ![h] = {}] /\ refs \in [Hashes -> SUBSET Pubkeys]
        BY <3>1 DEF StillOwnerless, Ownerless, CascadeRow, SweepTypeOK, TypeOK
      <4> QED BY <4>1
    <3> QED BY <3>1
  <2> QED BY <1>2, <1>3, <2>1 DEF GCDelete
<1>4. CASE GCList \/ GCObject \/ GCEnd \/ GCCrash \/ UNCHANGED allVars
  BY <1>2, <1>4 DEF GCList, GCObject, GCEnd, GCCrash, vars, allVars
<1> QED BY <1>1, <1>3, <1>4 DEF CollectorNext, GCStep

\* Unless a change of usage is lost (its error is ignored) or a replica dies on
\* the way to it, no key ever has less on its account than the blobs it
\* references, the charges and credits under way included: whatever else fails,
\* in every interleaving of uploads, deletes and admin deletes with each other
\* and with the collector.
THEOREM UsageCoversBlobs ==
    ASSUME Faults \cap {"usage", "crash"} = {}
    PROVE  CollectorSpec => []NeverUndercharged
<1>1. SweepInit => NeverUndercharged
  <2> SUFFICES ASSUME SweepInit, NEW p \in Pubkeys
               PROVE  used[p] + ToCharge(p) >= Owned(p) + ToCredit(p)
    BY DEF NeverUndercharged
  <2>1. /\ {r \in Requests : pk[r] = p /\ pc[r] = "charge"} = {}
        /\ {r \in Requests : cur[r] = p /\ pc[r] \in {"objdel", "credit"}} = {}
        /\ {h \in Hashes : p \in refs[h]} = {}
        /\ used[p] = 0
    BY DEF SweepInit, Init
  <2>2. ToCharge(p) = 0 /\ ToCredit(p) = 0 /\ Owned(p) = 0
    BY <2>1, SumOfNone DEF ToCharge, ToCredit, Owned, BytesOf
  <2> QED BY <2>1, <2>2
<1>2. SweepTypeOK /\ SweepTypeOK' /\ NeverUndercharged /\ [CollectorNext]_allVars => NeverUndercharged'
  BY CollectorChargedStep
<1>3. SweepTypeOK /\ [CollectorNext]_allVars => SweepTypeOK'
  BY SweepTypeStep DEF SweepNext
<1> QED BY <1>1, <1>2, <1>3, SweepStart, PTL DEF CollectorSpec
==============================================================================
