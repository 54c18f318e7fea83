--------------------------- MODULE StoreRunsProofs ---------------------------
(***************************************************************************)
(* What BlobStoreProofs and BlobSweepsProofs say of the store under one    *)
(* set of faults, said of the two runs each of which chooses between two.  *)
(***************************************************************************)
EXTENDS MCStoreRequests, TLAPS

\* The set of faults of a behaviour is that of its start.
LEMMA DatabaseBehaviour == Spec /\ faults = "database" => [](faults = "database") /\ Database!SweepSpec
<1>1. Init /\ faults = "database" => Database!SweepInit
  BY DEF Init
<1>2. faults = "database" /\ [Next]_<<faults, Storage!allVars>>
        => (faults = "database")' /\ [Database!SweepNext]_Database!allVars
  <2>1. UNCHANGED Storage!allVars => UNCHANGED Database!allVars
    BY DEF Storage!allVars, Storage!vars, Storage!input, Storage!history, Storage!gcVars, Storage!exVars,
           Storage!modVars, Database!allVars, Database!vars, Database!input, Database!history,
           Database!gcVars, Database!exVars, Database!modVars
  <2> QED BY <2>1 DEF Next
<1> QED BY <1>1, <1>2, PTL DEF Spec, Database!SweepSpec

LEMMA StorageBehaviour == Spec /\ faults = "storage" => [](faults = "storage") /\ Storage!SweepSpec
<1>1. Init /\ faults = "storage" => Storage!SweepInit
  BY DEF Init
<1>2. faults = "storage" /\ [Next]_<<faults, Storage!allVars>>
        => (faults = "storage")' /\ [Storage!SweepNext]_Storage!allVars
  BY DEF Next
<1> QED BY <1>1, <1>2, PTL DEF Spec, Storage!SweepSpec

LEMMA OneOfTwo == Init => faults = "database" \/ faults = "storage"
BY DEF Init

\* NoOrphanAfterSweeps holds in a behaviour whose database fails
\* (NoOrphansWithSweeps of BlobSweepsProofs), and claims nothing of the others.
THEOREM FaultyDatabaseNoOrphans == Spec => []NoOrphanAfterSweeps
<1>1. {"db", "usage"} \cap {"storage", "crash", "restart"} = {}
  OBVIOUS
<1>2. Database!SweepSpec => []Database!NoOrphanAfterSweeps
  BY <1>1, FaultsAssumption, Database!NoOrphansWithSweeps
     DEF Database!ConstantsAssumption, Database!SweepAssumption
<1>3. Database!NoOrphanAfterSweeps => NoOrphanAfterSweeps
  BY DEF NoOrphanAfterSweeps
<1>4. faults = "storage" => NoOrphanAfterSweeps
  BY DEF NoOrphanAfterSweeps
<1> QED BY <1>2, <1>3, <1>4, OneOfTwo, DatabaseBehaviour, StorageBehaviour, PTL DEF Spec

\* NoOwnerlessRow holds in a behaviour whose storage backend fails
\* (NoOwnerlessWithSweeps of BlobSweepsProofs), and claims nothing of the others.
THEOREM FaultyStorageNoOwnerless == Spec => []NoOwnerlessRow
<1>1. {"storage", "usage", "restart"} \cap {"db", "crash"} = {}
  OBVIOUS
<1>2. Storage!SweepSpec => []Storage!NoOwnerlessRow
  BY <1>1, FaultsAssumption, Storage!NoOwnerlessWithSweeps
     DEF Storage!ConstantsAssumption, Storage!SweepAssumption
<1>3. Storage!NoOwnerlessRow => NoOwnerlessRow
  BY DEF NoOwnerlessRow
<1>4. faults = "database" => NoOwnerlessRow
  BY DEF NoOwnerlessRow
<1> QED BY <1>2, <1>3, <1>4, OneOfTwo, DatabaseBehaviour, StorageBehaviour, PTL DEF Spec

------------------------------------------------------------------------------
\* The requests: the same of a behaviour that is about accounting, ...
LEMMA AccountingBehaviour ==
    RequestsSpec /\ faults = "statements"
      => [](faults = "statements") /\ Accounting!Spec /\ Accounting!CollectorSpec
<1>1. RequestsInit /\ faults = "statements" => Accounting!Init /\ Accounting!SweepInit
  BY DEF RequestsInit, Accounting!SweepInit
<1>2. faults = "statements" /\ [RequestsNext]_<<faults, Owners!allVars>>
        => /\ (faults = "statements")'
           /\ [Accounting!Next]_Accounting!vars
           /\ [Accounting!CollectorNext]_Accounting!allVars
  <2>1. UNCHANGED Owners!allVars => UNCHANGED Accounting!allVars /\ UNCHANGED Accounting!vars
    BY DEF Owners!allVars, Owners!vars, Owners!gcVars, Owners!exVars, Owners!modVars,
           Accounting!allVars, Accounting!vars, Accounting!gcVars, Accounting!exVars,
           Accounting!modVars
  <2>2. faults = "statements" /\ RequestsNext
          => (faults = "statements")' /\ Accounting!Next /\ Accounting!CollectorNext
    BY DEF RequestsNext, sweepVars, Accounting!CollectorNext, Accounting!gcVars, Accounting!exVars,
           Accounting!modVars
  <2> QED BY <2>1, <2>2
<1> QED BY <1>1, <1>2, PTL DEF RequestsSpec, Accounting!Spec, Accounting!CollectorSpec

\* ... and of one that is about ownership.
LEMMA OwnersBehaviour ==
    RequestsSpec /\ faults = "anything" => [](faults = "anything") /\ Owners!CollectorSpec
<1>1. RequestsInit /\ faults = "anything" => Owners!SweepInit
  BY DEF RequestsInit
<1>2. faults = "anything" /\ [RequestsNext]_<<faults, Owners!allVars>>
        => (faults = "anything")' /\ [Owners!CollectorNext]_Owners!allVars
  BY DEF RequestsNext
<1> QED BY <1>1, <1>2, PTL DEF RequestsSpec, Owners!CollectorSpec

LEMMA OneOfTheTwo == RequestsInit => faults = "statements" \/ faults = "anything"
BY DEF RequestsInit

\* The types are kept, whichever of the two a behaviour is about (TypeCorrect of
\* BlobStoreProofs and SweepTypes of BlobSweepsProofs).
THEOREM RequestTypes == RequestsSpec => []TypeOK
<1>1. Accounting!Spec => []Accounting!TypeOK
  BY RequestsAssumption, Accounting!TypeCorrect
     DEF Accounting!ConstantsAssumption
<1>2. Owners!CollectorSpec => []Owners!TypeOK
  <2>1. Owners!SweepSpec => []Owners!SweepTypeOK
    BY RequestsAssumption, Owners!SweepTypes
       DEF Owners!ConstantsAssumption, Owners!SweepAssumption
  <2>2. [Owners!CollectorNext]_Owners!allVars => [Owners!SweepNext]_Owners!allVars
    BY DEF Owners!SweepNext
  <2>3. Owners!SweepTypeOK => Owners!TypeOK
    BY DEF Owners!SweepTypeOK
  <2> QED BY <2>1, <2>2, <2>3, PTL DEF Owners!CollectorSpec, Owners!SweepSpec
<1>3. /\ faults = "statements" /\ Accounting!TypeOK => TypeOK
      /\ faults = "anything" /\ Owners!TypeOK => TypeOK
  BY DEF TypeOK
<1> QED BY <1>1, <1>2, <1>3, OneOfTheTwo, AccountingBehaviour, OwnersBehaviour, PTL DEF RequestsSpec

\* Where only statements fail charges match references, one for one, however
\* uploads, mirrors, deletes and operators' deletes of several blobs interleave
\* (ChargesMatchReferences of BlobStoreProofs).
THEOREM RequestsChargeMatched == RequestsSpec => []ChargeMatched
<1>1. Accounting!Spec => []Accounting!ChargeMatched
  BY RequestsAssumption, Accounting!ChargesMatchReferences
     DEF Accounting!ConstantsAssumption
<1>2. (Accounting!ChargeMatched => ChargeMatched) /\ (faults = "anything" => ChargeMatched)
  BY DEF ChargeMatched
<1> QED BY <1>1, <1>2, OneOfTheTwo, AccountingBehaviour, OwnersBehaviour, PTL DEF RequestsSpec

\* Where only statements fail nobody's usage is less than the blobs it references
\* (UsageCoversBlobs of BlobSweepsProofs).
THEOREM RequestsNeverUndercharge == RequestsSpec => []NeverUndercharged
<1>1. Accounting!CollectorSpec => []Accounting!NeverUndercharged
  BY RequestsAssumption, Accounting!UsageCoversBlobs
     DEF Accounting!ConstantsAssumption, Accounting!SweepAssumption
<1>2. (Accounting!NeverUndercharged => NeverUndercharged) /\ (faults = "anything" => NeverUndercharged)
  BY DEF NeverUndercharged
<1> QED BY <1>1, <1>2, OneOfTheTwo, AccountingBehaviour, OwnersBehaviour, PTL DEF RequestsSpec

\* Where only statements fail no object is left without a row at rest (NoOrphans
\* of BlobStoreProofs).
THEOREM RequestsLeaveNoOrphan == RequestsSpec => []NoOrphanObject
<1>1. Accounting!Spec => []Accounting!NoOrphanObject
  BY RequestsAssumption, Accounting!NoOrphans
     DEF Accounting!ConstantsAssumption
<1>2. (Accounting!NoOrphanObject => NoOrphanObject) /\ (faults = "anything" => NoOrphanObject)
  BY DEF NoOrphanObject
<1> QED BY <1>1, <1>2, OneOfTheTwo, AccountingBehaviour, OwnersBehaviour, PTL DEF RequestsSpec

\* Whatever fails and beside the collector, what the requests do is what
\* BlobOwnership allows (CollectorSparesOwned of BlobSweepsProofs).
THEOREM RequestsSpareOwned == RequestsSpec => OwnedBlobsStay
<1>1. Owners!CollectorSpec => Owners!OwnedBlobsStay
  BY RequestsAssumption, Owners!CollectorSparesOwned
     DEF Owners!ConstantsAssumption, Owners!SweepAssumption
<1>2. Owners!CollectorSpec
        => Owners!Ownership!Init /\ [][Owners!Ownership!Next]_<<rows, refs>>
  BY <1>1 DEF Owners!OwnedBlobsStay, Owners!Ownership!Spec
<1>3. RequestsSpec /\ faults = "anything" => OwnedBlobsStay
  BY <1>2, OwnersBehaviour, PTL DEF OwnedBlobsStay
<1>4. RequestsSpec /\ faults = "statements" => OwnedBlobsStay
  <2>1. faults = "statements" => (faults = "anything" => Owners!Ownership!Init)
    OBVIOUS
  <2>2. faults = "statements" => [faults = "anything" => Owners!Ownership!Next]_<<rows, refs>>
    OBVIOUS
  <2> QED BY <2>1, <2>2, AccountingBehaviour, PTL DEF OwnedBlobsStay
<1> QED BY <1>3, <1>4, OneOfTheTwo, PTL DEF RequestsSpec
==============================================================================
