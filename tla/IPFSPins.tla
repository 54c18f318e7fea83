------------------------------- MODULE IPFSPins -------------------------------
(***************************************************************************)
(* Pins of one blob at an IPFS pinning service: the calls PinBlob,         *)
(* UnpinBlob and GetPinStatus, each several requests to the service and to *)
(* the cache where the service's last answer is kept for a day.  The calls *)
(* of one blob may overlap, and nothing orders them.                       *)
(***************************************************************************)
EXTENDS Naturals

CONSTANTS
    PinCalls,     \* identities of calls: the bound on their number
    PinRequests,  \* ids the service gives to pin requests: the bound on their number
    PinNoRequest,
    PinFaults     \* what may fail, a subset of PinFaultNames

\* "service" a request to the service is refused; "lost" the service does it and
\* its answer is lost; "storage" the blob cannot be read; "cache" a call to a
\* shared cache fails, and its error is dropped; "crash" a process dies.
PinFaultNames == {"service", "lost", "storage", "cache", "crash"}
PinOps == {"pin", "unpin", "status"}
PinStatuses == {"queued", "pinning", "pinned", "failed"}

IPFSAssumption == PinNoRequest \notin PinRequests /\ PinFaults \subseteq PinFaultNames

NoPin == [status |-> "none", id |-> PinNoRequest]
Pins == [status : PinStatuses, id : PinRequests] \cup {NoPin}

VARIABLES
    remote,             \* the service: the status of each request, "none" when there is none
    pinCached,          \* the cache's entry for the blob, NoPin without one
    pinOp, pinPc, pin,  \* each call: what it is, the step it makes next, the pin it has found
    \* history: an unpin overlapped another call, did not run to its end or could not
    \* drop the entry; a call said that the blob is pinned already when it was not
    blurred, misled

calls == <<pinOp, pinPc, pin>>
pinHistory == <<blurred, misled>>
pinVars == <<remote, pinCached, calls, pinHistory>>

\* The blob may be pinned already.
PinInit ==
    /\ pinCached \in {NoPin} \cup [status : {"pinned"}, id : PinRequests]
    /\ remote = [i \in PinRequests |-> IF pinCached.id = i THEN "pinned" ELSE "none"]
    /\ pinOp \in [PinCalls -> PinOps] /\ pinPc = [c \in PinCalls |-> "idle"]
    /\ pin = [c \in PinCalls |-> NoPin]
    /\ blurred = FALSE /\ misled = FALSE

------------------------------------------------------------------------------
PinAt(c, l) == pinPc[c] = l
PinGoto(c, l) == pinPc' = [pinPc EXCEPT ![c] = l]
PinRunning(c) == pinPc[c] \notin {"idle", "done"}
PinMove(c, l) == PinGoto(c, l) /\ UNCHANGED <<remote, pinCached, pinOp, pin, pinHistory>>
PinFails(c, fault, l) == fault \in PinFaults /\ PinMove(c, l)
SetEntry(e) == pinCached' = e \/ ("cache" \in PinFaults /\ UNCHANGED pinCached)

Pinned == {i \in PinRequests : remote[i] = "pinned"}

\* A handler begins: pinning asks first whether there is such a blob (a refusal
\* is a call that does not begin).
Overlaps(c) == \E d \in PinCalls \ {c} : PinRunning(d) /\ "unpin" \in {pinOp[c], pinOp[d]}

PinBegin(c) ==
    /\ PinAt(c, "idle")
    /\ PinGoto(c, "look")
    /\ blurred' = (blurred \/ Overlaps(c))
    /\ UNCHANGED <<remote, pinCached, pinOp, pin, misled>>

pinBlob(c) == pinOp[c] = "pin" /\ PinBegin(c)
unpinBlob(c) == pinOp[c] = "unpin" /\ PinBegin(c)
getPinStatus(c) == pinOp[c] = "status" /\ PinBegin(c)

------------------------------------------------------------------------------
\* GetPinStatus, which every call makes first: the cache, where a lookup that
\* fails finds nothing, ...
Final(p) == p.status \in {"pinned", "failed"}

PinLookUp(c) ==
    /\ PinAt(c, "look")
    /\ \E e \in IF "cache" \in PinFaults THEN {pinCached, NoPin} ELSE {pinCached} :
         /\ pin' = [pin EXCEPT ![c] = e]
         /\ PinGoto(c, IF e = NoPin THEN "list" ELSE IF Final(e) THEN "found" ELSE "refresh")
    /\ UNCHANGED <<remote, pinCached, pinOp, pinHistory>>

\* ... then the service: the status of the request cached, if it answers, ...
refreshPinStatus(c) ==
    /\ PinAt(c, "refresh")
    /\ \/ /\ remote[pin[c].id] # "none"
          /\ pin' = [pin EXCEPT ![c].status = remote[pin[c].id]]
          /\ PinGoto(c, "store")
          /\ UNCHANGED <<remote, pinCached, pinOp, pinHistory>>
       \/ remote[pin[c].id] = "none" /\ PinMove(c, "found")
       \/ PinFails(c, "service", "found")

\* ... or else one of the pins it lists, which are those that are pinned.
ListPins(c) ==
    /\ PinAt(c, "list")
    /\ \/ \E i \in Pinned :
            /\ pin' = [pin EXCEPT ![c] = [status |-> remote[i], id |-> i]]
            /\ PinGoto(c, "store")
            /\ UNCHANGED <<remote, pinCached, pinOp, pinHistory>>
       \/ Pinned = {} /\ PinMove(c, "found")
       \/ PinFails(c, "service", "found")

\* What the service said is cached, whatever has happened since.
cachePin(c) ==
    /\ PinAt(c, "store")
    /\ SetEntry(pin[c])
    /\ PinGoto(c, "found")
    /\ UNCHANGED <<remote, pinOp, pin, pinHistory>>

GetPinStatus(c) == PinLookUp(c) \/ refreshPinStatus(c) \/ ListPins(c) \/ cachePin(c)

------------------------------------------------------------------------------
\* GET /:hash/pin ends here.
PinAnswer(c) == pinOp[c] = "status" /\ PinAt(c, "found") /\ PinMove(c, "done")

\* PinBlob: a blob that is pinned is left as it is.
AlreadyPinned(c) ==
    /\ pinOp[c] = "pin" /\ PinAt(c, "found")
    /\ IF pin[c].status = "pinned"
       THEN PinGoto(c, "done") /\ misled' = (misled \/ Pinned = {})
       ELSE PinGoto(c, "add") /\ UNCHANGED misled
    /\ UNCHANGED <<remote, pinCached, pinOp, pin, blurred>>

\* The blob is read, for its CID, and a request added; its answer is cached.
AddPin(c) ==
    /\ PinAt(c, "add")
    /\ \/ \E i \in PinRequests :
            /\ remote[i] = "none" /\ \A d \in PinCalls : pin[d].id # i
            /\ pinCached.id # i
            /\ remote' = [remote EXCEPT ![i] = "queued"]
            /\ \/ /\ pin' = [pin EXCEPT ![c] = [status |-> "queued", id |-> i]]
                  /\ PinGoto(c, "added")
               \/ "lost" \in PinFaults /\ PinGoto(c, "done") /\ UNCHANGED pin
            /\ UNCHANGED <<pinCached, pinOp, pinHistory>>
       \/ PinFails(c, "storage", "done")
       \/ PinFails(c, "service", "done")

CacheAdded(c) ==
    /\ PinAt(c, "added")
    /\ SetEntry(pin[c])
    /\ PinGoto(c, "done")
    /\ UNCHANGED <<remote, pinOp, pin, pinHistory>>

PinBlob(c) == AlreadyPinned(c) \/ AddPin(c) \/ CacheAdded(c)

\* UnpinBlob: the request that was found is deleted, and then the entry; an entry
\* that cannot be dropped stays, and the call succeeds.
UnpinFound(c) ==
    /\ pinOp[c] = "unpin" /\ PinAt(c, "found")
    /\ PinMove(c, IF pin[c] = NoPin THEN "done" ELSE "delete")

DeleteByID(c) ==
    /\ PinAt(c, "delete")
    /\ \/ /\ remote[pin[c].id] # "none"
          /\ remote' = [remote EXCEPT ![pin[c].id] = "none"]
          /\ \/ PinGoto(c, "uncache") /\ UNCHANGED blurred
             \/ "lost" \in PinFaults /\ PinGoto(c, "done") /\ blurred' = TRUE
          /\ UNCHANGED <<pinCached, pinOp, pin, misled>>
       \/ remote[pin[c].id] = "none" /\ PinMove(c, "done")
       \/ PinFails(c, "service", "done")

MutantKeepsEntry == pinCached
EntryAfterUnpin == NoPin

Uncache(c) ==
    /\ PinAt(c, "uncache")
    /\ \/ pinCached' = EntryAfterUnpin /\ UNCHANGED blurred
       \/ "cache" \in PinFaults /\ blurred' = TRUE /\ UNCHANGED pinCached
    /\ PinGoto(c, "done")
    /\ UNCHANGED <<remote, pinOp, pin, misled>>

UnpinBlob(c) == UnpinFound(c) \/ DeleteByID(c) \/ Uncache(c)

------------------------------------------------------------------------------
\* The service goes on with a request.
Progress ==
    \E i \in PinRequests :
        /\ \/ remote[i] = "queued" /\ remote' = [remote EXCEPT ![i] = "pinning"]
           \/ remote[i] = "pinning" /\ remote' \in {[remote EXCEPT ![i] = s] : s \in {"pinned", "failed"}}
        /\ UNCHANGED <<pinCached, calls, pinHistory>>

\* The entry's day is over, or the cache needs its room.
DropEntry ==
    /\ pinCached # NoPin
    /\ pinCached' = NoPin
    /\ UNCHANGED <<remote, calls, pinHistory>>

\* A process dies with the calls it serves; a shared cache stays.
PinCrash(c) ==
    /\ "crash" \in PinFaults /\ PinRunning(c)
    /\ PinGoto(c, "done")
    /\ blurred' = (blurred \/ pinOp[c] = "unpin")
    /\ UNCHANGED <<remote, pinCached, pinOp, pin, misled>>

PinRun(c) ==
       \/ pinBlob(c) \/ unpinBlob(c) \/ getPinStatus(c) \/ GetPinStatus(c)
       \/ PinAnswer(c) \/ PinBlob(c) \/ UnpinBlob(c)

PinNext == (\E c \in PinCalls : PinRun(c) \/ PinCrash(c)) \/ Progress \/ DropEntry

PinSpec == PinInit /\ [][PinNext]_pinVars

------------------------------------------------------------------------------
\* The state's types; a call that has a pin to refresh, store or delete has its id.
PinTypeOK ==
    /\ remote \in [PinRequests -> PinStatuses \cup {"none"}]
    /\ pinCached \in Pins /\ pin \in [PinCalls -> Pins]
    /\ pinOp \in [PinCalls -> PinOps]
    /\ pinPc \in [PinCalls -> {"idle", "look", "list", "refresh", "store", "found", "add", "added",
                               "delete", "uncache", "done"}]
    /\ \A c \in PinCalls : pinPc[c] \in {"refresh", "store", "added", "delete", "uncache"}
                                  => pin[c] # NoPin
    /\ pinHistory \in BOOLEAN \X BOOLEAN

\* A call that leaves a blob as it is because it is pinned already ("Check if
\* already pinned") is right: the service has it, though the answer may come from
\* an entry a day old, unless an unpin overlapped another call of the blob (whose
\* late answer may have been cached after the entry was dropped), did not run to
\* its end, or ran to its end and could not drop the entry (UnpinBlob drops the
\* error of cache.Delete and says that the blob is unpinned).
PinnedIsHeld == misled => blurred
==============================================================================
