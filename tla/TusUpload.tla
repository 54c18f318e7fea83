------------------------------ MODULE TusUpload ------------------------------
(***************************************************************************)
(* One resumable (tus) upload: POST, PATCH, HEAD and DELETE /files/<id> on *)
(* any number of replicas, and the sweep that removes abandoned uploads.   *)
(* Its state is two tables of the database; the bytes of each chunk are an *)
(* object of the storage backend.  As in BlobStore each statement,         *)
(* transaction and storage call is one step.                               *)
(***************************************************************************)
EXTENDS Integers, FiniteSets

CONSTANTS
    Length,     \* the Upload-Length declared
    Requests,   \* identities of PATCH, HEAD and DELETE requests: the bound on their number
    Creator,    \* the POST request that creates the upload
    Sweeper,    \* the sweep, RunTusExpirySweep
    Ops,        \* what the requests are, a subset of OpNames
    Faults,     \* what may fail, a subset of FaultNames
    Events      \* what may happen meanwhile, a subset of EventNames

OpNames == {"patch", "head", "terminate"}

\* As in BlobStore: an error of the database, an error of the storage backend,
\* the death of a replica in the middle of a request or a sweep.
FaultNames == {"db", "storage", "crash"}

\* TusUploadTTL passes without a chunk; the creator's key is blocked.
EventNames == {"expire", "block"}

ASSUME TusAssumption ==
    /\ Length \in Nat
    /\ Creator \notin Requests /\ Sweeper \notin Requests /\ Creator # Sweeper
    /\ Ops \subseteq OpNames
    /\ Faults \subseteq FaultNames
    /\ Events \subseteq EventNames

Actors == Requests \cup {Creator, Sweeper}

VARIABLES
    row,        \* the upload has its row in tus_uploads
    offset,     \* its upload_offset
    expired,    \* its expires_at has passed
    chunks,     \* tus_upload_chunks
    objects,    \* the keys that have an object
    blocked,    \* the creator's key is on the blocklist, or has lost access
    \* each actor; the first three are a request's input, any value from the start
    op,         \* its method
    from,       \* Upload-Offset
    len,        \* bytes in the body
    pc,         \* the step it makes next
    seen,       \* the offset it has read from the row
    todo,       \* chunks listed and not yet read, or not yet removed
    pos, got,   \* how far it has read, and the chunks it has read
    saved       \* history: the chunks of each blob made of the upload

upload == <<row, offset, expired, chunks>>
input == <<op, from, len>>
local == <<seen, todo, pos, got>>
vars == <<row, offset, expired, chunks, objects, blocked, op, from, len, pc, seen, todo, pos, got,
          saved>>

Labels == {"idle", "get", "blocklist", "put", "record", "unput", "mlist", "mread", "fcheck",
           "flist", "fread", "delete", "sdelete", "unlink", "done"}

\* Two requests may write the same offset; their objects have different keys.
MutantSharedKey(r) == <<from[r], Creator>>
tusChunkKey(r) == <<from[r], r>>

Init ==
    /\ row = FALSE /\ offset = 0 /\ expired = FALSE /\ blocked = FALSE
    /\ chunks = {} /\ objects = {} /\ saved = {}
    /\ op \in {f \in [Actors -> Ops \cup {"create", "sweep"}] :
                 \A r \in Actors : /\ f[r] = "create" <=> r = Creator
                                   /\ f[r] = "sweep" <=> r = Sweeper}
    /\ from \in {f \in [Actors -> 0..Length] : f[Creator] = 0 /\ f[Sweeper] = 0}
    /\ len \in {f \in [Actors -> 0..(Length + 1)] : f[Sweeper] = 0}
    /\ pc = [r \in Actors |-> "idle"]
    /\ seen = [r \in Actors |-> 0] /\ pos = [r \in Actors |-> 0]
    /\ todo = [r \in Actors |-> {}] /\ got = [r \in Actors |-> {}]

------------------------------------------------------------------------------
At(r, l) == pc[r] = l
Goto(r, l) == pc' = [pc EXCEPT ![r] = l]

\* A step that only decides how r goes on.
Move(r, l) == Goto(r, l) /\ UNCHANGED <<upload, objects, blocked, input, local, saved>>

\* Where an actor ends: the sweep waits for its next tick.
MutantSweepStops(r) == "done"
EndOf(r) == IF r = Sweeper THEN "idle" ELSE "done"

DbError(r) == "db" \in Faults /\ Move(r, EndOf(r))

\* POST /files: the row, and the chunk that may come with it.
Create ==
    /\ At(Creator, "idle")
    /\ row' = TRUE
    /\ Goto(Creator, IF len[Creator] > 0 THEN "put" ELSE "done")
    /\ UNCHANGED <<offset, expired, chunks, objects, blocked, input, local, saved>>

\* The id is known once the POST is answered.
Start(r) == At(r, "idle") /\ pc[Creator] = "done" /\ Move(r, "get")

\* A retry of the last chunk, once every byte is stored.
FinalizeRetry(r, n) == from[r] < n /\ n >= Length

\* The row as the handler loads it: who asks for an expired upload deletes it.
LoadUpload(r) ==
    /\ At(r, "get")
    /\ \/ /\ ~row \/ (op[r] = "head" /\ ~expired)
          /\ Move(r, "done")
       \/ /\ row /\ (expired \/ op[r] = "terminate")
          /\ Move(r, "delete")
       \/ /\ row /\ ~expired /\ op[r] = "patch"
          /\ seen' = [seen EXCEPT ![r] = offset]
          /\ Goto(r, IF from[r] = offset \/ FinalizeRetry(r, offset) THEN "blocklist" ELSE "done")
          /\ UNCHANGED <<upload, objects, blocked, input, todo, pos, got, saved>>
       \/ DbError(r)

BlocklistCheck(r) ==
    /\ At(r, "blocklist")
    /\ \/ Move(r, IF blocked THEN "delete"
                  ELSE IF FinalizeRetry(r, seen[r]) THEN "mlist" ELSE "put")
       \/ DbError(r)

\* A chunk that fails with its creation takes the upload with it.
Failed(r) == IF op[r] = "create" THEN "delete" ELSE "done"

\* A PATCH that reaches the end goes on to finalize the upload; a POST does not.
MutantEndsEarly(r) == IF op[r] = "patch" THEN "fcheck" ELSE "done"
Appended(r) == IF op[r] = "patch" /\ from[r] + len[r] >= Length THEN "fcheck" ELSE "done"

\* appendBody refuses a body that runs past the declared length whole.
Fits(r) == len[r] \in 1..(Length - from[r])

\* appendBody and AppendChunk up to the storage write.  The body may break off
\* or be too long; an empty one writes nothing.
PutChunk(r, l) ==
    /\ objects' = objects \cup {tusChunkKey(r)}
    /\ Goto(r, l)
    /\ UNCHANGED <<upload, blocked, input, local, saved>>

AppendChunk(r) ==
    /\ At(r, "put")
    /\ \/ Move(r, Failed(r))
       \/ len[r] = 0 /\ Move(r, Appended(r))
       \/ Fits(r) /\ PutChunk(r, "record")
       \/ "storage" \in Faults /\ Fits(r) /\ PutChunk(r, Failed(r))

\* AdvanceTusUploadOffset moves the offset only if it is where the chunk goes.
MutantAnyOffset(r) == row
OffsetStands(r) == row /\ offset = from[r]

\* recordChunk: one transaction.  The chunk also puts the expiry off.
RecordChunk(r) ==
    /\ At(r, "record")
    /\ \/ /\ OffsetStands(r)
          /\ offset' = from[r] + len[r]
          /\ expired' = FALSE
          /\ chunks' = chunks \cup {[at |-> from[r], size |-> len[r], key |-> tusChunkKey(r)]}
          /\ Goto(r, Appended(r))
          /\ UNCHANGED <<row, objects, blocked, input, local, saved>>
       \/ (~OffsetStands(r) \/ "db" \in Faults) /\ Move(r, "unput")

\* Delete of one object, which a failing backend leaves behind.
ObjectGone(k) == objects' \in {objects \ {k}} \cup (IF "storage" \in Faults THEN {objects} ELSE {})

\* The loser removes its own bytes.
MutantLeavesBytes(r) == At(r, "unput") /\ Move(r, Failed(r))
RemoveOwnBytes(r) ==
    /\ At(r, "unput")
    /\ ObjectGone(tusChunkKey(r))
    /\ Goto(r, Failed(r))
    /\ UNCHANGED <<upload, blocked, input, local, saved>>

------------------------------------------------------------------------------
\* ReadFrom lists the chunks, then reads them one after the other.
ListChunks(r, l) ==
    /\ todo' = [todo EXCEPT ![r] = chunks]
    /\ pos' = [pos EXCEPT ![r] = 0] /\ got' = [got EXCEPT ![r] = {}]
    /\ Goto(r, l)
    /\ UNCHANGED <<upload, objects, blocked, input, seen, saved>>

ListUpload(r) ==
    \/ At(r, "mlist") /\ (ListChunks(r, "mread") \/ DbError(r))
    \/ At(r, "flist") /\ (ListChunks(r, "fread") \/ DbError(r))

\* The bytes of chunk c can be had; a retry needs only the ones from its offset on.
MutantSkipsMissing(r, c) == TRUE
Readable(r, c) == (At(r, "mread") /\ c.at + c.size <= from[r]) \/ c.key \in objects

\* The next chunk must start where the last one ended, and its object be there.
ReadChunk(r) ==
    /\ pc[r] \in {"mread", "fread"}
    /\ \E c \in todo[r] :
         /\ \A d \in todo[r] : c.at <= d.at
         /\ \/ /\ c.at = pos[r] /\ Readable(r, c)
               /\ todo' = [todo EXCEPT ![r] = @ \ {c}]
               /\ pos' = [pos EXCEPT ![r] = @ + c.size]
               /\ got' = [got EXCEPT ![r] = @ \cup (IF c.key \in objects THEN {c} ELSE {})]
               /\ UNCHANGED <<upload, objects, blocked, input, seen, pc, saved>>
            \/ /\ c.at # pos[r] \/ ~Readable(r, c) \/ "storage" \in Faults
               /\ Move(r, "done")

\* matchStoredTail: the retried bytes run to the end and are the stored ones.
MatchStoredTail(r) ==
    /\ At(r, "mread") /\ todo[r] = {}
    /\ \/ pos[r] = Length /\ len[r] = Length - from[r] /\ Move(r, "fcheck")
       \/ Move(r, "done")

\* finalizeUpload checks the key again.
FinalCheck(r) ==
    /\ At(r, "fcheck")
    /\ \/ Move(r, IF blocked THEN "delete" ELSE "flist")
       \/ DbError(r)

\* The bytes read become a blob, unless a checksum, a tier limit or the save
\* refuses; then the upload is deleted, in the background.  Over the size cap
\* it is deleted unsaved.
Finalize(r) ==
    /\ At(r, "fread") /\ todo[r] = {}
    /\ \/ /\ saved' = saved \cup {got[r]}
          /\ Goto(r, "delete")
          /\ UNCHANGED <<upload, objects, blocked, input, local>>
       \/ Move(r, "done")
       \/ pos[r] > 0 /\ Move(r, "delete")

------------------------------------------------------------------------------
\* deleteUpload: the row and its chunk rows in one transaction, then the bytes.
RemoveUpload(r) ==
    /\ row' = FALSE /\ chunks' = {}
    /\ todo' = [todo EXCEPT ![r] = chunks]
    /\ Goto(r, "unlink")
    /\ UNCHANGED <<offset, expired, objects, blocked, input, seen, pos, got, saved>>

DeleteUpload(r) ==
    /\ At(r, "delete")
    /\ \/ row /\ RemoveUpload(r)
       \/ ~row /\ Move(r, "done")
       \/ DbError(r)

RemoveObjects(r) ==
    /\ At(r, "unlink")
    /\ \/ todo[r] = {} /\ Move(r, EndOf(r))
       \/ \E c \in todo[r] :
            /\ ObjectGone(c.key)
            /\ todo' = [todo EXCEPT ![r] = @ \ {c}]
            /\ UNCHANGED <<upload, blocked, input, pc, seen, pos, got, saved>>

\* DeleteExpired lists the upload, and removes it if it is expired still.
SweepList == At(Sweeper, "idle") /\ row /\ expired /\ Move(Sweeper, "sdelete")

SweepDelete ==
    /\ At(Sweeper, "sdelete")
    /\ \/ row /\ expired /\ RemoveUpload(Sweeper)
       \/ ~(row /\ expired) /\ Move(Sweeper, EndOf(Sweeper))
       \/ DbError(Sweeper)

Sweep == SweepList \/ SweepDelete \/ RemoveObjects(Sweeper)

------------------------------------------------------------------------------
\* TusUploadTTL passes without a chunk.
Expire ==
    /\ "expire" \in Events
    /\ row /\ ~expired
    /\ expired' = TRUE
    /\ UNCHANGED <<row, offset, chunks, objects, blocked, input, pc, local, saved>>

\* A moderator blocks the key.
Block ==
    /\ "block" \in Events
    /\ ~blocked /\ blocked' = TRUE
    /\ UNCHANGED <<upload, objects, input, pc, local, saved>>

Crash(r) ==
    /\ "crash" \in Faults
    /\ pc[r] \notin {"idle", "done"}
    /\ Move(r, EndOf(r))

Patch(r) ==
    \/ BlocklistCheck(r) \/ AppendChunk(r) \/ RecordChunk(r) \/ RemoveOwnBytes(r)
    \/ ListUpload(r) \/ ReadChunk(r) \/ MatchStoredTail(r) \/ FinalCheck(r) \/ Finalize(r)

Next ==
    \/ Create
    \/ \E r \in Requests : Start(r) \/ LoadUpload(r)
    \/ \E r \in Requests \cup {Creator} : Patch(r) \/ DeleteUpload(r) \/ RemoveObjects(r)
    \/ Sweep \/ Expire \/ Block
    \/ \E r \in Actors : Crash(r)

Spec == Init /\ [][Next]_vars

\* The sweep's loop goes on until the process stops, and tries again at each
\* tick what the database refused: a database that answers now and then lets it
\* delete in the end.  Nobody else owes a step.
FairSpec == Spec /\ WF_vars(Sweep) /\ SF_vars(SweepDelete /\ ~row')

------------------------------------------------------------------------------
\* The state's types; no chunk runs past the declared length.
Chunk == [at : 0..Length, size : 1..Length, key : (0..Length) \X Actors]

TypeOK ==
    /\ row \in BOOLEAN /\ expired \in BOOLEAN /\ blocked \in BOOLEAN
    /\ offset \in 0..Length
    /\ chunks \subseteq Chunk
    /\ op \in [Actors -> OpNames \cup {"create", "sweep"}]
    /\ from \in [Actors -> 0..Length] /\ len \in [Actors -> 0..(Length + 1)]
    /\ pc \in [Actors -> Labels]
    /\ seen \in [Actors -> 0..Length]
    /\ todo \in [Actors -> SUBSET Chunk]

\* The bytes of c.
Covers(c, b) == c.at <= b /\ b < c.at + c.size

\* While the upload lives, each byte below its offset is in exactly one chunk
\* and no chunk reaches beyond: of two requests that race for one offset only
\* one is recorded (tus_store.go: "cannot both win").
ChunksTile ==
    /\ ~row => chunks = {}
    /\ \A c \in chunks : c.at + c.size <= offset
    /\ row => \A b \in 0..(offset - 1) : \E c \in chunks : Covers(c, b)
    /\ \A c, d \in chunks, b \in 0..(Length - 1) : Covers(c, b) /\ Covers(d, b) => c = d

\* A recorded chunk has its bytes, whatever fails: the loser of a race and the
\* deleter of the upload never remove the bytes of a chunk that counts
\* (tus_store.go: "without touching the winner's").
RecordedBytesStored == \A c \in chunks : c.key \in objects

AllQuiet == \A r \in Actors : pc[r] \in {"idle", "done"}

\* When nothing is under way every object belongs to a recorded chunk: a chunk
\* that races the removal of its upload leaves no bytes behind (tus_store.go,
\* Delete).
NoBytesLeftBehind == AllQuiet => objects \subseteq {c.key : c \in chunks}

\* A blob is never made of some of the chunks: it has every byte or none.
Whole(S) == \A b \in 0..(Length - 1) : \E c \in S : Covers(c, b)
NeverTorn == \A S \in saved : S = {} \/ Whole(S)

\* core/tus.go: "ReadAll returns the upload's bytes, in order": what is saved
\* is the upload, all of it.
SavedWhole == \A S \in saved : Whole(S)

\* An upload whose time has passed goes, or gains a chunk, in the end.
AbandonedRemoved == (row /\ expired) ~> ~(row /\ expired)

\* The upload as a client sees it: who deletes its row removes it.
Upload == INSTANCE ResumableUpload WITH
    Writers <- Actors, size <- offset, pieces <- chunks, made <- saved,
    status <- IF row THEN "open" ELSE IF pc[Creator] = "idle" THEN "none" ELSE "gone"

\* Requests that race for an offset, retries that finalize again, deletions and
\* the sweep, on whatever replicas, keep the promises of one resumable upload:
\* above all, the blobs that several finalizations make of it are the same
\* (tus_controller.go, finalizeUpload; tus_store.go, recordChunk and ReadFrom).
UploadPromised == Upload!UploadSpec
==============================================================================
