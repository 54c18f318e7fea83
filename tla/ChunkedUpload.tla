---------------------------- MODULE ChunkedUpload ----------------------------
(***************************************************************************)
(* One session of a chunked upload: its row and chunk rows in the          *)
(* database, its chunk files in the server's temporary directory, the      *)
(* requests that fill, complete and abort it, and the worker that removes  *)
(* sessions whose time has passed.  Each statement and each file operation *)
(* is one step; the session is shared by requests that run concurrently.   *)
(***************************************************************************)
EXTENDS Integers, FiniteSets

CONSTANTS
    TotalChunks,    \* chunks of the session, by its total and its chunk size
    Bodies,         \* the bytes a client may send as a chunk
    Requests,       \* identities of the requests: the bound on their number
    Ops,            \* what they are, a subset of OpNames
    Faults,         \* what may fail, a subset of FaultNames
    Workers         \* {"cleanup"} where StartCleanupWorker is called, {} where not

OpNames == {"chunk", "complete", "abort"}

\* "db" an error of a statement; "file" an error of a file operation; "crash"
\* the server dies in the middle of a request.
FaultNames == {"db", "file", "crash"}

ChunkedAssumption ==
    /\ TotalChunks \in Nat \ {0}
    /\ Ops \subseteq OpNames
    /\ Faults \subseteq FaultNames
    /\ Workers \subseteq {"cleanup"}

Nums == 0..(TotalChunks - 1)

VARIABLES
    status,     \* upload_sessions.status; "new" before the session, "none" after its row
    received,   \* upload_sessions.chunks_received
    overdue,    \* its expires_at has passed
    recorded,   \* upload_chunks: chunk number and (the hash of) its bytes
    dir, files, \* the session's directory, and the chunk files in it
    \* each request; the first three are its input, any value from the start
    op, num, body,
    pc,         \* the step it makes next
    seen,       \* chunks_received as it read it
    listed,     \* complete: the chunk rows it listed
    parts,      \* complete: the chunks assembled so far
    cleaning,   \* the worker has deleted the row and not yet the directory
    \* history: every chunk row there ever was, and the contents of the blobs made
    everRecorded, saved

session == <<status, received, overdue>>
input == <<op, num, body>>
local == <<seen, listed, parts>>
history == <<everRecorded, saved>>
vars == <<status, received, overdue, recorded, dir, files, op, num, body, pc, seen, listed, parts,
          cleaning, everRecorded, saved>>

Labels == {"idle", "get", "expire", "dup", "write", "record", "unwrite", "progress", "list",
           "read", "save", "mark", "clean", "amark", "aclean", "arows", "done"}

Init ==
    /\ status = "new" /\ received = 0 /\ overdue = FALSE
    /\ recorded = {} /\ dir = FALSE /\ files = {}
    /\ op \in [Requests -> Ops] /\ num \in [Requests -> Nums] /\ body \in [Requests -> Bodies]
    /\ pc = [r \in Requests |-> "idle"]
    /\ seen = [r \in Requests |-> 0]
    /\ listed = [r \in Requests |-> {}] /\ parts = [r \in Requests |-> {}]
    /\ cleaning = FALSE
    /\ everRecorded = {} /\ saved = {}

------------------------------------------------------------------------------
At(r, l) == pc[r] = l
Goto(r, l) == pc' = [pc EXCEPT ![r] = l]

Move(r, l) ==
    Goto(r, l) /\ UNCHANGED <<session, recorded, dir, files, input, local, cleaning, history>>
DbError(r) == "db" \in Faults /\ Move(r, "done")

\* The statements on the session, and the rows of one chunk.
CreateUploadSession == status' = "active" /\ UNCHANGED <<received, overdue>>
UpdateUploadSessionStatus(s) ==
    status' = (IF status = "none" THEN "none" ELSE s) /\ UNCHANGED <<received, overdue>>
UpdateUploadSessionProgress(n) ==
    received' = (IF status = "none" THEN received ELSE n) /\ UNCHANGED <<status, overdue>>
DeleteUploadSession == status' = "none" /\ UNCHANGED <<received, overdue>>
GetUploadSession == status \notin {"new", "none"}
GetUploadChunk(n) == {c \in recorded : c[1] = n}

\* CreateSession: the row and the directory; nobody has the id before both are
\* there.  When the directory cannot be made the row goes again.
CreateSession ==
    /\ status = "new"
    /\ \/ CreateUploadSession /\ dir' = TRUE
       \/ "file" \in Faults /\ DeleteUploadSession /\ UNCHANGED dir
    /\ UNCHANGED <<recorded, files, input, pc, local, cleaning, history>>

Start(r) == At(r, "idle") /\ status # "new" /\ Move(r, "get")

\* The session as the request loads it: only UploadChunk looks at its time, and
\* only AbortUpload does not ask for its status.
Load(r, o) == At(r, "get") /\ op[r] = o
Refuse(r, cond) == Move(r, "done") /\ cond

UploadChunk(r) ==
    /\ Load(r, "chunk")
    /\ \/ /\ status = "active"
          /\ seen' = [seen EXCEPT ![r] = received]
          /\ Goto(r, IF overdue THEN "expire" ELSE "dup")
          /\ UNCHANGED <<session, recorded, dir, files, input, listed, parts, cleaning, history>>
       \/ Refuse(r, status # "active" \/ "db" \in Faults)

Incomplete == received # TotalChunks

CompleteUpload(r) ==
    /\ Load(r, "complete")
    /\ \/ status = "active" /\ ~Incomplete /\ Move(r, "list")
       \/ Refuse(r, status # "active" \/ Incomplete \/ "db" \in Faults)

AbortUpload(r) ==
    /\ Load(r, "abort")
    /\ \/ GetUploadSession /\ Move(r, "amark")
       \/ Refuse(r, ~GetUploadSession \/ "db" \in Faults)

\* The new status is stored, whatever the old one is by now.
SetStatus(r, s, l) ==
    /\ UpdateUploadSessionStatus(s)
    /\ Goto(r, l)
    /\ UNCHANGED <<recorded, dir, files, input, local, cleaning, history>>

MarkExpired(r) == At(r, "expire") /\ (SetStatus(r, "expired", "done") \/ DbError(r))

\* A chunk that has a row is refused; an error of the lookup is not.
FindChunk(r) ==
    /\ At(r, "dup")
    /\ \/ GetUploadChunk(num[r]) # {} /\ Move(r, "done")
       \/ GetUploadChunk(num[r]) = {} /\ Move(r, "write")
       \/ "db" \in Faults /\ Move(r, "write")

\* The file of a chunk is named by its number alone: the last writer's stays.
MutantKeepsOld(n) == files
Others(n) == {f \in files : f[1] # n}

WriteChunk(r) ==
    /\ At(r, "write")
    /\ \/ /\ dir
          /\ files' = Others(num[r]) \cup {<<num[r], body[r]>>}
          /\ Goto(r, "record")
          /\ UNCHANGED <<session, recorded, dir, input, local, cleaning, history>>
       \/ (~dir \/ "file" \in Faults) /\ Move(r, "done")

\* CreateUploadChunk: refused when the chunk has a row or the session none.
Refused(r) == status = "none" \/ GetUploadChunk(num[r]) # {}

RecordChunk(r) ==
    /\ At(r, "record")
    /\ \/ /\ ~Refused(r)
          /\ recorded' = recorded \cup {<<num[r], body[r]>>}
          /\ everRecorded' = everRecorded \cup {<<num[r], body[r]>>}
          /\ Goto(r, "progress")
          /\ UNCHANGED <<session, dir, files, input, local, cleaning, saved>>
       \/ (Refused(r) \/ "db" \in Faults) /\ Move(r, "unwrite")

\* The cleanup of a refused chunk removes the file of that number.
RemoveChunkFile(r) ==
    /\ At(r, "unwrite")
    /\ files' \in {Others(num[r])} \cup (IF "file" \in Faults THEN {files} ELSE {})
    /\ Goto(r, "done")
    /\ UNCHANGED <<session, recorded, dir, input, local, cleaning, history>>

\* UpdateUploadSessionProgress stores the count read before, plus one.
UpdateProgress(r) ==
    /\ At(r, "progress")
    /\ \/ /\ UpdateUploadSessionProgress(seen[r] + 1)
          /\ Goto(r, "done")
          /\ UNCHANGED <<recorded, dir, files, input, local, cleaning, history>>
       \/ DbError(r)

------------------------------------------------------------------------------
\* CompleteUpload: the chunk rows, and then each file in turn.
ListChunks(r) ==
    /\ At(r, "list")
    /\ \/ /\ listed' = [listed EXCEPT ![r] = recorded]
          /\ Goto(r, IF Cardinality(recorded) = TotalChunks THEN "read" ELSE "done")
          /\ UNCHANGED <<session, recorded, dir, files, input, seen, parts, cleaning, history>>
       \/ DbError(r)

\* A file counts only if its hash is the one recorded.
MutantUnverified(r, f) == TRUE
Verified(r, f) == f \in listed[r]

ReadChunkFile(r) ==
    /\ At(r, "read")
    /\ LET n == Cardinality(parts[r]) IN
       \/ n = TotalChunks /\ Move(r, "save")
       \/ \E f \in files :
            /\ n < TotalChunks /\ f[1] = n /\ Verified(r, f)
            /\ parts' = [parts EXCEPT ![r] = @ \cup {f}]
            /\ UNCHANGED <<session, recorded, dir, files, input, pc, seen, listed, cleaning,
                           history>>
       \/ /\ n < TotalChunks
          /\ "file" \in Faults \/ ~\E f \in files : f[1] = n /\ Verified(r, f)
          /\ Move(r, "done")

\* The assembled bytes become a blob, unless their hash, a tier limit or the
\* save refuses.
SaveBlob(r) ==
    /\ At(r, "save")
    /\ \/ /\ saved' = saved \cup {parts[r]}
          /\ Goto(r, "mark")
          /\ UNCHANGED <<session, recorded, dir, files, input, local, cleaning, everRecorded>>
       \/ Move(r, "done")

MarkComplete(r) ==
    At(r, "mark") /\ (SetStatus(r, "complete", "clean") \/ ("db" \in Faults /\ Move(r, "clean")))

\* RemoveAll of the session's directory.
RemoveDir ==
    \/ dir' = FALSE /\ files' = {}
    \/ "file" \in Faults /\ UNCHANGED <<dir, files>>

CleanUp(r) ==
    /\ At(r, "clean")
    /\ RemoveDir
    /\ Goto(r, "done")
    /\ UNCHANGED <<session, recorded, input, local, cleaning, history>>

------------------------------------------------------------------------------
MarkAborted(r) == At(r, "amark") /\ (SetStatus(r, "aborted", "aclean") \/ DbError(r))

MutantKeepsFiles(r) == At(r, "aclean") /\ Move(r, "arows")
AbortFiles(r) ==
    /\ At(r, "aclean")
    /\ RemoveDir
    /\ Goto(r, "arows")
    /\ UNCHANGED <<session, recorded, input, local, cleaning, history>>

AbortChunks(r) ==
    /\ At(r, "arows")
    /\ recorded' = {} \/ ("db" \in Faults /\ UNCHANGED recorded)
    /\ Goto(r, "done")
    /\ UNCHANGED <<session, dir, files, input, local, cleaning, history>>

------------------------------------------------------------------------------
\* CleanupExpiredSessions: the row, whatever its status, with its chunk rows;
\* then the directory.
MutantOnlyActive == overdue /\ status = "active"
SessionOverdue == overdue /\ GetUploadSession

DeleteExpired ==
    /\ "cleanup" \in Workers
    /\ SessionOverdue
    /\ DeleteUploadSession /\ recorded' = {}
    /\ cleaning' = TRUE
    /\ UNCHANGED <<dir, files, input, pc, local, history>>

RemoveExpiredDir ==
    /\ cleaning
    /\ RemoveDir
    /\ cleaning' = FALSE
    /\ UNCHANGED <<session, recorded, input, pc, local, history>>

Cleanup == DeleteExpired \/ RemoveExpiredDir

\* expires_at passes.
Lapse ==
    /\ ~overdue /\ GetUploadSession
    /\ overdue' = TRUE
    /\ UNCHANGED <<status, received, recorded, dir, files, input, pc, local, cleaning, history>>

Crash(r) ==
    /\ "crash" \in Faults
    /\ pc[r] \notin {"idle", "done"}
    /\ Move(r, "done")

ChunkStep(r) ==
    \/ MarkExpired(r) \/ FindChunk(r) \/ WriteChunk(r) \/ RecordChunk(r) \/ RemoveChunkFile(r)
    \/ UpdateProgress(r)
CompleteStep(r) ==
    ListChunks(r) \/ ReadChunkFile(r) \/ SaveBlob(r) \/ MarkComplete(r) \/ CleanUp(r)
AbortStep(r) == MarkAborted(r) \/ AbortFiles(r) \/ AbortChunks(r)
Handle(r) ==
    \/ UploadChunk(r) \/ ChunkStep(r)
    \/ CompleteUpload(r) \/ CompleteStep(r)
    \/ AbortUpload(r) \/ AbortStep(r)

Next ==
    \/ CreateSession \/ Cleanup \/ Lapse
    \/ \E r \in Requests : Start(r) \/ Handle(r) \/ Crash(r)

Spec == Init /\ [][Next]_vars

\* Handlers run to their end, time passes, and a worker that has been started
\* ticks on; nobody has to send a request.
Fairness ==
    /\ \A r \in Requests : WF_vars(Handle(r))
    /\ WF_vars(Lapse) /\ WF_vars(Cleanup)

FairSpec == Spec /\ Fairness

------------------------------------------------------------------------------
\* The state's types; a chunk has one file and one row.
TypeOK ==
    /\ status \in {"new", "active", "complete", "expired", "aborted", "none"}
    /\ received \in Nat /\ overdue \in BOOLEAN /\ dir \in BOOLEAN /\ cleaning \in BOOLEAN
    /\ recorded \subseteq Nums \X Bodies /\ files \subseteq Nums \X Bodies
    /\ \A S \in {recorded, files} : \A f, g \in S : f[1] = g[1] => f = g
    /\ num \in [Requests -> Nums] /\ body \in [Requests -> Bodies]
    /\ pc \in [Requests -> Labels]
    /\ seen \in [Requests -> Nat]

Quiet == (\A r \in Requests : pc[r] \in {"idle", "done"}) /\ ~cleaning

\* Whatever fails, a blob made of a session has every chunk once, each with
\* bytes that a request recorded: of two requests that send one chunk, the
\* loser's bytes never end up in the blob, though its file may replace the
\* winner's (CompleteUpload, "Verify chunk hash").
SavedAsRecorded ==
    \A S \in saved : S \subseteq everRecorded /\ {f[1] : f \in S} = Nums
                       /\ Cardinality(S) = TotalChunks

\* When nothing is under way, a session that has been completed, aborted or
\* removed has no chunk files left: no late chunk brings its directory back.
NoFilesLeft == Quiet /\ status \in {"complete", "aborted", "none"} => files = {}

\* core/chunked_upload.go: "ChunksReceived ... Number of chunks received": when
\* nothing is under way an active session has counted the chunks it has.
CountsItsChunks == Quiet /\ status = "active" => received = Cardinality(recorded)

\* core/chunked_upload.go: "CleanupExpiredSessions removes expired sessions and
\* their data": a session whose time has passed goes in the end.
OverdueRemoved == overdue ~> status = "none"
==============================================================================
