----------------------------- MODULE MediaProofs -----------------------------
(***************************************************************************)
(* Proofs about bytes and what is made of them: chunked uploads, the files *)
(* of the local backend, the cache of mirrored media, the files of a       *)
(* transcoded video and the scans of an upload.  For any number of chunks, *)
(* files, requests, replicas, qualities, providers and detections.         *)
(***************************************************************************)
EXTENDS ChunkedUpload, LocalStorage, MediaMirror, VideoJobs, ContentScans, SumTheorems, SequenceTheorems

------------------------------------------------------------------------------
\* CHUNKED UPLOADS.
\* What is assembled so far: the chunks below a number, each once, each as a
\* request recorded it.
Prefix(S) ==
    /\ IsFiniteSet(S) /\ Cardinality(S) <= TotalChunks
    /\ \A f \in S : f[1] \in 0..(Cardinality(S) - 1)
    /\ \A n \in 0..(Cardinality(S) - 1) : \E f \in S : f[1] = n

Assembled ==
    /\ recorded \subseteq everRecorded
    /\ listed \in [Requests -> SUBSET everRecorded]
    /\ parts \in [Requests -> SUBSET everRecorded]
    /\ \A r \in Requests : Prefix(parts[r]) /\ (At(r, "save") => Cardinality(parts[r]) = TotalChunks)

\* No request has the session before there is one, and the directory is made
\* with it.
NotBefore == status = "new" => ~dir /\ \A r \in Requests : At(r, "idle")
FilesInDir == ~dir => files = {}

ChunkedInv == TypeOK /\ Assembled /\ NotBefore /\ FilesInDir /\ SavedAsRecorded

\* Of a session that is over, whoever ended it has still to remove the directory.
Removes(r) == pc[r] \in {"clean", "aclean"}
Removal == status \in {"complete", "aborted", "none"} /\ dir => cleaning \/ \E r \in Requests : Removes(r)

\* No chunk is a prefix too.
LEMMA EmptyPrefix == ASSUME ChunkedAssumption PROVE Prefix({})
BY FS_EmptySet DEF ChunkedAssumption, Prefix

\* A verified chunk file continues what is assembled.
LEMMA NextPrefix ==
    ASSUME ChunkedAssumption, NEW S, Prefix(S), NEW f, f[1] = Cardinality(S),
           Cardinality(S) < TotalChunks
    PROVE  Prefix(S \cup {f})
<1>1. Cardinality(S) \in Nat
  BY FS_CardinalityType DEF Prefix
<1>2. f \notin S
  BY <1>1 DEF Prefix
<1>3. IsFiniteSet(S \cup {f}) /\ Cardinality(S \cup {f}) = Cardinality(S) + 1
  BY <1>2, FS_AddElement DEF Prefix
<1>4. \A n \in 0..Cardinality(S) : n = Cardinality(S) \/ n \in 0..(Cardinality(S) - 1)
  BY <1>1
<1>5. \A g \in S \cup {f} : g[1] \in 0..Cardinality(S)
  BY <1>1 DEF Prefix
<1>6. \A n \in 0..Cardinality(S) : \E g \in S \cup {f} : g[1] = n
  BY <1>1, <1>4 DEF Prefix
<1>7. Cardinality(S \cup {f}) - 1 = Cardinality(S) /\ Cardinality(S \cup {f}) <= TotalChunks
  BY <1>1, <1>3 DEF ChunkedAssumption
<1> QED BY <1>3, <1>5, <1>6, <1>7 DEF Prefix

\* All of it has each chunk of the session.
LEMMA WholePrefix ==
    ASSUME ChunkedAssumption, NEW S, Prefix(S), Cardinality(S) = TotalChunks
    PROVE  {f[1] : f \in S} = Nums
BY DEF Prefix, Nums, ChunkedAssumption

\* The session begins within the invariant.
LEMMA ChunkedInit == ASSUME ChunkedAssumption, Init PROVE ChunkedInv /\ Removal
BY EmptyPrefix DEF ChunkedAssumption, Init, ChunkedInv, TypeOK, Assembled, NotBefore, FilesInDir,
   SavedAsRecorded, Removal, At, Labels

\* A step that changes no file, no row of a chunk and nothing assembled.
LEMMA SessionStep ==
    ASSUME ChunkedAssumption, ChunkedInv, UNCHANGED <<recorded, files, listed, parts, history>>,
           TypeOK', NotBefore',
           dir => dir', \A r \in Requests : At(r, "save")' => At(r, "save")
    PROVE  ChunkedInv'
BY DEF ChunkedInv, Assembled, FilesInDir, SavedAsRecorded, history, At

\* A step that only decides keeps it.
LEMMA MoveStep ==
    ASSUME ChunkedAssumption, ChunkedInv, NEW r \in Requests, NEW l \in Labels \ {"save"},
           Move(r, l),
           status # "new"
    PROVE  ChunkedInv'
<1>1. TypeOK' /\ NotBefore'
  BY DEF ChunkedInv, TypeOK, NotBefore, Move, Goto, session, input, local, history
<1> QED BY <1>1, SessionStep DEF ChunkedInv, TypeOK, Move, Goto, session, input, local, history, At

\* So does a step that changes the session's status.
LEMMA StatusStep ==
    ASSUME ChunkedAssumption, ChunkedInv, NEW r \in Requests, NEW l \in Labels \ {"save"},
           NEW s \in {"expired", "complete", "aborted"}, SetStatus(r, s, l), status # "new"
    PROVE  ChunkedInv'
<1>1. TypeOK' /\ NotBefore'
  BY DEF ChunkedInv, TypeOK, NotBefore, SetStatus, UpdateUploadSessionStatus, Goto, input, local,
  history
<1> QED BY <1>1, SessionStep DEF ChunkedInv, TypeOK, SetStatus, Goto, input, local, history, At

\* And so does every other step.
LEMMA ChunkedStep == ASSUME ChunkedAssumption, ChunkedInv, [Next]_vars PROVE ChunkedInv'
<1>1. CASE UNCHANGED vars
  BY <1>1 DEF vars, ChunkedInv, TypeOK, Assembled, NotBefore, FilesInDir, SavedAsRecorded, At
<1>2. CASE CreateSession
  <2>1. TypeOK' /\ NotBefore'
    BY <1>2 DEF ChunkedInv, TypeOK, NotBefore, CreateSession, CreateUploadSession, DeleteUploadSession,
                input, local, history, At
  <2> QED BY <1>2, <2>1, SessionStep DEF CreateSession, input, local, history, At
<1>3. CASE DeleteExpired
  BY <1>3 DEF ChunkedInv, TypeOK, Assembled, NotBefore, FilesInDir, SavedAsRecorded, DeleteExpired,
     DeleteUploadSession, SessionOverdue, GetUploadSession, input, local, history, At
<1>4. CASE RemoveExpiredDir
  <2>1. TypeOK' /\ NotBefore' /\ FilesInDir'
    <3>1. /\ UNCHANGED <<status, received, overdue, recorded, op, num, body, pc, seen>>
          /\ cleaning' = FALSE
          /\ (dir' = FALSE /\ files' = {}) \/ UNCHANGED <<dir, files>>
      BY <1>4 DEF RemoveExpiredDir, RemoveDir, session, input, local
    <3>2. CASE dir' = FALSE /\ files' = {}
      BY <3>1, <3>2 DEF ChunkedInv, TypeOK, NotBefore, FilesInDir, At
    <3>3. CASE UNCHANGED <<dir, files>>
      BY <3>1, <3>3 DEF ChunkedInv, TypeOK, NotBefore, FilesInDir, At
    <3> QED BY <3>1, <3>2, <3>3
  <2> QED BY <1>4, <2>1 DEF ChunkedInv, Assembled, SavedAsRecorded, RemoveExpiredDir, local, history, At
<1>5. CASE Lapse
  <2>1. TypeOK' /\ NotBefore'
    BY <1>5 DEF ChunkedInv, TypeOK, NotBefore, Lapse, GetUploadSession, At, input, local
  <2> QED BY <1>5, <2>1, SessionStep DEF Lapse, local, history, At
<1>6. ASSUME NEW r \in Requests, Start(r) \/ Handle(r) \/ Crash(r) PROVE status # "new"
  BY <1>6 DEF ChunkedInv, NotBefore, At, Start, Handle, Crash, Load, UploadChunk, CompleteUpload, AbortUpload,
     ChunkStep, CompleteStep, AbortStep, MarkExpired, FindChunk, WriteChunk, RecordChunk,
     RemoveChunkFile,
     UpdateProgress, ListChunks, ReadChunkFile, SaveBlob, MarkComplete, CleanUp, MarkAborted,
     AbortFiles,
     AbortChunks
<1>7. ASSUME NEW r \in Requests,
             Start(r) \/ Crash(r) \/ CompleteUpload(r) \/ AbortUpload(r) \/ FindChunk(r)
      PROVE  ChunkedInv'
  BY <1>6, <1>7, MoveStep
     DEF Start, Crash, CompleteUpload, AbortUpload, FindChunk, Refuse, Handle, ChunkStep, Labels
<1>8. ASSUME NEW r \in Requests,
             MarkExpired(r) \/ MarkComplete(r) \/ MarkAborted(r) PROVE ChunkedInv'
  BY <1>6, <1>8, MoveStep, StatusStep
     DEF MarkExpired, MarkComplete, MarkAborted, DbError, Handle, ChunkStep, CompleteStep,
         AbortStep, Labels
<1>9. ASSUME NEW r \in Requests, UploadChunk(r) PROVE ChunkedInv'
  <2>1. CASE Refuse(r, status # "active" \/ "db" \in Faults)
    BY <1>6, <1>9, <2>1, MoveStep DEF Refuse, Handle, Labels
  <2>2. CASE /\ seen' = [seen EXCEPT ![r] = received]
             /\ Goto(r, IF overdue THEN "expire" ELSE "dup")
             /\ UNCHANGED <<session, recorded, dir, files, input, listed, parts, cleaning, history>>
    <3>1. TypeOK' /\ NotBefore'
      BY <1>6, <1>9, <2>2 DEF Handle, ChunkedInv, TypeOK, NotBefore, Goto, session, input, history, Labels
    <3> QED BY <2>2, <3>1, SessionStep DEF ChunkedInv, TypeOK, Goto, At
  <2> QED BY <1>9, <2>1, <2>2 DEF UploadChunk
<1>10. ASSUME NEW r \in Requests, WriteChunk(r) PROVE ChunkedInv'
  <2>1. CASE Move(r, "done")
    BY <1>6, <1>10, <2>1, MoveStep DEF Handle, ChunkStep, Labels
  <2>2. CASE /\ dir
             /\ files' = Others(num[r]) \cup {<<num[r], body[r]>>}
             /\ Goto(r, "record")
             /\ UNCHANGED <<session, recorded, dir, input, local, cleaning, history>>
    <3>1. files' \subseteq Nums \X Bodies /\ \A f, g \in files' : f[1] = g[1] => f = g
      BY <2>2 DEF ChunkedInv, TypeOK, Others
    <3>2. pc' \in [Requests -> Labels]
      BY <2>2 DEF ChunkedInv, TypeOK, Goto, Labels
    <3>3. TypeOK'
      BY <2>2, <3>1, <3>2 DEF ChunkedInv, TypeOK, session, input, local
    <3> QED BY <1>6, <1>10, <2>2, <3>3
            DEF Handle, ChunkStep, ChunkedInv, TypeOK, Assembled, NotBefore, FilesInDir,
                SavedAsRecorded,
                Goto, session,
                local, history, At
  <2> QED BY <1>10, <2>1, <2>2 DEF WriteChunk
<1>11. ASSUME NEW r \in Requests, RecordChunk(r) PROVE ChunkedInv'
  <2>1. CASE Move(r, "unwrite")
    BY <1>6, <1>11, <2>1, MoveStep DEF Handle, ChunkStep, Labels
  <2>2. CASE /\ ~Refused(r)
             /\ recorded' = recorded \cup {<<num[r], body[r]>>}
             /\ everRecorded' = everRecorded \cup {<<num[r], body[r]>>}
             /\ Goto(r, "progress")
             /\ UNCHANGED <<session, dir, files, input, local, cleaning, saved>>
    <3>1. recorded' \subseteq Nums \X Bodies /\ \A f, g \in recorded' : f[1] = g[1] => f = g
      BY <2>2 DEF ChunkedInv, TypeOK, Refused, GetUploadChunk
    <3>2. pc' \in [Requests -> Labels]
      BY <2>2 DEF ChunkedInv, TypeOK, Goto, Labels
    <3>3. TypeOK'
      BY <2>2, <3>1, <3>2 DEF ChunkedInv, TypeOK, session, input, local
    <3> QED BY <1>6, <1>11, <2>2, <3>3
            DEF Handle, ChunkStep, ChunkedInv, TypeOK, Assembled, NotBefore, FilesInDir,
                SavedAsRecorded,
                Goto, session,
                local, At
  <2> QED BY <1>11, <2>1, <2>2 DEF RecordChunk
<1>12. ASSUME NEW r \in Requests, RemoveChunkFile(r) PROVE ChunkedInv'
  BY <1>6, <1>12
     DEF Handle, ChunkStep, RemoveChunkFile, ChunkedInv, TypeOK, Assembled, NotBefore, FilesInDir,
         SavedAsRecorded,
         Others, Goto, session, input, local, history, At, Labels
<1>13. ASSUME NEW r \in Requests, UpdateProgress(r) PROVE ChunkedInv'
  <2>1. CASE DbError(r)
    BY <1>6, <1>13, <2>1, MoveStep DEF Handle, ChunkStep, DbError, Labels
  <2>2. CASE /\ UpdateUploadSessionProgress(seen[r] + 1)
             /\ Goto(r, "done")
             /\ UNCHANGED <<recorded, dir, files, input, local, cleaning, history>>
    <3>1. TypeOK' /\ NotBefore'
      BY <1>6, <1>13, <2>2
         DEF Handle, ChunkStep, ChunkedInv, TypeOK, NotBefore, UpdateUploadSessionProgress, Goto,
             input,
             local,
             history, Labels
    <3> QED BY <2>2, <3>1, SessionStep DEF ChunkedInv, TypeOK, Goto, local, At
  <2> QED BY <1>13, <2>1, <2>2 DEF UpdateProgress
<1>14. ASSUME NEW r \in Requests, ListChunks(r) PROVE ChunkedInv'
  <2>1. CASE DbError(r)
    BY <1>6, <1>14, <2>1, MoveStep DEF Handle, CompleteStep, DbError, Labels
  <2> QED BY <1>6, <1>14, <2>1
          DEF Handle, CompleteStep, ListChunks, ChunkedInv, TypeOK, Assembled, NotBefore,
              FilesInDir,
              SavedAsRecorded, Goto, session, input, history, At, Labels
<1>15. ASSUME NEW r \in Requests, ReadChunkFile(r) PROVE ChunkedInv'
  <2>1. CASE Move(r, "done")
    BY <1>6, <1>15, <2>1, MoveStep DEF Handle, CompleteStep, Labels
  <2>2. CASE Cardinality(parts[r]) = TotalChunks /\ Move(r, "save")
    BY <1>6, <1>15, <2>2
       DEF Handle, CompleteStep, ChunkedInv, TypeOK, Assembled, NotBefore, FilesInDir,
           SavedAsRecorded,
           Move, Goto,
           session, input, local, history, At, Labels
  <2>3. ASSUME NEW f \in files, Cardinality(parts[r]) < TotalChunks, f[1] = Cardinality(parts[r]),
               Verified(r, f), parts' = [parts EXCEPT ![r] = @ \cup {f}],
               UNCHANGED <<session, recorded, dir, files, input, pc, seen, listed, cleaning, history>>
        PROVE  ChunkedInv'
    <3>1. Prefix(parts[r] \cup {f})
      BY <2>3, NextPrefix DEF ChunkedInv, Assembled
    <3>2. parts[r] \cup {f} \subseteq everRecorded
      BY <2>3 DEF Verified, ChunkedInv, Assembled
    <3>3. pc[r] = "read"
      BY <1>15 DEF ReadChunkFile, At
    <3>4. Assembled'
      BY <2>3, <3>1, <3>2, <3>3 DEF ChunkedInv, Assembled, history, At
    <3> QED BY <2>3, <3>4
            DEF ChunkedInv, TypeOK, NotBefore, FilesInDir, SavedAsRecorded, session, input,
                history, At
  <2> QED BY <1>15, <2>1, <2>2, <2>3 DEF ReadChunkFile
<1>16. ASSUME NEW r \in Requests, SaveBlob(r) PROVE ChunkedInv'
  <2>1. CASE Move(r, "done")
    BY <1>6, <1>16, <2>1, MoveStep DEF Handle, CompleteStep, Labels
  <2>2. CASE /\ saved' = saved \cup {parts[r]}
             /\ Goto(r, "mark")
             /\ UNCHANGED <<session, recorded, dir, files, input, local, cleaning, everRecorded>>
    <3>1. /\ parts[r] \subseteq everRecorded /\ Cardinality(parts[r]) = TotalChunks
          /\ {f[1] : f \in parts[r]} = Nums
      BY <1>16, WholePrefix DEF SaveBlob, ChunkedInv, Assembled
    <3>2. SavedAsRecorded'
      BY <2>2, <3>1 DEF ChunkedInv, SavedAsRecorded
    <3> QED BY <1>6, <1>16, <2>2, <3>2
            DEF Handle, CompleteStep, ChunkedInv, TypeOK, Assembled, NotBefore, FilesInDir, Goto,
                session, input, local,
                At, Labels
  <2> QED BY <1>16, <2>1, <2>2 DEF SaveBlob
<1>17. ASSUME NEW r \in Requests, CleanUp(r) \/ AbortFiles(r) PROVE ChunkedInv'
  BY <1>6, <1>17
     DEF Handle, CompleteStep, AbortStep, CleanUp, AbortFiles, RemoveDir, ChunkedInv, TypeOK,
         Assembled,
         NotBefore,
         FilesInDir, SavedAsRecorded, Goto, session, input, local, history, At, Labels
<1>18. ASSUME NEW r \in Requests, AbortChunks(r) PROVE ChunkedInv'
  BY <1>6, <1>18
     DEF Handle, AbortStep, AbortChunks, ChunkedInv, TypeOK, Assembled, NotBefore, FilesInDir,
         SavedAsRecorded, Goto,
         session, input, local, history, At, Labels
<1> QED BY <1>1, <1>2, <1>3, <1>4, <1>5, <1>7, <1>8, <1>9, <1>10, <1>11, <1>12, <1>13, <1>14, <1>15,
           <1>16,
           <1>17, <1>18 DEF Next, Cleanup, Handle, ChunkStep, CompleteStep, AbortStep

\* So it is in every state.
LEMMA ChunkedInvariant == ASSUME ChunkedAssumption PROVE Spec => []ChunkedInv
<1>1. Init => ChunkedInv
  BY ChunkedInit
<1>2. ChunkedInv /\ [Next]_vars => ChunkedInv'
  BY ChunkedStep
<1> QED BY <1>1, <1>2, PTL DEF Spec

\* Types; a chunk has one row and one file, whichever requests race to send it
\* (RecordChunk, WriteChunk).
THEOREM ChunkedTypes == ASSUME ChunkedAssumption PROVE Spec => []TypeOK
<1>1. ChunkedInv => TypeOK
  BY DEF ChunkedInv
<1> QED BY <1>1, ChunkedInvariant, PTL

\* A blob made of a session has every chunk once, with bytes that a request
\* recorded (CompleteUpload), for any number of chunks and of requests that
\* send, complete and abort at the same time, and whatever fails.
THEOREM BlobsAsRecorded == ASSUME ChunkedAssumption PROVE Spec => []SavedAsRecorded
<1>1. ChunkedInv => SavedAsRecorded
  BY DEF ChunkedInv
<1> QED BY <1>1, ChunkedInvariant, PTL

\* No step of a session that is over makes its directory again, and the one that
\* ended it removes what there is.
LEMMA RemovalStep ==
    ASSUME ChunkedAssumption, {"file", "crash"} \cap Faults = {}, ChunkedInv, Removal, [Next]_vars
    PROVE  Removal'
<1> USE DEF Removes, session
<1>1. CASE UNCHANGED vars
  BY <1>1 DEF vars, Removal
<1>2. CASE CreateSession
  BY <1>2 DEF CreateSession, CreateUploadSession, Removal
<1>3. CASE DeleteExpired
  BY <1>3 DEF DeleteExpired, Removal
<1>4. CASE RemoveExpiredDir
  BY <1>4 DEF RemoveExpiredDir, RemoveDir, Removal
<1>5. CASE Lapse
  BY <1>5 DEF Lapse, Removal
\* A request that has nothing to remove.
<1>6. ASSUME NEW r \in Requests, NEW l, Goto(r, l), ~Removes(r), UNCHANGED <<status, dir, cleaning>>
      PROVE  Removal'
  BY <1>6 DEF Removal, Goto, ChunkedInv, TypeOK
<1>7. ASSUME NEW r \in Requests, UploadChunk(r) \/ FindChunk(r) \/ WriteChunk(r) \/ RecordChunk(r)
                                    \/ RemoveChunkFile(r) \/ UpdateProgress(r) \/ CompleteUpload(r)
                                    \/ ListChunks(r) \/ ReadChunkFile(r) \/ SaveBlob(r)
                                    \/ AbortUpload(r) \/ AbortChunks(r) \/ Start(r)
      PROVE  Removal'
  <2>1. ~Removes(r) /\ UNCHANGED <<status, dir, cleaning>>
    BY <1>7 DEF UploadChunk, FindChunk, WriteChunk, RecordChunk, RemoveChunkFile, UpdateProgress,
       CompleteUpload, ListChunks, ReadChunkFile, SaveBlob, AbortUpload, AbortChunks, Start, Load,
       At,
       Move,
       Refuse, DbError, UpdateUploadSessionProgress
  <2>2. (\E l : Goto(r, l)) \/ pc' = pc
    BY <1>7 DEF UploadChunk, FindChunk, WriteChunk, RecordChunk, RemoveChunkFile, UpdateProgress,
       CompleteUpload, ListChunks, ReadChunkFile, SaveBlob, AbortUpload, AbortChunks, Start, Move,
       Refuse, DbError
  <2> QED BY <1>6, <2>1, <2>2 DEF Removal
<1>8. ASSUME NEW r \in Requests, MarkExpired(r) PROVE Removal'
  BY <1>8 DEF MarkExpired, SetStatus, UpdateUploadSessionStatus, DbError, Move, Goto, At, Removal,
              ChunkedInv, TypeOK
<1>9. ASSUME NEW r \in Requests, MarkComplete(r) \/ MarkAborted(r) PROVE Removal'
  <2>1. CASE DbError(r)
    BY <1>6, <1>9, <2>1 DEF MarkComplete, MarkAborted, DbError, Move, At
  <2>2. ASSUME NEW l \in {"clean", "aclean"}, Goto(r, l) PROVE Removal'
    BY <2>2 DEF Goto, Removal, ChunkedInv, TypeOK
  <2> QED BY <1>9, <2>1, <2>2 DEF MarkComplete, MarkAborted, SetStatus, Move
<1>10. ASSUME NEW r \in Requests, CleanUp(r) \/ AbortFiles(r) PROVE Removal'
  BY <1>10 DEF CleanUp, AbortFiles, RemoveDir, Removal
<1>11. ASSUME NEW r \in Requests PROVE ~Crash(r)
  BY DEF Crash
<1> QED BY <1>1, <1>2, <1>3, <1>4, <1>5, <1>7, <1>8, <1>9, <1>10, <1>11
        DEF Next, Cleanup, Handle, ChunkStep, CompleteStep, AbortStep

\* When nothing is under way, a session that has been completed, aborted or
\* removed has no chunk files left (CompleteUpload, AbortUpload,
\* CleanupExpiredSessions): a late WriteChunk finds no directory.  That takes
\* file operations that work and a server that lives; statements may fail.
THEOREM NothingLeft ==
    ASSUME ChunkedAssumption, {"file", "crash"} \cap Faults = {}
    PROVE  Spec => []NoFilesLeft
<1>1. Init => ChunkedInv /\ Removal
  BY ChunkedInit
<1>2. (ChunkedInv /\ Removal) /\ [Next]_vars => (ChunkedInv /\ Removal)'
  BY ChunkedStep, RemovalStep
<1>3. ChunkedInv /\ Removal => NoFilesLeft
  BY DEF ChunkedInv, FilesInDir, Removal, NoFilesLeft, Quiet, Removes
<1> QED BY <1>1, <1>2, <1>3, PTL DEF Spec

------------------------------------------------------------------------------
\* THE LOCAL BACKEND.

\* A delete is one step, and a Put starts at the beginning of its source.
Started ==
    /\ \A c \in DiskCalls \ Puts : ~DiskRunning(c)
    /\ \A c \in DiskCalls : DiskAt(c, "idle") => diskOffset[c] = 0

\* The object and the temporary file are two files.
Apart == tmp = path => tmp = NoInode

\* A Put at work on the inode will have written every block it lacks.
WillBeWhole(i) ==
    \/ Whole(i)
    \/ \E c \in Puts : /\ DiskAt(c, "copy") /\ fd[c] = i
                       /\ \A b \in 1..Blocks : b > diskOffset[c] \/ b \in data[i]

\* Puts that share a temporary file complete each other: whoever emptied it last
\* writes all of it.
ClosedWhole == ~failed => \A i \in Inodes : i \in {tmp, path} => WillBeWhole(i)

\* A Put that runs alone has the temporary file to itself.
Alone ==
    ~overlapped =>
        /\ \A c, d \in Puts : DiskRunning(c) /\ DiskRunning(d) => c = d
        /\ path # NoInode => Whole(path)
        /\ \A c \in Puts :
             /\ DiskAt(c, "copy") => fd[c] = tmp /\ \A b \in 1..Blocks : b > diskOffset[c] \/ b \in data[tmp]
             /\ DiskAt(c, "rename") => tmp # NoInode /\ Whole(tmp)

DiskInv == DiskTypeOK /\ Started /\ Apart /\ ClosedWhole /\ Alone

\* No file is there at first.
LEMMA LocalInit == ASSUME LocalAssumption, DiskInit PROVE DiskInv
<1>1. DiskTypeOK
  <2>1. 0 \in 0..Blocks
    BY DEF LocalAssumption
  <2> QED BY <2>1 DEF DiskInit, DiskTypeOK, DiskAt
<1>2. Started /\ Apart /\ ClosedWhole /\ Alone
  BY DEF LocalAssumption, DiskInit, Started, Apart, ClosedWhole, Alone, DiskAt, DiskRunning,
  DiskCalls
<1> QED BY <1>1, <1>2 DEF DiskInv

\* os.Create finds an inode that no name and no open file refers to.
LEMMA InodeLeft ==
    ASSUME LocalAssumption, DiskTypeOK, Started, NEW c \in Puts, DiskAt(c, "idle"), tmp = NoInode
    PROVE  NewInode \in Inodes /\ Unused(NewInode)
<1> DEFINE S == Puts \ {c}
           T == {fd[d] : d \in S}
           f == [d \in S |-> fd[d]]
<1>1. IsFiniteSet(S) /\ Cardinality(S) = Cardinality(Puts) - 1 /\ Cardinality(Puts) \in Nat
  BY FS_RemoveElement, FS_CardinalityType DEF LocalAssumption
<1>2. f \in Surjection(S, T)
  BY DEF Surjection
<1>3. IsFiniteSet(T) /\ Cardinality(T) <= Cardinality(S) /\ Cardinality(T) \in Nat
  BY <1>1, <1>2, FS_Surjection, FS_CardinalityType
<1>4. /\ IsFiniteSet(T \cup {path}) /\ Cardinality(T \cup {path}) <= Cardinality(Puts)
      /\ Cardinality(T \cup {path}) \in Nat
  <2>1. IsFiniteSet(T \cup {path}) /\ Cardinality(T \cup {path}) \in Nat
    BY <1>3, FS_AddElement, FS_CardinalityType
  <2>2. Cardinality(T \cup {path}) = IF path \in T THEN Cardinality(T) ELSE Cardinality(T) + 1
    BY <1>3, FS_AddElement
  <2>3. Cardinality(T) <= Cardinality(Puts) - 1
    BY <1>1, <1>3
  <2> HIDE DEF T
  <2> QED BY <1>1, <1>3, <2>1, <2>2, <2>3
<1>5. \E i \in Inodes : i \notin T \cup {path}
  <2>1. SUFFICES ASSUME Inodes \subseteq T \cup {path} PROVE FALSE
    OBVIOUS
  <2>2. Cardinality(Inodes) <= Cardinality(T \cup {path})
    BY <1>4, <2>1, FS_Subset
  <2> QED BY <1>4, <2>2, FS_CardinalityType DEF LocalAssumption
<1>6. \A d \in DiskCalls : DiskRunning(d) => d \in S
  BY DEF Started, DiskAt, DiskRunning
<1>7. \E i \in Inodes : Unused(i)
  <2>1. PICK i \in Inodes : i \notin T \cup {path}
    BY <1>5
  <2>2. i # tmp
    BY DEF LocalAssumption
  <2>3. \A d \in DiskCalls : DiskRunning(d) => fd[d] # i
    BY <1>6, <2>1
  <2> QED BY <2>1, <2>2, <2>3 DEF Unused
<1> QED BY <1>7 DEF NewInode

\* Each system call of a Put, and each fault, keeps what the open files are.
LEMMA LocalStep == ASSUME LocalAssumption, DiskInv, [DiskNext]_diskVars PROVE DiskInv'
<1> USE DEF LocalAssumption, DiskAt, DiskGoto, diskFiles, DiskRunning, DiskCalls
<1>1. CASE UNCHANGED diskVars
  BY <1>1 DEF diskVars, DiskInv, DiskTypeOK, Started, Apart, ClosedWhole, Alone, WillBeWhole, Whole
\* The file that c empties, or makes, is not the object, and c has all of it to
\* write.
<1>2. ASSUME NEW c \in Puts, Create(c) PROVE DiskInv'
  <2>1. /\ tmp' \in Inodes /\ tmp' # path
        /\ tmp = NoInode => \A d \in DiskCalls : DiskRunning(d) => fd[d] # tmp'
    <3>1. CASE tmp = NoInode
      BY <1>2, <3>1, InodeLeft DEF Create, DiskInv, Unused
    <3>2. CASE tmp # NoInode
      BY <1>2, <3>2 DEF Create, DiskInv, DiskTypeOK, Apart
    <3> QED BY <3>1, <3>2
  <2>2. DiskTypeOK' /\ Started' /\ Apart'
    BY <1>2, <2>1 DEF Create, DiskInv, DiskTypeOK, Started, Apart
  <2>3. ClosedWhole'
    <3>1. ASSUME NEW i \in Inodes, i = tmp' PROVE WillBeWhole(i)'
      <4>1. diskPc'[c] = "copy" /\ fd'[c] = i /\ diskOffset'[c] = 0
        BY <1>2, <3>1 DEF Create, DiskInv, DiskTypeOK, Started
      <4> QED BY <4>1 DEF WillBeWhole
    <3>2. ASSUME ~failed, path \in Inodes PROVE WillBeWhole(path)'
      BY <1>2, <2>1, <3>2 DEF Create, DiskInv, DiskTypeOK, ClosedWhole, WillBeWhole, Whole
    <3> QED BY <1>2, <3>1, <3>2 DEF Create, ClosedWhole
  <2>4. Alone'
    <3>1. SUFFICES ASSUME ~overlapped, \A d \in Puts : ~DiskRunning(d) PROVE Alone'
      BY <1>2 DEF Create, Alone
    <3> QED BY <1>2, <2>1, <2>2, <3>1 DEF Create, DiskInv, DiskTypeOK, Alone, Whole, Started
  <2> QED BY <2>2, <2>3, <2>4 DEF DiskInv
<1>3. ASSUME NEW c \in Puts, DiskCopy(c) PROVE DiskInv'
  <2>1. /\ fd[c] \in Inodes
        /\ diskOffset[c] \in Nat
        /\ diskOffset'[c] = diskOffset[c] + 1
        /\ diskOffset[c] + 1 \in 1..Blocks
    BY <1>3 DEF DiskCopy, DiskInv, DiskTypeOK
  <2>2. \A i \in Inodes : data[i] \subseteq data'[i] /\ data'[i] \subseteq 1..Blocks
    BY <1>3, <2>1 DEF DiskCopy, DiskInv, DiskTypeOK
  <2>3. diskOffset[c] + 1 \in data'[fd[c]]
    BY <1>3, <2>1 DEF DiskCopy, DiskInv, DiskTypeOK
  <2>4. DiskTypeOK' /\ Started' /\ Apart'
    BY <1>3, <2>1, <2>2 DEF DiskCopy, DiskInv, DiskTypeOK, Started, Apart
  <2>5. \A i \in Inodes : Whole(i) => Whole(i)'
    BY <2>2 DEF Whole
  <2>6. \A b \in 1..Blocks : b > diskOffset[c] => b > diskOffset'[c] \/ b \in data'[fd[c]]
    BY <2>1, <2>3
  <2>7. \A i \in Inodes : WillBeWhole(i) => WillBeWhole(i)'
    BY <1>3, <2>2, <2>5, <2>6 DEF DiskCopy, WillBeWhole, DiskInv, DiskTypeOK
  <2>8. ClosedWhole'
    BY <1>3, <2>7 DEF DiskCopy, DiskInv, ClosedWhole
  <2>9. Alone'
    BY <1>3, <2>2, <2>5, <2>6 DEF DiskCopy, DiskInv, DiskTypeOK, Alone
  <2> QED BY <2>4, <2>8, <2>9 DEF DiskInv
<1>4. ASSUME NEW c \in Puts, FailCopy(c) PROVE DiskInv'
  BY <1>4 DEF FailCopy, AfterError, DiskInv, DiskTypeOK, Started, Apart, ClosedWhole, Alone, Whole
\* What c has written to the end is whole, if c alone wrote it or covered what it
\* lacked.
<1>5. ASSUME NEW c \in Puts, DiskClose(c) PROVE DiskInv'
  <2>1. diskOffset[c] = Blocks /\ fd[c] \in Inodes
    BY <1>5 DEF DiskClose, Written, DiskInv, DiskTypeOK
  <2>2. \A i \in Inodes : (\A b \in 1..Blocks : b > diskOffset[c] \/ b \in data[i]) => Whole(i)
    <3> SUFFICES ASSUME NEW i \in Inodes, \A b \in 1..Blocks : b > diskOffset[c] \/ b \in data[i]
                 PROVE  Whole(i)
      OBVIOUS
    <3>1. data[i] \subseteq 1..Blocks
      BY DEF DiskInv, DiskTypeOK
    <3>2. \A b \in 1..Blocks : b \in data[i]
      BY <2>1
    <3> QED BY <3>1, <3>2 DEF Whole
  <2>3. DiskTypeOK' /\ Started' /\ Apart'
    BY <1>5 DEF DiskClose, DiskInv, DiskTypeOK, Started, Apart
  <2>4. \A i \in Inodes : WillBeWhole(i) => WillBeWhole(i)'
    <3> SUFFICES ASSUME NEW i \in Inodes, WillBeWhole(i) PROVE WillBeWhole(i)'
      OBVIOUS
    <3> SUFFICES ASSUME ~Whole(i) PROVE WillBeWhole(i)'
      <4>1. Whole(i) => Whole(i)'
        BY <1>5 DEF DiskClose, Whole
      <4> QED BY <4>1 DEF WillBeWhole
    <3>1. PICK d \in Puts : /\ DiskAt(d, "copy")
                            /\ fd[d] = i
                            /\ \A b \in 1..Blocks : b > diskOffset[d] \/ b \in data[i]
      BY DEF WillBeWhole
    <3>2. d # c
      BY <2>2, <3>1
    <3> QED BY <1>5, <3>1, <3>2 DEF DiskClose, WillBeWhole, DiskInv, DiskTypeOK
  <2>5. ClosedWhole'
    BY <1>5, <2>4 DEF DiskClose, DiskInv, ClosedWhole
  <2>6. Alone'
    BY <1>5, <2>1, <2>2 DEF DiskClose, DiskInv, DiskTypeOK, Alone, Whole
  <2> QED BY <2>3, <2>5, <2>6 DEF DiskInv
<1>6. ASSUME NEW c \in Puts, Rename(c) PROVE DiskInv'
  <2>1. DiskTypeOK' /\ Started' /\ Apart'
    BY <1>6 DEF Rename, DiskInv, DiskTypeOK, Started, Apart
  <2>2. \A i \in Inodes : WillBeWhole(i) => WillBeWhole(i)'
    BY <1>6 DEF Rename, WillBeWhole, Whole, DiskInv, DiskTypeOK
  <2>3. ClosedWhole'
    BY <1>6, <2>2 DEF Rename, DiskInv, DiskTypeOK, ClosedWhole
  <2>4. Alone'
    BY <1>6 DEF Rename, DiskInv, DiskTypeOK, Alone, Whole
  <2> QED BY <2>1, <2>3, <2>4 DEF DiskInv
<1>7. ASSUME NEW c \in Puts, DiskRemove(c) PROVE DiskInv'
  <2>1. DiskTypeOK' /\ Started' /\ Apart'
    BY <1>7 DEF DiskRemove, DiskInv, DiskTypeOK, Started, Apart
  <2>2. ClosedWhole'
    BY <1>7 DEF DiskRemove, DiskInv, DiskTypeOK, ClosedWhole, WillBeWhole, Whole
  <2>3. Alone'
    BY <1>7 DEF DiskRemove, DiskInv, DiskTypeOK, Alone, Whole
  <2> QED BY <2>1, <2>2, <2>3 DEF DiskInv
<1>8. ASSUME NEW c \in DiskCalls, DiskDelete(c) PROVE DiskInv'
  BY <1>8 DEF DiskDelete, DiskInv, DiskTypeOK, Started, Apart, ClosedWhole, Alone, WillBeWhole, Whole
<1>9. CASE DiskCrash
  BY <1>9 DEF DiskCrash, DiskInv, DiskTypeOK, Started, Apart, ClosedWhole, Alone, Whole
<1> QED
  <2>1. ASSUME NEW c \in DiskCalls, DiskPut(c) PROVE c \in Puts
    BY <2>1 DEF DiskPut, Create, DiskCopy, FailCopy, DiskClose, Rename, DiskRemove, DiskInv, Started
  <2> QED BY <2>1, <1>1, <1>2, <1>3, <1>4, <1>5, <1>6, <1>7, <1>8, <1>9 DEF DiskNext, DiskPut

\* A reader finds the whole object or none while no two Puts of it have
\* overlapped, whatever fails or crashes; and also after Puts that overlapped and
\* wrote to one temporary file, once all have ended and none has failed
\* (LocalStorage.Put).
THEOREM ObjectsWhole == ASSUME LocalAssumption PROVE DiskSpec => []ObjectWhole
<1>1. DiskInit => DiskInv
  BY LocalInit
<1>2. DiskInv /\ [DiskNext]_diskVars => DiskInv'
  BY LocalStep
<1>3. DiskInv => ObjectWhole
  BY DEF DiskInv, DiskTypeOK, Alone, ClosedWhole, WillBeWhole, ObjectWhole, DiskQuiet, DiskRunning,
         DiskAt, DiskCalls
<1> QED BY <1>1, <1>2, <1>3, PTL DEF DiskSpec

\* The types of a local disk's state.
THEOREM DiskTypes == ASSUME LocalAssumption PROVE DiskSpec => []DiskTypeOK
<1>1. DiskInit => DiskInv
  BY LocalInit
<1>2. DiskInv /\ [DiskNext]_diskVars => DiskInv'
  BY LocalStep
<1>3. DiskInv => DiskTypeOK
  BY DEF DiskInv
<1> QED BY <1>1, <1>2, <1>3, PTL DEF DiskSpec

------------------------------------------------------------------------------
\* THE MEDIA MIRROR.

MediaSteps == {"idle", "look", "blob", "join", "wait", "fetch", "save", "record", "land", "done"}
Leading(r) == mediaPc[r] \in {"fetch", "save", "record", "land"}

\* The types that MediaTypeOK leaves to the others.
MediaShapes ==
    /\ mediaPc \in [MediaRequests -> MediaSteps]
    /\ url \in [MediaRequests -> MediaUrls] /\ proc \in [MediaRequests -> Procs]
    /\ got \in [MediaRequests -> Outcomes]
    /\ inflight \in [Procs -> [MediaUrls -> SUBSET MediaRequests]]
    /\ epc \in [Procs -> {"idle", "next", "count", "release"}]
    /\ mediaListed \in [Procs -> SUBSET (MediaUrls \X MediaContents)]
    /\ dropped \in [Procs -> MediaContents \cup {"none"}]
    /\ old \subseteq {u \in MediaUrls : row[u] = "failed"}

\* Of a URL's requests in a replica one leads.
OneLeader ==
    \A r, s \in MediaRequests :
        Leading(r) /\ Leading(s) /\ proc[r] = proc[s] /\ url[r] = url[s] => r = s

\* An eviction that has removed an entry has counted it, and knows its bytes.
Evicting ==
    \A p \in Procs :
        epc[p] \in {"count", "release"} => current[p] > 0 /\ dropped[p] \in MediaContents

\* Who holds a reference: an entry, the fetch that will write one, or the
\* eviction that removed one.
ClaimHeld ==
    \A h \in claims \ strayed :
        \/ Referenced(h)
        \/ \E r \in MediaRequests : MediaAt(r, "record") /\ got[r] = h
        \/ \E p \in Procs : epc[p] \in {"count", "release"} /\ dropped[p] = h

\* The map of fetches holds the requests that lead.
Flights ==
    \A p \in Procs, u \in MediaUrls :
        inflight[p][u] = {r \in MediaRequests : proc[r] = p /\ url[r] = u /\ Leading(r)}

\* What is saved came from an origin.
SavedBytes == \A r \in MediaRequests : MediaAt(r, "save") => got[r] \in MediaContents

MediaInv ==
  /\ MediaTypeOK
  /\ MediaShapes
  /\ SavedBytes
  /\ Flights
  /\ OneLeader
  /\ Evicting
  /\ ClaimHeld

\* The cache counts at most as many entries as there are URLs.
LEMMA MediaMirroredFinite ==
    ASSUME MirrorAssumption
    PROVE  Cardinality(MediaMirrored) \in 0..Cardinality(MediaUrls)
<1>1. MediaMirrored \subseteq MediaUrls
  BY DEF MediaMirrored
<1> QED BY <1>1, FS_Subset, FS_CardinalityType DEF MirrorAssumption

\* At first nothing is mirrored and nobody fetches.
LEMMA MediaStart == ASSUME MirrorAssumption, MediaInit PROVE MediaInv
<1>1. Cardinality(MediaUrls) \in Nat
  BY FS_CardinalityType DEF MirrorAssumption
<1>2. MediaTypeOK
  BY <1>1 DEF MediaInit, MediaTypeOK, Outcomes
<1>3. MediaShapes
  BY DEF MediaInit, MediaShapes, MediaSteps, Outcomes
<1>4. OneLeader
  BY DEF MediaInit, OneLeader, Leading
<1>5. Evicting /\ ClaimHeld
  BY DEF MediaInit, Evicting, ClaimHeld
<1>6. Flights /\ SavedBytes
  BY DEF MediaInit, Flights, Leading, SavedBytes, MediaAt
<1> QED BY <1>2, <1>3, <1>4, <1>5, <1>6 DEF MediaInv

MediaStates == MirrorAssumption /\ MediaInv

Moves(r, l) == MediaGoto(r, l) /\ UNCHANGED <<url, proc>>

\* A step that leads neither more nor less leaves the map of fetches true.
LEMMA KeepsPlace ==
    ASSUME MediaStates, NEW r \in MediaRequests, NEW l, Moves(r, l), inflight' = inflight,
           Leading(r) <=> l \in {"fetch", "save", "record", "land"}
    PROVE  Flights' /\ OneLeader'
<1>1. \A s \in MediaRequests : Leading(s)' <=> Leading(s)
  BY DEF Moves, MediaGoto, Leading, MediaStates, MediaInv, MediaShapes
<1>2. url' = url /\ proc' = proc
  BY DEF Moves
<1>3. Flights'
  BY <1>1, <1>2 DEF Flights, MediaStates, MediaInv
<1>4. OneLeader'
  BY <1>1, <1>2 DEF OneLeader, MediaStates, MediaInv
<1> QED BY <1>3, <1>4

\* What a request does to its own record.
Answers(r) ==
    /\ got' \in [MediaRequests -> Outcomes] /\ leader' \in [MediaRequests -> MediaRequests]
    /\ mediaAnswer' \in [MediaRequests -> Outcomes]
    /\ \A s \in MediaRequests \ {r} : got'[s] = got[s]

\* Each step of a request keeps the invariant, whether it leads or waits.
LEMMA RequestTypes ==
    ASSUME MediaStates, NEW r \in MediaRequests, Verify(r) \/ MediaHandle(r) \/ MediaGiveUp(r)
    PROVE  MediaInv'
<1> USE DEF MediaStates, MediaInv
<1> DEFINE Calm == UNCHANGED <<row, old, claims, mediaHeld, strayed, epc, mediaListed, current, dropped>>
<1>1. ASSUME NEW l \in MediaSteps, Moves(r, l), Calm, UNCHANGED inflight, Answers(r),
             ~MediaAt(r, "record"),
             Leading(r) <=> l \in {"fetch", "save", "record", "land"},
             l = "save" => got'[r] \in MediaContents
      PROVE  MediaInv'
  <2>1. Flights' /\ OneLeader'
    BY <1>1, KeepsPlace
  <2>2. MediaShapes'
    BY <1>1 DEF MediaShapes, Moves, MediaGoto, Answers
  <2>3. MediaTypeOK'
    BY <1>1, <2>1 DEF MediaTypeOK, Flights, Leading, Answers
  <2>4. Evicting'
    BY <1>1 DEF Evicting
  <2>5. \A s \in MediaRequests : MediaAt(s, "record") => MediaAt(s, "record")' 
    BY <1>1 DEF MediaShapes, Moves, MediaGoto, MediaAt
  <2>6. \A s \in MediaRequests : MediaAt(s, "record") => got'[s] = got[s]
    BY <1>1 DEF Answers
  <2>7. ClaimHeld'
    BY <1>1, <2>5, <2>6 DEF ClaimHeld, Referenced, MediaShapes
  <2>8. SavedBytes'
    BY <1>1 DEF SavedBytes, Moves, MediaGoto, MediaShapes, MediaAt, Answers
  <2> QED BY <2>1, <2>2, <2>3, <2>4, <2>7, <2>8
<1>2. ASSUME NEW l \in MediaSteps, MediaMove(r, l), ~MediaAt(r, "record"), ~Leading(r),
             l \notin {"fetch", "save", "record", "land"}
      PROVE  MediaInv'
  BY <1>2, <1>1 DEF MediaMove, MediaRest, Moves, Answers, index, blobs, mediaLocal, eviction,
     MediaShapes, MediaTypeOK
<1>3. ASSUME NEW a \in Outcomes, MediaAnswer(r, a), ~MediaAt(r, "record"), ~Leading(r)
      PROVE  MediaInv'
  BY <1>3, <1>1 DEF MediaAnswer, MediaRest, Moves, Answers, index, blobs, eviction, MediaShapes,
                    MediaTypeOK, MediaSteps
<1>4. ASSUME NEW v \in Outcomes, NEW l \in {"save", "record"}, Fetched(r, v, l),
             l = "save" => v \in MediaContents, ~MediaAt(r, "record"), Leading(r)
      PROVE  MediaInv'
  BY <1>4, <1>1 DEF Fetched, MediaRest, Moves, Answers, index, blobs, eviction, MediaShapes,
                    MediaTypeOK, MediaSteps
<1>5. CASE Verify(r)
  BY <1>2, <1>5 DEF Verify, MediaAt, Leading, MediaSteps
<1>6. CASE MediaLookUp(r)
  <2> DEFINE v == row[url[r]]
  <2>1. v \in Outcomes
    BY DEF MediaTypeOK, MediaShapes
  <2>2. ASSUME v \in MediaContents, got' = [got EXCEPT ![r] = v], MediaGoto(r, "blob"),
               MediaRest, UNCHANGED <<index, blobs, inflight, leader, mediaAnswer>>
        PROVE  MediaInv'
    BY <1>6, <2>1, <2>2, <1>1 DEF MediaLookUp, MediaAt, Leading, MediaRest, Moves, Answers, index,
                                  blobs, eviction, MediaShapes,
       MediaTypeOK, MediaSteps
  <2>3. CASE MediaAnswer(r, "failed")
    BY <1>6, <2>3, <1>3 DEF MediaLookUp, MediaAt, Leading, Outcomes
  <2>4. CASE MediaMove(r, "join")
    BY <1>6, <2>4, <1>2 DEF MediaLookUp, MediaAt, Leading, MediaSteps
  <2> QED BY <1>6, <2>2, <2>3, <2>4 DEF MediaLookUp
<1>7. CASE MediaReadBlob(r)
  <2>1. got[r] \in Outcomes
    BY DEF MediaShapes
  <2> QED BY <1>7, <2>1, <1>2, <1>3 DEF MediaReadBlob, MediaAt, Leading, MediaSteps
<1>8. CASE Join(r)
  <2>1. ASSUME NEW l \in Flying(r), leader' = [leader EXCEPT ![r] = l], MediaGoto(r, "wait"),
               MediaRest, UNCHANGED <<index, blobs, inflight, got, mediaAnswer>>
        PROVE  MediaInv'
    <3>1. l \in MediaRequests
      BY <2>1 DEF Flying, MediaShapes
    <3> QED BY <1>8, <2>1, <3>1, <1>1 DEF Join, MediaAt, Leading, MediaRest, Moves, Answers, index,
                                          blobs, eviction, MediaShapes,
          MediaTypeOK, MediaSteps
  <2>2. ASSUME Flying(r) = {}, inflight' = [inflight EXCEPT ![proc[r]][url[r]] = @ \cup {r}],
               MediaGoto(r, "fetch"), MediaRest, UNCHANGED <<index, blobs, mediaLocal>>
        PROVE  MediaInv'
    <3>1. \A s \in MediaRequests : Leading(s)' <=> Leading(s) \/ s = r
      BY <1>8, <2>2 DEF Leading, MediaShapes, MediaGoto
    <3>2. url' = url /\ proc' = proc /\ ~Leading(r)
      BY <1>8, <2>2 DEF MediaRest, Join, MediaAt, Leading
    <3>3. OneLeader'
      BY <2>2, <3>1, <3>2 DEF OneLeader, Flights, Flying, MediaShapes
    <3>4. Flights'
      BY <2>2, <3>1, <3>2 DEF Flights, MediaShapes
    <3>5. MediaShapes'
      BY <2>2 DEF MediaShapes, MediaGoto, MediaRest, index, blobs, mediaLocal, eviction, MediaSteps
    <3>6. MediaTypeOK'
      BY <2>2, <3>4 DEF MediaTypeOK, MediaRest, index, blobs, mediaLocal, eviction, Flights, Leading
    <3>7. Evicting'
      BY <2>2 DEF Evicting, MediaRest, eviction
    <3>8. \A s \in MediaRequests : MediaAt(s, "record") => MediaAt(s, "record")'
      BY <1>8, <2>2 DEF Join, MediaShapes, MediaGoto, MediaAt
    <3>9. ClaimHeld'
      BY <2>2, <3>8 DEF ClaimHeld, Referenced, MediaShapes, MediaRest, index, blobs, mediaLocal,
                        eviction
    <3>10. SavedBytes'
      BY <2>2 DEF SavedBytes, MediaGoto, MediaShapes, MediaAt, mediaLocal
    <3> QED BY <3>3, <3>4, <3>5, <3>6, <3>7, <3>9, <3>10
  <2> QED BY <1>8, <2>1, <2>2 DEF Join
<1>9. CASE MediaWait(r) \/ MediaGiveUp(r)
  <2>1. mediaAnswer[leader[r]] \in Outcomes
    BY DEF MediaTypeOK
  <2> QED BY <1>9, <2>1, <1>2, <1>3 DEF MediaWait, MediaGiveUp, MediaAt, Leading, MediaSteps
<1>10. CASE Fetch(r)
  <2>1. MediaServes[url[r]] \subseteq MediaContents
    BY DEF MirrorAssumption, MediaShapes, Outcomes
  <2> QED BY <1>10, <2>1, <1>4 DEF Fetch, MediaAt, Leading, Outcomes
<1>11. CASE MediaSaveBlob(r)
  <2>0. MediaAt(r, "save")
    BY <1>11 DEF MediaSaveBlob
  <2>1. CASE Fetched(r, "failed", "record")
    BY <2>0, <2>1, <1>4 DEF MediaAt, Leading, Outcomes
  <2>2. ASSUME claims' = claims \cup {got[r]}, MediaGoto(r, "record"), MediaRest,
               UNCHANGED <<index, mediaHeld, strayed, inflight, mediaLocal>>
        PROVE  MediaInv'
    <3>1. Flights' /\ OneLeader'
      BY <2>0, <2>2, KeepsPlace DEF Moves, MediaRest, Leading, MediaAt
    <3>2. MediaShapes'
      BY <2>2 DEF MediaShapes, MediaGoto, MediaRest, index, mediaLocal, eviction, MediaSteps
    <3>3. MediaTypeOK'
      BY <2>0, <2>2, <3>1 DEF MediaTypeOK, MediaRest, index, mediaLocal, eviction, Flights, Leading,
                              SavedBytes
    <3>4. Evicting'
      BY <2>2 DEF Evicting, MediaRest, eviction
    <3>5. \A s \in MediaRequests : MediaAt(s, "record") => MediaAt(s, "record")'
      BY <2>2 DEF MediaShapes, MediaGoto, MediaAt
    <3>6. MediaAt(r, "record")' /\ got' = got
      BY <2>2 DEF MediaShapes, MediaGoto, MediaAt, mediaLocal
    <3>7. ClaimHeld'
      BY <2>2, <3>5, <3>6 DEF ClaimHeld, Referenced, MediaRest, index, eviction
    <3>8. SavedBytes'
      BY <2>2 DEF SavedBytes, MediaGoto, MediaShapes, MediaAt, mediaLocal
    <3> QED BY <3>1, <3>2, <3>3, <3>4, <3>7, <3>8
  <2> QED BY <1>11, <2>1, <2>2 DEF MediaSaveBlob
<1>12. CASE MediaRecord(r)
  <2>0. MediaAt(r, "record") /\ got[r] \in Outcomes
    BY <1>12 DEF MediaRecord, MediaShapes
  <2>1. /\ MediaGoto(r, "land")
        /\ MediaRest
        /\ UNCHANGED <<claims, mediaHeld, inflight, leader, got>>
        /\ mediaAnswer' = [mediaAnswer EXCEPT ![r] = got[r]]
    BY <1>12 DEF MediaRecord
  <2>2. \E lost : Stray(lost)
    BY <1>12 DEF MediaRecord
  <2>3. Flights' /\ OneLeader'
    BY <2>0, <2>1, KeepsPlace DEF Moves, MediaRest, Leading, MediaAt
  <2>4. row' \in [MediaUrls -> Outcomes] /\ old' \subseteq {u \in MediaUrls : row'[u] = "failed"}
    BY <1>12, <2>0 DEF MediaRecord, MediaTypeOK, MediaShapes, index
  <2>5. MediaShapes'
    BY <2>1, <2>4 DEF MediaShapes, MediaGoto, MediaRest, mediaLocal, eviction, MediaSteps
  <2>6. MediaTypeOK'
    BY <2>0, <2>1, <2>2, <2>3, <2>4 DEF MediaTypeOK, MediaRest, eviction, Flights, Leading, Stray
  <2>7. Evicting'
    BY <2>1 DEF Evicting, MediaRest, eviction
  <2>8. \A s \in MediaRequests \ {r} : MediaAt(s, "record") => MediaAt(s, "record")'
    BY <2>1 DEF MediaShapes, MediaGoto, MediaAt
  <2>9. epc' = epc /\ dropped' = dropped /\ got' = got /\ claims' = claims
    BY <2>1 DEF MediaRest, eviction
  <2>10. ClaimHeld'
    <3> SUFFICES ASSUME NEW h \in claims \ strayed', ~Referenced(h)'
                 PROVE  \/ \E s \in MediaRequests : MediaAt(s, "record")' /\ got[s] = h
                        \/ \E p \in Procs : epc[p] \in {"count", "release"} /\ dropped[p] = h
      BY <2>9 DEF ClaimHeld
    <3>1. CASE /\ row' = [row EXCEPT ![url[r]] = got[r]] /\ Stray({row[url[r]]})
      <4>1. h \notin strayed /\ h # row[url[r]]
        BY <3>1, <2>9 DEF Stray
      <4>2. h # got[r]
        BY <3>1 DEF Referenced, MediaTypeOK, MediaShapes
      <4>3. ~Referenced(h)
        BY <3>1, <4>1 DEF Referenced, MediaTypeOK, MediaShapes
      <4> QED BY <4>1, <4>2, <4>3, <2>8 DEF ClaimHeld
    <3>2. CASE UNCHANGED index /\ Stray({got[r]})
      <4>1. h \notin strayed /\ h # got[r] /\ ~Referenced(h)
        BY <3>2, <2>9 DEF Stray, Referenced, index
      <4> QED BY <4>1, <2>8 DEF ClaimHeld
    <3> QED BY <1>12, <3>1, <3>2 DEF MediaRecord
  <2>11. SavedBytes'
    BY <2>1 DEF SavedBytes, MediaGoto, MediaShapes, MediaAt
  <2> QED BY <2>3, <2>5, <2>6, <2>7, <2>10, <2>11
<1>13. CASE Land(r)
  <2>0. MediaAt(r, "land")
    BY <1>13 DEF Land
  <2>1. /\ inflight' = [inflight EXCEPT ![proc[r]][url[r]] = @ \ {r}]
        /\ MediaGoto(r, "done") /\ MediaRest /\ UNCHANGED <<index, blobs, mediaLocal>>
    BY <1>13 DEF Land
  <2>2. \A s \in MediaRequests : Leading(s)' <=> Leading(s) /\ s # r
    BY <2>1 DEF Leading, MediaShapes, MediaGoto
  <2>3. url' = url /\ proc' = proc
    BY <2>1 DEF MediaRest
  <2>4. OneLeader'
    BY <2>2, <2>3 DEF OneLeader
  <2>5. Flights'
    BY <2>1, <2>2, <2>3 DEF Flights, MediaShapes
  <2>6. MediaShapes'
    BY <2>1 DEF MediaShapes, MediaGoto, MediaRest, index, blobs, mediaLocal, eviction, MediaSteps
  <2>7. MediaTypeOK'
    BY <2>1, <2>5 DEF MediaTypeOK, MediaRest, index, blobs, mediaLocal, eviction, Flights, Leading
  <2>8. Evicting'
    BY <2>1 DEF Evicting, MediaRest, eviction
  <2>9. \A s \in MediaRequests : MediaAt(s, "record") => MediaAt(s, "record")'
    BY <2>0, <2>1 DEF MediaShapes, MediaGoto, MediaAt
  <2>10. ClaimHeld'
    BY <2>1, <2>9 DEF ClaimHeld, Referenced, MediaShapes, MediaRest, index, blobs, mediaLocal, eviction
  <2>11. SavedBytes'
    BY <2>1 DEF SavedBytes, MediaGoto, MediaShapes, MediaAt, mediaLocal
  <2> QED BY <2>4, <2>5, <2>6, <2>7, <2>8, <2>10, <2>11
<1> QED BY <1>5, <1>6, <1>7, <1>8, <1>9, <1>10, <1>11, <1>12, <1>13 DEF MediaHandle, Lead

\* An eviction's step leaves every request where it is.
LEMMA EvictionTypes ==
    ASSUME MediaStates, ERest, strayed' \subseteq claims', claims' \subseteq claims,
           row' \in [MediaUrls -> Outcomes], old' \subseteq {u \in MediaUrls : row'[u] = "failed"},
           epc' \in [Procs -> {"idle", "next", "count", "release"}],
           mediaListed' \in [Procs -> SUBSET (MediaUrls \X MediaContents)],
           dropped' \in [Procs -> MediaContents \cup {"none"}],
           current' \in [Procs -> 0..Cardinality(MediaUrls)], Evicting', ClaimHeld'
    PROVE  MediaInv'
<1> USE DEF MediaStates, MediaInv, ERest, mediaLocal
<1>1. MediaShapes'
  BY DEF MediaShapes
<1>2. Flights' /\ OneLeader' /\ SavedBytes'
  BY DEF Flights, OneLeader, SavedBytes, Leading, MediaAt
<1>3. MediaTypeOK'
  BY <1>2 DEF MediaTypeOK, Flights, Leading
<1> QED BY <1>1, <1>2, <1>3

\* So does each step of an eviction.
LEMMA EvictionKeeps ==
    ASSUME MediaStates, NEW p \in Procs, MediaEvict(p)
    PROVE  MediaInv'
<1> USE DEF MediaStates, MediaInv
<1>0. /\ epc \in [Procs -> {"idle", "next", "count", "release"}]
      /\ dropped \in [Procs -> MediaContents \cup {"none"}]
      /\ mediaListed \in [Procs -> SUBSET (MediaUrls \X MediaContents)]
      /\ current \in [Procs -> 0..Cardinality(MediaUrls)]
      /\ row \in [MediaUrls -> Outcomes] /\ old \subseteq {u \in MediaUrls : row[u] = "failed"}
      /\ strayed \subseteq claims
  BY DEF MediaShapes, MediaTypeOK
<1>1. MediaContents \cap {"none", "failed"} = {} /\ Cardinality(MediaUrls) \in Nat
      /\ CacheMax \in Nat /\ LowWater \in Nat
  BY FS_CardinalityType DEF MirrorAssumption
<1>2. CASE ExpireFailures(p)
  <2>1. ERest /\ UNCHANGED <<claims, strayed, epc, mediaListed, current, dropped>>
    BY <1>2 DEF ExpireFailures, eviction
  <2>2. row' = [u \in MediaUrls |-> IF u \in old THEN "none" ELSE row[u]] /\ old' = {}
    BY <1>2 DEF ExpireFailures
  <2>3. \A h \in claims : Referenced(h) => Referenced(h)'
    BY <1>0, <1>1, <2>2 DEF Referenced, MediaTypeOK
  <2>4. Evicting' /\ ClaimHeld'
    BY <2>1, <2>3 DEF Evicting, ClaimHeld, ERest, MediaAt, mediaLocal
  <2>5. row' \in [MediaUrls -> Outcomes]
    BY <1>0, <2>2 DEF Outcomes
  <2> QED BY <1>0, <2>1, <2>2, <2>4, <2>5, EvictionTypes DEF MediaTypeOK
<1>3. CASE List(p)
  <2>1. /\ ERest
        /\ UNCHANGED <<row, old, claims, strayed, dropped>>
        /\ EGoto(p, "next")
        /\ epc[p] = "idle"
    BY <1>3 DEF List, index
  <2>2. {<<u, row[u]>> : u \in MediaMirrored} \in SUBSET (MediaUrls \X MediaContents)
    BY DEF MediaMirrored
  <2>3. mediaListed' \in [Procs -> SUBSET (MediaUrls \X MediaContents)]
    BY <1>0, <1>3, <2>2 DEF List
  <2>4. /\ current' \in [Procs -> 0..Cardinality(MediaUrls)]
        /\ \A q \in Procs \ {p} : current'[q] = current[q]
    BY <1>0, <1>3, MediaMirroredFinite DEF List
  <2>5. /\ epc' \in [Procs -> {"idle", "next", "count", "release"}]
        /\ epc'[p] = "next"
        /\ \A q \in Procs \ {p} : epc'[q] = epc[q]
    BY <1>0, <2>1 DEF EGoto
  <2>6. Evicting'
    BY <2>1, <2>4, <2>5 DEF Evicting
  <2>7. ClaimHeld'
    BY <2>1, <2>5 DEF ClaimHeld, ERest, MediaAt, mediaLocal, Referenced
  <2> QED BY <1>0, <2>1, <2>3, <2>4, <2>5, <2>6, <2>7, EvictionTypes DEF MediaTypeOK
<1>4. CASE EvictEntry(p)
  <2>1. epc[p] = "next"
    BY <1>4 DEF EvictEntry
  <2>2. ASSUME NEW c \in mediaListed[p], current[p] > LowWater,
               mediaListed' = [mediaListed EXCEPT ![p] = @ \ {c}], ERest, UNCHANGED <<claims, current>>,
               \/ /\ row' = [row EXCEPT ![c[1]] = "none"] /\ old' = old \ {c[1]}
                  /\ dropped' = [dropped EXCEPT ![p] = c[2]]
                  /\ EGoto(p, "count")
                  /\ Stray({row[c[1]]} \ {c[2]})
               \/ "db" \in MediaFaults /\ UNCHANGED <<index, epc, dropped, strayed>>
        PROVE  MediaInv'
    <3>1. mediaListed' \in [Procs -> SUBSET (MediaUrls \X MediaContents)]
      BY <1>0, <2>2
    <3>2. c[1] \in MediaUrls /\ c[2] \in MediaContents
      BY <1>0
    <3>3. CASE /\ row' = [row EXCEPT ![c[1]] = "none"] /\ old' = old \ {c[1]}
               /\ dropped' = [dropped EXCEPT ![p] = c[2]]
               /\ EGoto(p, "count")
               /\ Stray({row[c[1]]} \ {c[2]})
      <4>1. /\ row' \in [MediaUrls -> Outcomes]
            /\ old' \subseteq {u \in MediaUrls : row'[u] = "failed"}
        BY <1>0, <3>2, <3>3 DEF Outcomes
      <4>2. /\ epc' \in [Procs -> {"idle", "next", "count", "release"}]
            /\ epc'[p] = "count"
            /\ \A q \in Procs \ {p} : epc'[q] = epc[q]
        BY <1>0, <3>3 DEF EGoto
      <4>3. /\ dropped' \in [Procs -> MediaContents \cup {"none"}]
            /\ dropped'[p] = c[2]
            /\ \A q \in Procs \ {p} : dropped'[q] = dropped[q]
        BY <1>0, <3>2, <3>3
      <4>4. current[p] > 0
        BY <1>0, <1>1, <2>2
      <4>5. Evicting'
        BY <2>2, <3>2, <4>2, <4>3, <4>4 DEF Evicting
      <4>6. ClaimHeld'
        <5> SUFFICES ASSUME NEW h \in claims \ strayed', ~Referenced(h)', h # c[2]
                     PROVE  \/ \E s \in MediaRequests : MediaAt(s, "record")' /\ got'[s] = h
                            \/ \E q \in Procs : epc'[q] \in {"count", "release"} /\ dropped'[q] = h
          BY <2>2, <4>2, <4>3 DEF ClaimHeld
        <5>1. h \notin strayed /\ h # row[c[1]]
          BY <2>2, <3>3 DEF Stray
        <5>2. ~Referenced(h)
          BY <1>0, <3>2, <3>3, <5>1 DEF Referenced
        <5>3. (\E r \in MediaRequests : MediaAt(r, "record") /\ got[r] = h)
              \/ \E q \in Procs \ {p} : epc[q] \in {"count", "release"} /\ dropped[q] = h
          BY <2>1, <5>1, <5>2 DEF ClaimHeld
        <5> QED BY <2>2, <5>3, <4>2, <4>3 DEF ERest, MediaAt, mediaLocal
      <4>7. strayed' \subseteq claims'
        BY <3>3 DEF Stray
      <4> QED BY <1>0, <2>2, <3>1, <4>1, <4>2, <4>3, <4>5, <4>6, <4>7, EvictionTypes
    <3>4. CASE UNCHANGED <<index, epc, dropped, strayed>>
      <4>1. Evicting' /\ ClaimHeld'
        BY <2>2, <3>4 DEF Evicting, ClaimHeld, ERest, MediaAt, mediaLocal, Referenced, index
      <4> QED BY <1>0, <2>2, <3>1, <3>4, <4>1, EvictionTypes DEF index
    <3> QED BY <2>2, <3>3, <3>4
  <2>3. CASE EMove(p, "idle") /\ UNCHANGED strayed
    <3>1. /\ ERest /\ UNCHANGED <<row, old, claims, strayed, mediaListed, current, dropped>>
          /\ epc' \in [Procs -> {"idle", "next", "count", "release"}]
          /\ epc'[p] = "idle"
          /\ \A q \in Procs \ {p} : epc'[q] = epc[q]
      BY <1>0, <2>3 DEF EMove, EGoto, index
    <3>2. Evicting'
      BY <3>1 DEF Evicting
    <3>3. ClaimHeld'
      BY <2>1, <3>1 DEF ClaimHeld, ERest, MediaAt, mediaLocal, Referenced
    <3> QED BY <1>0, <3>1, <3>2, <3>3, EvictionTypes
  <2> QED BY <1>4, <2>2, <2>3 DEF EvictEntry
<1>5. CASE CountRefs(p) \/ Release(p)
  <2>1. epc[p] \in {"count", "release"} /\ current[p] > 0
    BY <1>5 DEF CountRefs, Release, Evicting
  <2>2. /\ ERest /\ UNCHANGED <<row, old, mediaListed, dropped>> /\ claims' \subseteq claims
        /\ strayed' \subseteq claims'
    BY <1>0, <1>5 DEF CountRefs, Release, EMove, index, Stray, Released
  <2>3. /\ epc' \in [Procs -> {"idle", "next", "count", "release"}]
        /\ \A q \in Procs \ {p} : epc'[q] = epc[q]
        /\ epc'[p] \in {"next", "release"}
    BY <1>0, <1>5 DEF CountRefs, Release, EMove, EGoto, MediaCounted
  <2>4. /\ current' \in [Procs -> 0..Cardinality(MediaUrls)]
        /\ \A q \in Procs \ {p} : current'[q] = current[q]
        /\ epc'[p] = "release" => current'[p] = current[p]
    <3>1. CASE MediaCounted(p)
      <4>1. current' = [current EXCEPT ![p] = @ - 1] /\ epc'[p] = "next"
        BY <1>0, <3>1 DEF MediaCounted, EGoto
      <4> QED BY <1>0, <1>1, <2>1, <4>1
    <3>2. CASE current' = current
      BY <1>0, <3>2
    <3> QED BY <1>5, <3>1, <3>2 DEF CountRefs, Release, EMove
  <2>5. Evicting'
    BY <2>1, <2>2, <2>3, <2>4 DEF Evicting
  <2>6. ClaimHeld'
    <3> SUFFICES ASSUME NEW h \in claims' \ strayed', ~Referenced(h)'
                 PROVE  \/ \E s \in MediaRequests : MediaAt(s, "record")' /\ got'[s] = h
                        \/ \E q \in Procs : epc'[q] \in {"count", "release"} /\ dropped'[q] = h
      BY <2>2 DEF ClaimHeld
    <3>1. ~Referenced(h) /\ h \in claims
      BY <2>2 DEF Referenced
    <3>2. h \notin strayed /\ (h = dropped[p] => epc'[p] = "release")
      BY <1>0, <1>5, <3>1 DEF CountRefs, Release, EMove, EGoto, Stray, Released
    <3>3. CASE \E r \in MediaRequests : MediaAt(r, "record") /\ got[r] = h
      BY <2>2, <3>3 DEF ERest, MediaAt, mediaLocal
    <3>4. CASE \E q \in Procs : epc[q] \in {"count", "release"} /\ dropped[q] = h
      BY <2>2, <2>3, <3>2, <3>4
    <3> QED BY <3>1, <3>2, <3>3, <3>4 DEF ClaimHeld
  <2> QED BY <1>0, <2>2, <2>3, <2>4, <2>5, <2>6, EvictionTypes
<1> QED BY <1>2, <1>3, <1>4, <1>5 DEF MediaEvict

\* And so do crashes, the end of a failure's time and the operator's delete.
LEMMA OthersKeep ==
    ASSUME MediaStates,
           (\E p \in Procs : MediaCrash(p)) \/ (\E u \in MediaUrls : MediaLapse(u))
             \/ (\E h \in MediaContents : AdminDelete(h))
    PROVE  MediaInv'
<1> USE DEF MediaStates, MediaInv
<1>1. ASSUME NEW p \in Procs, MediaCrash(p)
      PROVE  MediaInv'
  <2>1. /\ mediaPc' = [r \in MediaRequests |->
                          IF proc[r] = p /\ mediaPc[r] # "idle" THEN "done" ELSE mediaPc[r]]
        /\ inflight' = [inflight EXCEPT ![p] = [u \in MediaUrls |-> {}]]
        /\ EGoto(p, "idle")
        /\ UNCHANGED <<row, old, claims, mediaHeld, url, proc, leader, got, mediaAnswer, mediaListed, current, dropped>>
        /\ Stray({got[r] : r \in {q \in MediaRequests : proc[q] = p /\ mediaPc[q] = "record"}}
                    \cup (IF epc[p] \in {"count", "release"} THEN {dropped[p]} ELSE {}))
    BY <1>1 DEF MediaCrash, index, mediaLocal
  <2>2. \A r \in MediaRequests : mediaPc'[r] = IF proc[r] = p /\ mediaPc[r] # "idle" THEN "done" ELSE mediaPc[r]
    BY <2>1
  <2>3. \A r \in MediaRequests : Leading(r)' <=> Leading(r) /\ proc[r] # p
    BY <2>2 DEF Leading
  <2>4. Flights' /\ OneLeader'
    BY <2>1, <2>3 DEF Flights, OneLeader, MediaShapes
  <2>5. MediaShapes'
    BY <2>1 DEF MediaShapes, MediaSteps, EGoto
  <2>6. MediaTypeOK'
    BY <2>1, <2>4 DEF MediaTypeOK, Flights, Leading, Stray
  <2>7. SavedBytes'
    BY <2>1, <2>2 DEF SavedBytes, MediaAt
  <2>8. epc'[p] = "idle" /\ \A q \in Procs \ {p} : epc'[q] = epc[q]
    BY <2>1 DEF EGoto, MediaShapes
  <2>9. Evicting'
    BY <2>1, <2>8 DEF Evicting
  <2>10. ClaimHeld'
    <3> SUFFICES ASSUME NEW h \in claims \ strayed', ~Referenced(h)'
                 PROVE  \/ \E s \in MediaRequests : MediaAt(s, "record")' /\ got[s] = h
                        \/ \E q \in Procs : epc'[q] \in {"count", "release"} /\ dropped[q] = h
      BY <2>1 DEF ClaimHeld
    <3>1. ~Referenced(h)
      BY <2>1 DEF Referenced
    <3>2. /\ h \notin strayed
          /\ \A r \in MediaRequests : proc[r] = p /\ mediaPc[r] = "record" => got[r] # h
          /\ epc[p] \in {"count", "release"} => dropped[p] # h
      BY <2>1 DEF Stray
    <3>3. CASE \E r \in MediaRequests : MediaAt(r, "record") /\ got[r] = h
      BY <2>2, <3>2, <3>3 DEF MediaAt
    <3>4. CASE \E q \in Procs : epc[q] \in {"count", "release"} /\ dropped[q] = h
      BY <2>8, <3>2, <3>4
    <3> QED BY <3>1, <3>2, <3>3, <3>4 DEF ClaimHeld
  <2> QED BY <2>4, <2>5, <2>6, <2>7, <2>9, <2>10
<1>2. ASSUME NEW u \in MediaUrls, MediaLapse(u)
      PROVE  MediaInv'
  <2>1. /\ old' = old \cup {u} /\ row[u] = "failed"
        /\ UNCHANGED <<row, claims, mediaHeld, strayed, inflight, url, proc, mediaPc, leader, got, mediaAnswer, epc,
                       mediaListed, current, dropped>>
    BY <1>2 DEF MediaLapse, MediaRest, blobs, mediaLocal, eviction
  <2>2. Flights' /\ OneLeader' /\ SavedBytes' /\ Evicting' /\ ClaimHeld'
    BY <2>1 DEF Flights, Leading, OneLeader, SavedBytes, Evicting, ClaimHeld, Referenced, MediaAt
  <2>3. MediaShapes'
    BY <2>1 DEF MediaShapes
  <2>4. MediaTypeOK'
    BY <2>1 DEF MediaTypeOK
  <2> QED BY <2>2, <2>3, <2>4
<1>3. ASSUME NEW h \in MediaContents, AdminDelete(h)
      PROVE  MediaInv'
  <2>1. /\ claims' = claims \ {h} /\ mediaHeld' = mediaHeld \ {h} /\ Stray({})
        /\ UNCHANGED <<row, old, inflight, url, proc, mediaPc, leader, got, mediaAnswer, epc, mediaListed, current, dropped>>
    BY <1>3 DEF AdminDelete, MediaRest, index, mediaLocal, eviction
  <2>2. MediaShapes' /\ Flights' /\ OneLeader' /\ SavedBytes' /\ Evicting'
    BY <2>1 DEF MediaShapes, Flights, Leading, OneLeader, SavedBytes, Evicting, MediaAt
  <2>3. MediaTypeOK'
    BY <2>1 DEF MediaTypeOK, Stray
  <2>4. ClaimHeld'
    BY <2>1 DEF ClaimHeld, Referenced, MediaAt, Stray
  <2> QED BY <2>2, <2>3, <2>4
<1> QED BY <1>1, <1>2, <1>3

\* Together these are all the steps.
LEMMA MediaStep == ASSUME MediaStates, [MediaNext]_mediaVars PROVE MediaInv'
<1>1. CASE MediaNext
  BY <1>1, RequestTypes, EvictionKeeps, OthersKeep DEF MediaNext
<1>2. CASE UNCHANGED mediaVars
  BY <1>2 DEF mediaVars, MediaStates, MediaInv, MediaTypeOK, MediaShapes, Flights, Leading, OneLeader,
              SavedBytes,
     Evicting, ClaimHeld, Referenced, MediaAt
<1> QED BY <1>1, <1>2

\* The map of fetches holds the one request that leads for a URL in each replica, and
\* every reference is an entry's, or in the hands of whoever writes or removes one
\* (MirrorMedia, evictOldest): inductive, for any number of replicas and requests.
THEOREM MirrorInductive == ASSUME MirrorAssumption PROVE MediaSpec => []MediaInv
<1>1. MediaInit => MediaInv
  BY MediaStart
<1>2. MediaInv /\ [MediaNext]_mediaVars => MediaInv'
  BY MediaStep DEF MediaStates
<1> QED BY <1>1, <1>2, PTL DEF MediaSpec

\* The state's types; the count of entries never goes below zero nor beyond the
\* number of URLs (mediamirror, currentCount).
THEOREM MirrorTypes == ASSUME MirrorAssumption PROVE MediaSpec => []MediaTypeOK
BY MirrorInductive, PTL DEF MediaInv

\* However many requests for a URL meet in a replica, one of them fetches it
\* (MirrorMedia, inflight).
THEOREM FetchedOnce == ASSUME MirrorAssumption PROVE MediaSpec => []OneFetch
<1>1. MediaInv => OneFetch
  BY DEF MediaInv, OneLeader, OneFetch, Leading, MediaAt
<1> QED BY <1>1, MirrorInductive, PTL

\* When nothing is under way each reference of the service's key is an entry's, but
\* those that a failed or dying replica left, or a second fetch that found other
\* bytes (evictOldest, MirrorMedia).
THEOREM ReferencesTracked == ASSUME MirrorAssumption PROVE MediaSpec => []ClaimsTracked
<1>1. MediaInv => ClaimsTracked
  BY DEF MediaInv, ClaimHeld, ClaimsTracked, AllQuiet, MediaAt
<1> QED BY <1>1, MirrorInductive, PTL

------------------------------------------------------------------------------
\* TRANSCODING.

VideoLabels == {"idle", "store", "begin", "create", "write", "hls", "encode", "master", "dash",
                "upload", "remove", "ended", "refused"}

VideoShapes ==
    /\ job \subseteq Starts
    /\ videoFiles \in [FileNames -> VideoContents] /\ objects \in [VideoKeys -> VideoContents]
    /\ jstatus = [j \in Starts |-> jstatus[j]] /\ jpc \in [Starts -> VideoLabels]
    /\ step \in [Starts -> Nat \ {0}]

FilesUpTo(n) == \A i \in 1..Len(Qualities) : i < n => videoFiles[Qualities[i]] # "none"
\* ... and after the step.
NowWritten(n) == \A i \in 1..Len(Qualities) : i < n => videoFiles'[Qualities[i]] # "none"

Uploaded(n) ==
    \A i \in 1..Len(WalkOrder) :
        i < n /\ WalkOrder[i] \notin {"input", "dash"} => Served(StorageKey(WalkOrder[i]))

\* What a job at its step has behind it.
VideoProgress(j) ==
    /\ jpc[j] \in {"idle", "store", "begin", "create", "write"} => step[j] = 1
    /\ jpc[j] \in {"hls", "encode"} => FilesUpTo(step[j])
    /\ jpc[j] = "encode" => step[j] <= Len(Qualities)
    /\ jpc[j] \in {"master", "dash", "upload"} => FilesUpTo(Len(Qualities) + 1)
    /\ jpc[j] \in {"dash", "upload"} => videoFiles["master"] # "none"
    /\ jpc[j] = "upload" => Uploaded(step[j])

\* The walk stores the master playlist last, so that who has it has everything.
AllServed == \A f \in QualityNames \cup {"master"} : Served(StorageKey(f))
Reported == videoCached = "complete" \/ \E j \in Starts : jstatus[j] = "complete"

VideoInv ==
    /\ VideoShapes
    /\ \A j \in Starts : VideoProgress(j)
    /\ Reported \/ Served(StorageKey("master")) => AllServed

\* The order of the walk.
LEMMA WalkFacts ==
    ASSUME VideoAssumption
    PROVE  /\ Len(Qualities) \in Nat /\ Len(WalkOrder) = Len(Qualities) + 3
           /\ \A i \in 1..Len(Qualities) : WalkOrder[i] = Qualities[i] /\ Qualities[i] \in QualityNames
           /\ WalkOrder[Len(Qualities) + 1] = "dash" /\ WalkOrder[Len(Qualities) + 2] = "input"
           /\ WalkOrder[Len(Qualities) + 3] = "master"
           /\ \A f \in QualityNames : \E i \in 1..Len(Qualities) : f = Qualities[i]
           /\ \A i \in 1..Len(WalkOrder) : WalkOrder[i] \in FileNames
<1>1. Qualities \in Seq(STRING) /\ Len(Qualities) \in Nat /\ DOMAIN Qualities = 1..Len(Qualities)
  BY DEF VideoAssumption
<1> DEFINE rest == <<"dash", "input", "master">>
           S == STRING \cup {"dash", "input", "master"}
<1>2. /\ rest \in Seq(S)
      /\ Len(rest) = 3
      /\ rest[1] = "dash"
      /\ rest[2] = "input"
      /\ rest[3] = "master"
  <2>1. rest \in Seq(S)
    OBVIOUS
  <2>2. Len(rest) = 3 /\ rest[1] = "dash" /\ rest[2] = "input" /\ rest[3] = "master"
    OBVIOUS
  <2> QED BY <2>1, <2>2
<1>3. WalkOrder = Qualities \o rest
  BY DEF WalkOrder
<1>4. /\ Len(WalkOrder) = Len(Qualities) + 3
      /\ \A i \in 1..Len(Qualities) : WalkOrder[i] = Qualities[i]
      /\ \A i \in Len(Qualities) + 1..Len(Qualities) + 3 : WalkOrder[i] = rest[i - Len(Qualities)]
  <2>0. Qualities \in Seq(S)
    BY <1>1
  <2> HIDE DEF rest, S
  <2>1. /\ Len(Qualities \o rest) = Len(Qualities) + Len(rest)
        /\ \A i \in 1..Len(Qualities) + Len(rest) :
             (Qualities \o rest)[i] = IF i <= Len(Qualities) THEN Qualities[i] ELSE rest[i - Len(Qualities)]
    BY <1>2, <2>0, ConcatProperties
  <2> QED BY <1>1, <1>2, <1>3, <2>1
<1>5. /\ WalkOrder[Len(Qualities) + 1] = "dash" /\ WalkOrder[Len(Qualities) + 2] = "input"
      /\ WalkOrder[Len(Qualities) + 3] = "master"
  <2>1. /\ WalkOrder[Len(Qualities) + 1] = rest[1] /\ WalkOrder[Len(Qualities) + 2] = rest[2]
        /\ WalkOrder[Len(Qualities) + 3] = rest[3]
    <3> HIDE DEF rest
    <3> QED BY <1>1, <1>4
  <2> QED BY <1>2, <2>1
<1>6. /\ \A i \in 1..Len(Qualities) : Qualities[i] \in QualityNames
      /\ \A f \in QualityNames : \E i \in 1..Len(Qualities) : f = Qualities[i]
  BY <1>1 DEF QualityNames
<1>7. ASSUME NEW i \in 1..Len(WalkOrder) PROVE WalkOrder[i] \in FileNames
  <2>1. \/ i \in 1..Len(Qualities) \/ i = Len(Qualities) + 1 \/ i = Len(Qualities) + 2 \/ i = Len(Qualities) + 3
    BY <1>1, <1>4
  <2> QED BY <1>4, <1>5, <1>6, <2>1 DEF FileNames
<1> QED BY <1>1, <1>4, <1>5, <1>6, <1>7

\* Each file has a key of its own in the backend.
LEMMA NamesOfKeys ==
    ASSUME VideoAssumption
    PROVE  /\ \A f \in QualityNames \cup {"master"} : f \in FileNames \ {"input", "dash"}
           /\ \A f \in FileNames : StorageKey(f) \in VideoKeys
           /\ \A f, g \in FileNames : StorageKey(f) = StorageKey(g) => f = g
BY DEF VideoAssumption, FileNames, VideoKeys, StorageKey

\* No file is there at first.
LEMMA VideoStart == ASSUME VideoAssumption, VideoInit PROVE VideoInv
<1>1. StorageKey("master") \in VideoKeys
  BY NamesOfKeys
<1>2. VideoShapes
  BY DEF VideoInit, VideoShapes, VideoLabels, VideoContents
<1>3. ASSUME NEW j \in Starts PROVE VideoProgress(j)
  BY <1>3 DEF VideoInit, VideoProgress
<1> QED BY <1>1, <1>2, <1>3 DEF VideoInit, VideoInv, Reported, Served

\* Files but the input stay, and so do objects.
Kept ==
    /\ \A f \in FileNames \ {"input"} : videoFiles[f] # "none" => videoFiles'[f] # "none"
    /\ \A k \in VideoKeys : objects[k] # "none" => objects'[k] # "none"

\* A step of one job.
LEMMA VideoMoves ==
    ASSUME VideoAssumption, VideoInv, NEW j \in Starts, NEW l \in VideoLabels, NEW n \in Nat \ {0},
           jpc' = [jpc EXCEPT ![j] = l], step' = [step EXCEPT ![j] = n],
           VideoShapes', Kept, VideoProgress(j)',
           Reported' => Reported \/ AllServed',
           Served(StorageKey("master"))' => Served(StorageKey("master")) \/ AllServed'
    PROVE  VideoInv'
<1>1. Len(Qualities) \in Nat
  BY WalkFacts
<1>2. ASSUME NEW m, FilesUpTo(m) PROVE FilesUpTo(m)'
  <2>1. \A i \in 1..Len(Qualities) : Qualities[i] \in FileNames \ {"input"}
    BY WalkFacts, NamesOfKeys
  <2> QED BY <1>2, <2>1 DEF FilesUpTo, Kept
<1>3. ASSUME NEW m, Uploaded(m) PROVE Uploaded(m)'
  <2>1. \A i \in 1..Len(WalkOrder) : StorageKey(WalkOrder[i]) \in VideoKeys
    BY WalkFacts, NamesOfKeys
  <2> QED BY <1>3, <2>1 DEF Uploaded, Kept, Served
<1>4. ASSUME NEW i \in Starts, i # j PROVE VideoProgress(i)'
  <2>1. jpc'[i] = jpc[i] /\ step'[i] = step[i] /\ VideoProgress(i)
    BY <1>4 DEF VideoInv, VideoShapes
  <2>2. videoFiles["master"] # "none" => videoFiles'["master"] # "none"
    BY NamesOfKeys DEF Kept
  <2> QED BY <1>2, <1>3, <2>1, <2>2 DEF VideoProgress
<1>5. AllServed => AllServed'
  BY NamesOfKeys DEF AllServed, Kept, Served
<1>6. Reported' \/ Served(StorageKey("master"))' => AllServed'
  BY <1>5 DEF VideoInv
<1> QED BY <1>4, <1>6 DEF VideoInv

\* Each step of a job, and the death of the replica, keeps the invariant.
LEMMA VideoStep == ASSUME VideoAssumption, VideoInv, [VideoNext]_videoVars PROVE VideoInv'
<1>0. /\ VideoShapes /\ Len(Qualities) \in Nat
      /\ \A j \in Starts : /\ jpc[j] \in VideoLabels /\ step[j] \in Nat \ {0} /\ VideoProgress(j)
                           /\ step = [step EXCEPT ![j] = step[j]]
                           /\ jpc = [jpc EXCEPT ![j] = jpc[j]]
  BY WalkFacts DEF VideoInv, VideoShapes
<1>1. ASSUME UNCHANGED <<videoFiles, objects, step>>, job' \subseteq Starts,
             videoCached' \in {videoCached, "none"},
             jstatus' = jstatus, jpc' \in [Starts -> VideoLabels],
             \A j \in Starts : jpc'[j] \in {jpc[j], "ended"}
      PROVE  VideoInv'
  <2>1. VideoShapes'
    BY <1>0, <1>1 DEF VideoShapes
  <2>2. \A j \in Starts : VideoProgress(j)'
    BY <1>0, <1>1 DEF VideoProgress, FilesUpTo, Uploaded, Served
  <2>3. Reported' => Reported
    BY <1>1 DEF Reported
  <2> QED BY <1>1, <2>1, <2>2, <2>3 DEF VideoInv, AllServed, Served
<1>2. CASE UNCHANGED videoVars
  BY <1>0, <1>1, <1>2 DEF videoVars, VideoShapes
<1>3. CASE VideoRestart \/ VideoLapseCache
  <2>1. jpc' \in [Starts -> VideoLabels] /\ \A j \in Starts : jpc'[j] \in {jpc[j], "ended"}
    BY <1>0, <1>3 DEF VideoRestart, VideoLapseCache, VideoShapes, VideoLabels, VideoAt
  <2> QED BY <1>0, <1>1, <1>3, <2>1 DEF VideoRestart, VideoLapseCache, VideoShapes
\* A step of a job that stores nothing in the backend and reports nothing complete.
<1>4. ASSUME NEW j \in Starts, NEW l \in VideoLabels, NEW n \in Nat \ {0},
             NEW s \in {"pending", "processing", "failed"},
             jpc' = [jpc EXCEPT ![j] = l], step' = [step EXCEPT ![j] = n],
             job' \in {job, {j}}, UNCHANGED objects,
             jstatus' \in {jstatus, [jstatus EXCEPT ![j] = s]}, videoCached' \in {videoCached, s},
             videoFiles' \in [FileNames -> VideoContents],
             \A f \in FileNames \ {"input"} : videoFiles[f] # "none" => videoFiles'[f] # "none",
             l \in {"idle", "store", "begin", "create", "write"} => n = 1,
             l \in {"hls", "encode"} => NowWritten(n),
             l = "encode" => n <= Len(Qualities),
             l \in {"master", "dash", "upload"} => NowWritten(Len(Qualities) + 1),
             l \in {"dash", "upload"} => videoFiles'["master"] # "none",
             l = "upload" => n = 1
      PROVE  VideoInv'
  <2>1. VideoShapes'
    BY <1>0, <1>4 DEF VideoShapes
  <2>2. Uploaded(1)
    BY WalkFacts DEF Uploaded
  <2>3. Uploaded(1)'
    BY <1>4, <2>2 DEF Uploaded, Served
  <2>4. VideoProgress(j)'
    <3>1. jpc'[j] = l /\ step'[j] = n
      BY <1>0, <1>4 DEF VideoShapes
    <3>2. FilesUpTo(Len(Qualities) + 1)' <=> NowWritten(Len(Qualities) + 1)
      BY DEF FilesUpTo, NowWritten
    <3>3. FilesUpTo(step[j])' <=> NowWritten(n)
      BY <3>1 DEF FilesUpTo, NowWritten
    <3>4. l = "upload" => Uploaded(step[j])'
      BY <1>4, <2>3, <3>1 DEF Uploaded, Served
    <3> QED BY <1>4, <3>1, <3>2, <3>3, <3>4 DEF VideoProgress
  <2>5. Reported' => Reported
    BY <1>0, <1>4 DEF Reported, VideoShapes
  <2>6. Served(StorageKey("master"))' => Served(StorageKey("master"))
    BY <1>4 DEF Served
  <2> QED BY <1>4, <2>1, <2>4, <2>5, <2>6, VideoMoves DEF Kept
<1>5. ASSUME NEW j \in Starts, VideoFail(j) PROVE VideoInv'
  BY <1>0, <1>4, <1>5 DEF VideoFail, VideoSetStatus, VideoGoto, VideoShapes, VideoLabels
<1>6. ASSUME NEW j \in Starts, CheckRunning(j) \/ StoreJob(j) \/ VideoBegin(j) PROVE VideoInv'
  <2>1. step[j] = 1
    BY <1>0, <1>6 DEF CheckRunning, StoreJob, VideoBegin, VideoAt, VideoProgress
  <2>2. CASE CheckRunning(j)
    <3>1. PICK l \in {"refused", "store"} : VideoGoto(j, l) /\ Same
      BY <2>2 DEF CheckRunning
    <3>2. /\ UNCHANGED <<job, videoCached, videoFiles, objects, jstatus>> /\ l \in VideoLabels
          /\ jpc' = [jpc EXCEPT ![j] = l]
          /\ step' = [step EXCEPT ![j] = 1]
          /\ l \notin {"hls", "encode", "master", "dash", "upload"}
      BY <1>0, <2>1, <3>1 DEF VideoGoto, Same, VideoLabels
    <3>3. /\ jstatus' \in {jstatus, [jstatus EXCEPT ![j] = "failed"]}
          /\ videoCached' \in {videoCached, "failed"}
          /\ job' \in {job, {j}} /\ UNCHANGED objects /\ 1 \in Nat \ {0}
          /\ videoFiles' \in [FileNames -> VideoContents]
          /\ \A f \in FileNames \ {"input"} : videoFiles[f] # "none" => videoFiles'[f] # "none"
      BY <1>0, <3>2 DEF VideoShapes
    <3> QED BY <1>4, <3>2, <3>3
  <2>3. CASE StoreJob(j)
    BY <1>0, <1>4, <2>1, <2>3 DEF StoreJob, VideoGoto, VideoLabels, VideoShapes
  <2>4. CASE VideoBegin(j)
    BY <1>0, <1>4, <2>1, <2>4 DEF VideoBegin, VideoSetStatus, VideoGoto, VideoLabels, VideoShapes
  <2> QED BY <1>6, <2>2, <2>3, <2>4
<1>7. "input" \in FileNames /\ "dash" \in FileNames /\ "master" \in FileNames
  BY DEF FileNames
<1>8. ASSUME NEW f \in FileNames, NEW c \in VideoContents \ {"none"},
             videoFiles' = [videoFiles EXCEPT ![f] = c]
      PROVE  /\ videoFiles' \in [FileNames -> VideoContents] /\ videoFiles'[f] = c
             /\ \A g \in FileNames : videoFiles[g] # "none" => videoFiles'[g] # "none"
  BY <1>0, <1>8 DEF VideoShapes
<1>9. ASSUME NEW j \in Starts, CreateInput(j) \/ WriteInput(j) PROVE VideoInv'
  <2>1. step[j] = 1
    BY <1>0, <1>9 DEF CreateInput, WriteInput, VideoAt, VideoProgress
  <2>2. CASE /\ VideoSetStatus(j, "failed", "ended")
             /\ UNCHANGED <<job, videoFiles, objects, step, videoSteady>>
    BY <1>0, <1>4, <2>2 DEF VideoSetStatus, VideoGoto, VideoLabels, VideoShapes
  <2>3. ASSUME NEW l \in {"write", "hls"}, VideoGoto(j, l),
               NEW c \in VideoContents, videoFiles' = [videoFiles EXCEPT !["input"] = c],
               UNCHANGED <<job, videoCached, objects, jstatus, step>>
        PROVE  VideoInv'
    <3>1. NowWritten(1)
      BY <1>0 DEF NowWritten
    <3>2. /\ videoFiles' \in [FileNames -> VideoContents]
          /\ \A f \in FileNames \ {"input"} : videoFiles'[f] = videoFiles[f]
      BY <1>0, <1>7, <2>3 DEF VideoShapes
    <3> QED BY <1>0, <1>4, <2>1, <2>3, <3>1, <3>2 DEF VideoGoto, VideoLabels
  <2>4. CASE CreateInput(j)
    BY <2>2, <2>3, <2>4 DEF CreateInput, VideoContents
  <2>5. CASE WriteInput(j)
    <3>1. CASE /\ videoFiles' = [videoFiles EXCEPT !["input"] = IF @ = "none" THEN "none" ELSE "whole"]
               /\ VideoGoto(j, "hls")
               /\ UNCHANGED <<job, videoCached, objects, jstatus, step, videoSteady>>
      <4>1. PICK c \in VideoContents : videoFiles' = [videoFiles EXCEPT !["input"] = c]
        BY <3>1 DEF VideoContents
      <4> QED BY <2>3, <3>1, <4>1
    <3> QED BY <2>2, <2>5, <3>1 DEF WriteInput
  <2> QED BY <1>9, <2>4, <2>5
<1>10. ASSUME NEW j \in Starts, jpc[j] \in {"hls", "encode"}, step[j] <= Len(Qualities)
       PROVE  /\ Qualities[step[j]] \in FileNames \ {"input"}
              /\ step[j] \in 1..Len(Qualities)
              /\ FilesUpTo(step[j])
  <2>1. step[j] \in 1..Len(Qualities)
    BY <1>0, <1>10
  <2> QED BY <1>0, <1>10, <2>1, WalkFacts, NamesOfKeys DEF VideoProgress
<1>11. ASSUME NEW m, FilesUpTo(m),
              \A g \in FileNames : videoFiles[g] # "none" => videoFiles'[g] # "none"
       PROVE  NowWritten(m)
  <2>1. \A i \in 1..Len(Qualities) : Qualities[i] \in FileNames
    BY WalkFacts, NamesOfKeys
  <2> QED BY <1>11, <2>1 DEF FilesUpTo, NowWritten
<1>12. ASSUME NEW j \in Starts, RunFFmpeg(j) PROVE VideoInv'
  <2>1. jpc[j] = "hls" /\ FilesUpTo(step[j])
    BY <1>0, <1>12 DEF RunFFmpeg, VideoAt, VideoProgress
  <2>2. CASE step[j] > Len(Qualities)
    <3>1. VideoGoto(j, "master") /\ Same
      BY <1>12, <2>2 DEF RunFFmpeg
    <3>2. FilesUpTo(Len(Qualities) + 1)
      BY <1>0, <2>1, <2>2 DEF FilesUpTo
    <3>3. NowWritten(Len(Qualities) + 1)
      BY <3>1, <3>2 DEF FilesUpTo, NowWritten, Same
    <3>4. /\ UNCHANGED <<job, videoCached, videoFiles, objects, jstatus>>
          /\ "master" \in VideoLabels
          /\ jpc' = [jpc EXCEPT ![j] = "master"] /\ step' = [step EXCEPT ![j] = step[j]]
      BY <1>0, <3>1 DEF VideoGoto, Same, VideoLabels
    <3> QED BY <1>0, <1>4, <3>3, <3>4 DEF VideoShapes
  <2>3. CASE ~(step[j] > Len(Qualities)) /\ videoFiles["input"] = "none"
    BY <1>5, <1>12, <2>3 DEF RunFFmpeg
  <2>4. CASE ~(step[j] > Len(Qualities)) /\ videoFiles["input"] # "none"
    <3>1. /\ videoFiles' = [videoFiles EXCEPT ![Qualities[step[j]]] = "torn"]
          /\ VideoSetStatus(j, "processing", "encode") /\ UNCHANGED <<job, objects, step>>
      BY <1>12, <2>4 DEF RunFFmpeg
    <3>2. step[j] <= Len(Qualities) /\ Qualities[step[j]] \in FileNames
      BY <1>0, <1>10, <2>1, <2>4
    <3>3. /\ videoFiles' \in [FileNames -> VideoContents]
          /\ \A g \in FileNames : videoFiles[g] # "none" => videoFiles'[g] # "none"
      BY <1>8, <3>1, <3>2 DEF VideoContents
    <3>4. NowWritten(step[j])
      BY <1>11, <2>1, <3>3
    <3> QED BY <1>0, <1>4, <3>1, <3>2, <3>3, <3>4 DEF VideoSetStatus, VideoGoto, VideoLabels
  <2> QED BY <2>2, <2>3, <2>4
<1>13. ASSUME NEW j \in Starts, EndFFmpeg(j) PROVE VideoInv'
  <2>1. jpc[j] = "encode" /\ step[j] <= Len(Qualities)
    BY <1>0, <1>13 DEF EndFFmpeg, VideoAt, VideoProgress
  <2>2. CASE VideoFail(j)
    BY <1>5, <2>2
  <2>3. ASSUME NEW c \in {"torn", "whole"},
               videoFiles' = [videoFiles EXCEPT ![Qualities[step[j]]] = c],
               step' = [step EXCEPT ![j] = @ + 1], VideoGoto(j, "hls"),
               UNCHANGED <<job, videoCached, objects, jstatus, videoSteady>>
        PROVE  VideoInv'
    <3>1. Qualities[step[j]] \in FileNames /\ FilesUpTo(step[j]) /\ step[j] \in 1..Len(Qualities)
      BY <1>10, <2>1
    <3>2. /\ videoFiles' \in [FileNames -> VideoContents] /\ videoFiles'[Qualities[step[j]]] = c
          /\ \A g \in FileNames : videoFiles[g] # "none" => videoFiles'[g] # "none"
      BY <1>8, <2>3, <3>1 DEF VideoContents
    <3>3. \A i \in 1..Len(Qualities) : i < step[j] + 1 => videoFiles'[Qualities[i]] # "none"
      <4>1. \A i \in 1..Len(Qualities) : Qualities[i] \in FileNames
        BY WalkFacts, NamesOfKeys
      <4>2. \A i \in 1..Len(Qualities) : i < step[j] + 1 => i < step[j] \/ i = step[j]
        BY <1>0
      <4> QED BY <2>3, <3>1, <3>2, <4>1, <4>2 DEF FilesUpTo
    <3> DEFINE n == step[j] + 1
    <3>4. n \in Nat \ {0} /\ step' = [step EXCEPT ![j] = n]
      BY <1>0, <2>3
    <3>6. NowWritten(n)
      BY <3>3 DEF NowWritten
    <3> HIDE DEF n
    <3>7. "hls" \in VideoLabels
      BY DEF VideoLabels
    <3> QED BY <1>0, <1>4, <2>3, <3>2, <3>4, <3>6, <3>7 DEF VideoGoto
  <2> QED BY <1>13, <2>2, <2>3 DEF EndFFmpeg
<1>14. ASSUME NEW j \in Starts, WriteMaster(j) \/ RunDASH(j) PROVE VideoInv'
  <2>1. FilesUpTo(Len(Qualities) + 1) /\ (jpc[j] = "dash" => videoFiles["master"] # "none")
    BY <1>0, <1>14 DEF WriteMaster, RunDASH, VideoAt, VideoProgress
  <2>2. /\ videoFiles' \in [FileNames -> VideoContents]
        /\ \A g \in FileNames : videoFiles[g] # "none" => videoFiles'[g] # "none"
        /\ WriteMaster(j) => videoFiles'["master"] # "none"
    <3>1. CASE WriteMaster(j)
      BY <1>7, <1>8, <3>1 DEF WriteMaster, VideoContents
    <3>2. CASE RunDASH(j)
      <4>1. videoFiles' = [videoFiles EXCEPT !["dash"] = "whole"] \/ UNCHANGED videoFiles
        BY <3>2 DEF RunDASH
      <4>2. ~WriteMaster(j)
        BY <3>2 DEF RunDASH, WriteMaster, VideoAt
      <4> QED BY <1>0, <1>7, <1>8, <4>1, <4>2 DEF VideoContents, VideoShapes
    <3> QED BY <1>14, <3>1, <3>2
  <2>3. NowWritten(Len(Qualities) + 1)
    BY <1>11, <2>1, <2>2
  <2>4. CASE WriteMaster(j)
    BY <1>0, <1>4, <2>2, <2>3, <2>4 DEF WriteMaster, VideoGoto, VideoLabels
  <2>5. CASE RunDASH(j)
    <3>1. /\ jpc[j] = "dash"
          /\ VideoSetStatus(j, "processing", "upload")
          /\ step' = [step EXCEPT ![j] = 1]
          /\ UNCHANGED <<job, objects>>
      BY <2>5 DEF RunDASH, VideoAt
    <3>2. videoFiles'["master"] # "none"
      BY <1>7, <2>1, <2>2, <3>1
    <3>3. /\ jpc' = [jpc EXCEPT ![j] = "upload"] /\ jstatus' = [jstatus EXCEPT ![j] = "processing"]
          /\ videoCached' = "processing" /\ "upload" \in VideoLabels
      BY <3>1 DEF VideoSetStatus, VideoGoto, VideoLabels
    <3>4. /\ jstatus' \in {jstatus, [jstatus EXCEPT ![j] = "processing"]}
          /\ videoCached' \in {videoCached, "processing"}
          /\ job' \in {job, {j}} /\ UNCHANGED objects /\ 1 \in Nat \ {0}
          /\ \A f \in FileNames \ {"input"} : videoFiles[f] # "none" => videoFiles'[f] # "none"
      BY <2>2, <3>1, <3>3
    <3> QED BY <1>4, <2>2, <2>3, <3>1, <3>2, <3>3, <3>4
  <2> QED BY <1>14, <2>4, <2>5
<1>15. ASSUME NEW j \in Starts, Visit(j) PROVE VideoInv'
  <2>1. /\ jpc[j] = "upload" /\ step[j] \in 1..Len(WalkOrder) /\ Uploaded(step[j])
        /\ FilesUpTo(Len(Qualities) + 1) /\ videoFiles["master"] # "none"
    BY <1>0, <1>15, WalkFacts DEF Visit, VideoAt, VideoProgress
  <2> DEFINE f == WalkOrder[step[j]]
             n == step[j] + 1
  <2>2. CASE VideoFail(j)
    BY <1>5, <2>2
  <2>3. CASE /\ objects' = IF f = "input" \/ videoFiles[f] = "none" THEN objects
                           ELSE [objects EXCEPT ![StorageKey(f)] = videoFiles[f]]
             /\ step' = [step EXCEPT ![j] = @ + 1]
             /\ UNCHANGED <<job, videoCached, videoFiles, jstatus, jpc, videoSteady>>
    <3>1. f \in FileNames /\ StorageKey(f) \in VideoKeys /\ videoFiles[f] \in VideoContents
      BY <1>0, <2>1, WalkFacts, NamesOfKeys DEF VideoShapes
    <3>2. f \notin {"input", "dash"} => videoFiles[f] # "none"
      <4>1. \/ step[j] \in 1..Len(Qualities) \/ step[j] = Len(Qualities) + 1
            \/ step[j] = Len(Qualities) + 2 \/ step[j] = Len(Qualities) + 3
        BY <1>0, <2>1, WalkFacts
      <4>2. CASE step[j] \in 1..Len(Qualities)
        <5>1. f = Qualities[step[j]] /\ step[j] < Len(Qualities) + 1
          BY <1>0, <4>2, WalkFacts
        <5> QED BY <2>1, <4>2, <5>1 DEF FilesUpTo
      <4> QED BY <2>1, <4>1, <4>2, WalkFacts
    <3>3. /\ objects' \in [VideoKeys -> VideoContents]
          /\ \A k \in VideoKeys : objects[k] # "none" => objects'[k] # "none"
          /\ \A k \in VideoKeys \ {StorageKey(f)} : objects'[k] = objects[k]
          /\ f \notin {"input", "dash"} => objects'[StorageKey(f)] # "none"
      <4> HIDE DEF f
      <4> QED BY <1>0, <2>3, <3>1, <3>2 DEF VideoShapes
    <3>4. n \in Nat \ {0} /\ step' = [step EXCEPT ![j] = n] /\ jpc' = [jpc EXCEPT ![j] = "upload"]
      BY <1>0, <2>1, <2>3
    <3>5. \A i \in 1..Len(WalkOrder) : i < n /\ WalkOrder[i] \notin {"input", "dash"}
              => objects'[StorageKey(WalkOrder[i])] # "none"
      <4>1. \A i \in 1..Len(WalkOrder) : StorageKey(WalkOrder[i]) \in VideoKeys
        BY WalkFacts, NamesOfKeys
      <4>2. \A i \in 1..Len(WalkOrder) : i < n => i < step[j] \/ i = step[j]
        BY <1>0, WalkFacts
      <4> QED BY <2>1, <3>3, <4>1, <4>2 DEF Uploaded, Served
    <3>6. ASSUME f = "master" PROVE \A g \in QualityNames \cup {"master"} : objects'[StorageKey(g)] # "none"
      <4>1. step[j] = Len(Qualities) + 3
        <5>1. \A i \in 1..Len(Qualities) : WalkOrder[i] # "master"
          BY WalkFacts DEF VideoAssumption
        <5>2. \/ step[j] \in 1..Len(Qualities) \/ step[j] = Len(Qualities) + 1
              \/ step[j] = Len(Qualities) + 2 \/ step[j] = Len(Qualities) + 3
          BY <1>0, <2>1, WalkFacts
        <5> QED BY <3>6, <5>1, <5>2, WalkFacts
      <4>2. ASSUME NEW g \in QualityNames PROVE objects'[StorageKey(g)] # "none"
        <5>1. PICK i \in 1..Len(Qualities) : g = Qualities[i]
          BY WalkFacts
        <5>2. i \in 1..Len(WalkOrder) /\ i < n /\ WalkOrder[i] = g
          BY <1>0, <4>1, <5>1, WalkFacts
        <5>3. g \notin {"input", "dash"}
          BY NamesOfKeys
        <5> QED BY <3>5, <5>2, <5>3
      <4> QED BY <3>3, <3>6, <4>2
    <3>7. \/ f = "master"
          \/ StorageKey("master") \in VideoKeys \ {StorageKey(f)}
      BY <1>7, <3>1, NamesOfKeys
    <3> HIDE DEF f, n
    <3>8. VideoShapes' /\ Kept
      BY <1>0, <2>3, <3>3, <3>4 DEF VideoShapes, Kept
    <3>9. VideoProgress(j)'
      <4>1. jpc'[j] = "upload" /\ step'[j] = n
        BY <1>0, <3>4 DEF VideoShapes
      <4>2. FilesUpTo(Len(Qualities) + 1)'
        BY <2>1, <2>3 DEF FilesUpTo
      <4>3. Uploaded(step[j])'
        BY <3>5, <4>1 DEF Uploaded, Served
      <4> QED BY <2>1, <2>3, <4>1, <4>2, <4>3 DEF VideoProgress
    <3>10. Reported' => Reported
      BY <2>3 DEF Reported
    <3>11. Served(StorageKey("master"))' => Served(StorageKey("master")) \/ AllServed'
      BY <3>3, <3>6, <3>7 DEF Served, AllServed
    <3> QED BY <3>4, <3>8, <3>9, <3>10, <3>11, VideoMoves DEF VideoLabels
  <2> QED BY <1>15, <2>2, <2>3 DEF Visit
<1>16. ASSUME NEW j \in Starts, VideoComplete(j) PROVE VideoInv'
  <2>1. /\ jpc[j] = "upload" /\ step[j] > Len(WalkOrder) /\ Uploaded(step[j])
        /\ VideoSetStatus(j, Completed, "remove")
        /\ UNCHANGED <<job, videoFiles, objects, step, videoSteady>>
    BY <1>0, <1>16 DEF VideoComplete, VideoAt, VideoProgress
  <2>2. AllServed
    <3>1. ASSUME NEW g \in QualityNames \cup {"master"} PROVE Served(StorageKey(g))
      <4>1. PICK i \in 1..Len(WalkOrder) : g = WalkOrder[i]
        BY <1>0, <3>1, WalkFacts
      <4>2. i < step[j] /\ g \notin {"input", "dash"}
        BY <1>0, <2>1, <3>1, <4>1, WalkFacts, NamesOfKeys
      <4> QED BY <2>1, <4>1, <4>2 DEF Uploaded
    <3> QED BY <3>1 DEF AllServed
  <2>3. AllServed'
    BY <2>1, <2>2 DEF AllServed, Served
  <2>4. VideoShapes' /\ Kept
    BY <1>0, <2>1 DEF VideoShapes, Kept, VideoSetStatus, VideoGoto, VideoLabels
  <2>5. VideoProgress(j)'
    BY <1>0, <2>1 DEF VideoShapes, VideoProgress, VideoSetStatus, VideoGoto
  <2>6. /\ jpc' = [jpc EXCEPT ![j] = "remove"]
        /\ "remove" \in VideoLabels
        /\ step' = [step EXCEPT ![j] = step[j]]
    BY <1>0, <2>1 DEF VideoSetStatus, VideoGoto, VideoLabels
  <2> QED BY <1>0, <2>3, <2>4, <2>5, <2>6, VideoMoves
<1>17. ASSUME NEW j \in Starts, RemoveInput(j) PROVE VideoInv'
  <2>1. /\ videoFiles' \in [FileNames -> VideoContents]
        /\ \A f \in FileNames \ {"input"} : videoFiles'[f] = videoFiles[f]
    BY <1>0, <1>7, <1>17 DEF RemoveInput, VideoShapes, VideoContents
  <2> QED BY <1>0, <1>4, <1>17, <2>1 DEF RemoveInput, VideoGoto, VideoLabels
<1> QED BY <1>2, <1>3, <1>6, <1>9, <1>12, <1>13, <1>14, <1>15, <1>16, <1>17 DEF VideoNext, VideoRun

\* A video reported complete has the streams of every quality and the master
\* playlist in the backend, whatever the list of qualities, however many jobs
\* write the same files, and though the replica dies in the middle (Visit,
\* VideoComplete, GetTranscodeStatus).
THEOREM CompleteVideosServed == ASSUME VideoAssumption PROVE VideoSpec => []CompleteHasAll
<1>1. VideoInit => VideoInv
  BY VideoStart
<1>2. VideoInv /\ [VideoNext]_videoVars => VideoInv'
  BY VideoStep
<1>3. VideoInv => CompleteHasAll
  <2>1. ASSUME VideoInv,
               GetTranscodeStatus = "complete" PROVE Reported \/ Served(StorageKey("master"))
    <3>1. CASE job # {}
      <4>1. (CHOOSE j \in job : TRUE) \in Starts
        BY <2>1, <3>1 DEF VideoInv, VideoShapes
      <4>2. jstatus[CHOOSE j \in job : TRUE] = "complete"
        BY <2>1, <3>1 DEF GetTranscodeStatus
      <4> QED BY <4>1, <4>2 DEF Reported
    <3>2. CASE job = {} /\ videoCached # "none"
      BY <2>1, <3>2 DEF GetTranscodeStatus, Reported
    <3>3. CASE job = {} /\ videoCached = "none"
      BY <2>1, <3>3 DEF GetTranscodeStatus
    <3> QED BY <3>1, <3>2, <3>3
  <2>2. ASSUME VideoInv, GetTranscodeStatus = "complete"
        PROVE  \A f \in QualityNames \cup {"master"} : Served(StorageKey(f))
    BY <2>1, <2>2 DEF VideoInv, AllServed
  <2> QED BY <2>2 DEF CompleteHasAll
<1> QED BY <1>1, <1>2, <1>3, PTL DEF VideoSpec

\* The statuses of the jobs and of the cache.
VideoStatuses ==
    /\ videoCached \in {"none", "processing", "complete", "failed"}
    /\ jstatus \in [Starts -> {"none", "pending", "processing", "complete", "failed"}]
    /\ videoSteady \in [Starts -> BOOLEAN]

\* No step leaves the types.
LEMMA VideoStatusStep == ASSUME VideoStatuses, [VideoNext]_videoVars PROVE VideoStatuses'
<1> USE DEF VideoStatuses
<1>1. CASE UNCHANGED videoVars
  BY <1>1 DEF videoVars
\* Statuses that are set are those of the types.
<1>2. ASSUME NEW j \in Starts, NEW s \in {"processing", "complete", "failed"}, NEW l,
             VideoSetStatus(j, s, l)
      PROVE  /\ videoCached' \in {"none", "processing", "complete", "failed"}
             /\ jstatus' \in [Starts -> {"none", "pending", "processing", "complete", "failed"}]
  BY <1>2 DEF VideoSetStatus
<1>3. ASSUME NEW j \in Starts, VideoFail(j) PROVE VideoStatuses'
  BY <1>2, <1>3 DEF VideoFail
<1>4. ASSUME UNCHANGED <<videoCached, jstatus, videoSteady>> PROVE VideoStatuses'
  BY <1>4
<1>5. ASSUME NEW j \in Starts, CheckRunning(j) \/ StoreJob(j) \/ VideoBegin(j) PROVE VideoStatuses'
  <2>1. CASE CheckRunning(j)
    BY <1>4, <2>1 DEF CheckRunning, Same
  <2>2. CASE StoreJob(j)
    BY <2>2 DEF StoreJob
  <2>3. CASE VideoBegin(j)
    BY <1>2, <2>3 DEF VideoBegin
  <2> QED BY <1>5, <2>1, <2>2, <2>3
<1>6. ASSUME NEW j \in Starts, CreateInput(j) PROVE VideoStatuses'
  <2>1. CASE VideoSetStatus(j, "failed", "ended") /\ UNCHANGED videoSteady
    BY <1>2, <2>1
  <2>2. CASE videoSteady' = [i \in Starts |-> FALSE] /\ UNCHANGED <<videoCached, jstatus>>
    <3>1. videoSteady' \in [Starts -> BOOLEAN]
      BY <2>2, Zenon
    <3> QED BY <2>2, <3>1
  <2> QED BY <1>6, <2>1, <2>2 DEF CreateInput
<1>7. ASSUME NEW j \in Starts, WriteInput(j) PROVE VideoStatuses'
  <2>1. CASE VideoSetStatus(j, "failed", "ended") /\ UNCHANGED videoSteady
    BY <1>2, <2>1
  <2> QED BY <1>4, <1>7, <2>1 DEF WriteInput
<1>8. ASSUME NEW j \in Starts, RunFFmpeg(j) PROVE VideoStatuses'
  <2>1. CASE /\ VideoSetStatus(j, "processing", "encode")
             /\ videoSteady' = [videoSteady EXCEPT ![j] = videoFiles["input"] = "whole"]
    <3>1. videoSteady' \in [Starts -> BOOLEAN]
      BY <2>1
    <3> QED BY <1>2, <2>1, <3>1
  <2> QED BY <1>3, <1>4, <1>8, <2>1 DEF RunFFmpeg, Same
<1>9. ASSUME NEW j \in Starts, EndFFmpeg(j) \/ WriteMaster(j) PROVE VideoStatuses'
  BY <1>3, <1>4, <1>9 DEF EndFFmpeg, WriteMaster
<1>10. ASSUME NEW j \in Starts, RunDASH(j) \/ VideoComplete(j) PROVE VideoStatuses'
  BY <1>2, <1>10 DEF RunDASH, VideoComplete, Completed
<1>11. ASSUME NEW j \in Starts, Visit(j) \/ RemoveInput(j) PROVE VideoStatuses'
  BY <1>3, <1>4, <1>11 DEF Visit, RemoveInput
<1>12. CASE VideoRestart \/ VideoLapseCache
  BY <1>12 DEF VideoRestart, VideoLapseCache
<1> QED BY <1>1, <1>5, <1>6, <1>7, <1>8, <1>9, <1>10, <1>11, <1>12 DEF VideoNext, VideoRun

\* The types of a transcoding's state, for any list of qualities.
THEOREM VideoTypes == ASSUME VideoAssumption PROVE VideoSpec => []VideoTypeOK
<1>1. VideoInit => VideoInv /\ VideoStatuses
  <2> SUFFICES ASSUME VideoInit PROVE VideoInv /\ VideoStatuses
    OBVIOUS
  <2>1. videoSteady \in [Starts -> BOOLEAN]
    BY Zenon DEF VideoInit
  <2> QED BY <2>1, VideoStart DEF VideoInit, VideoStatuses
<1>2. (VideoInv /\ VideoStatuses) /\ [VideoNext]_videoVars => (VideoInv /\ VideoStatuses)'
  BY VideoStep, VideoStatusStep
<1>3. VideoInv /\ VideoStatuses => VideoTypeOK
  BY DEF VideoInv, VideoShapes, VideoStatuses, VideoTypeOK
<1> QED BY <1>1, <1>2, <1>3, PTL DEF VideoSpec

------------------------------------------------------------------------------
\* SCANS.

\* A set of numbers below a bound has a greatest one.
LEMMA Greatest ==
    ASSUME NEW b \in Nat, NEW S \in SUBSET (0..b), S # {}
    PROVE  \E m \in S : \A n \in S : n <= m
<1> DEFINE T == {i \in 0..b : b - i \in S}
<1>1. T \in SUBSET Nat /\ T # {}
  <2>1. PICK s \in S : TRUE
    OBVIOUS
  <2>2. PICK i \in 0..b : b - i = s
    <3>1. s \in 0..b
      BY <2>1
    <3>2. b - s \in 0..b /\ b - (b - s) = s
      BY <3>1
    <3> QED BY <3>2
  <2>3. i \in T
    BY <2>2
  <2>4. T \in SUBSET Nat
    OBVIOUS
  <2> QED BY <2>3, <2>4
<1>2. PICK m \in T : \A n \in T : m <= n
  <2> HIDE DEF T
  <2> QED BY <1>1, Least
<1>3. \A n \in S : b - n \in T
  OBVIOUS
<1> QED BY <1>2, <1>3

-------------------------------------------------------------------------------
Confident(D) == \A d \in D : d.confidence \in 0..100

\* Each answer is at least the ones below it.
LEMMA Scale ==
    /\ \A a \in {"flag", "quarantine", "block"} : AtLeast("block", a)
    /\ AtLeast("quarantine", "quarantine")
    /\ AtLeast("quarantine", "flag")
    /\ AtLeast("flag", "flag")
<1>1. /\ Actions[1] = "allow"
      /\ Actions[2] = "flag"
      /\ Actions[3] = "quarantine"
      /\ Actions[4] = "block"
      /\ 1 \in 1..4 /\ 2 \in 1..4 /\ 3 \in 1..4 /\ 4 \in 1..4
  BY DEF Actions
<1> QED BY <1>1 DEF AtLeast

\* What the most confident detection calls for, all the others do, once the
\* critical ones are out of the way.
LEMMA DecisiveIsMost ==
    ASSUME ScansAssumption, MediumQuarantined, NEW D, Confident(D), ~Enough(D)
    PROVE  /\ Decisive(D) = {} => \A d \in D : ScanCalls(d) = "none"
           /\ \A d \in Decisive(D), e \in D :
                ScanCalls(e) # "none" => AtLeast(ScanCalls(d), ScanCalls(e))
<1> DEFINE C == {d \in D : ScanCalls(d) # "none"}
<1>1. ASSUME C # {} PROVE Decisive(D) # {}
  <2> DEFINE S == {d.confidence : d \in C}
  <2>1. S \in SUBSET (0..100) /\ S # {}
    BY <1>1 DEF Confident
  <2>2. PICK m \in S : \A n \in S : n <= m
    <3> HIDE DEF S
    <3> QED BY <2>1, Greatest
  <2>3. PICK d \in C : d.confidence = m
    BY <2>2
  <2>4. d \in Decisive(D)
    BY <2>2, <2>3 DEF Decisive
  <2> QED BY <2>4
<1>2. ASSUME NEW d \in D PROVE ScanCalls(d) \in {"quarantine", "flag", "none"}
  BY <1>2 DEF ScanCalls, Enough
<1>3. ASSUME NEW d \in Decisive(D), NEW e \in D, ScanCalls(e) = "quarantine"
      PROVE  ScanCalls(d) = "quarantine"
  <2>1. /\ d \in D /\ ScanCalls(d) # "none" /\ e.confidence <= d.confidence
        /\ d.confidence \in 0..100 /\ e.confidence \in 0..100
    BY <1>3 DEF Decisive, Confident
  <2>2. ~(d.category \in Critical /\ d.confidence >= 80)
    BY <2>1 DEF Enough
  <2>3. CASE QuarantineMedium /\ e.confidence >= 50
    BY <2>1, <2>2, <2>3 DEF ScanCalls
  <2>4. CASE ~(QuarantineMedium /\ e.confidence >= 50)
    <3>1. BlockHighConfidence /\ e.confidence >= 80
      BY <1>3, <2>1, <2>4 DEF ScanCalls
    <3>2. ~FlagLowConfidence
      BY <2>1, <2>4, <3>1 DEF MediumQuarantined
    <3> QED BY <2>1, <2>2, <3>2 DEF ScanCalls
  <2> QED BY <2>3, <2>4
<1>4. ASSUME NEW d \in Decisive(D), NEW e \in D, ScanCalls(e) # "none"
      PROVE  AtLeast(ScanCalls(d), ScanCalls(e))
  <2>1. d \in D /\ ScanCalls(d) # "none"
    BY DEF Decisive
  <2> QED BY <1>2, <1>3, <1>4, <2>1, Scale
<1>5. ASSUME Decisive(D) = {}, NEW d \in D PROVE ScanCalls(d) = "none"
  BY <1>1, <1>5
<1> QED BY <1>4, <1>5

-------------------------------------------------------------------------------
ScanLabels == {"idle", "list", "scan", "act", "done", "stored"}

ScanShapes ==
    /\ \A i \in DOMAIN Registered : Confident(verdict[i])
    /\ scanPc \in [Scans -> ScanLabels] /\ scanAt \in [Scans -> Nat \ {0}]
    /\ found = [s \in Scans |-> found[s]] /\ scanAnswer = [s \in Scans |-> scanAnswer[s]]

\* A scan has detections only once it asks providers, and while it asks them
\* none is enough to block; its answer does not change.
ScanProgress(s) ==
    /\ Confident(found[s])
    /\ scanPc[s] \in {"idle", "list"} => found[s] = {} /\ scanAnswer[s] = "none"
    /\ scanPc[s] = "scan" => ~Enough(found[s]) /\ scanAnswer[s] = "none"
    /\ scanAnswer[s] # "none" /\ MediumQuarantined =>
         \A d \in found[s] : ScanCalls(d) # "none" => AtLeast(scanAnswer[s], ScanCalls(d))

ScanInv == ScanShapes /\ \A s \in Scans : ScanProgress(s)

\* No scan has an answer at first.
LEMMA ScanStart == ASSUME ScansAssumption, ScanInit PROVE ScanInv
<1>1. ASSUME NEW i \in DOMAIN Registered, NEW d \in verdict[i] PROVE d.confidence \in 0..100
  <2>1. Registered[i] \in DOMAIN SupportedMimeTypes /\ verdict[i] \in Verdicts[Registered[i]]
    BY <1>1 DEF ScansAssumption, ScanInit
  <2>2. Registered[i] \in {"hash_blocklist", "aws_rekognition", "google_vision", "custom"}
    BY <2>1 DEF SupportedMimeTypes
  <2>3. \/ verdict[i] \in {{[category |-> "csam", confidence |-> 100]}, {}}
        \/ verdict[i] \in SUBSET Detections
    BY <2>1, <2>2 DEF Verdicts, ListScan, RekognitionScan, VisionScan
  <2>4. CASE verdict[i] \in {{[category |-> "csam", confidence |-> 100]}, {}}
    BY <1>1, <2>4
  <2>5. CASE verdict[i] \in SUBSET Detections
    BY <1>1, <2>5 DEF ScansAssumption
  <2> QED BY <2>3, <2>4, <2>5
<1>2. ScanShapes
  BY <1>1 DEF ScanInit, ScanShapes, ScanLabels, Confident
<1>3. ASSUME NEW s \in Scans PROVE ScanProgress(s)
  BY <1>3 DEF ScanInit, ScanProgress, Confident
<1> QED BY <1>2, <1>3 DEF ScanInv

\* Each provider's answer, and the aggregation, keeps the invariant.
LEMMA ScanStep == ASSUME ScansAssumption, ScanInv, [ScanNext]_scanVars PROVE ScanInv'
<1> USE DEF ScanInv
<1>1. CASE UNCHANGED scanVars
  BY <1>1 DEF scanVars, ScanShapes, ScanProgress, Confident
\* A step of a scan leaves the others alone.
<1>2. ASSUME NEW s \in Scans, NEW l \in ScanLabels, NEW F, NEW a,
             UNCHANGED verdict, scanAt' \in [Scans -> Nat \ {0}],
             scanPc' = [scanPc EXCEPT ![s] = l], found' = [found EXCEPT ![s] = F],
             scanAnswer' = [scanAnswer EXCEPT ![s] = a],
             Confident(F),
             l \in {"idle", "list"} => F = {} /\ a = "none",
             l = "scan" => ~Enough(F) /\ a = "none",
             a # "none" /\ MediumQuarantined =>
                \A d \in F : ScanCalls(d) # "none" => AtLeast(a, ScanCalls(d))
      PROVE  ScanInv'
  <2>1. ScanShapes'
    BY <1>2 DEF ScanShapes
  <2>2. ASSUME NEW t \in Scans PROVE ScanProgress(t)'
    BY <1>2, <2>2 DEF ScanShapes, ScanProgress, Confident
  <2> QED BY <2>1, <2>2
<1>3. ASSUME NEW s \in Scans
      PROVE  /\ found = [found EXCEPT ![s] = found[s]]
             /\ scanAnswer = [scanAnswer EXCEPT ![s] = scanAnswer[s]]
             /\ scanPc = [scanPc EXCEPT ![s] = scanPc[s]] /\ scanPc[s] \in ScanLabels
  BY <1>3 DEF ScanShapes
<1>4. ASSUME NEW s \in Scans, ScanLookUp(s) \/ ScanCheckRemoved(s) PROVE ScanInv'
  <2>1. /\ UNCHANGED <<verdict, scanAt, found>> /\ scanPc[s] \in {"idle", "list"}
        /\ \/ \E a : ScanAnswer(s, a)
           \/ \E l \in {"list", "scan"} : ScanGoto(s, l) /\ UNCHANGED scanAnswer
    BY <1>4 DEF ScanLookUp, ScanCheckRemoved, ScanIn
  <2>2. found[s] = {} /\ scanAnswer[s] = "none" /\ ~Enough({}) /\ Confident({})
    BY <2>1 DEF ScanProgress, Enough, Confident
  <2>3. CASE \E a : ScanAnswer(s, a)
    BY <1>2, <1>3, <2>1, <2>2, <2>3 DEF ScanAnswer, ScanGoto, ScanLabels, ScanShapes
  <2>4. CASE \E l \in {"list", "scan"} : ScanGoto(s, l) /\ UNCHANGED scanAnswer
    BY <1>2, <1>3, <2>1, <2>2, <2>4 DEF ScanGoto, ScanLabels, ScanShapes
  <2> QED BY <2>1, <2>3, <2>4
<1>5. ASSUME NEW s \in Scans, AskProvider(s) PROVE ScanInv'
  <2>1. /\ scanPc[s] = "scan" /\ UNCHANGED verdict /\ scanAt' \in [Scans -> Nat \ {0}]
        /\ scanAt[s] \in DOMAIN Registered
    BY <1>5 DEF AskProvider, ScanIn, ScanShapes, ScansAssumption
  <2>2. ~Enough(found[s]) /\ scanAnswer[s] = "none" /\ Confident(found[s])
    BY <2>1 DEF ScanProgress
  <2>3. CASE UNCHANGED <<found, scanPc, scanAnswer, cache>>
    <3>1. /\ scanPc' = [scanPc EXCEPT ![s] = "scan"] /\ found' = [found EXCEPT ![s] = found[s]]
          /\ scanAnswer' = [scanAnswer EXCEPT ![s] = "none"]
      BY <1>3, <2>1, <2>2, <2>3
    <3> QED BY <1>2, <2>1, <2>2, <3>1 DEF ScanLabels
  <2>4. ASSUME NEW D \in Scanned(s, scanAt[s]), found' = [found EXCEPT ![s] = @ \cup D],
               IF Enough(D) THEN Result(s, "block") ELSE UNCHANGED <<scanPc, scanAnswer, cache>>
        PROVE  ScanInv'
    <3>1. found' = [found EXCEPT ![s] = found[s] \cup D]
      BY <2>4
    <3>2. Confident(found[s] \cup D)
      BY <2>1, <2>2, <2>4 DEF Scanned, ScanShapes, Confident
    <3>3. CASE Enough(D)
      <4>1. ScanAnswer(s, "block")
        BY <2>4, <3>3 DEF Result
      <4>2. \A d \in found[s] \cup D : ScanCalls(d) # "none" => AtLeast("block", ScanCalls(d))
        BY Scale DEF ScanCalls
      <4> QED BY <1>2, <2>1, <3>1, <3>2, <4>1, <4>2 DEF ScanAnswer, ScanGoto, ScanLabels
    <3>4. CASE ~Enough(D)
      <4>1. ~Enough(found[s] \cup D)
        BY <2>2, <3>4 DEF Enough
      <4>2. /\ scanPc' = [scanPc EXCEPT ![s] = "scan"]
            /\ scanAnswer' = [scanAnswer EXCEPT ![s] = "none"]
        BY <1>3, <2>1, <2>2, <2>4, <3>4
      <4> QED BY <1>2, <2>1, <3>1, <3>2, <4>1, <4>2 DEF ScanLabels
    <3> QED BY <3>3, <3>4
  <2> QED BY <1>5, <2>3, <2>4 DEF AskProvider
<1>6. ASSUME NEW s \in Scans, Combine(s) PROVE ScanInv'
  <2>1. /\ scanPc[s] = "scan" /\ UNCHANGED <<verdict, scanAt, found>>
        /\ \/ Decisive(found[s]) = {} /\ ScanAnswer(s, "allow")
           \/ \E d \in Decisive(found[s]) : ScanAnswer(s, ScanCalls(d))
    BY <1>6 DEF Combine, ScanIn, Result
  <2>2. ~Enough(found[s]) /\ Confident(found[s])
    BY <2>1 DEF ScanProgress
  <2>3. ASSUME NEW a, ScanAnswer(s, a),
               MediumQuarantined => \A d \in found[s] : ScanCalls(d) # "none" => AtLeast(a, ScanCalls(d))
        PROVE  ScanInv'
    BY <1>2, <1>3, <2>1, <2>2, <2>3 DEF ScanAnswer, ScanGoto, ScanLabels, ScanShapes
  <2> QED BY <2>1, <2>2, <2>3, DecisiveIsMost
<1>7. ASSUME NEW s \in Scans, Act(s) PROVE ScanInv'
  <2>1. /\ scanPc[s] = "act" /\ UNCHANGED <<verdict, scanAt, found, scanAnswer>>
        /\ \E l \in {"done", "stored"} : ScanGoto(s, l)
    BY <1>7 DEF Act, ScanIn
  <2>2. /\ Confident(found[s])
        /\ scanAnswer[s] # "none" /\ MediumQuarantined =>
             \A d \in found[s] : ScanCalls(d) # "none" => AtLeast(scanAnswer[s], ScanCalls(d))
    BY DEF ScanProgress
  <2>3. /\ scanAt' \in [Scans -> Nat \ {0}] /\ found' = [found EXCEPT ![s] = found[s]]
        /\ scanAnswer' = [scanAnswer EXCEPT ![s] = scanAnswer[s]]
    BY <1>3, <2>1 DEF ScanShapes
  <2>4. PICK l \in {"done", "stored"} : scanPc' = [scanPc EXCEPT ![s] = l]
    BY <2>1 DEF ScanGoto
  <2> QED BY <1>2, <2>1, <2>2, <2>3, <2>4 DEF ScanLabels
<1>8. ASSUME UNCHANGED <<verdict, scanPc, scanAt, found, scanAnswer>> PROVE ScanInv'
  BY <1>8 DEF ScanShapes, ScanProgress, Confident
<1>9. ASSUME (\E approved \in BOOLEAN : Review(approved)) \/ ScanLapseCache PROVE ScanInv'
  BY <1>8, <1>9 DEF Review, ScanLapseCache
<1> QED BY <1>1, <1>4, <1>5, <1>6, <1>7, <1>9 DEF ScanNext, Scan

\* The answer of a scan is at least what each detection it was given calls for,
\* though aggregateResults looks at the most confident one only, for every
\* choice of providers, categories and confidences (AskProvider, Combine).
THEOREM DetectionsNotWeakened == ASSUME ScansAssumption PROVE ScanSpec => []NotWeakened
<1>1. ScanInit => ScanInv
  BY ScanStart
<1>2. ScanInv /\ [ScanNext]_scanVars => ScanInv'
  BY ScanStep
<1>3. ScanInv => NotWeakened
  BY DEF ScanInv, ScanProgress, NotWeakened
<1> QED BY <1>1, <1>2, <1>3, PTL DEF ScanSpec

\* No step leaves the types.
LEMMA ScanTypesStep == ASSUME ScansAssumption, ScanTypeOK, [ScanNext]_scanVars PROVE ScanTypeOK'
<1> USE DEF ScanTypeOK, scanList
<1>0. Len(Registered) \in Nat /\ Reviews \in Nat
  BY DEF ScansAssumption
<1>1. CASE UNCHANGED scanVars
  BY <1>1 DEF scanVars
<1>2. ASSUME NEW s \in Scans, NEW a \in ActionNames, ScanAnswer(s, a)
      PROVE  scanAnswer' \in [Scans -> ActionNames \cup {"none"}]
  BY <1>2 DEF ScanAnswer
<1>3. ASSUME NEW s \in Scans, ScanLookUp(s) \/ ScanCheckRemoved(s) PROVE ScanTypeOK'
  <2>1. "block" \in ActionNames
    BY DEF ActionNames
  <2>2. scanAnswer' \in [Scans -> ActionNames \cup {"none"}]
    BY <1>2, <1>3, <2>1 DEF ScanLookUp, ScanCheckRemoved
  <2> QED BY <1>3, <2>2 DEF ScanLookUp, ScanCheckRemoved
<1>4. ASSUME NEW s \in Scans, NEW a \in ActionNames, Result(s, a)
      PROVE  /\ cache' \in ActionNames \cup {"none"}
             /\ scanAnswer' \in [Scans -> ActionNames \cup {"none"}]
  BY <1>2, <1>4 DEF Result
<1>5. ASSUME NEW s \in Scans, AskProvider(s) PROVE ScanTypeOK'
  <2>1. scanAt' \in [Scans -> 1..Len(Registered) + 1]
    BY <1>0, <1>5 DEF AskProvider
  <2>2. /\ cache' \in ActionNames \cup {"none"}
        /\ scanAnswer' \in [Scans -> ActionNames \cup {"none"}]
    <3>1. "block" \in ActionNames
      BY DEF ActionNames
    <3>2. Result(s, "block") \/ UNCHANGED <<scanAnswer, cache>>
      BY <1>5 DEF AskProvider
    <3> QED BY <1>4, <3>1, <3>2
  <2> QED BY <1>5, <2>1, <2>2 DEF AskProvider
<1>6. ASSUME NEW s \in Scans, Combine(s) PROVE ScanTypeOK'
  <2>1. "allow" \in ActionNames /\ \A d \in Decisive(found[s]) : ScanCalls(d) \in ActionNames
    BY DEF ActionNames, Decisive, ScanCalls
  <2>2. /\ cache' \in ActionNames \cup {"none"}
        /\ scanAnswer' \in [Scans -> ActionNames \cup {"none"}]
    BY <1>4, <1>6, <2>1 DEF Combine
  <2> QED BY <1>6, <2>2 DEF Combine
<1>7. ASSUME NEW s \in Scans, Act(s) PROVE ScanTypeOK'
  <2>1. scanRemoved' \in BOOLEAN
    BY <1>7 DEF Act
  <2> QED BY <1>7, <2>1 DEF Act
<1>8. ASSUME NEW approved \in BOOLEAN, Review(approved) PROVE ScanTypeOK'
  <2>1. scanRemoved' \in BOOLEAN /\ reviewed' \in 0..Reviews
    BY <1>0, <1>8 DEF Review
  <2> QED BY <1>8, <2>1 DEF Review
<1>9. CASE ScanLapseCache
  BY <1>9 DEF ScanLapseCache
<1> QED BY <1>1, <1>3, <1>5, <1>6, <1>7, <1>8, <1>9 DEF ScanNext, Scan

\* The types of a scan's state, for any providers; no scan asks one twice or goes
\* beyond the last.
THEOREM ScanTypes == ASSUME ScansAssumption PROVE ScanSpec => []ScanTypeOK
<1>1. ScanInit => ScanTypeOK
  <2>1. Len(Registered) \in Nat /\ Reviews \in Nat
    BY DEF ScansAssumption
  <2>2. 1 \in 1..Len(Registered) + 1 /\ 0 \in 0..Reviews
    BY <2>1
  <2> SUFFICES ASSUME ScanInit PROVE ScanTypeOK
    OBVIOUS
  <2>3. scanAt \in [Scans -> 1..Len(Registered) + 1] /\ reviewed \in 0..Reviews
    BY <2>2 DEF ScanInit
  <2>4. scanAnswer \in [Scans -> ActionNames \cup {"none"}]
    BY DEF ScanInit
  <2> QED BY <2>3, <2>4 DEF ScanInit, ScanTypeOK
<1>2. ScanTypeOK /\ [ScanNext]_scanVars => ScanTypeOK'
  BY ScanTypesStep
<1> QED BY <1>1, <1>2, PTL DEF ScanSpec
==============================================================================
