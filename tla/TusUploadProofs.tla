--------------------------- MODULE TusUploadProofs ---------------------------
(***************************************************************************)
(* Proofs about TusUpload for any length and any number of requests.       *)
(*                                                                         *)
(* StepCases says once what a step can be; each invariant is then carried  *)
(* through these few cases.                                                *)
(***************************************************************************)
EXTENDS TusUpload, TLAPS

------------------------------------------------------------------------------
\* The steps of a request up to the one that settles its chunk.
Writing == {"idle", "get", "blocklist", "put", "record", "unput"}

\* From and to which labels a step that only decides can lead, and when it
\* may skip a step that has an effect.
MoveAllowed(r, l) ==
    /\ l \in Labels \ {"record", "unlink"}
    /\ l \in Writing => pc[r] \in Writing \/ r = Sweeper
    /\ l = "idle" => r = Sweeper
    /\ r = Sweeper => l \in {"idle", "sdelete"}
    /\ r = Creator => pc[r] # "idle"
    /\ pc[r] = "record" => l = "unput" \/ "crash" \in Faults
    /\ pc[r] = "unput" => "crash" \in Faults
    /\ pc[r] = "unlink" => todo[r] = {} \/ "crash" \in Faults

Moves(r) == \E l \in Labels : Move(r, l) /\ MoveAllowed(r, l)

\* The steps that change only what one actor knows.
Learns(r) ==
    /\ r # Sweeper
    /\ UNCHANGED <<upload, objects, blocked, input>>
    /\ \E l \in {"blocklist", "mread", "fread", "delete", "done"} :
         /\ Goto(r, l)
         /\ l = "blocklist" => pc[r] = "get"
    /\ pc[r] \in {"get", "mlist", "flist", "mread", "fread"}
    /\ seen' = seen \/ seen' = [seen EXCEPT ![r] = offset]
    /\ \E S \in SUBSET (todo[r] \cup chunks) : todo' = [todo EXCEPT ![r] = S]

Records(r) ==
    /\ At(r, "record") /\ OffsetStands(r)
    /\ offset' = from[r] + len[r]
    /\ expired' = FALSE
    /\ chunks' = chunks \cup {[at |-> from[r], size |-> len[r], key |-> tusChunkKey(r)]}
    /\ Goto(r, Appended(r))
    /\ UNCHANGED <<row, objects, blocked, input, local, saved>>

Unlinks(r) ==
    /\ At(r, "unlink")
    /\ \E c \in todo[r] :
         /\ ObjectGone(c.key)
         /\ todo' = [todo EXCEPT ![r] = @ \ {c}]
         /\ UNCHANGED <<upload, blocked, input, pc, seen, pos, got, saved>>

Effects(r) ==
    \/ r # Sweeper /\ At(r, "put") /\ Fits(r) /\ PutChunk(r, "record")
    \/ r # Sweeper /\ At(r, "put") /\ "storage" \in Faults /\ PutChunk(r, Failed(r))
    \/ Records(r)
    \/ RemoveOwnBytes(r)
    \/ pc[r] \in {"delete", "sdelete"} /\ row /\ RemoveUpload(r)
    \/ Unlinks(r)

Other == Create \/ Expire \/ Block

\* The sweep goes through its own steps only.
SweeperSteps == pc[Sweeper] \in {"idle", "sdelete", "unlink"}

\* A step is one of these.
LEMMA StepCases ==
    ASSUME TypeOK, SweeperSteps, Next
    PROVE  Other \/ \E r \in Actors : Moves(r) \/ Learns(r) \/ Effects(r)
<1> USE TusAssumption DEF At, Labels, DbError, EndOf, MoveAllowed, Writing, Actors, SweeperSteps
<1> DEFINE Case(r) == Moves(r) \/ Learns(r) \/ Effects(r)
<1>1. ASSUME NEW r \in Actors, NEW l \in Labels, Move(r, l), MoveAllowed(r, l) PROVE Case(r)
  BY <1>1 DEF Moves
<1>2. ASSUME NEW r \in Requests, Start(r) \/ LoadUpload(r) PROVE Case(r)
  <2>1. CASE Start(r)
    BY <1>1, <2>1 DEF Start
  <2>2. CASE LoadUpload(r)
    <3>1. CASE Move(r, "done") \/ Move(r, "delete")
      BY <1>1, <2>2, <3>1 DEF LoadUpload
    <3>2. CASE ~(Move(r, "done") \/ Move(r, "delete"))
      <4> DEFINE l == IF from[r] = offset \/ FinalizeRetry(r, offset) THEN "blocklist" ELSE "done"
      <4>1. /\ seen' = [seen EXCEPT ![r] = offset] /\ Goto(r, l)
            /\ UNCHANGED <<upload, objects, blocked, input, todo, pos, got, saved>>
        BY <2>2, <3>2 DEF LoadUpload
      <4>2. todo' = [todo EXCEPT ![r] = todo[r]] /\ todo[r] \in SUBSET (todo[r] \cup chunks)
        BY <4>1 DEF TypeOK
      <4>3. pc[r] = "get" /\ l \in {"blocklist", "mread", "fread", "delete", "done"} /\ r # Sweeper
        BY <2>2 DEF LoadUpload
      <4> HIDE DEF l
      <4>4. Learns(r)
        BY <4>1, <4>2, <4>3 DEF Learns
      <4> QED BY <4>4
    <3> QED BY <3>1, <3>2
  <2> QED BY <1>2, <2>1, <2>2
<1>3. ASSUME NEW r \in Requests \cup {Creator}, Patch(r) PROVE Case(r)
  <2>1. CASE BlocklistCheck(r)
    BY <1>1, <2>1 DEF BlocklistCheck
  <2>2. CASE AppendChunk(r)
    <3>1. CASE Move(r, Failed(r)) \/ Move(r, Appended(r))
      BY <1>1, <2>2, <3>1 DEF AppendChunk, Failed, Appended
    <3> QED BY <2>2, <3>1 DEF AppendChunk, Effects
  <2>3. CASE RecordChunk(r)
    <3>1. CASE Move(r, "unput")
      BY <1>1, <2>3, <3>1 DEF RecordChunk
    <3> QED BY <2>3, <3>1 DEF RecordChunk, Effects, Records
  <2>4. CASE RemoveOwnBytes(r)
    BY <2>4 DEF Effects
  <2>5. CASE ListUpload(r)
    <3>1. CASE Move(r, "done")
      BY <1>1, <2>5, <3>1 DEF ListUpload
    <3>2. CASE ListChunks(r, "mread") \/ ListChunks(r, "fread")
      BY <2>5, <3>2 DEF ListUpload, ListChunks, Learns
    <3> QED BY <2>5, <3>1, <3>2 DEF ListUpload
  <2>6. CASE ReadChunk(r)
    <3>1. CASE Move(r, "done")
      BY <1>1, <2>6, <3>1 DEF ReadChunk
    <3>2. CASE ~Move(r, "done")
      <4>1. PICK c \in todo[r] :
              /\ todo' = [todo EXCEPT ![r] = @ \ {c}]
              /\ UNCHANGED <<upload, objects, blocked, input, seen, pc, saved>>
        BY <2>6, <3>2 DEF ReadChunk
      <4>2. pc[r] \in {"mread", "fread"} /\ Goto(r, pc[r])
        BY <2>6, <4>1 DEF ReadChunk, Goto, TypeOK
      <4>3. /\ todo' = [todo EXCEPT ![r] = todo[r] \ {c}]
            /\ todo[r] \ {c} \in SUBSET (todo[r] \cup chunks)
        BY <4>1 DEF TypeOK
      <4> QED BY <4>1, <4>2, <4>3 DEF Learns
    <3> QED BY <3>1, <3>2
  <2>7. CASE MatchStoredTail(r)
    BY <1>1, <2>7 DEF MatchStoredTail
  <2>8. CASE FinalCheck(r)
    BY <1>1, <2>8 DEF FinalCheck
  <2>9. CASE Finalize(r)
    <3>1. CASE Move(r, "done") \/ Move(r, "delete")
      BY <1>1, <2>9, <3>1 DEF Finalize
    <3>2. CASE ~(Move(r, "done") \/ Move(r, "delete"))
      <4>1. /\ At(r, "fread")
            /\ Goto(r, "delete")
            /\ UNCHANGED <<upload, objects, blocked, input, local>>
        BY <2>9, <3>2 DEF Finalize
      <4>2. /\ todo' = [todo EXCEPT ![r] = todo[r]]
            /\ todo[r] \in SUBSET (todo[r] \cup chunks)
            /\ seen' = seen
        BY <4>1 DEF local, TypeOK
      <4>3. Learns(r)
        BY <4>1, <4>2 DEF Learns
      <4> QED BY <4>3
    <3> QED BY <3>1, <3>2
  <2> QED BY <1>3, <2>1, <2>2, <2>3, <2>4, <2>5, <2>6, <2>7, <2>8, <2>9 DEF Patch
<1>4. ASSUME NEW r \in Requests \cup {Creator}, DeleteUpload(r) PROVE Case(r)
  <2>1. CASE Move(r, "done")
    BY <1>1, <1>4, <2>1 DEF DeleteUpload
  <2>2. CASE row /\ RemoveUpload(r)
    BY <1>4, <2>2 DEF DeleteUpload, Effects
  <2> QED BY <1>4, <2>1, <2>2 DEF DeleteUpload
<1>5. ASSUME NEW r \in Actors, RemoveObjects(r) PROVE Case(r)
  <2>1. CASE todo[r] = {} /\ Move(r, EndOf(r))
    BY <1>1, <1>5, <2>1 DEF RemoveObjects
  <2> QED BY <1>5, <2>1 DEF RemoveObjects, Effects, Unlinks
<1>6. ASSUME SweepList \/ SweepDelete PROVE Case(Sweeper)
  <2>1. CASE \E l \in {"idle", "sdelete"} : Move(Sweeper, l)
    BY <1>1, <1>6, <2>1 DEF SweepList, SweepDelete
  <2> QED BY <1>6, <2>1 DEF SweepList, SweepDelete, Effects
<1>7. ASSUME NEW r \in Actors, Crash(r) PROVE Case(r)
  BY <1>1, <1>7 DEF Crash
<1> QED BY <1>2, <1>3, <1>4, <1>5, <1>6, <1>7 DEF Next, Sweep, Other

------------------------------------------------------------------------------
\* A request about to record a chunk has one that fits.
Fitting == \A r \in Actors : pc[r] = "record" => Fits(r) /\ r # Sweeper

Type == TypeOK /\ SweeperSteps /\ Fitting

\* An upload begins within its types.
LEMMA TypeInit == Init => Type
<1> SUFFICES ASSUME Init PROVE Type
  OBVIOUS
<1>1. TypeOK
  <2>1. op \in [Actors -> OpNames \cup {"create", "sweep"}]
    BY TusAssumption DEF Init
  <2>2. from \in [Actors -> 0..Length] /\ len \in [Actors -> 0..(Length + 1)]
    BY DEF Init
  <2>3. /\ pc \in [Actors -> Labels] /\ seen \in [Actors -> 0..Length]
        /\ todo \in [Actors -> SUBSET Chunk] /\ offset \in 0..Length
    BY TusAssumption DEF Init, Labels
  <2> QED BY <2>1, <2>2, <2>3 DEF Init, TypeOK
<1> QED BY <1>1 DEF Init, Type, SweeperSteps, Fitting, Actors

\* No step leaves them, nor records a chunk that does not fit.
LEMMA TypeStep == Type /\ [Next]_vars => Type'
<1> SUFFICES ASSUME Type, [Next]_vars PROVE Type'
  OBVIOUS
<1> USE TusAssumption DEF Type, SweeperSteps, Fitting, Fits, Labels, Actors, Goto, At
<1>1. CASE UNCHANGED vars
  BY <1>1 DEF vars, TypeOK
<1>2. CASE Create
  BY <1>2 DEF Create, TypeOK, input, local
<1>3. CASE Expire \/ Block
  BY <1>3 DEF Expire, Block, TypeOK, upload, input, local
<1>4. ASSUME NEW r \in Actors, Moves(r) PROVE Type'
  BY <1>4 DEF Moves, Move, MoveAllowed, Writing, TypeOK, upload, input, local
<1>5. ASSUME NEW r \in Actors, Learns(r) PROVE Type'
  <2>1. TypeOK'
    BY <1>5 DEF Learns, TypeOK, upload, input
  <2> QED BY <1>5, <2>1 DEF Learns, TypeOK, input
<1>6. ASSUME NEW r \in Actors, Effects(r) PROVE Type'
  <2>1. CASE r # Sweeper /\ ((Fits(r) /\ PutChunk(r, "record")) \/ PutChunk(r, Failed(r)))
    BY <2>1 DEF PutChunk, Failed, TypeOK, upload, input, local
  <2>2. CASE Records(r)
    <3>1. Fits(r) /\ r # Sweeper /\ from[r] \in 0..Length /\ len[r] \in 0..(Length + 1)
      BY <2>2 DEF Records, TypeOK
    <3>2. from[r] + len[r] \in 0..Length /\ len[r] \in 1..Length
      BY <3>1
    <3>3. [at |-> from[r], size |-> len[r], key |-> tusChunkKey(r)] \in Chunk
      BY <3>1, <3>2 DEF Chunk, tusChunkKey
    <3>4. TypeOK'
      BY <2>2, <3>2, <3>3 DEF Records, Appended, OffsetStands, TypeOK, input, local
    <3> QED BY <2>2, <3>1, <3>4 DEF Records, Appended, TypeOK, input
  <2>3. CASE RemoveOwnBytes(r)
    BY <2>3 DEF RemoveOwnBytes, Failed, TypeOK, upload, input, local
  <2>4. CASE RemoveUpload(r)
    BY <2>4 DEF RemoveUpload, TypeOK, input
  <2>5. CASE Unlinks(r)
    <3>1. todo' \in [Actors -> SUBSET Chunk]
      BY <2>5 DEF Unlinks, TypeOK
    <3> QED BY <2>5, <3>1 DEF Unlinks, TypeOK, upload, input
  <2> QED BY <1>6, <2>1, <2>2, <2>3, <2>4, <2>5 DEF Effects
<1> QED BY <1>1, <1>2, <1>3, <1>4, <1>5, <1>6, StepCases DEF Other

\* So it is in every state.
LEMMA TypeInvariant == Spec => []Type
<1> QED BY TypeInit, TypeStep, PTL DEF Spec

\* The state of an upload keeps its types, and no chunk runs past the declared
\* length, for every length and number of requests (appendBody).
THEOREM TusTypeCorrect == Spec => []TypeOK
<1>1. Type => TypeOK
  BY DEF Type
<1> QED BY <1>1, TypeInvariant, PTL

------------------------------------------------------------------------------
\* Nobody has anything of an upload that is not there yet, and who unlinks its
\* objects has deleted its row, which no one brings back.
Fresh ==
    /\ pc[Creator] = "idle" => ~row /\ offset = 0
    /\ ~row => chunks = {}
    /\ \A r \in Actors : pc[r] = "unlink" => ~row /\ pc[Creator] # "idle"

\* Nothing is there at first.
LEMMA FreshInit == Init => Fresh
<1> QED BY TusAssumption DEF Init, Fresh, Actors

\* A row that has gone does not come back.
LEMMA FreshStep == Type /\ Fresh /\ [Next]_vars => Fresh'
<1> SUFFICES ASSUME Type, Fresh, [Next]_vars PROVE Fresh'
  OBVIOUS
<1>0. pc \in [Actors -> Labels] /\ Creator \in Actors /\ Creator # Sweeper /\ TypeOK /\ SweeperSteps
  BY TusAssumption DEF Type, TypeOK, Actors
<1> USE <1>0 DEF Fresh, Goto, At
<1>1. CASE UNCHANGED vars
  BY <1>1 DEF vars
<1>2. CASE Create
  BY <1>2 DEF Create
<1>3. CASE Expire \/ Block
  BY <1>3 DEF Expire, Block, upload
<1>4. ASSUME NEW r \in Actors, Moves(r) PROVE Fresh'
  BY <1>4 DEF Moves, Move, MoveAllowed, upload
<1>5. ASSUME NEW r \in Actors, Learns(r) PROVE Fresh'
  BY <1>5 DEF Learns, upload
<1>6. ASSUME NEW r \in Actors, Effects(r) PROVE Fresh'
  <2>1. CASE \E l \in {"record", Failed(r)} : At(r, "put") /\ PutChunk(r, l)
    BY <2>1 DEF PutChunk, Failed, upload
  <2>2. CASE Records(r)
    BY <2>2 DEF Records, Appended, OffsetStands
  <2>3. CASE RemoveOwnBytes(r)
    BY <2>3 DEF RemoveOwnBytes, Failed, upload
  <2>4. CASE row /\ RemoveUpload(r)
    BY <2>4 DEF RemoveUpload
  <2>5. CASE Unlinks(r)
    BY <2>5 DEF Unlinks, upload
  <2> QED BY <1>6, <2>1, <2>2, <2>3, <2>4, <2>5 DEF Effects
<1> QED BY <1>1, <1>2, <1>3, <1>4, <1>5, <1>6, StepCases DEF Other

------------------------------------------------------------------------------
\* No chunk at first.
LEMMA TileInit == Init => ChunksTile
<1> QED BY TusAssumption DEF Init, ChunksTile

\* A chunk is recorded where the last one ended, or not at all.
LEMMA TileStep == Type /\ Fresh /\ ChunksTile /\ [Next]_vars => ChunksTile'
<1> SUFFICES ASSUME Type, Fresh, ChunksTile, [Next]_vars PROVE ChunksTile'
  OBVIOUS
<1>0. TypeOK /\ SweeperSteps
  BY DEF Type
<1>1. CASE UNCHANGED vars
  BY <1>1 DEF vars, ChunksTile, Covers
<1>2. CASE Create
  BY <1>2 DEF Create, Fresh, ChunksTile, Covers, At
<1>3. CASE UNCHANGED <<row, offset, chunks>>
  BY <1>3 DEF ChunksTile, Covers
<1>4. CASE \E r \in Actors : Records(r)
  <2>1. PICK r \in Actors : Records(r)
    BY <1>4
  <2> DEFINE new == [at |-> from[r], size |-> len[r], key |-> tusChunkKey(r)]
  <2>2. /\ row /\ row' /\ offset = from[r] /\ offset' = from[r] + len[r]
        /\ chunks' = chunks \cup {new}
    BY <2>1 DEF Records, OffsetStands
  <2>3. from[r] \in Nat /\ len[r] \in Nat /\ new.at = from[r] /\ new.size = len[r]
    BY TusAssumption, <1>0 DEF TypeOK
  <2>4. \A c \in chunks : c.at \in Nat /\ c.size \in Nat /\ c.at + c.size <= offset
    BY TusAssumption, <1>0 DEF TypeOK, Chunk, ChunksTile
  <2> HIDE DEF new
  <2>5. \A b \in Int : (Covers(new, b) <=> from[r] <= b /\ b < offset') /\ \A c \in chunks : Covers(c, b) => b < from[r]
    BY <2>2, <2>3, <2>4 DEF Covers
  <2>6. \A c \in chunks' : c.at + c.size <= offset'
    BY <2>2, <2>3, <2>4
  <2>7. \A b \in 0..(offset' - 1) : \E c \in chunks' : Covers(c, b)
    BY <2>2, <2>3, <2>5 DEF ChunksTile
  <2>8. \A c, d \in chunks', b \in 0..(Length - 1) : Covers(c, b) /\ Covers(d, b) => c = d
    BY <2>2, <2>3, <2>5, TusAssumption DEF ChunksTile
  <2> QED BY <2>2, <2>6, <2>7, <2>8 DEF ChunksTile, Covers
<1>5. CASE \E r \in Actors : RemoveUpload(r)
  BY <1>5 DEF RemoveUpload, ChunksTile
<1>6. ASSUME NEW r \in Actors, Moves(r) \/ Learns(r) PROVE UNCHANGED <<row, offset, chunks>>
  BY <1>6 DEF Moves, Move, Learns, upload
<1>7. ASSUME NEW r \in Actors, Effects(r), ~Records(r), ~RemoveUpload(r)
      PROVE  UNCHANGED <<row, offset, chunks>>
  BY <1>7 DEF Effects, PutChunk, RemoveOwnBytes, Unlinks, upload
<1>8. CASE Expire \/ Block
  BY <1>3, <1>8 DEF Expire, Block, upload
<1> QED BY <1>0, <1>1, <1>2, <1>3, <1>4, <1>5, <1>6, <1>7, <1>8, StepCases DEF Other

\* While the upload lives each byte below its offset is in exactly one recorded
\* chunk, whatever fails and however requests race (recordChunk).
THEOREM ChunksAlwaysTile == Spec => []ChunksTile
<1> QED BY TypeInvariant, FreshInit, FreshStep, TileInit, TileStep, PTL DEF Spec

------------------------------------------------------------------------------
\* The writer of c is a request that has its chunk recorded and writes no more.
Settled(c) == c.key[2] # Sweeper /\ pc[c.key[2]] \notin Writing

\* A recorded chunk has its object, and so has one about to be recorded; no
\* writer of a chunk that is recorded, or being removed, writes any more.
Keys ==
    /\ \A c \in chunks : c.key \in objects /\ Settled(c)
    /\ \A r \in Actors : pc[r] = "record" => tusChunkKey(r) \in objects
    /\ \A r \in Actors : pc[r] = "unlink" => \A c \in todo[r] : Settled(c)

\* No object at first.
LEMMA KeysInit == Init => Keys
<1> QED BY DEF Init, Keys

\* A writer that has settled stays settled.
LEMMA SettledStep ==
    ASSUME Type, NEW r \in Actors, NEW l \in Labels, Goto(r, l),
           l \in Writing => pc[r] \in Writing \/ r = Sweeper,
           NEW c \in Chunk, Settled(c)
    PROVE  Settled(c)'
<1>1. c.key[2] \in Actors /\ pc \in [Actors -> Labels]
  BY DEF Chunk, Type, TypeOK
<1>2. CASE c.key[2] = r
  BY <1>1, <1>2 DEF Settled, Goto
<1>3. CASE c.key[2] # r
  BY <1>1, <1>3 DEF Settled, Goto
<1> QED BY <1>2, <1>3

\* Who removes an object removes that of a chunk no longer recorded.
LEMMA KeysStep == Type /\ Fresh /\ Keys /\ [Next]_vars => Keys'
<1> SUFFICES ASSUME Type, Fresh, Keys, [Next]_vars PROVE Keys'
  OBVIOUS
<1>0. /\ pc \in [Actors -> Labels] /\ chunks \subseteq Chunk /\ todo \in [Actors -> SUBSET Chunk]
      /\ TypeOK /\ SweeperSteps
  BY DEF Type, TypeOK
<1>1. CASE UNCHANGED <<objects, chunks, todo, pc, from>>
  BY <1>1 DEF Keys, Settled, tusChunkKey
\* A step that leaves chunks and objects alone, and lets nobody record or unlink.
<1>2. ASSUME NEW r \in Actors, NEW l \in Labels \ {"record", "unlink"}, Goto(r, l),
             l \in Writing => pc[r] \in Writing \/ r = Sweeper,
             NEW S, todo' = [todo EXCEPT ![r] = S],
             UNCHANGED <<objects, chunks, from>>
      PROVE  Keys'
  <2>1. \A c \in Chunk : Settled(c) => Settled(c)'
    BY <1>2, SettledStep
  <2>2. \A c \in chunks' : c.key \in objects' /\ Settled(c)'
    BY <1>0, <1>2, <2>1 DEF Keys
  <2>3. \A s \in Actors : pc'[s] = "record" => tusChunkKey(s)' \in objects'
    BY <1>0, <1>2 DEF Keys, Goto, tusChunkKey
  <2>4. \A s \in Actors : pc'[s] = "unlink" => \A c \in todo'[s] : Settled(c)'
    BY <1>0, <1>2, <2>1 DEF Keys, Goto
  <2> QED BY <2>2, <2>3, <2>4 DEF Keys
<1>3. CASE Create
  <2>1. /\ Creator \in Actors /\ pc[Creator] = "idle"
        /\ \E l \in {"put", "done"} : Goto(Creator, l)
        /\ UNCHANGED <<objects, chunks, from, todo>>
    BY <1>3 DEF Create, At, Actors, input, local
  <2>2. todo' = [todo EXCEPT ![Creator] = todo[Creator]]
    BY <1>0, <2>1
  <2> QED BY <1>2, <2>1, <2>2 DEF Writing, Labels
<1>4. CASE Expire \/ Block
  BY <1>1, <1>4 DEF Expire, Block, upload, input, local
<1>5. ASSUME NEW r \in Actors, Moves(r) PROVE Keys'
  <2>1. PICK l \in Labels : Move(r, l) /\ MoveAllowed(r, l)
    BY <1>5 DEF Moves
  <2>2. Goto(r, l) /\ UNCHANGED <<objects, chunks, from, todo>>
    BY <2>1 DEF Move, upload, input, local
  <2>3. todo' = [todo EXCEPT ![r] = todo[r]]
    BY <1>0, <2>2
  <2> QED BY <1>2, <2>1, <2>2, <2>3 DEF MoveAllowed
<1>6. ASSUME NEW r \in Actors, Learns(r) PROVE Keys'
  <2>1. PICK l \in {"blocklist", "mread", "fread", "delete", "done"} :
          Goto(r, l) /\ (l = "blocklist" => pc[r] = "get")
    BY <1>6 DEF Learns
  <2>2. PICK S : todo' = [todo EXCEPT ![r] = S]
    BY <1>6 DEF Learns
  <2>3. UNCHANGED <<objects, chunks, from>>
    BY <1>6 DEF Learns, upload, input
  <2> QED BY <1>2, <2>1, <2>2, <2>3 DEF Labels, Writing
<1>7. ASSUME NEW r \in Actors, Effects(r) PROVE Keys'
  <2>1. CASE r # Sweeper /\ At(r, "put") /\ PutChunk(r, "record")
    <3>1. /\ objects' = objects \cup {tusChunkKey(r)} /\ Goto(r, "record") /\ pc[r] = "put"
          /\ UNCHANGED <<chunks, from, todo>>
      BY <2>1 DEF PutChunk, At, upload, input, local
    <3>2. \A c \in Chunk : Settled(c) => Settled(c)'
      BY <3>1, SettledStep DEF Writing, Labels
    <3> QED BY <1>0, <3>1, <3>2 DEF Keys, Goto, tusChunkKey
  <2>2. CASE r # Sweeper /\ At(r, "put") /\ PutChunk(r, Failed(r))
    <3>1. /\ objects' = objects \cup {tusChunkKey(r)} /\ Goto(r, Failed(r)) /\ pc[r] = "put"
          /\ UNCHANGED <<chunks, from, todo>> /\ Failed(r) \in {"delete", "done"}
      BY <2>2 DEF PutChunk, At, upload, input, local, Failed
    <3>2. \A c \in Chunk : Settled(c) => Settled(c)'
      BY <3>1, SettledStep DEF Writing, Labels
    <3> QED BY <1>0, <3>1, <3>2 DEF Keys, Goto, tusChunkKey
  <2>3. CASE Records(r)
    <3>0. PICK new : new = [at |-> from[r], size |-> len[r], key |-> tusChunkKey(r)]
      OBVIOUS
    <3>1. /\ pc[r] = "record" /\ chunks' = chunks \cup {new} /\ Goto(r, Appended(r))
          /\ UNCHANGED <<objects, from, todo>> /\ Appended(r) \in {"fcheck", "done"} /\ r # Sweeper
      BY <2>3, <3>0 DEF Records, At, Appended, input, local, Type, Fitting
    <3>2. \A c \in Chunk : Settled(c) => Settled(c)'
      BY <3>1, SettledStep DEF Writing, Labels
    <3>3. new.key = tusChunkKey(r) /\ new.key[2] = r
      BY <3>0 DEF tusChunkKey
    <3>4. new.key \in objects' /\ Settled(new)'
      BY <1>0, <3>1, <3>3 DEF Keys, Settled, Goto, Writing
    <3> QED BY <1>0, <3>1, <3>2, <3>4 DEF Keys, Goto, tusChunkKey
  <2>4. CASE RemoveOwnBytes(r)
    <3>1. /\ objects \ {tusChunkKey(r)} \subseteq objects' /\ Goto(r, Failed(r)) /\ pc[r] = "unput"
          /\ UNCHANGED <<chunks, from, todo>> /\ Failed(r) \in {"delete", "done"}
      BY <2>4 DEF RemoveOwnBytes, ObjectGone, At, upload, input, local, Failed
    <3>2. \A c \in Chunk : Settled(c) => Settled(c)'
      BY <3>1, SettledStep DEF Writing, Labels
    <3>3. \A c \in Chunk : Settled(c) => c.key # tusChunkKey(r)
      BY <3>1 DEF Settled, tusChunkKey, Writing
    <3>4. \A s \in Actors \ {r} : tusChunkKey(s) # tusChunkKey(r)
      BY DEF tusChunkKey
    <3>5. \A c \in chunks' : c.key \in objects' /\ Settled(c)'
      BY <1>0, <3>1, <3>2, <3>3 DEF Keys
    <3>6. \A s \in Actors : pc'[s] = "record" => tusChunkKey(s)' \in objects'
      <4>1. \A s \in Actors : tusChunkKey(s)' = tusChunkKey(s)
        BY <3>1 DEF tusChunkKey
      <4> QED BY <1>0, <3>1, <3>4, <4>1 DEF Keys, Goto
    <3>7. \A s \in Actors : pc'[s] = "unlink" => \A c \in todo'[s] : Settled(c)'
      BY <1>0, <3>1, <3>2 DEF Keys, Goto
    <3> QED BY <3>5, <3>6, <3>7 DEF Keys
  <2>5. CASE pc[r] \in {"delete", "sdelete"} /\ RemoveUpload(r)
    <3>1. /\ chunks' = {} /\ todo' = [todo EXCEPT ![r] = chunks] /\ Goto(r, "unlink")
          /\ UNCHANGED <<objects, from>>
      BY <2>5 DEF RemoveUpload, input
    <3>2. \A c \in Chunk : Settled(c) => Settled(c)'
      BY <3>1, SettledStep DEF Writing, Labels
    <3> QED BY <1>0, <3>1, <3>2 DEF Keys, Goto, tusChunkKey
  <2>6. CASE Unlinks(r)
    <3>1. PICK c \in todo[r] :
            /\ objects \ {c.key} \subseteq objects' /\ todo' = [todo EXCEPT ![r] = todo[r] \ {c}]
            /\ UNCHANGED <<chunks, from, pc>>
      BY <2>6 DEF Unlinks, ObjectGone, upload, input
    <3>2. chunks = {} /\ Settled(c)
      BY <2>6 DEF Unlinks, Fresh, Keys, At
    <3>3. \A s \in Actors : pc[s] = "record" => tusChunkKey(s) # c.key
      BY <3>2 DEF Settled, tusChunkKey, Writing
    <3>4. \A s \in Actors : pc'[s] = "record" => tusChunkKey(s)' \in objects'
      BY <3>1, <3>3 DEF Keys, tusChunkKey
    <3>5. \A s \in Actors : pc'[s] = "unlink" => \A d \in todo'[s] : Settled(d)'
      BY <1>0, <3>1 DEF Keys, Settled
    <3> QED BY <3>1, <3>2, <3>4, <3>5 DEF Keys
  <2> QED BY <1>7, <2>1, <2>2, <2>3, <2>4, <2>5, <2>6 DEF Effects
<1> QED BY <1>0, <1>1, <1>3, <1>4, <1>5, <1>6, <1>7, StepCases DEF Other, vars

\* A recorded chunk keeps its object, whatever fails: neither the loser of a
\* race nor the deleter of the upload removes it (AppendChunk, Delete).
THEOREM RecordedBytesStay == Spec => []RecordedBytesStored
<1>1. Keys => RecordedBytesStored
  BY DEF Keys, RecordedBytesStored
<1> QED BY <1>1, TypeInvariant, FreshInit, FreshStep, KeysInit, KeysStep, PTL DEF Spec

------------------------------------------------------------------------------
\* Some request is about to record or to remove its object k, or some actor has
\* it on its list to remove.
Owed(k) ==
    \/ \E r \in Actors : pc[r] \in {"record", "unput"} /\ k = tusChunkKey(r)
    \/ \E r \in Actors : pc[r] = "unlink" /\ \E c \in todo[r] : c.key = k

\* Every object is a recorded chunk's, or owed.
Accounted == \A k \in objects : (\E c \in chunks : c.key = k) \/ Owed(k)

\* Who stops on the way to its chunk's record removes its object.
LEMMA AccountedStep ==
    ASSUME Faults \cap {"storage", "crash"} = {}
    PROVE  Type /\ Accounted /\ [Next]_vars => Accounted'
<1> SUFFICES ASSUME Type, Accounted, [Next]_vars PROVE Accounted'
  OBVIOUS
<1>0. /\ pc \in [Actors -> Labels] /\ todo \in [Actors -> SUBSET Chunk]
      /\ "storage" \notin Faults /\ "crash" \notin Faults
      /\ TypeOK /\ SweeperSteps
  BY DEF Type, TypeOK
<1> USE <1>0
<1>1. CASE UNCHANGED <<objects, chunks, todo, pc, from>>
  BY <1>1 DEF Accounted, Owed, tusChunkKey
\* A step of r, who owes nothing.
<1>2. ASSUME NEW r \in Actors, NEW l \in Labels, Goto(r, l), NEW S,
             todo' = [todo EXCEPT ![r] = S],
             \/ pc[r] \notin {"record", "unput", "unlink"}
             \/ pc[r] = "record" /\ l = "unput"
             \/ pc[r] = "unlink" /\ todo[r] = {},
             UNCHANGED <<objects, chunks, from>>
      PROVE  Accounted'
  <2>1. ASSUME NEW k, Owed(k) PROVE Owed(k)'
    BY <1>2, <2>1 DEF Owed, Goto, tusChunkKey
  <2> QED BY <1>2, <2>1 DEF Accounted
<1>3. CASE Create
  <2>1. PICK l \in {"put", "done"} :
          /\ Creator \in Actors /\ pc[Creator] = "idle" /\ Goto(Creator, l)
          /\ UNCHANGED <<objects, chunks, from, todo>>
    BY <1>3 DEF Create, At, Actors, input, local
  <2>2. l \in Labels
    BY DEF Labels
  <2>3. todo' = [todo EXCEPT ![Creator] = todo[Creator]]
    BY <2>1
  <2> QED BY <1>2, <2>1, <2>2, <2>3
<1>4. CASE Expire \/ Block
  BY <1>1, <1>4 DEF Expire, Block, upload, input, local
<1>5. ASSUME NEW r \in Actors, Moves(r) PROVE Accounted'
  <2>1. PICK l \in Labels : Move(r, l) /\ MoveAllowed(r, l)
    BY <1>5 DEF Moves
  <2>2. Goto(r, l) /\ UNCHANGED <<objects, chunks, from, todo>>
    BY <2>1 DEF Move, upload, input, local
  <2>3. todo' = [todo EXCEPT ![r] = todo[r]]
    BY <2>2
  <2> QED BY <1>2, <2>1, <2>2, <2>3 DEF MoveAllowed
<1>6. ASSUME NEW r \in Actors, Learns(r) PROVE Accounted'
  <2>1. PICK l \in Labels : Goto(r, l)
    BY <1>6 DEF Learns, Labels
  <2>2. PICK S : todo' = [todo EXCEPT ![r] = S]
    BY <1>6 DEF Learns
  <2>3. UNCHANGED <<objects, chunks, from>> /\ pc[r] \notin {"record", "unput", "unlink"}
    BY <1>6 DEF Learns, upload, input
  <2> QED BY <1>2, <2>1, <2>2, <2>3
<1>7. ASSUME NEW r \in Actors, Effects(r) PROVE Accounted'
  <2>1. CASE At(r, "put") /\ PutChunk(r, "record")
    <3>1. /\ objects' = objects \cup {tusChunkKey(r)} /\ Goto(r, "record") /\ pc[r] = "put"
          /\ UNCHANGED <<chunks, from, todo>>
      BY <2>1 DEF PutChunk, At, upload, input, local
    <3>2. Owed(tusChunkKey(r))'
      BY <3>1 DEF Owed, Goto, tusChunkKey
    <3>3. ASSUME NEW k, Owed(k) PROVE Owed(k)'
      BY <3>1, <3>3 DEF Owed, Goto, tusChunkKey
    <3>4. tusChunkKey(r)' = tusChunkKey(r)
      BY <3>1 DEF tusChunkKey
    <3> QED BY <3>1, <3>2, <3>3, <3>4 DEF Accounted
  <2>2. CASE Records(r)
    <3>1. PICK new : /\ new.key = tusChunkKey(r) /\ chunks' = chunks \cup {new}
                     /\ Goto(r, Appended(r))
                     /\ UNCHANGED <<objects, from, todo>>
                     /\ pc[r] = "record"
      BY <2>2 DEF Records, At, input, local
    <3>2. ASSUME NEW k, Owed(k), k # tusChunkKey(r) PROVE Owed(k)'
      BY <3>1, <3>2 DEF Owed, Goto, tusChunkKey
    <3> QED BY <3>1, <3>2 DEF Accounted
  <2>3. CASE RemoveOwnBytes(r)
    <3>1. /\ objects' = objects \ {tusChunkKey(r)} /\ Goto(r, Failed(r)) /\ pc[r] = "unput"
          /\ UNCHANGED <<chunks, from, todo>>
      BY <2>3 DEF RemoveOwnBytes, ObjectGone, At, upload, input, local
    <3>2. ASSUME NEW k, Owed(k), k # tusChunkKey(r) PROVE Owed(k)'
      BY <3>1, <3>2 DEF Owed, Goto, tusChunkKey
    <3> QED BY <3>1, <3>2 DEF Accounted
  <2>4. CASE pc[r] \in {"delete", "sdelete"} /\ RemoveUpload(r)
    <3>1. /\ chunks' = {} /\ todo' = [todo EXCEPT ![r] = chunks] /\ Goto(r, "unlink")
          /\ UNCHANGED <<objects, from>>
      BY <2>4 DEF RemoveUpload, input
    <3>2. ASSUME NEW k, Owed(k) PROVE Owed(k)'
      BY <2>4, <3>1, <3>2 DEF Owed, Goto, tusChunkKey
    <3>3. ASSUME NEW c \in chunks PROVE Owed(c.key)'
      <4>1. pc'[r] = "unlink" /\ c \in todo'[r]
        BY <3>1 DEF Goto
      <4> QED BY <4>1 DEF Owed
    <3> QED BY <3>1, <3>2, <3>3 DEF Accounted
  <2>5. CASE Unlinks(r)
    <3>1. PICK c \in todo[r] :
            /\ objects' = objects \ {c.key} /\ todo' = [todo EXCEPT ![r] = todo[r] \ {c}]
            /\ UNCHANGED <<chunks, from, pc>>
      BY <2>5 DEF Unlinks, ObjectGone, upload, input
    <3>2. ASSUME NEW k, Owed(k), k # c.key PROVE Owed(k)'
      BY <3>1, <3>2 DEF Owed, tusChunkKey
    <3> QED BY <3>1, <3>2 DEF Accounted
  <2> QED BY <1>7, <2>1, <2>2, <2>3, <2>4, <2>5 DEF Effects
<1> QED BY <1>1, <1>3, <1>4, <1>5, <1>6, <1>7, StepCases DEF Other, vars

\* Where neither the storage backend fails nor a replica dies, an upload at rest
\* has no object but those of its recorded chunks: no chunk that races the
\* removal of its upload leaves its bytes behind (AppendChunk, Delete).
THEOREM NothingLeftBehind ==
    ASSUME Faults \cap {"storage", "crash"} = {}
    PROVE  Spec => []NoBytesLeftBehind
<1>1. Init => Accounted
  BY DEF Init, Accounted
<1>2. Type /\ Accounted /\ [Next]_vars => Accounted'
  BY AccountedStep
<1>3. Accounted => NoBytesLeftBehind
  BY DEF Accounted, Owed, NoBytesLeftBehind, AllQuiet
<1> QED BY <1>1, <1>2, <1>3, TypeInvariant, PTL DEF Spec

------------------------------------------------------------------------------
\* The steps on which an actor takes every byte to be stored.
Finishing == {"mlist", "mread", "fcheck", "flist", "fread"}

\* What has to hold of the offset for r to go to step l.
Ready(r, l) ==
    /\ l \in {"blocklist", "put"} /\ op[r] = "patch" => from[r] <= offset
    /\ l \in Finishing => offset = Length

Offsets ==
    /\ op[Creator] = "create"
    /\ \A r \in Actors : seen[r] <= offset /\ Ready(r, pc[r])

\* The offset only grows, so what an actor has seen of it is never ahead of it,
\* and an upload once complete stays so.
LEMMA OffsetsStep == Type /\ Fresh /\ Offsets /\ [Next]_vars => Offsets'
<1> SUFFICES ASSUME Type, Fresh, Offsets, [Next]_vars PROVE Offsets'
  OBVIOUS
<1>0. /\ TypeOK
      /\ SweeperSteps
      /\ Fitting
      /\ Creator \in Actors
      /\ Sweeper \in Actors
      /\ Length \in Nat
      /\ offset \in 0..Length /\ seen \in [Actors -> 0..Length] /\ from \in [Actors -> 0..Length]
      /\ len \in [Actors -> 0..(Length + 1)] /\ pc \in [Actors -> Labels]
  BY TusAssumption DEF Type, TypeOK, Actors
<1> USE <1>0 DEF At, upload, input, local, Finishing
<1>1. ASSUME UNCHANGED <<op, from, pc, seen>>, offset' = offset PROVE Offsets'
  BY <1>1 DEF Offsets, Ready
\* A step of r to l, which it is ready for.
<1>2. ASSUME NEW r \in Actors, NEW l, Goto(r, l), Ready(r, l), UNCHANGED <<op, from, seen, offset>>
      PROVE  Offsets'
  BY <1>2 DEF Offsets, Ready, Goto
<1>3. ASSUME NEW r \in Actors,
             NEW l \in {"idle", "get", "delete", "sdelete", "done", "unlink", "unput", "record"},
             Goto(r, l), UNCHANGED <<op, from, seen, offset>>
      PROVE  Offsets'
  BY <1>2, <1>3 DEF Ready
<1>4. CASE UNCHANGED vars \/ Expire \/ Block
  BY <1>1, <1>4 DEF vars, Expire, Block
<1>5. CASE Create
  <2>1. Goto(Creator, "put") \/ Goto(Creator, "done")
    BY <1>5 DEF Create
  <2> QED BY <1>2, <1>5, <2>1 DEF Create, Ready, Offsets
<1>6. ASSUME NEW r \in Actors,
             Start(r) \/ DeleteUpload(r) \/ RemoveObjects(r) \/ Crash(r) PROVE Offsets'
  BY <1>1, <1>3, <1>6 DEF Start, DeleteUpload, RemoveObjects, Crash, Move, DbError, EndOf, RemoveUpload
<1>7. CASE SweepList \/ SweepDelete
  BY <1>3, <1>7 DEF SweepList, SweepDelete, Move, DbError, EndOf, RemoveUpload
<1>8. ASSUME NEW r \in Requests, LoadUpload(r) PROVE Offsets'
  <2>0. r \in Actors
    BY DEF Actors
  <2>1. CASE \E l \in {"done", "delete", EndOf(r)} : Move(r, l)
    BY <1>3, <2>0, <2>1 DEF Move, EndOf
  <2>2. CASE ~\E l \in {"done", "delete", EndOf(r)} : Move(r, l)
    <3>1. /\ seen' = [seen EXCEPT ![r] = offset]
          /\ Goto(r, IF from[r] = offset \/ FinalizeRetry(r, offset) THEN "blocklist" ELSE "done")
          /\ UNCHANGED <<op, from, offset>>
      BY <1>8, <2>2 DEF LoadUpload, DbError
    <3>2. from[r] = offset \/ FinalizeRetry(r, offset) => from[r] <= offset
      BY <2>0 DEF FinalizeRetry
    <3> QED BY <2>0, <3>1, <3>2 DEF Offsets, Ready, Goto
  <2> QED BY <2>1, <2>2
<1>9. ASSUME NEW r \in Requests \cup {Creator}, Patch(r) PROVE Offsets'
  <2>0. r \in Actors /\ seen[r] <= offset /\ Ready(r, pc[r]) /\ seen[r] \in Nat /\ from[r] \in Nat
    BY DEF Actors, Offsets
  <2>1. CASE BlocklistCheck(r)
    <3>1. PICK l \in {"delete", "mlist", "put", EndOf(r)} :
            /\ Move(r, l) /\ (l = "mlist" => FinalizeRetry(r, seen[r]))
      BY <2>1 DEF BlocklistCheck, DbError, EndOf
    <3>2. Ready(r, l)
      BY <2>0, <2>1, <3>1 DEF BlocklistCheck, Ready, FinalizeRetry, EndOf
    <3> QED BY <1>2, <2>0, <3>1, <3>2 DEF Move
  <2>2. CASE AppendChunk(r)
    <3>1. PICK l \in {Failed(r), Appended(r), "record"} :
            /\ Goto(r, l)
            /\ UNCHANGED <<op, from, seen, offset>>
            /\ (l = "fcheck" => len[r] = 0 /\ l = Appended(r))
      BY <2>2 DEF AppendChunk, Move, PutChunk, Failed
    <3>2. Ready(r, l)
      BY <2>0, <2>2, <3>1 DEF AppendChunk, Ready, Failed, Appended
    <3> QED BY <1>2, <2>0, <3>1, <3>2
  <2>3. CASE RecordChunk(r)
    <3>1. CASE Move(r, "unput")
      BY <1>3, <2>0, <3>1 DEF Move
    <3>2. CASE ~Move(r, "unput")
      <4>1. /\ offset = from[r] /\ offset' = from[r] + len[r] /\ Goto(r, Appended(r))
            /\ UNCHANGED <<op, from, seen>> /\ Fits(r)
        BY <2>0, <2>3, <3>2 DEF RecordChunk, OffsetStands, Fitting
      <4>2. offset' >= offset /\ offset' <= Length /\ offset' \in Nat /\ len[r] \in Nat
        BY <2>0, <4>1 DEF Fits
      <4>3. Appended(r) \in {"fcheck", "done"} /\ (Appended(r) = "fcheck" => offset' = Length)
        BY <2>0, <4>1, <4>2 DEF Appended
      <4>4. ASSUME NEW s \in Actors PROVE seen[s] <= offset' /\ Ready(s, pc[s])'
        <5>1. seen[s] <= offset /\ Ready(s, pc[s]) /\ seen[s] \in Nat /\ from[s] \in Nat
          BY DEF Offsets
        <5>2. CASE s = r
          BY <4>1, <4>2, <4>3, <5>1, <5>2 DEF Ready, Goto
        <5>3. CASE s # r
          BY <4>1, <4>2, <5>1, <5>3 DEF Ready, Goto
        <5> QED BY <5>2, <5>3
      <4> QED BY <4>1, <4>4 DEF Offsets
    <3> QED BY <3>1, <3>2
  <2>4. CASE RemoveOwnBytes(r)
    BY <1>3, <2>0, <2>4 DEF RemoveOwnBytes, Failed
  <2>5. CASE ListUpload(r) \/ MatchStoredTail(r) \/ FinalCheck(r)
    <3>1. PICK l \in {"mread", "fread", "fcheck", "flist", "delete", "done", EndOf(r)} :
            Goto(r, l) /\ UNCHANGED <<op, from, seen, offset>>
      BY <2>5 DEF ListUpload, ListChunks, DbError, MatchStoredTail, FinalCheck, Move
    <3>2. offset = Length
      BY <2>0, <2>5 DEF ListUpload, MatchStoredTail, FinalCheck, Ready
    <3>3. Ready(r, l)
      BY <3>1, <3>2 DEF Ready, EndOf
    <3> QED BY <1>2, <2>0, <3>1, <3>3
  <2>6. CASE ReadChunk(r) \/ Finalize(r)
    BY <1>1, <1>3, <2>0, <2>6 DEF ReadChunk, Finalize, Move
  <2> QED BY <1>9, <2>1, <2>2, <2>3, <2>4, <2>5, <2>6 DEF Patch
<1> QED BY <1>4, <1>5, <1>6, <1>7, <1>8, <1>9 DEF Next, Sweep, Actors

\* A request that reads the chunks for a blob has all of them read or to be
\* read, or has found none.
Gathering(r) == got[r] \cup todo[r] = {} \/ Whole(got[r] \cup todo[r])

Gathered ==
    /\ got \in [Actors -> SUBSET Chunk]
    /\ \A r \in Actors : pc[r] = "fread" => Gathering(r)
    /\ NeverTorn

\* The chunks listed for a blob are all there are of a whole upload, or none, and the
\* ones read are not lost on the way.
LEMMA GatheredStep ==
    Type /\ ChunksTile /\ Offsets /\ Gathered /\ [Next]_vars => Gathered'
<1> SUFFICES ASSUME Type, ChunksTile, Offsets, Gathered, [Next]_vars PROVE Gathered'
  OBVIOUS
<1>0. /\ TypeOK /\ Creator \in Actors /\ Sweeper \in Actors /\ Length \in Nat
      /\ pc \in [Actors -> Labels] /\ todo \in [Actors -> SUBSET Chunk] /\ chunks \in SUBSET Chunk
      /\ got \in [Actors -> SUBSET Chunk]
      /\ pc[Sweeper] # "fread" /\ \A S \in saved : S = {} \/ Whole(S)
  BY TusAssumption DEF Type, TypeOK, Actors, SweeperSteps, Gathered, NeverTorn
<1>w. \A S : Whole(S)' = Whole(S)
  BY DEF Whole, Covers
<1> USE <1>0 DEF At, upload, input, local
\* A step to anywhere but the reading, by an actor that may change its list.
<1>1. ASSUME NEW r \in Actors, NEW l, l # "fread", Goto(r, l),
             \A s \in Actors \ {r} : todo'[s] = todo[s], got' = got, saved' = saved
      PROVE  Gathered'
  BY <1>1, <1>w DEF Gathered, Gathering, NeverTorn, Goto
<1>2. ASSUME UNCHANGED <<pc, todo, got, saved>> PROVE Gathered'
  BY <1>2, <1>w DEF Gathered, Gathering, NeverTorn
<1>3. CASE UNCHANGED vars \/ Expire \/ Block
  BY <1>2, <1>3 DEF vars, Expire, Block
<1>4. CASE Create
  <2>1. Goto(Creator, "put") \/ Goto(Creator, "done")
    BY <1>4 DEF Create
  <2> QED BY <1>1, <1>4, <2>1 DEF Create
<1>5. ASSUME NEW r \in Actors, Start(r) \/ DeleteUpload(r) \/ Crash(r) PROVE Gathered'
  BY <1>1, <1>5 DEF Start, DeleteUpload, Crash, Move, DbError, EndOf, RemoveUpload
<1>6. ASSUME NEW r \in Actors, RemoveObjects(r) PROVE Gathered'
  <2>1. CASE Move(r, EndOf(r))
    BY <1>1, <2>1 DEF Move, EndOf
  <2>2. CASE ~Move(r, EndOf(r))
    <3>1. /\ pc[r] = "unlink"
          /\ Goto(r, "unlink")
          /\ UNCHANGED <<got, saved>>
          /\ \A s \in Actors \ {r} : todo'[s] = todo[s]
      BY <1>6, <2>2 DEF RemoveObjects, Goto
    <3> QED BY <1>1, <3>1
  <2> QED BY <2>1, <2>2
<1>7. CASE SweepList \/ SweepDelete
  BY <1>1, <1>7 DEF SweepList, SweepDelete, Move, DbError, EndOf, RemoveUpload
<1>8. ASSUME NEW r \in Requests, LoadUpload(r) PROVE Gathered'
  <2>1. PICK l \in {"done", "delete", "blocklist", EndOf(r)} : /\ Goto(r, l)
                                                               /\ UNCHANGED <<todo, got, saved>>
    BY <1>8 DEF LoadUpload, DbError, Move
  <2> QED BY <1>1, <2>1 DEF EndOf, Actors
<1>9. ASSUME NEW r \in Requests \cup {Creator}, Patch(r) PROVE Gathered'
  <2>0. r \in Actors
    BY DEF Actors
  <2>1. CASE BlocklistCheck(r) \/ AppendChunk(r) \/ RecordChunk(r) \/ RemoveOwnBytes(r) \/ MatchStoredTail(r) \/ FinalCheck(r)
    <3>1. PICK l \in {"delete", "mlist", "put", "unput", "record", "fcheck", "flist", "done", EndOf(r), Failed(r), Appended(r)} :
            Goto(r, l) /\ UNCHANGED <<todo, got, saved>>
      BY <2>1 DEF BlocklistCheck, AppendChunk, RecordChunk, RemoveOwnBytes, MatchStoredTail, FinalCheck,
                  DbError, Move, PutChunk
    <3>2. l # "fread"
      BY <3>1 DEF EndOf, Failed, Appended
    <3> QED BY <1>1, <2>0, <3>1, <3>2
  <2>2. CASE ListUpload(r)
    <3>1. CASE DbError(r)
      BY <1>1, <2>0, <3>1 DEF DbError, Move, EndOf
    <3>2. CASE ListChunks(r, "mread")
      BY <2>0, <3>2, <1>w DEF ListChunks, Gathered, Gathering, NeverTorn, Goto
    <3>3. CASE At(r, "flist") /\ ListChunks(r, "fread")
      <4>1. offset = Length
        BY <2>0, <3>3 DEF Offsets, Ready, Finishing
      <4>2. chunks = {} \/ Whole(chunks)
        BY <4>1 DEF ChunksTile, Whole
      <4>3. got'[r] \cup todo'[r] = chunks
        BY <2>0, <3>3 DEF ListChunks
      <4>4. Gathering(r)'
        BY <4>2, <4>3, <1>w DEF Gathering
      <4> QED BY <2>0, <3>3, <4>4, <1>w DEF ListChunks, Gathered, Gathering, NeverTorn, Goto
    <3> QED BY <2>2, <3>1, <3>2, <3>3 DEF ListUpload
  <2>3. CASE ReadChunk(r)
    <3>1. CASE Move(r, "done")
      BY <1>1, <2>0, <3>1 DEF Move
    <3>2. CASE ~Move(r, "done")
      <4>1. PICK c \in todo[r] :
              /\ Readable(r, c)
              /\ todo' = [todo EXCEPT ![r] = @ \ {c}]
              /\ got' = [got EXCEPT ![r] = @ \cup (IF c.key \in objects THEN {c} ELSE {})]
              /\ UNCHANGED <<pc, saved>>
        BY <2>3, <3>2 DEF ReadChunk
      <4>2. pc[r] = "fread" => got'[r] \cup todo'[r] = got[r] \cup todo[r]
        BY <2>0, <4>1 DEF Readable
      <4>3. pc'[r] = "fread" => Gathering(r)'
        BY <2>0, <4>1, <4>2, <1>w DEF Gathered, Gathering
      <4>4. got' \in [Actors -> SUBSET Chunk]
        BY <2>0, <4>1
      <4> QED BY <2>0, <4>1, <4>3, <4>4, <1>w DEF Gathered, Gathering, NeverTorn
    <3> QED BY <3>1, <3>2
  <2>4. CASE Finalize(r)
    <3>1. CASE Move(r, "done") \/ Move(r, "delete")
      BY <1>1, <2>0, <3>1 DEF Move
    <3>2. CASE ~(Move(r, "done") \/ Move(r, "delete"))
      <4>1. /\ pc[r] = "fread" /\ todo[r] = {} /\ saved' = saved \cup {got[r]} /\ Goto(r, "delete")
            /\ UNCHANGED <<todo, got>>
        BY <2>4, <3>2 DEF Finalize
      <4>2. got[r] = {} \/ Whole(got[r])
        BY <2>0, <4>1 DEF Gathered, Gathering
      <4> QED BY <2>0, <4>1, <4>2, <1>w DEF Gathered, Gathering, NeverTorn, Goto
    <3> QED BY <3>1, <3>2
  <2> QED BY <1>9, <2>1, <2>2, <2>3, <2>4 DEF Patch
<1> QED BY <1>3, <1>4, <1>5, <1>6, <1>7, <1>8, <1>9 DEF Next, Sweep, Actors

\* A blob is made of all the bytes of an upload or, when the upload has gone
\* before its chunks are listed, of none, and never of some of them: whatever
\* fails, and however appends, retries, deletions and the sweep interleave
\* (finalizeUpload, ReadFrom).
THEOREM SavedNeverTorn == Spec => []NeverTorn
<1>1. Init => Offsets /\ Gathered
  BY TusAssumption DEF Init, Offsets, Ready, Finishing, Gathered, NeverTorn, Actors
<1>2. Gathered => NeverTorn
  BY DEF Gathered
<1> QED BY <1>1, <1>2, TypeInvariant, FreshInit, FreshStep, TileInit, TileStep, OffsetsStep,
           GatheredStep, PTL DEF Spec

------------------------------------------------------------------------------
\* The content r has got hold of while it reads the upload for a blob, and all the
\* contents that are blobs or may become one.
Reading(r) == got[r] \cup todo[r]
Contents == saved \cup {Reading(r) : r \in {s \in Actors : pc[s] = "fread"}}

Agree(S, T) == S = {} \/ T = {} \/ S = T

\* They agree with each other and with the upload, as long as it is there; there
\* is none before the upload is complete, nor anybody to read it before its creation.
SameContent ==
    /\ pc[Creator] = "idle" => Contents = {} /\ \A r \in Requests : pc[r] = "idle"
    /\ Contents # {} => offset = Length
    /\ row => Contents \subseteq {chunks}
    /\ \A S, T \in Contents : Agree(S, T)

\* A step that reads nothing but what is recorded, and changes that at most by
\* removing it.
LEMMA ContentsKept ==
    ASSUME Fresh, SameContent, UNCHANGED offset, row' => row /\ chunks' = chunks,
           Contents' \subseteq Contents \cup {chunks}, Contents' # {} => offset = Length,
           pc'[Creator] = "idle" => /\ pc[Creator] = "idle" /\ Contents' \subseteq Contents
                                    /\ \A r \in Requests : pc'[r] = pc[r]
    PROVE  SameContent'
<1>1. ~row => chunks = {}
  BY DEF Fresh
<1>2. \A S, T \in Contents' : Agree(S, T)
  BY <1>1 DEF SameContent, Agree
<1>3. \A S, T : Agree(S, T)' = Agree(S, T)
  BY DEF Agree
<1>4. row' => Contents' \subseteq {chunks'}
  BY DEF SameContent
<1>5. pc'[Creator] = "idle" => Contents' = {} /\ \A r \in Requests : pc'[r] = "idle"
  BY DEF SameContent
<1> QED BY <1>2, <1>3, <1>4, <1>5 DEF SameContent

\* All the contents that are read are of the same pieces, although finalizations,
\* deletions and the sweep go on side by side: an upload once complete changes only
\* by its removal.
LEMMA SameStep ==
    Type /\ Fresh /\ Offsets /\ Gathered /\ SameContent /\ [Next]_vars => SameContent'
<1> SUFFICES ASSUME Type, Fresh, Offsets, Gathered, SameContent, [Next]_vars PROVE SameContent'
  OBVIOUS
<1>0. /\ TypeOK /\ Creator \in Actors /\ Sweeper \in Actors /\ Creator # Sweeper
      /\ Sweeper \notin Requests /\ Creator \notin Requests /\ Requests \subseteq Actors
      /\ Length \in Nat /\ offset \in 0..Length
      /\ pc \in [Actors -> Labels] /\ todo \in [Actors -> SUBSET Chunk]
      /\ got \in [Actors -> SUBSET Chunk] /\ SweeperSteps /\ Fitting
  BY TusAssumption DEF Type, TypeOK, Actors, Gathered
<1> USE <1>0 DEF At, upload, input, local
<1>r. \A r \in Actors : pc[r] = "fread" => Reading(r) \in Contents
  BY DEF Contents
\* Who works on the upload knows that it was created.
<1>c. ASSUME NEW r \in Requests \cup {Creator}, pc[r] # "idle" PROVE pc[Creator] # "idle"
  BY <1>c DEF SameContent
\* A step to anywhere but the reading.
<1>1. ASSUME NEW r \in Actors, NEW l, l # "fread", Goto(r, l),
             \A s \in Actors \ {r} : todo'[s] = todo[s], UNCHANGED <<got, saved, offset>>,
             row' => row /\ chunks' = chunks,
             r = Sweeper \/ (pc[Creator] # "idle" /\ l # "idle")
      PROVE  SameContent'
  <2>1. pc'[r] = l /\ \A s \in Actors \ {r} : pc'[s] = pc[s]
    BY <1>1 DEF Goto
  <2>2. Contents' \subseteq Contents
    BY <1>1, <2>1 DEF Contents, Reading
  <2>3. pc'[Creator] = "idle" => pc[Creator] = "idle" /\ \A s \in Requests : pc'[s] = pc[s]
    BY <1>1, <2>1
  <2> QED BY <1>1, <2>2, <2>3, ContentsKept DEF SameContent
<1>2. ASSUME UNCHANGED <<pc, todo, got, saved, row, chunks, offset>> PROVE SameContent'
  <2>1. Contents' = Contents
    BY <1>2 DEF Contents, Reading
  <2> QED BY <1>2, <2>1, ContentsKept DEF SameContent
<1>3. CASE UNCHANGED vars \/ Expire \/ Block
  BY <1>2, <1>3 DEF vars, Expire, Block
<1>4. CASE Create
  <2>1. /\ pc[Creator] = "idle" /\ \E l \in {"put", "done"} : Goto(Creator, l)
        /\ UNCHANGED <<todo, got, saved, offset, chunks>>
    BY <1>4 DEF Create
  <2>2. Contents = {}
    BY <2>1 DEF SameContent
  <2>3. Contents' = {}
    <3>1. \A s \in Actors : pc'[s] # "fread"
      BY <1>r, <2>1, <2>2 DEF Goto
    <3> QED BY <2>1, <2>2, <3>1 DEF Contents
  <2>4. pc'[Creator] # "idle"
    BY <2>1 DEF Goto
  <2> QED BY <2>3, <2>4 DEF SameContent
<1>5. ASSUME NEW r \in Requests, Start(r) PROVE SameContent'
  BY <1>1, <1>5 DEF Start, Move
<1>6. ASSUME NEW r \in Requests \cup {Creator}, DeleteUpload(r) PROVE SameContent'
  <2>1. pc[Creator] # "idle" /\ r \in Actors /\ EndOf(r) = "done"
    BY <1>6, <1>c DEF DeleteUpload, EndOf
  <2> QED BY <1>1, <1>6, <2>1 DEF DeleteUpload, Move, DbError, RemoveUpload
<1>7. ASSUME NEW r \in Actors, RemoveObjects(r) PROVE SameContent'
  <2>1. pc[r] = "unlink" /\ pc[Creator] # "idle"
    BY <1>7 DEF RemoveObjects, Fresh
  <2>2. CASE Move(r, EndOf(r))
    BY <1>1, <2>1, <2>2 DEF Move, EndOf
  <2>3. CASE ~Move(r, EndOf(r))
    <3>1. /\ Goto(r, "unlink")
          /\ UNCHANGED <<got, saved, offset, row, chunks>>
          /\ \A s \in Actors \ {r} : todo'[s] = todo[s]
      BY <1>7, <2>1, <2>3 DEF RemoveObjects, Goto
    <3> QED BY <1>1, <2>1, <3>1
  <2> QED BY <2>2, <2>3
<1>8. CASE SweepList \/ SweepDelete
  BY <1>1, <1>8 DEF SweepList, SweepDelete, Move, DbError, EndOf, RemoveUpload
<1>9. ASSUME NEW r \in Actors, Crash(r) PROVE SameContent'
  <2>1. r = Sweeper \/ (pc[Creator] # "idle" /\ EndOf(r) = "done")
    BY <1>9, <1>c DEF Crash, EndOf, Actors
  <2> QED BY <1>1, <1>9, <2>1 DEF Crash, Move, EndOf
<1>10. ASSUME NEW r \in Requests, LoadUpload(r) PROVE SameContent'
  <2>1. pc[Creator] # "idle" /\ r \in Actors /\ EndOf(r) = "done"
    BY <1>10, <1>c DEF LoadUpload, EndOf
  <2>2. PICK l \in {"done", "delete", "blocklist"} :
          Goto(r, l) /\ UNCHANGED <<todo, got, saved, row, chunks, offset>>
    BY <1>10, <2>1 DEF LoadUpload, DbError, Move
  <2> QED BY <1>1, <2>1, <2>2
<1>11. ASSUME NEW r \in Requests \cup {Creator}, Patch(r) PROVE SameContent'
  <2>0. r \in Actors /\ EndOf(r) = "done"
    BY DEF EndOf, Actors
  <2>1. pc[Creator] # "idle"
    BY <1>11, <1>c DEF Patch, BlocklistCheck, AppendChunk, RecordChunk, RemoveOwnBytes, ListUpload,
                       ReadChunk, MatchStoredTail, FinalCheck, Finalize
  <2>2. CASE BlocklistCheck(r) \/ AppendChunk(r) \/ RemoveOwnBytes(r) \/ MatchStoredTail(r) \/ FinalCheck(r)
    <3>1. PICK l \in {"delete", "mlist", "put", "record", "fcheck", "flist", "done"} :
            Goto(r, l) /\ UNCHANGED <<todo, got, saved, row, chunks, offset>>
      BY <2>0, <2>2 DEF BlocklistCheck, AppendChunk, RemoveOwnBytes, MatchStoredTail, FinalCheck,
                        DbError, Move, PutChunk, Failed, Appended
    <3> QED BY <1>1, <2>0, <2>1, <3>1
  <2>3. CASE RecordChunk(r)
    <3>1. CASE Move(r, "unput")
      BY <1>1, <2>0, <2>1, <3>1 DEF Move
    <3>2. CASE ~Move(r, "unput")
      <4>1. /\ offset = from[r] /\ Fits(r) /\ \E l \in {"fcheck", "done"} : Goto(r, l)
            /\ UNCHANGED <<todo, got, saved>>
        BY <2>0, <2>3, <3>2 DEF RecordChunk, OffsetStands, Fitting, Appended
      <4>2. offset # Length
        BY <2>0, <4>1 DEF Fits
      <4>3. Contents = {}
        BY <4>2 DEF SameContent
      <4>4. Contents' \subseteq Contents
        BY <2>0, <4>1 DEF Contents, Reading, Goto
      <4>5. pc'[Creator] # "idle"
        BY <2>0, <2>1, <4>1 DEF Goto
      <4> QED BY <4>3, <4>4, <4>5 DEF SameContent
    <3> QED BY <3>1, <3>2
  <2>4. CASE ListUpload(r)
    <3>1. CASE DbError(r)
      BY <1>1, <2>0, <2>1, <3>1 DEF DbError, Move
    <3>2. CASE ~DbError(r)
      <4>1. PICK l \in {"mread", "fread"} : ListChunks(r, l) /\ (l = "fread" => pc[r] = "flist")
        BY <2>4, <3>2 DEF ListUpload
      <4>2. /\ pc'[r] = l /\ \A s \in Actors \ {r} : pc'[s] = pc[s]
            /\ got'[r] = {} /\ todo'[r] = chunks
            /\ \A s \in Actors \ {r} : got'[s] = got[s] /\ todo'[s] = todo[s]
            /\ UNCHANGED <<saved, row, chunks, offset>>
        <5>1. got' = [got EXCEPT ![r] = {}] /\ todo' = [todo EXCEPT ![r] = chunks]
          BY <4>1 DEF ListChunks
        <5> QED BY <2>0, <4>1, <5>1 DEF ListChunks, Goto
      <4>3. Reading(r)' = chunks /\ \A s \in Actors \ {r} : Reading(s)' = Reading(s)
        BY <4>2 DEF Reading
      <4>4. Contents' \subseteq Contents \cup {chunks}
        BY <4>2, <4>3 DEF Contents
      <4>5. Contents' # {} => offset = Length
        <5>1. l = "fread" => offset = Length
          BY <2>0, <4>1 DEF Offsets, Ready, Finishing
        <5>2. l # "fread" => Contents' \subseteq Contents
          BY <4>2, <4>3 DEF Contents
        <5> QED BY <5>1, <5>2 DEF SameContent
      <4>6. pc'[Creator] # "idle"
        BY <2>1, <4>2
      <4> QED BY <4>2, <4>4, <4>5, <4>6, ContentsKept
    <3> QED BY <3>1, <3>2
  <2>5. CASE ReadChunk(r)
    <3>1. CASE Move(r, "done")
      BY <1>1, <2>0, <2>1, <3>1 DEF Move
    <3>2. CASE ~Move(r, "done")
      <4>1. PICK c \in todo[r] :
              /\ Readable(r, c)
              /\ todo' = [todo EXCEPT ![r] = @ \ {c}]
              /\ got' = [got EXCEPT ![r] = @ \cup (IF c.key \in objects THEN {c} ELSE {})]
              /\ UNCHANGED <<pc, saved, row, chunks, offset>>
        BY <2>5, <3>2 DEF ReadChunk
      <4>2. pc[r] = "fread" => Reading(r)' = Reading(r)
        BY <2>0, <4>1 DEF Readable, Reading
      <4>3. \A s \in Actors \ {r} : Reading(s)' = Reading(s)
        BY <2>0, <4>1 DEF Reading
      <4>4. Contents' = Contents
        BY <4>1, <4>2, <4>3 DEF Contents
      <4> QED BY <4>1, <4>4, ContentsKept DEF SameContent
    <3> QED BY <3>1, <3>2
  <2>6. CASE Finalize(r)
    <3>1. CASE Move(r, "done") \/ Move(r, "delete")
      BY <1>1, <2>0, <2>1, <3>1 DEF Move
    <3>2. CASE ~(Move(r, "done") \/ Move(r, "delete"))
      <4>1. /\ pc[r] = "fread" /\ todo[r] = {} /\ saved' = saved \cup {got[r]} /\ Goto(r, "delete")
            /\ UNCHANGED <<todo, got, row, chunks, offset>>
        BY <2>6, <3>2 DEF Finalize
      <4>2. Reading(r) = got[r] /\ Reading(r) \in Contents
        BY <1>r, <2>0, <4>1 DEF Reading
      <4>3. Contents' \subseteq Contents
        BY <2>0, <4>1, <4>2 DEF Contents, Reading, Goto
      <4>4. pc'[Creator] # "idle"
        BY <2>0, <2>1, <4>1 DEF Goto
      <4> QED BY <4>1, <4>3, <4>4, ContentsKept DEF SameContent
    <3> QED BY <3>1, <3>2
  <2> QED BY <1>11, <2>2, <2>3, <2>4, <2>5, <2>6 DEF Patch
<1> QED BY <1>3, <1>4, <1>5, <1>6, <1>7, <1>8, <1>9, <1>10, <1>11 DEF Next, Sweep, Actors

------------------------------------------------------------------------------
\* A blob is made in one step only, of what was read to its end.
SavesFrom(r) ==
    /\ pc[r] = "fread" /\ todo[r] = {} /\ saved' = saved \cup {got[r]}
    /\ Goto(r, "delete") /\ UNCHANGED <<row, offset, chunks>>

LEMMA SavesOnce == Next => UNCHANGED saved \/ \E r \in Requests \cup {Creator} : SavesFrom(r)
<1> USE DEF Move, DbError
<1>1. ASSUME NEW r, Start(r) \/ LoadUpload(r) \/ DeleteUpload(r) \/ RemoveObjects(r) \/ Crash(r)
      PROVE  UNCHANGED saved
  BY <1>1 DEF Start, LoadUpload, DeleteUpload, RemoveObjects, RemoveUpload, Crash
<1>2. ASSUME NEW r, Patch(r), ~Finalize(r) PROVE UNCHANGED saved
  BY <1>2 DEF Patch, BlocklistCheck, AppendChunk, PutChunk, RecordChunk, RemoveOwnBytes, ListUpload,
              ListChunks, ReadChunk, MatchStoredTail, FinalCheck
<1>3. ASSUME NEW r, Finalize(r) PROVE UNCHANGED saved \/ SavesFrom(r)
  BY <1>3 DEF Finalize, SavesFrom, At, upload
<1>4. ASSUME Create \/ Expire \/ Block \/ SweepList \/ SweepDelete PROVE UNCHANGED saved
  BY <1>4 DEF Create, Expire, Block, SweepList, SweepDelete, RemoveUpload
<1> QED BY <1>1, <1>2, <1>3, <1>4 DEF Next, Sweep

UploadInv == Type /\ Fresh /\ ChunksTile /\ Keys /\ Offsets /\ Gathered /\ SameContent

\* The upload as a client sees it.
Status == IF row THEN "open" ELSE IF pc[Creator] = "idle" THEN "none" ELSE "gone"

\* A blob made is one that the promises allow.
LEMMA MakesTheSame ==
    ASSUME UploadInv, NEW r \in Actors, SavesFrom(r), Status' = Status
    PROVE  \E S \in saved' : Upload!Make(S)
<1>1. /\ pc[r] = "fread" /\ todo[r] = {} /\ got[r] \in saved' /\ saved' = saved \cup {got[r]}
      /\ UNCHANGED <<row, offset, chunks>>
  BY DEF SavesFrom
<1>2. got[r] \in Contents /\ saved \subseteq Contents
  BY <1>1 DEF Contents, Reading
<1>3. pc[Creator] # "idle" /\ offset = Length
  BY <1>2 DEF UploadInv, SameContent
<1>4. \A S : Upload!Full(S) <=> Whole(S)
  BY DEF Upload!Full, Whole, Covers
<1>5. CASE row
  <2>1. got[r] = chunks
    BY <1>2, <1>5 DEF UploadInv, SameContent
  <2>2. Whole(chunks)
    BY <1>3, <1>5 DEF UploadInv, ChunksTile, Whole
  <2> QED BY <1>1, <1>3, <1>4, <1>5, <2>1, <2>2 DEF Upload!Make, Status
<1>6. CASE ~row
  <2>1. got[r] = {} \/ Whole(got[r])
    BY <1>1 DEF UploadInv, Gathered, Gathering
  <2>2. \A T \in saved : T = {} \/ got[r] = {} \/ T = got[r]
    BY <1>2 DEF UploadInv, SameContent, Agree
  <2> QED BY <1>1, <1>3, <1>4, <1>6, <2>1, <2>2 DEF Upload!Make, Status
<1> QED BY <1>5, <1>6

\* Each step of a request, of the sweep and of time is one of the promised upload's
\* or leaves it alone.
LEMMA UploadStep ==
    ASSUME UploadInv, [Next]_vars PROVE [Upload!UploadNext]_(Upload!uploadVars)
<1>0. /\ TypeOK /\ SweeperSteps /\ Fitting /\ Creator \in Actors /\ pc \in [Actors -> Labels]
      /\ from \in [Actors -> 0..Length] /\ Length \in Nat /\ Requests \subseteq Actors
  BY TusAssumption DEF UploadInv, Type, TypeOK, Actors
<1> USE <1>0 DEF Upload!uploadVars
<1>1. ASSUME UNCHANGED <<row, offset, chunks, saved>>, Status' = Status
      PROVE  UNCHANGED Upload!uploadVars
  BY <1>1 DEF Status
<1>2. CASE UNCHANGED vars
  BY <1>1, <1>2 DEF vars, Status
<1>3. CASE Next /\ Create
  <2>1. /\ ~row /\ row' /\ pc[Creator] = "idle" /\ UNCHANGED <<offset, chunks, saved>>
    BY <1>3 DEF Create, At, UploadInv, Fresh
  <2> QED BY <2>1 DEF Upload!UploadNext, Upload!Open
\* A step of an actor that keeps row, offset and chunks.
<1>4. ASSUME Next, UNCHANGED <<row, offset, chunks>>,
             (pc'[Creator] = "idle") = (pc[Creator] = "idle")
      PROVE  [Upload!UploadNext]_(Upload!uploadVars)
  <2>1. Status' = Status
    BY <1>4 DEF Status
  <2>2. CASE UNCHANGED saved
    BY <1>1, <1>4, <2>1, <2>2
  <2>3. CASE \E r \in Actors : SavesFrom(r)
    BY <2>1, <2>3, MakesTheSame DEF Upload!UploadNext
  <2> QED BY <1>4, <2>2, <2>3, SavesOnce
<1>5. ASSUME Next, NEW r \in Actors,
             Moves(r) \/ Learns(r) PROVE [Upload!UploadNext]_(Upload!uploadVars)
  <2>1. UNCHANGED <<row, offset, chunks>>
    BY <1>5 DEF Moves, Move, Learns, upload
  <2>2. (pc'[Creator] = "idle") = (pc[Creator] = "idle")
    <3>1. CASE r # Creator
      BY <1>5, <3>1 DEF Moves, Move, Learns, Goto
    <3>2. CASE r = Creator
      BY <1>5, <3>2, TusAssumption DEF Moves, Move, MoveAllowed, Learns, Goto
    <3> QED BY <3>1, <3>2
  <2> QED BY <1>4, <1>5, <2>1, <2>2
<1>6. ASSUME Next, NEW r \in Actors, Effects(r) PROVE [Upload!UploadNext]_(Upload!uploadVars)
  <2>1. CASE Records(r)
    <3>1. /\ row /\ row' /\ offset = from[r] /\ offset' = from[r] + len[r] /\ pc[r] = "record"
          /\ chunks' = chunks \cup {[at |-> from[r], size |-> len[r], key |-> <<from[r], r>>]}
          /\ UNCHANGED saved
      BY <2>1 DEF Records, OffsetStands, At, tusChunkKey
    <3>2. len[r] \in 1..(Length - offset)
      BY <3>1 DEF Fitting, Fits
    <3>3. \A c \in chunks : c.key[2] # r
      BY <3>1 DEF UploadInv, Keys, Settled, Writing
    <3>4. Upload!Append(r, len[r])
      BY <3>1, <3>3 DEF Upload!Append
    <3> QED BY <3>2, <3>4 DEF Upload!UploadNext
  <2>2. CASE row /\ RemoveUpload(r)
    <3>1. row /\ ~row' /\ chunks' = {} /\ pc'[Creator] # "idle" /\ UNCHANGED <<offset, saved>>
      BY <2>2 DEF RemoveUpload, Goto, UploadInv, Fresh
    <3> QED BY <3>1 DEF Upload!UploadNext, Upload!Remove
  <2>3. CASE ~Records(r) /\ ~(row /\ RemoveUpload(r))
    <3>1. UNCHANGED <<row, offset, chunks>> /\ pc[r] # "idle"
      BY <1>6, <2>3 DEF Effects, PutChunk, RemoveOwnBytes, Unlinks, upload, At
    <3>2. (\E l : l # "idle" /\ Goto(r, l)) \/ UNCHANGED pc
      BY <1>6, <2>3 DEF Effects, PutChunk, RemoveOwnBytes, Unlinks, Failed
    <3>3. (pc'[Creator] = "idle") = (pc[Creator] = "idle")
      BY <3>1, <3>2 DEF Goto
    <3> QED BY <1>4, <1>6, <3>1, <3>3
  <2> QED BY <2>1, <2>2, <2>3
<1>7. CASE Next /\ (Expire \/ Block)
  BY <1>4, <1>7 DEF Expire, Block, upload
<1> QED BY <1>2, <1>3, <1>5, <1>6, <1>7, StepCases DEF Other

\* Whatever fails, and however requests race, retry and delete, they keep the
\* promises of one resumable upload (recordChunk, deleteUpload, finalizeUpload): no
\* request writes twice or anywhere but at the end, a removed upload stays so, and
\* the blobs made of it are all the same but for empty ones.
THEOREM UploadImplemented == Spec => UploadPromised
<1>1. Init => UploadInv
  <2>1. Init => Offsets /\ Gathered /\ SameContent
    BY TusAssumption DEF Init, Offsets, Ready, Finishing, Gathered, NeverTorn, Actors,
                         SameContent, Contents, Reading
  <2> QED BY <2>1, TypeInit, FreshInit, TileInit, KeysInit DEF UploadInv
<1>2. UploadInv /\ [Next]_vars => UploadInv'
  BY TypeStep, FreshStep, TileStep, KeysStep, OffsetsStep, GatheredStep, SameStep DEF UploadInv
<1>3. Init => Upload!UploadInit
  BY DEF Init, Upload!UploadInit, Actors
<1>4. UploadInv /\ [Next]_vars => [Upload!UploadNext]_(Upload!uploadVars)
  BY UploadStep
<1> QED BY <1>1, <1>2, <1>3, <1>4, PTL DEF Spec, UploadPromised, Upload!UploadSpec
=============================================================================
