----------------------------- MODULE LocalStorage -----------------------------
(***************************************************************************)
(* The objects of one hash on the local disk: Put writes a temporary file  *)
(* whose name depends only on the hash and renames it, Delete unlinks, and *)
(* readers open whatever the name stands for.  A file is an inode with the *)
(* blocks written to it, since calls keep writing to the inode they opened *)
(* whatever becomes of its name.  All calls write the same bytes, those of *)
(* the hash.  BlobStore takes Put for one step; this module shows when it  *)
(* is one.                                                                 *)
(***************************************************************************)
EXTENDS Naturals, FiniteSets

CONSTANTS
    Puts, DiskDeletes,  \* identities of calls: the bound on their number
    Blocks,             \* an object's length, in blocks that one write makes
    Inodes, NoInode,
    DiskFaults          \* what may fail, a subset of DiskFaultNames

\* "write" a write or a close fails (or the source cannot be read); "crash" the
\* process dies.
DiskFaultNames == {"write", "crash"}
DiskCalls == Puts \cup DiskDeletes

LocalAssumption ==
    /\ Puts \cap DiskDeletes = {}
    /\ Blocks \in Nat /\ NoInode \notin Inodes /\ DiskFaults \subseteq DiskFaultNames
    \* An inode is left for every file that is open or has a name.
    /\ IsFiniteSet(Puts) /\ IsFiniteSet(Inodes) /\ Cardinality(Inodes) > Cardinality(Puts)

VARIABLES
    data,                    \* the blocks written to each inode
    tmp, path,               \* the inodes that hash.tmp and hash name
    diskPc, fd, diskOffset,  \* each call: the step it makes next, its open file and position
    overlapped,              \* history: a Put has begun while another one ran
    failed                   \* history: a call has failed or died half-way

diskFiles == <<data, tmp, path>>
diskVars == <<diskFiles, diskPc, fd, diskOffset, overlapped, failed>>

DiskInit ==
    /\ data = [i \in Inodes |-> {}] /\ tmp = NoInode /\ path = NoInode
    /\ diskPc = [c \in DiskCalls |-> "idle"] /\ fd = [c \in DiskCalls |-> NoInode]
    /\ diskOffset = [c \in DiskCalls |-> 0]
    /\ overlapped = FALSE /\ failed = FALSE

------------------------------------------------------------------------------
DiskAt(c, l) == diskPc[c] = l
DiskGoto(c, l) == diskPc' = [diskPc EXCEPT ![c] = l]
DiskRunning(c) == diskPc[c] \notin {"idle", "done"}
Whole(i) == data[i] = 1..Blocks

\* A new inode: one that nothing refers to, whichever.
Unused(i) == i \notin {tmp, path} /\ \A c \in DiskCalls : DiskRunning(c) => fd[c] # i
NewInode == CHOOSE i \in Inodes : Unused(i)

\* os.Create: the file of that name is emptied, whoever writes to it, or made.
Create(c) ==
    /\ c \in Puts /\ DiskAt(c, "idle")
    /\ tmp' = IF tmp = NoInode THEN NewInode ELSE tmp
    /\ data' = [data EXCEPT ![tmp'] = {}] /\ fd' = [fd EXCEPT ![c] = tmp']
    /\ overlapped' = (overlapped \/ \E d \in Puts : DiskRunning(d))
    /\ DiskGoto(c, "copy")
    /\ UNCHANGED <<path, diskOffset, failed>>

\* io.Copy, a block at a time, then Close.
Written(c) == diskOffset[c] = Blocks

DiskCopy(c) ==
        /\ DiskAt(c, "copy") /\ diskOffset[c] < Blocks
        /\ diskOffset' = [diskOffset EXCEPT ![c] = @ + 1]
        /\ data' = [data EXCEPT ![fd[c]] = @ \cup {diskOffset'[c]}]
        /\ UNCHANGED <<tmp, path, diskPc, fd, overlapped, failed>>

\* A copy that fails removes the temporary file, and so does a failed rename.
MutantRenamesAnyway == "rename"
AfterError == "remove"

FailCopy(c) ==
    /\ DiskAt(c, "copy") /\ "write" \in DiskFaults
    /\ DiskGoto(c, AfterError)
    /\ failed' = TRUE
    /\ UNCHANGED <<diskFiles, fd, diskOffset, overlapped>>

DiskClose(c) ==
    /\ DiskAt(c, "copy") /\ Written(c)
    /\ DiskGoto(c, "rename")
    /\ UNCHANGED <<diskFiles, fd, diskOffset, overlapped, failed>>

\* os.Rename: whatever file has the temporary name becomes the object.
Rename(c) ==
    /\ DiskAt(c, "rename")
    /\ IF tmp # NoInode
       THEN path' = tmp /\ tmp' = NoInode /\ DiskGoto(c, "done")
       ELSE DiskGoto(c, "remove") /\ UNCHANGED <<tmp, path>>
    /\ UNCHANGED <<data, fd, diskOffset, overlapped, failed>>

DiskRemove(c) ==
    /\ DiskAt(c, "remove")
    /\ tmp' = NoInode
    /\ DiskGoto(c, "done")
    /\ UNCHANGED <<data, path, fd, diskOffset, overlapped, failed>>

DiskPut(c) == Create(c) \/ DiskCopy(c) \/ FailCopy(c) \/ DiskClose(c) \/ Rename(c) \/ DiskRemove(c)

DiskDelete(c) ==
    /\ c \in DiskDeletes /\ DiskAt(c, "idle")
    /\ path' = NoInode
    /\ DiskGoto(c, "done")
    /\ UNCHANGED <<data, tmp, fd, diskOffset, overlapped, failed>>

\* The process dies: the calls that run end where they are.
DiskCrash ==
    /\ "crash" \in DiskFaults /\ \E c \in DiskCalls : DiskRunning(c)
    /\ diskPc' = [c \in DiskCalls |-> IF DiskRunning(c) THEN "done" ELSE diskPc[c]]
    /\ failed' = TRUE
    /\ UNCHANGED <<diskFiles, fd, diskOffset, overlapped>>

DiskNext == (\E c \in DiskCalls : DiskPut(c) \/ DiskDelete(c)) \/ DiskCrash

DiskSpec == DiskInit /\ [][DiskNext]_diskVars

------------------------------------------------------------------------------
DiskQuiet == \A c \in DiskCalls : ~DiskRunning(c)

\* The state's types; a call that writes has a file.
DiskTypeOK ==
    /\ data \in [Inodes -> SUBSET (1..Blocks)]
    /\ {tmp, path} \subseteq Inodes \cup {NoInode}
    /\ diskPc \in [DiskCalls -> {"idle", "copy", "rename", "remove", "done"}]
    /\ fd \in [DiskCalls -> Inodes \cup {NoInode}] /\ diskOffset \in [DiskCalls -> 0..Blocks]
    /\ \A c \in DiskCalls : DiskAt(c, "copy") => fd[c] # NoInode
    /\ {overlapped, failed} \subseteq BOOLEAN

\* A reader finds the whole object or none while no two Puts of it have
\* overlapped, whatever fails; and also after Puts that overlapped, once they
\* have all ended and none has failed (they share the temporary file, but each
\* writes all of it).
ObjectWhole ==
    (~overlapped \/ (DiskQuiet /\ ~failed)) => (path # NoInode => Whole(path))

\* local.go:43: "Write to temporary file first, then rename for atomicity": the
\* object is whole whenever there is one.
PutIsAtomic == path # NoInode => Whole(path)
==============================================================================
