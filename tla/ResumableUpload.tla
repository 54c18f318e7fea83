---------------------------- MODULE ResumableUpload ----------------------------
(***************************************************************************)
(* What the server promises of one resumable upload, whatever fails and    *)
(* however requests race: bytes are only ever added at its end, one piece  *)
(* for each writer, up to the declared length; once removed it does not    *)
(* come back; and all the blobs made of it have the same bytes, every byte *)
(* of the upload, but for the empty blob made of one already removed.      *)
(***************************************************************************)
EXTENDS Integers

CONSTANTS Length, Writers

VARIABLES
    status,     \* "none" before its creation, "open", and "gone" for good
    size,       \* how far its bytes go
    pieces,     \* what was written, piece by piece
    made        \* the blobs made of it, each the set of its pieces

uploadVars == <<status, size, pieces, made>>

UploadInit == status = "none" /\ size = 0 /\ pieces = {} /\ made = {}

Open ==
    /\ status = "none" /\ status' = "open"
    /\ UNCHANGED <<size, pieces, made>>

\* The next n bytes, from a writer that has written none.
Append(w, n) ==
    /\ status = "open"
    /\ \A p \in pieces : p.key[2] # w
    /\ pieces' = pieces \cup {[at |-> size, size |-> n, key |-> <<size, w>>]}
    /\ size' = size + n
    /\ UNCHANGED <<status, made>>

Full(S) == \A b \in 0..(Length - 1) : \E p \in S : p.at <= b /\ b < p.at + p.size

\* A blob of all that was written.  Who read it before the upload was removed may
\* still make it after that, and then it is the blob the others have made.
Make(S) ==
    /\ status # "none" /\ size = Length
    /\ IF status = "open" THEN S = pieces /\ Full(S)
       ELSE S = {} \/ (Full(S) /\ \A T \in made : T = {} \/ T = S)
    /\ made' = made \cup {S}
    /\ UNCHANGED <<status, size, pieces>>

Remove ==
    /\ status = "open" /\ status' = "gone" /\ pieces' = {}
    /\ UNCHANGED <<size, made>>

UploadNext ==
    \/ UNCHANGED uploadVars     \* most steps of a request change nothing of it
    \/ Open \/ Remove
    \/ \E w \in Writers, n \in 1..(Length - size) : Append(w, n)
    \/ \E S \in made' : Make(S)

UploadSpec == UploadInit /\ [][UploadNext]_uploadVars
==============================================================================
