---------------------------- MODULE BlobOwnership ----------------------------
(***************************************************************************)
(* What the blob store promises its users about ownership, whatever fails: *)
(* a stored blob may have several owners, each gives up only its own       *)
(* share, and the blob leaves the store only when nobody owns it.          *)
(***************************************************************************)
CONSTANTS Pubkeys, Hashes

VARIABLES
    stored,     \* the blobs the server holds
    owners      \* the keys that own each blob

Init == stored = {} /\ owners = [h \in Hashes |-> {}]

\* A blob enters the store; its first owner follows.
Publish(h) ==
    /\ h \notin stored
    /\ stored' = stored \cup {h}
    /\ UNCHANGED owners

\* A key becomes an owner of a stored blob.
Acquire(p, h) ==
    /\ h \in stored /\ p \notin owners[h]
    /\ owners' = [owners EXCEPT ![h] = @ \cup {p}]
    /\ UNCHANGED stored

\* A key gives up its share; the last one to do so takes the blob along.
Release(p, h) ==
    /\ p \in owners[h]
    /\ owners' = [owners EXCEPT ![h] = @ \ {p}]
    /\ stored' = IF owners[h] = {p} THEN stored \ {h} ELSE stored

\* A blob that nobody owns is reclaimed.
Reclaim(h) ==
    /\ h \in stored /\ owners[h] = {}
    /\ stored' = stored \ {h}
    /\ UNCHANGED owners

Next == \E h \in Hashes :
            \/ Publish(h) \/ Reclaim(h)
            \/ \E p \in Pubkeys : Acquire(p, h) \/ Release(p, h)

Spec == Init /\ [][Next]_<<stored, owners>>
==============================================================================
