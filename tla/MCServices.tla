------------------------------ MODULE MCServices ------------------------------
(***************************************************************************)
(* The services beside the blob store on small instances, one of them at a *)
(* time: a behaviour is one of the component that part names, and the      *)
(* others stay in an initial state.  They share no state, so what a        *)
(* property says of one component does not depend on the others.           *)
(***************************************************************************)
EXTENDS Payments, RateLimits, MediaMirror, VideoJobs, WorkQueues, FederationDiscovery, Batch,
        ContentScans, ChunkedUpload, LocalStorage, Moderation, Notifications, IPFSPins,
        BlobListing

CONSTANTS
    Parts,              \* the components to run
    VideoQualities      \* how many of the qualities

VARIABLE part           \* the component that runs

------------------------------------------------------------------------------
\* Values for the constants that are functions, sequences and records.
TokenWorth == [t \in Tokens |-> IF t = "t1" THEN 1 ELSE 3]
Origins == [u \in MediaUrls |-> IF u = "c" THEN {"h2"} ELSE {"h1"}]
FirstQualities == SubSeq(<<"360p", "720p">>, 1, VideoQualities)
DiscOrigins == [u \in DiscUrls |-> IF u = "a" THEN {"h"} ELSE {"h", "other"}]
EventHash == [e \in FileEvents |-> "h"]
EventUrl == [e \in FileEvents |-> IF e = "f1" THEN "a" ELSE "b"]
NoTags == [e \in {} |-> << >>]
UrlHost == [u \in DiscUrls |-> "s1"]
ItemSize == [b \in BatchBlobs |-> IF b = "x" THEN 1 ELSE 2]
ItemLists == {<<"x">>, <<"x", "x">>, <<"x", "y">>}
TargetRegion == [j \in RepJobs |-> IF j = "j1" THEN "r1" ELSE "r2"]
Providers == <<"hash_blocklist", "aws_rekognition", "custom", "custom">>
ReportedName == [r \in Reports |-> IF r = "r3" THEN "H" ELSE "h"]
UploadKey == [u \in ModUploads |-> "k"]
UploadBlob == [u \in ModUploads |-> "h"]
ClientKey == [c \in Clients |-> c]
Addressee == [p \in Publications |-> IF p = "p1" THEN "c1" ELSE "all"]
TypeOfBlob == [b \in PageBlobs |-> IF b = "z" THEN "video" ELSE "image"]
SizeOfBlob == [b \in PageBlobs |-> IF b = "x" THEN 1 ELSE 2]

\* What a provider may detect: what blocks, what is more certain and only
\* quarantines, and what is less certain and only flags.
Detected == {[category |-> "csam", confidence |-> 85], [category |-> "spam", confidence |-> 95],
             [category |-> "spam", confidence |-> 30]}

\* What a reader of blobs asks for: its own, page by page in either order, with
\* a limit that does not count or with filters; and the operator's searches.
ListOf(k, limit, desc) ==
    [by |-> "list", key |-> k, type |-> "", since |-> 0, until |-> 0, minSize |-> 0, maxSize |-> 0,
     limit |-> limit, desc |-> desc]
ListingQueries ==
    {ListOf("k", 1, FALSE), ListOf("k", 1, TRUE), ListOf("k", 9, FALSE),
     [ListOf("k", 1, TRUE) EXCEPT !.type = "image", !.since = 1, !.until = 2],
     [ListOf("", 9, FALSE) EXCEPT !.by = "search"],
     [ListOf("m", 0, TRUE) EXCEPT !.by = "search", !.minSize = 1, !.maxSize = 2]}

\* Three components run a second time under other constants: limits kept in the
\* process, with windows that outlast the cleanup; lists of servers instead of
\* file events; and a moderation whose statements may fail.
RateLocal == INSTANCE RateLimits WITH
    Store <- "local", LongWindows <- TRUE, RateSizes <- {2}, RateFaults <- {}, RateEvents <- {"evict"}

TagsOf == [e \in {"l1", "l2"} |-> IF e = "l1" THEN <<"us", "s1">> ELSE <<"s2">>]
Lists == INSTANCE FederationDiscovery WITH
    FileEvents <- {}, XTag <- [e \in {} |-> "h"], UrlTag <- [e \in {} |-> "a"],
    ListEvents <- {"l1", "l2"}, ServerTags <- TagsOf, DiscRelays <- {"r1"}, DiscWorkers <- {},
    AdminRequests <- {}, Probes <- {"s1"}, DiscFaults <- {"db"}

ModerateFails == INSTANCE Moderation WITH
    ModUploads <- {"u1"}, ModKey <- [u \in {"u1"} |-> "k"], Blob <- [u \in {"u1"} |-> "h"],
    ModFaults <- {"db"}

\* The assumptions of the components' theorems hold of these instances.
ASSUME
    /\ PaymentsAssumption /\ RateAssumption /\ RateLocal!RateAssumption
    /\ MirrorAssumption /\ VideoAssumption /\ PublishAssumption /\ BatchAssumption
    /\ DiscoveryAssumption /\ Lists!DiscoveryAssumption /\ ReplicationAssumption
    /\ ScansAssumption /\ ChunkedAssumption /\ LocalAssumption /\ IPFSAssumption
    /\ ModerationAssumption /\ ModerateFails!ModerationAssumption
    /\ NotificationsAssumption /\ ListingAssumption

------------------------------------------------------------------------------
\* The inputs of a component that does not run are fixed, and some of those that
\* run.  The third upload asks for the payment request that the other two may pay,
\* and a token comes only with a Cashu proof.
PayInputs ==
    /\ part # "pay" => /\ token = [u \in PayUploads |-> "t1"]
                       /\ method = [u \in PayUploads |-> "none"]
                       /\ paySize = [u \in PayUploads |-> IF u = "u3" THEN 4 ELSE 1]
    /\ PayInit
    /\ \A u \in {"u1", "u2"} : method[u] # "cashu" => token[u] = "t1"
    /\ method["u3"] = "none" /\ token["u3"] = "t1" /\ paySize["u3"] = 4
    /\ paySize["u1"] <= paySize["u2"]
    /\ request = [u \in PayUploads |-> IF u = "u3" THEN PayNoRequest ELSE "i1"]

\* Of two uploads the first is not the larger.
RateInputs ==
    /\ part = "ratelocal" => /\ rateSize = [u \in RateUploads |-> 2]
                             /\ declared = [u \in RateUploads |-> TRUE]
    /\ part \notin {"rate", "ratelocal"} => /\ rateSize = [u \in RateUploads |-> 1]
                                            /\ declared = [u \in RateUploads |-> TRUE]
    /\ RateInit /\ rateSize["u1"] <= rateSize["u2"]

MediaInputs ==
    /\ part # "mirror" => /\ mediaHeld = {}
                          /\ url = [r \in MediaRequests |-> "a"]
                          /\ proc = [r \in MediaRequests |-> "p1"]
    /\ MediaInit

DiscInputs == IF part = "lists" THEN Lists!DiscInit ELSE DiscInit

\* The key of the batches has both blobs, and its second delete names one.
BatchInputs ==
    /\ part # "batch" => items = [b \in BatchUploads \cup BatchDeletes |-> <<"x">>] /\ batchRefs = {}
    /\ part = "batch" => batchRefs = {"x", "y"}
    /\ BatchInit /\ items["d2"] = <<"x">>

ScanInputs ==
    /\ part # "scan" => verdict = [i \in 1..Len(Registered) |-> {}]
    /\ ScanInit

\* The first request of a session is its first chunk; with a fourth, another
\* races it, one completes it and one does either; without, one ends the session
\* and one sends or aborts.
ChunkInputs ==
    /\ part # "chunk" => /\ op = [r \in Requests |-> "chunk"]
                         /\ num = [r \in Requests |-> 0]
                         /\ body = [r \in Requests |-> "b"]
    /\ Init /\ op["r1"] = "chunk" /\ num["r1"] = 0 /\ body["r1"] = "b"
    /\ part = "chunk" /\ "r4" \in Requests =>
        /\ op["r2"] = "chunk" /\ num["r2"] = 0 /\ body["r2"] = "c"
        /\ op["r4"] = "complete" /\ num["r4"] = 0 /\ body["r4"] = "b"
    /\ part = "chunk" /\ "r4" \notin Requests =>
        \A r \in Requests \ {"r1"} : op[r] # (IF r = "r2" THEN "complete" ELSE "chunk")

\* One moderator removes the blob, the other decides anything; about a name that
\* no blob has only where statements fail.  One upload takes the way that asks for
\* removed hashes, the other any, and if it does not ask the second decision bans
\* its key; the single one that meets failures takes a way where a failure changes
\* what comes after.
ModInputs ==
    /\ part \notin {"moderate", "moderatefails"} => /\ on = [d \in Decisions |-> "r1"]
                                                    /\ action = [d \in Decisions |-> "removed"]
                                                    /\ way = [u \in ModUploads |-> "upload"]
    /\ IF part = "moderatefails" THEN ModerateFails!ModInit ELSE ModInit
    /\ on["d1"] = "r1" /\ action["d1"] = "removed"
    /\ part = "moderate" => on["d2"] # "r3"
    /\ part = "moderate" =>
        way["u1"] = "upload" /\ (way["u2"] # "upload" => on["d2"] = "r2" /\ action["d2"] = "user_banned")
    /\ part = "moderatefails" =>
        /\ on["d2"] # "r2"
        /\ way["u1"] = "upload" \/ (way["u1"] = "tus" /\ on["d2"] = "r1" /\ action["d2"] = "user_banned")

\* A blob is unpinned, pinned and pinned or looked up.
PinInputs ==
    /\ part # "ipfs" => /\ pinOp = [c \in PinCalls |-> "pin"]
                        /\ pinCached = [status |-> "none", id |-> PinNoRequest]
    /\ PinInit
    /\ part = "ipfs" =>
        pinOp["c1"] = "unpin" /\ pinOp["c2"] = "pin" /\ pinOp["c3"] # "unpin" /\ pinCached.id # "q2"

\* Each blob listed has one owner at first, and a second of its own.
PageInputs ==
    /\ part # "listing" => created = [b \in PageBlobs |-> 0] /\ query = ListOf("k", 1, FALSE)
    /\ now = 2 /\ PageInit
    /\ \A b \in PageBlobs : owners[b] # PageKeys
    /\ part = "listing" => ~Tied(Rows)

ServicesInit ==
    /\ part \in Parts
    /\ PayInputs /\ RateInputs /\ MediaInputs /\ VideoInit /\ PubInit /\ DiscInputs /\ BatchInputs
    /\ RepInit /\ ScanInputs /\ ChunkInputs /\ DiskInit /\ ModInputs /\ NoteInit /\ PinInputs
    /\ PageInputs

\* A step of p alone.
Only(p) ==
    /\ part = p /\ UNCHANGED part
    /\ IF p = "pay" THEN TRUE ELSE UNCHANGED payVars
    /\ IF p \in {"rate", "ratelocal"} THEN TRUE ELSE UNCHANGED rateVars
    /\ IF p = "mirror" THEN TRUE ELSE UNCHANGED mediaVars
    /\ IF p = "video" THEN TRUE ELSE UNCHANGED videoVars
    /\ IF p = "publish" THEN TRUE ELSE UNCHANGED pubVars
    /\ IF p \in {"discover", "lists"} THEN TRUE ELSE UNCHANGED discVars
    /\ IF p = "batch" THEN TRUE ELSE UNCHANGED batchVars
    /\ IF p = "replicate" THEN TRUE ELSE UNCHANGED repVars
    /\ IF p = "scan" THEN TRUE ELSE UNCHANGED scanVars
    /\ IF p = "chunk" THEN TRUE ELSE UNCHANGED vars
    /\ IF p = "local" THEN TRUE ELSE UNCHANGED diskVars
    /\ IF p \in {"moderate", "moderatefails"} THEN TRUE ELSE UNCHANGED modVars
    /\ IF p = "notify" THEN TRUE ELSE UNCHANGED noteVars
    /\ IF p = "ipfs" THEN TRUE ELSE UNCHANGED pinVars
    /\ IF p = "listing" THEN TRUE ELSE UNCHANGED pageVars

ServicesNext ==
    \/ Only("pay") /\ PayNext
    \/ Only("rate") /\ RateNext
    \/ Only("ratelocal") /\ RateLocal!RateNext
    \/ Only("mirror") /\ MediaNext
    \/ Only("video") /\ VideoNext
    \/ Only("publish") /\ PubNext
    \/ Only("discover") /\ DiscNext
    \/ Only("lists") /\ Lists!DiscNext
    \/ Only("batch") /\ BatchNext
    \/ Only("replicate") /\ RepNext
    \/ Only("scan") /\ ScanNext
    \/ Only("chunk") /\ Next
    \/ Only("local") /\ DiskNext
    \/ Only("moderate") /\ ModNext
    \/ Only("moderatefails") /\ ModerateFails!ModNext
    \/ Only("notify") /\ NoteNext
    \/ Only("ipfs") /\ PinNext
    \/ Only("listing") /\ PageNext

servicesVars ==
    <<part, payVars, rateVars, mediaVars, videoVars, pubVars, discVars, batchVars, repVars, scanVars,
      vars, diskVars, modVars, noteVars, pinVars, pageVars>>

ServicesSpec == ServicesInit /\ [][ServicesNext]_servicesVars

\* What fairness owes to the component that runs, actor by actor: the fairness
\* of its module.  (One condition for the n-th actor of whichever component runs
\* is the same as one for each, since part never changes.)
Running ==
    CASE part = "mirror" -> mediaVars [] part = "video" -> videoVars
      [] part = "publish" -> pubVars [] part = "discover" -> discVars
      [] part = "replicate" -> repVars [] part = "chunk" -> vars
      [] part = "notify" -> noteVars
      [] OTHER -> <<>>

Turn(r, s, w) ==
    /\ UNCHANGED part
    /\ \/ part = "mirror" /\ MediaHandle(r)
       \/ part = "video" /\ VideoRun(s)
       \/ part = "publish" /\ PubWork(w)
       \/ part = "discover" /\ DiscWork(w)
       \/ part = "replicate" /\ w \in RepWorkers /\ RepWork(w)
       \/ part = "chunk" /\ Handle(r)
       \/ part = "notify" /\ (IF r = "r1" THEN Read("c1") ELSE Write("c1"))

OtherTurn(j) ==
    /\ UNCHANGED part
    /\ \/ part = "mirror" /\ MediaEvict("p1")
       \/ part = "video" /\ VideoLapseCache
       \/ part = "replicate" /\ Finish(j)
       \/ part = "notify" /\ j = "j1" /\ NoteWait("c1")
       \/ part = "chunk" /\ (IF j = "j1" THEN Lapse ELSE Cleanup)

ThirdRequest ==
    /\ UNCHANGED part
    /\ part = "chunk" /\ "r3" \in Requests /\ Handle("r3")

EntryDropped ==
    /\ UNCHANGED part
    /\ part = "mirror" /\ EvictEntry("p1") /\ row' # row

FairServicesSpec ==
    /\ ServicesSpec
    /\ WF_Running(Turn("r1", "s1", "w1")) /\ WF_Running(Turn("r2", "s2", "w2"))
    /\ WF_Running(OtherTurn("j1")) /\ WF_Running(OtherTurn("j2"))
    /\ WF_Running(ThirdRequest) /\ SF_Running(EntryDropped)

------------------------------------------------------------------------------
\* The components' properties are those of their modules; what is stated here is
\* of several of them.

\* Publication jobs end (FederationPublish), and no hash is being mirrored for
\* ever (FederationDiscovery).
FederationEnds == PublishEnds /\ MirrorEnds
==============================================================================
