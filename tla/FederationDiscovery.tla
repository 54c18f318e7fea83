-------------------------- MODULE FederationDiscovery --------------------------
(***************************************************************************)
(* What the server learns from relays and mirrors: file metadata (kind     *)
(* 1063) makes a row of a remote blob, server lists (kind 10063) replace a *)
(* user's list, and mirror workers download the blobs that enough events   *)
(* refer to.  Each relay, in each replica, delivers its events one after   *)
(* another; relays, replicas and workers run side by side, and each        *)
(* statement and each download is one step.  Relays and remote servers are *)
(* external.  (Of a known server only the health is kept, not its counts.) *)
(***************************************************************************)
EXTENDS Integers, Sequences, SequencesExt

CONSTANTS
    DiscHashes, DiscUrls,
    DiscServes,                \* the bytes, by their hash, that each URL may serve
    FileEvents, XTag, UrlTag,  \* kind 1063 events, the hash and the URL of each
    ListEvents, ServerTags,    \* kind 10063 events of one user, the servers of each
    Servers, HostOf,           \* servers that lists name, and the one of each URL
    Probes,                    \* servers the operator checks
    Us,                        \* our own
    DiscRelays,                \* subscriptions: each delivers every event it has at most once
    DiscWorkers,               \* the mirror workers, none where Start is not called
    MirrorMinRefs, DiscQueueSize,
    AdminRequests,             \* hashes the operator asks to mirror, each once
    DiscFaults                 \* what may fail, a subset of DiscFaultNames

DiscFaultNames == {"fetch", "db", "crash"}
Nothing == "none"

DiscoveryAssumption ==
    /\ DiscServes \in [DiscUrls -> SUBSET (DiscHashes \cup {"other"})]
    /\ XTag \in [FileEvents -> DiscHashes] /\ UrlTag \in [FileEvents -> DiscUrls]
    /\ HostOf \in [DiscUrls -> Servers] /\ Probes \subseteq Servers
    /\ ServerTags \in [ListEvents -> Seq(Servers)]
    /\ FileEvents \cap ListEvents = {} /\ IsFiniteSet(FileEvents)
    /\ Nothing \notin DiscHashes \cup FileEvents \cup ListEvents
    /\ AdminRequests \subseteq DiscHashes
    /\ MirrorMinRefs \in Nat /\ DiscQueueSize \in Nat
    /\ DiscFaults \subseteq DiscFaultNames

VARIABLES
    discStatus, discRefs,  \* federated_blobs: by hash, "none" where there is no row
    urls,                  \* federated_blob_urls of each hash
    discList,              \* the user's user_server_lists: by server, the event it is of
    ours,                  \* federated_users: whether the user is there
    known,                 \* known_servers.healthy: by server, "none" where there is no row
    object,                \* the storage backend: by hash, the bytes there
    discQueue,             \* s.mirrorQueue
    discAsked,             \* what the operator has asked for
    discSeen,              \* the events each relay has delivered
    \* each relay: the step it makes next, its event, and its place in the list
    rpc, revent, place,
    \* each worker: the step it makes next, its hash, and the URLs left to try
    mpc, mhash, discLeft

blobRows == <<discStatus, discRefs, urls>>
listRows == <<discList, ours>>
relay == <<rpc, revent, place>>
mirror == <<mpc, mhash, discLeft>>
discVars == <<discStatus, discRefs, urls, discList, ours, known, object, discQueue,
          discAsked, discSeen, rpc, revent, place, mpc, mhash, discLeft>>

DiscStatuses == {"none", "discovered", "mirroring", "mirrored", "failed"}
DiscEvents == FileEvents \cup ListEvents

DiscInit ==
    /\ discStatus = [h \in DiscHashes |-> "none"] /\ discRefs = [h \in DiscHashes |-> 0]
    /\ urls = [h \in DiscHashes |-> {}]
    /\ discList = [s \in Servers |-> Nothing] /\ ours = FALSE
    /\ known = [s \in Servers |-> "none"]
    /\ object = [h \in DiscHashes |-> "none"]
    /\ discQueue = << >> /\ discAsked = {}
    /\ discSeen = [r \in DiscRelays |-> {}] /\ rpc = [r \in DiscRelays |-> "idle"]
    /\ revent = [r \in DiscRelays |-> Nothing] /\ place = [r \in DiscRelays |-> 1]
    /\ mpc = [w \in DiscWorkers |-> "idle"] /\ mhash = [w \in DiscWorkers |-> Nothing]
    /\ discLeft = [w \in DiscWorkers |-> {}]

------------------------------------------------------------------------------
DiscAt(r, l) == rpc[r] = l
DiscGoto(r, l) == rpc' = [rpc EXCEPT ![r] = l]
FileRest == UNCHANGED <<discList, ours, object, discAsked, discSeen, revent, place, mirror>>
ListRest == UNCHANGED <<blobRows, object, discQueue, discAsked, discSeen, revent, mirror>>
DbFails == "db" \in DiscFaults

\* handleIncomingEvent.
Receive(r, e) ==
    /\ DiscAt(r, "idle") /\ e \notin discSeen[r]
    /\ discSeen' = [discSeen EXCEPT ![r] = @ \cup {e}]
    /\ revent' = [revent EXCEPT ![r] = e] /\ place' = [place EXCEPT ![r] = 1]
    /\ DiscGoto(r, IF e \in FileEvents THEN "blob" ELSE "delete")
    /\ UNCHANGED <<blobRows, listRows, known, object, discQueue, discAsked, mirror>>

\* A server is healthy when it is first seen, and stays what it is after that.
\* An error is dropped.
UpsertKnownServer(s) ==
    known' \in {[known EXCEPT ![s] = IF @ = "none" THEN "healthy" ELSE @]}
                 \cup (IF DbFails THEN {known} ELSE {})

\* handleFileMetadataEvent: each delivery is one more reference.
UpsertFederatedBlob(r) ==
    /\ DiscAt(r, "blob")
    /\ LET h == XTag[revent[r]] IN
       \/ /\ discStatus' = [discStatus EXCEPT ![h] = IF @ = "none" THEN "discovered" ELSE @]
          /\ discRefs' = [discRefs EXCEPT ![h] = @ + 1]
          /\ DiscGoto(r, "url")
       \/ DbFails /\ DiscGoto(r, "idle") /\ UNCHANGED <<discStatus, discRefs>>
    /\ FileRest /\ UNCHANGED <<urls, known, discQueue>>

AddFederatedBlobURL(r) ==
    /\ DiscAt(r, "url")
    /\ urls' \in {[urls EXCEPT ![XTag[revent[r]]] = @ \cup {UrlTag[revent[r]]}]}
                   \cup (IF DbFails THEN {urls} ELSE {})
    /\ DiscGoto(r, "host")
    /\ FileRest /\ UNCHANGED <<discStatus, discRefs, known, discQueue>>

RecordHost(r) ==
    /\ DiscAt(r, "host")
    /\ UpsertKnownServer(HostOf[UrlTag[revent[r]]])
    /\ DiscGoto(r, "auto")
    /\ FileRest /\ UNCHANGED <<blobRows, discQueue>>

\* ShouldAutoMirror, then MirrorBlobAsync: a full queue is ignored.
ShouldAutoMirror(h) == discStatus[h] = "discovered" /\ discRefs[h] >= MirrorMinRefs
DiscQueued(h) == IF Len(discQueue) < DiscQueueSize THEN Append(discQueue, h) ELSE discQueue

AutoMirror(r) ==
    /\ DiscAt(r, "auto")
    /\ \/ discQueue' = IF ShouldAutoMirror(XTag[revent[r]])
                        THEN DiscQueued(XTag[revent[r]]) ELSE discQueue
       \/ DbFails /\ UNCHANGED discQueue
    /\ DiscGoto(r, "idle")
    /\ FileRest /\ UNCHANGED <<blobRows, known>>

\* handleServerListEvent: the user's list goes, then the new one comes, entry
\* by entry; errors are logged.
Emptied == [s \in Servers |-> Nothing]

DeleteUserServerList(r) ==
    /\ DiscAt(r, "delete")
    /\ discList' \in {Emptied} \cup (IF DbFails THEN {discList} ELSE {})
    /\ DiscGoto(r, "list")
    /\ ListRest /\ UNCHANGED <<ours, known, place>>

Entry(r) == ServerTags[revent[r]][place[r]]

UpsertUserServerList(r) ==
    /\ DiscAt(r, "list") /\ place[r] <= Len(ServerTags[revent[r]])
    /\ discList' \in {[discList EXCEPT ![Entry(r)] = revent[r]]} \cup (IF DbFails THEN {discList} ELSE {})
    /\ DiscGoto(r, IF Entry(r) = Us THEN "user" ELSE "known")
    /\ ListRest /\ UNCHANGED <<ours, known, place>>

\* Whoever names our server becomes a federated user, for good.
UpsertFederatedUser(r) ==
    /\ DiscAt(r, "user")
    /\ ours' \in {TRUE} \cup (IF DbFails THEN {ours} ELSE {})
    /\ DiscGoto(r, "known")
    /\ ListRest /\ UNCHANGED <<discList, known, place>>

RecordServer(r) ==
    /\ DiscAt(r, "known")
    /\ UpsertKnownServer(Entry(r))
    /\ place' = [place EXCEPT ![r] = @ + 1]
    /\ DiscGoto(r, "list")
    /\ ListRest /\ UNCHANGED listRows

EndList(r) ==
    /\ DiscAt(r, "list") /\ place[r] > Len(ServerTags[revent[r]])
    /\ DiscGoto(r, "idle")
    /\ ListRest /\ UNCHANGED <<listRows, known, place>>

------------------------------------------------------------------------------
MGoto(w, l) == mpc' = [mpc EXCEPT ![w] = l]
MirrorRest == UNCHANGED <<discRefs, urls, listRows, known, discAsked, discSeen, relay>>

\* mirrorWorker.
DiscTake(w) ==
        /\ mpc[w] = "idle" /\ discQueue # << >>
        /\ mhash' = [mhash EXCEPT ![w] = Head(discQueue)] /\ discQueue' = Tail(discQueue)
        /\ MGoto(w, "read")
        /\ MirrorRest /\ UNCHANGED <<discStatus, object, discLeft>>

\* MirrorBlob: the row and its URLs, or an error.
DiscReadBlob(w) ==
    /\ mpc[w] = "read"
    /\ \/ /\ discStatus[mhash[w]] # "none" /\ urls[mhash[w]] # {}
          /\ discLeft' = [discLeft EXCEPT ![w] = urls[mhash[w]]]
          /\ MGoto(w, "mark")
       \/ /\ discStatus[mhash[w]] = "none" \/ urls[mhash[w]] = {} \/ DbFails
          /\ MGoto(w, "idle")
          /\ UNCHANGED discLeft
    /\ MirrorRest /\ UNCHANGED <<discStatus, object, discQueue, mhash>>

\* UpdateFederatedBlobStatus, whatever it is by now; errors are dropped.
DiscSetStatus(w, s) ==
    discStatus' \in {[discStatus EXCEPT ![mhash[w]] = s]} \cup (IF DbFails THEN {discStatus} ELSE {})

DiscMark(w) ==
        /\ mpc[w] = "mark"
        /\ DiscSetStatus(w, "mirroring")
        /\ MGoto(w, "download")
        /\ MirrorRest /\ UNCHANGED <<object, discQueue, mhash, discLeft>>

\* downloadAndStore from each URL in turn, until one serves the blob.
MutantTrusts(w, b) == TRUE
HashMatches(w, b) == b = mhash[w]

Download(w) ==
    /\ mpc[w] = "download"
    /\ \E u \in discLeft[w] :
         /\ discLeft' = [discLeft EXCEPT ![w] = @ \ {u}]
         /\ \/ \E b \in DiscServes[u] :
                 IF HashMatches(w, b)
                 THEN object' = [object EXCEPT ![mhash[w]] = b] /\ MGoto(w, "done")
                 ELSE UNCHANGED <<object, mpc>>
            \/ "fetch" \in DiscFaults /\ UNCHANGED <<object, mpc>>
    /\ MirrorRest /\ UNCHANGED <<discStatus, discQueue, mhash>>

DiscGiveUp(w) ==
    /\ mpc[w] = "download" /\ discLeft[w] = {}
    /\ DiscSetStatus(w, "failed")
    /\ MGoto(w, "idle")
    /\ MirrorRest /\ UNCHANGED <<object, discQueue, mhash, discLeft>>

DiscMirrored(w) ==
    /\ mpc[w] = "done"
    /\ DiscSetStatus(w, "mirrored")
    /\ MGoto(w, "idle")
    /\ MirrorRest /\ UNCHANGED <<object, discQueue, mhash, discLeft>>

------------------------------------------------------------------------------
\* POST /admin/federation/blobs/:hash/mirror.
RequestMirror(h) ==
    /\ h \in AdminRequests \ discAsked
    /\ discAsked' = discAsked \cup {h} /\ discQueue' = DiscQueued(h)
    /\ UNCHANGED <<blobRows, listRows, known, object, discSeen, relay, mirror>>

\* POST /admin/federation/servers/health-check: a server that answers has its health
\* recorded, if it is known; of one that does not answer nothing is recorded.
UpdateServerHealth(s, health) == [known EXCEPT ![s] = IF @ = "none" THEN @ ELSE health]

CheckServerHealth(s) ==
    /\ s \in Probes
    /\ \E health \in {"healthy", "unhealthy"} : known' = UpdateServerHealth(s, health)
    /\ UNCHANGED <<blobRows, listRows, object, discQueue, discAsked, discSeen, relay, mirror>>

\* The process dies and starts again, with an empty queue.
DiscRestart ==
    /\ "crash" \in DiscFaults
    /\ \/ discQueue # << >>
       \/ \E r \in DiscRelays : ~DiscAt(r, "idle")
       \/ \E w \in DiscWorkers : mpc[w] # "idle"
    /\ discQueue' = << >>
    /\ rpc' = [r \in DiscRelays |-> "idle"] /\ mpc' = [w \in DiscWorkers |-> "idle"]
    /\ UNCHANGED <<blobRows, listRows, known, object, discAsked, discSeen, revent, place, mhash, discLeft>>

DiscHandle(r) ==
    \/ UpsertFederatedBlob(r) \/ AddFederatedBlobURL(r) \/ RecordHost(r) \/ AutoMirror(r)
    \/ DeleteUserServerList(r) \/ UpsertUserServerList(r) \/ UpsertFederatedUser(r)
    \/ RecordServer(r) \/ EndList(r)
DiscWork(w) ==
    DiscTake(w) \/ DiscReadBlob(w) \/ DiscMark(w) \/ Download(w) \/ DiscGiveUp(w) \/ DiscMirrored(w)

DiscNext ==
    \/ \E r \in DiscRelays : DiscHandle(r) \/ \E e \in DiscEvents : Receive(r, e)
    \/ \E w \in DiscWorkers : DiscWork(w)
    \/ \E h \in DiscHashes : RequestMirror(h)
    \/ \E s \in Servers : CheckServerHealth(s)
    \/ DiscRestart

DiscSpec == DiscInit /\ [][DiscNext]_discVars

\* Downloads have a timeout, so the workers run.
DiscFairness == \A w \in DiscWorkers : WF_discVars(DiscWork(w))

DiscFairSpec == DiscSpec /\ DiscFairness

------------------------------------------------------------------------------
\* The state's types.
DiscTypeOK ==
    /\ discStatus \in [DiscHashes -> DiscStatuses]
    /\ urls \in [DiscHashes -> SUBSET DiscUrls] /\ discList \in [Servers -> ListEvents \cup {Nothing}]
    /\ known \in [Servers -> {"none", "healthy", "unhealthy"}]
    /\ Len(discQueue) <= DiscQueueSize /\ ToSet(discQueue) \subseteq DiscHashes
    /\ mhash \in [DiscWorkers -> DiscHashes \cup {Nothing}] /\ discLeft \in [DiscWorkers -> SUBSET DiscUrls]
    /\ \A h \in DiscHashes : (discStatus[h] = "none") <=> (discRefs[h] = 0)

\* Nothing but the bytes of a hash is stored under it, and a blob that says
\* mirrored was stored, though two workers mirror it at once and each ends as
\* it likes (MirrorBlob, downloadAndStore).
MirroredIsStored ==
    \A h \in DiscHashes : object[h] \in {"none", h} /\ (discStatus[h] = "mirrored" => object[h] = h)

\* No blob says mirroring for ever: whoever overwrites another's outcome also
\* ends (MirrorBlob).
MirrorEnds == \A h \in DiscHashes : discStatus[h] = "mirroring" ~> discStatus[h] # "mirroring"

\* core/federation.go: RefCount is the "number of kind 1063 events referencing
\* this blob".
RefsAreEvents ==
    \A h \in DiscHashes : discRefs[h] <= Cardinality({e \in FileEvents : XTag[e] = h})
==============================================================================
