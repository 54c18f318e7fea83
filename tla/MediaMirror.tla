------------------------------ MODULE MediaMirror ------------------------------
(***************************************************************************)
(* The media mirror: signed links to remote images, an index of what has   *)
(* been fetched (mirrored_media) shared by the replicas, one fetch at a    *)
(* time of each URL in each replica, and the worker that evicts.  The      *)
(* bytes are blobs held by a reference of the mirror's own key; of the     *)
(* blob store (BlobStore) only the references are kept here, and each of   *)
(* its transactions is one step.                                           *)
(***************************************************************************)
EXTENDS Integers, FiniteSets

CONSTANTS
    MediaUrls,
    MediaContents,       \* the bytes an origin may serve, by their hash
    MediaServes,         \* what may be had from each URL
    MediaRequests,       \* identities of requests: the bound on their number
    Procs,               \* the replicas
    CacheMax, LowWater,  \* entries the cache may hold, and those an eviction leaves
    MediaFaults          \* what may fail, a subset of MediaFaultNames

\* "fetch" an origin that fails or serves what is refused; "db" an error of a
\* statement; "store" SaveWithDedup fails; "crash" a replica dies; "admin" the
\* operator deletes a blob.
MediaFaultNames == {"fetch", "db", "store", "crash", "admin"}

MirrorAssumption ==
    /\ IsFiniteSet(MediaUrls)
    /\ MediaServes \in [MediaUrls -> SUBSET MediaContents]
    /\ CacheMax \in Nat /\ LowWater \in 0..CacheMax
    /\ MediaContents \cap {"none", "failed"} = {}
    /\ MediaFaults \subseteq MediaFaultNames

VARIABLES
    row,        \* mirrored_media: the hash mirrored for each URL, "failed" or "none"
    old,        \* failures on record for longer than their TTL
    claims,     \* blobs that the mirror's key holds a reference to
    mediaHeld,  \* blobs that a user's key holds a reference to
    inflight,   \* each replica's map of fetches under way: by URL, the request that leads it
    \* each request: its URL, its replica, the step it makes next, whom it waits
    \* for, what it fetched, and its answer
    url, proc, mediaPc, leader, got, mediaAnswer,
    \* each replica's eviction: the step it makes next, the entries it listed,
    \* the entries it still counts, and the hash whose entry it has removed
    epc, mediaListed, current, dropped,
    strayed     \* history: references whose entry was replaced, or whose way to or from
                \* their entry an error or a crash cut short, until one has them again

index == <<row, old>>
blobs == <<claims, mediaHeld, strayed>>
mediaLocal == <<leader, got, mediaAnswer>>
eviction == <<epc, mediaListed, current, dropped>>
mediaVars == <<row, old, claims, mediaHeld, inflight, url, proc, mediaPc, leader, got,
          mediaAnswer, epc, mediaListed, current, dropped, strayed>>

None == {"none"}
Outcomes == MediaContents \cup {"none", "failed"}

MediaInit ==
    /\ row = [u \in MediaUrls |-> "none"] /\ old = {}
    /\ claims = {} /\ mediaHeld \in SUBSET MediaContents /\ strayed = {}
    /\ inflight = [p \in Procs |-> [u \in MediaUrls |-> {}]]
    /\ url \in [MediaRequests -> MediaUrls] /\ proc \in [MediaRequests -> Procs]
    /\ mediaPc = [r \in MediaRequests |-> "idle"] /\ leader = [r \in MediaRequests |-> r]
    /\ got = [r \in MediaRequests |-> "none"] /\ mediaAnswer = [r \in MediaRequests |-> "none"]
    /\ epc = [p \in Procs |-> "idle"] /\ mediaListed = [p \in Procs |-> {}]
    /\ current = [p \in Procs |-> 0] /\ dropped = [p \in Procs |-> "none"]

Stored(h) == h \in claims \cup mediaHeld
MediaMirrored == {u \in MediaUrls : row[u] \in MediaContents}
Referenced(h) == \E u \in MediaUrls : row[u] = h

\* The references to the contents of lost go astray, those that no entry has.
Stray(lost) == strayed' = {h \in (strayed \cup lost) \cap claims' : ~Referenced(h)'}

------------------------------------------------------------------------------
MediaAt(r, l) == mediaPc[r] = l
MediaGoto(r, l) == mediaPc' = [mediaPc EXCEPT ![r] = l]
MediaRest == UNCHANGED <<url, proc, eviction>>
MediaMove(r, l) == MediaGoto(r, l) /\ MediaRest /\ UNCHANGED <<index, blobs, inflight, mediaLocal>>

MediaAnswer(r, a) ==
    /\ mediaAnswer' = [mediaAnswer EXCEPT ![r] = a]
    /\ MediaGoto(r, "done")
    /\ MediaRest /\ UNCHANGED <<index, blobs, inflight, leader, got>>

\* VerifyAndGet: a link that is not signed, has expired or is no URL is refused.
Verify(r) == MediaAt(r, "idle") /\ (MediaMove(r, "look") \/ MediaMove(r, "done"))

\* fromCache: the entry, and for one that is mirrored its blob.  Without a
\* verdict the request goes on to fetch.
MediaLookUp(r) ==
    /\ MediaAt(r, "look")
    /\ LET v == row[url[r]] IN
       \/ /\ v \in MediaContents
          /\ got' = [got EXCEPT ![r] = v]
          /\ MediaGoto(r, "blob")
          /\ MediaRest /\ UNCHANGED <<index, blobs, inflight, leader, mediaAnswer>>
       \/ v = "failed" /\ url[r] \notin old /\ MediaAnswer(r, "failed")
       \/ (v = "none" \/ url[r] \in old \/ "db" \in MediaFaults) /\ MediaMove(r, "join")

MediaReadBlob(r) ==
    /\ MediaAt(r, "blob")
    /\ \/ Stored(got[r]) /\ MediaAnswer(r, got[r])
       \/ (~Stored(got[r]) \/ "db" \in MediaFaults) /\ MediaMove(r, "join")

\* fetchOnce: under the mutex a request joins the fetch of its URL or leads one.
MutantNobodyFlies(r) == {}
Flying(r) == inflight[proc[r]][url[r]]

Join(r) ==
    /\ MediaAt(r, "join")
    /\ \/ \E l \in Flying(r) :
            /\ leader' = [leader EXCEPT ![r] = l]
            /\ MediaGoto(r, "wait")
            /\ MediaRest /\ UNCHANGED <<index, blobs, inflight, got, mediaAnswer>>
       \/ /\ Flying(r) = {}
          /\ inflight' = [inflight EXCEPT ![proc[r]][url[r]] = @ \cup {r}]
          /\ MediaGoto(r, "fetch")
          /\ MediaRest /\ UNCHANGED <<index, blobs, mediaLocal>>

\* A waiter has the leader's result once the leader has one, or gives up.
MutantNeedsEntry(r) == mediaAnswer[leader[r]] # "none" /\ leader[r] \in Flying(r)
ResultReady(r) == mediaAnswer[leader[r]] # "none"

MediaWait(r) == MediaAt(r, "wait") /\ ResultReady(r) /\ MediaAnswer(r, mediaAnswer[leader[r]])
MediaGiveUp(r) == MediaAt(r, "wait") /\ MediaMove(r, "done")

\* doFetch: the request to the origin and the checks of what it serves.
Fetched(r, v, l) ==
    /\ got' = [got EXCEPT ![r] = v]
    /\ MediaGoto(r, l)
    /\ MediaRest /\ UNCHANGED <<index, blobs, inflight, leader, mediaAnswer>>

Fetch(r) ==
    /\ MediaAt(r, "fetch")
    /\ \/ \E h \in MediaServes[url[r]] : Fetched(r, h, "save")
       \/ "fetch" \in MediaFaults /\ Fetched(r, "failed", "record")

\* SaveWithDedup under the mirror's key.
MediaSaveBlob(r) ==
    /\ MediaAt(r, "save")
    /\ \/ /\ claims' = claims \cup {got[r]}
          /\ MediaGoto(r, "record")
          /\ MediaRest /\ UNCHANGED <<index, mediaHeld, strayed, inflight, mediaLocal>>
       \/ "store" \in MediaFaults /\ Fetched(r, "failed", "record")

\* fetchAndStore records the verdict, whatever the entry says by now; an error
\* is dropped.  The waiters then have the result.
MediaRecord(r) ==
    /\ MediaAt(r, "record") /\ UNCHANGED <<claims, mediaHeld>>
    /\ \/ /\ row' = [row EXCEPT ![url[r]] = got[r]] /\ old' = old \ {url[r]}
          /\ Stray({row[url[r]]})
       \/ "db" \in MediaFaults /\ UNCHANGED index /\ Stray({got[r]})
    /\ mediaAnswer' = [mediaAnswer EXCEPT ![r] = got[r]]
    /\ MediaGoto(r, "land")
    /\ MediaRest /\ UNCHANGED <<inflight, leader, got>>

\* The fetch leaves the map.
Land(r) ==
    /\ MediaAt(r, "land")
    /\ inflight' = [inflight EXCEPT ![proc[r]][url[r]] = @ \ {r}]
    /\ MediaGoto(r, "done")
    /\ MediaRest /\ UNCHANGED <<index, blobs, mediaLocal>>

------------------------------------------------------------------------------
EGoto(p, l) == epc' = [epc EXCEPT ![p] = l]
ERest == UNCHANGED <<url, proc, mediaPc, mediaLocal, inflight, mediaHeld>>
EMove(p, l) == EGoto(p, l) /\ ERest /\ UNCHANGED <<index, claims, mediaListed, current, dropped>>

\* Evict: failures past their TTL go first.
ExpireFailures(p) ==
    /\ epc[p] = "idle" /\ old # {}
    /\ row' = [u \in MediaUrls |-> IF u \in old THEN "none" ELSE row[u]]
    /\ old' = {}
    /\ ERest /\ UNCHANGED <<claims, strayed, eviction>>

\* Above the cap the entries are listed, and go until the low water mark.
MutantAtCap == Cardinality(MediaMirrored) > CacheMax + 1
OverCap == Cardinality(MediaMirrored) > CacheMax

List(p) ==
    /\ epc[p] = "idle" /\ OverCap
    /\ mediaListed' = [mediaListed EXCEPT ![p] = {<<u, row[u]>> : u \in MediaMirrored}]
    /\ current' = [current EXCEPT ![p] = Cardinality(MediaMirrored)]
    /\ EGoto(p, "next")
    /\ ERest /\ UNCHANGED <<index, claims, strayed, dropped>>

\* evictOne: the entry, then, when no other entry is of the same bytes, the
\* mirror's reference.
EvictEntry(p) ==
    /\ epc[p] = "next"
    /\ \/ \E c \in mediaListed[p] :
            /\ current[p] > LowWater
            /\ mediaListed' = [mediaListed EXCEPT ![p] = @ \ {c}]
            /\ ERest /\ UNCHANGED <<claims, current>>
            /\ \/ /\ row' = [row EXCEPT ![c[1]] = "none"] /\ old' = old \ {c[1]}
                  /\ dropped' = [dropped EXCEPT ![p] = c[2]]
                  /\ EGoto(p, "count")
                  /\ Stray({row[c[1]]} \ {c[2]})
               \/ "db" \in MediaFaults /\ UNCHANGED <<index, epc, dropped, strayed>>
       \/ (current[p] <= LowWater \/ mediaListed[p] = {}) /\ EMove(p, "idle") /\ UNCHANGED strayed

\* c more entries gone, and on to the next.
MediaCounted(p) ==
    /\ current' = [current EXCEPT ![p] = @ - 1]
    /\ EGoto(p, "next")

CountRefs(p) ==
    /\ epc[p] = "count"
    /\ \/ /\ Referenced(dropped[p])
          /\ MediaCounted(p)
          /\ ERest /\ UNCHANGED <<index, claims, strayed, mediaListed, dropped>>
       \/ ~Referenced(dropped[p]) /\ EMove(p, "release") /\ UNCHANGED strayed
       \/ "db" \in MediaFaults /\ EMove(p, "next") /\ Stray({dropped[p]})

MutantKeepsClaim(h) == claims
Released(h) == claims \ {h}

Release(p) ==
    /\ epc[p] = "release"
    /\ \/ /\ dropped[p] \in claims
          /\ claims' = Released(dropped[p])
          /\ MediaCounted(p)
          /\ ERest /\ UNCHANGED <<index, mediaListed, dropped>> /\ Stray({})
       \/ (dropped[p] \notin claims \/ "db" \in MediaFaults) /\ EMove(p, "next") /\ Stray({dropped[p]})

------------------------------------------------------------------------------
\* The TTL of a failure passes.
MediaLapse(u) ==
    /\ row[u] = "failed" /\ u \notin old
    /\ old' = old \cup {u}
    /\ MediaRest /\ UNCHANGED <<row, blobs, inflight, mediaPc, mediaLocal>>

\* The operator deletes a blob, with every reference to it.
AdminDelete(h) ==
    /\ "admin" \in MediaFaults /\ Stored(h)
    /\ claims' = claims \ {h} /\ mediaHeld' = mediaHeld \ {h}
    /\ MediaRest /\ UNCHANGED <<index, inflight, mediaPc, mediaLocal>> /\ Stray({})

\* A replica dies, with its requests, its fetches and its eviction.  (Garbage
\* collection removes blobs that nobody refers to: it changes no reference.)
MediaCrash(p) ==
    /\ "crash" \in MediaFaults
    /\ epc[p] # "idle" \/ \E r \in MediaRequests : proc[r] = p /\ mediaPc[r] \notin {"idle", "done"}
    /\ mediaPc' = [r \in MediaRequests |->
                      IF proc[r] = p /\ mediaPc[r] # "idle" THEN "done" ELSE mediaPc[r]]
    /\ inflight' = [inflight EXCEPT ![p] = [u \in MediaUrls |-> {}]]
    /\ EGoto(p, "idle")
    /\ UNCHANGED <<index, claims, mediaHeld, url, proc, mediaLocal, mediaListed, current, dropped>>
    /\ Stray({got[r] : r \in {q \in MediaRequests : proc[q] = p /\ mediaPc[q] = "record"}}
             \cup (IF epc[p] \in {"count", "release"} THEN {dropped[p]} ELSE {}))

Lead(r) == Fetch(r) \/ MediaSaveBlob(r) \/ MediaRecord(r) \/ Land(r)
MediaHandle(r) == MediaLookUp(r) \/ MediaReadBlob(r) \/ Join(r) \/ MediaWait(r) \/ Lead(r)
MediaEvict(p) == ExpireFailures(p) \/ List(p) \/ EvictEntry(p) \/ CountRefs(p) \/ Release(p)

MediaNext ==
    \/ \E r \in MediaRequests : Verify(r) \/ MediaHandle(r) \/ MediaGiveUp(r)
    \/ \E p \in Procs : MediaEvict(p) \/ MediaCrash(p)
    \/ \E u \in MediaUrls : MediaLapse(u)
    \/ \E h \in MediaContents : AdminDelete(h)

MediaSpec == MediaInit /\ [][MediaNext]_mediaVars

\* A fetch has a timeout, so handlers run to their end.  The worker ticks on,
\* and a database that answers now and then lets it drop an entry in the end.
MediaFairness ==
    /\ \A r \in MediaRequests : WF_mediaVars(MediaHandle(r))
    /\ \A p \in Procs : WF_mediaVars(MediaEvict(p)) /\ SF_mediaVars(EvictEntry(p) /\ row' # row)

MediaFairSpec == MediaSpec /\ MediaFairness

------------------------------------------------------------------------------
\* The state's types; the map holds the requests that lead, and only them.
MediaTypeOK ==
    /\ row \in [MediaUrls -> Outcomes] /\ old \subseteq MediaUrls
    /\ strayed \subseteq claims /\ claims \subseteq MediaContents /\ mediaHeld \subseteq MediaContents
    /\ \A p \in Procs, u \in MediaUrls : inflight[p][u] =
         {r \in MediaRequests : /\ proc[r] = p /\ url[r] = u
                               /\ mediaPc[r] \in {"fetch", "save", "record", "land"}}
    /\ leader \in [MediaRequests -> MediaRequests] /\ mediaAnswer \in [MediaRequests -> Outcomes]
    /\ current \in [Procs -> 0..Cardinality(MediaUrls)]

\* However many viewers ask at once, a replica fetches a URL once at a time
\* (inflight: "without this, N viewers produce N outbound fetches").
OneFetch ==
    \A r, s \in MediaRequests :
        MediaAt(r, "fetch") /\ MediaAt(s, "fetch") /\ proc[r] = proc[s] /\ url[r] = url[s] => r = s

AllQuiet ==
    /\ \A r \in MediaRequests : mediaPc[r] \in {"idle", "done"}
    /\ \A p \in Procs : epc[p] = "idle"

\* When nothing is under way every reference the mirror holds belongs to an
\* entry, so that evicting the entries gives the space back: the two are
\* written by a fetch and an eviction that interleave.  The references that an
\* error, a crash or a second fetch of other bytes left behind are in strayed.
ClaimsTracked == AllQuiet => \A h \in claims \ strayed : Referenced(h)

\* Nobody waits for ever on another's fetch, whatever became of the one that
\* led it (fetchOnce).
WaitersAnswered == \A r \in MediaRequests : MediaAt(r, "wait") ~> MediaAt(r, "done")

\* A cache above its cap comes back under it.
CacheDrained == []<>(Cardinality(MediaMirrored) <= CacheMax)

\* media_mirror_service.go, evictOne: a reference without an entry is
\* "reclaimable later by the GC worker": it goes, or an entry comes.
ClaimReclaimed ==
    \A h \in MediaContents : (h \in claims /\ ~Referenced(h)) ~> (h \notin claims \/ Referenced(h))
==============================================================================
