# cloistr-blossom in TLA+

A verification project for the Blossom server in this repository: a store of
content-addressed blobs that several Nostr keys may own together, with quotas,
moderation, expiration and garbage collection, three ways to upload (whole,
resumable by the tus protocol, in chunks), and the services around it:
payments, rate limits, a mirror of remote media, transcoding, federation,
replication, content scans, IPFS pins, notifications. Paths below are relative
to the repository.

## 1. Inventory

### Parts of the system and how they interact

| part | state it keeps | operations | talks to |
|---|---|---|---|
| blob store (`src/service/blob_service.go`) | `blobs` (with `ref_count`, `pubkey`, `expires_at` and the bytes), `blob_references`; one object per hash in the storage backend | `SaveWithDedup`, `Save`, `DeleteReference`, `DeleteFromHash`, listing and search | database, storage backend, encryption |
| upload, mirror, delete (`src/bud-02`, `src/bud-04`) | none of their own | `UploadBlob`, `MirrorBlob`, `DeleteBlob`, `AdminDeleteBlob` | access rules, quota, moderation, blob store |
| quota (`src/service/quota_service.go`) | `users.used_bytes`, `quota_bytes`, `is_banned` | check, charge, credit, recalculate, ban | database |
| garbage collector (`src/service/gc_service.go`) | an advisory lock | reconcile, as a worker and on request | database, storage backend |
| expiration (`src/service/expiration_service.go`) | `blobs.expires_at`, policies, an advisory lock | set, clear, sweep | database, storage backend, quota |
| moderation (`src/service/moderation_service.go`, `src/bud-09`) | reports, blocklist, `removed_blobs` | report, decide, ban, block | blob store, quota |
| tus uploads (`api/gin/tus_controller.go`, `src/service/tus_store.go`) | `tus_uploads`, `tus_upload_chunks`; one object per chunk | POST, PATCH, HEAD, DELETE, expiry sweep | blocklist, blob store, quota, storage backend |
| chunked uploads (`src/service/chunked_upload_service.go`) | `upload_sessions`, `upload_chunks`; one file per chunk in a temporary directory | create, chunk, complete, abort, cleanup | blob store, quota, file system |
| batch (`src/service/batch_service.go`) | an in-memory job table that nothing fills | upload, download, delete, status | blob store, quota |
| payments (`src/service/payment_service.go`, `api/gin/payment_middleware.go`) | `payment_requests`, free bytes used | request, validate proof, consume the free tier, expire | Lightning node, Cashu mint |
| rate and tier limits (`internal/ratelimit`, `src/service/upload_limits_service.go`) | counters in a shared cache or in memory | allow, record | cache |
| media mirror (`src/service/media_mirror_service.go`) | `mirrored_media`, references of its own key, fetches under way | fetch once, answer, evict | origins, blob store |
| video (`src/service/video_service.go`) | jobs in memory, a copy in the cache, work files, objects | transcode, status, serve | ffmpeg, storage backend, cache |
| federation (`src/service/federation_service.go`) | `federation_events`, `federated_blobs`, known servers, server lists, two queues | publish, process events, mirror, check health | relays, remote servers, storage backend |
| replication (`src/service/replication_service.go`) | jobs in memory, a bounded queue | replicate, retry, cancel | regions' storage |
| AI moderation (`src/service/ai_moderation_service.go`) | providers, a result cache, quarantine | scan, queue, review | providers, moderation |
| notifications (`src/service/notification_service.go`, `api/gin/websocket_controller.go`) | channels of subscribers | subscribe, publish | websocket clients |
| IPFS (`src/service/ipfs_service.go`) | a cached pin per blob | pin, unpin, status | pinning service |
| local disk (`internal/storage/local.go`) | one file per hash and its temporary file | put, delete, read | file system |

Everything runs in several replicas of one process on one database. Handlers
run concurrently; there is no lock above the database: what must not interleave
is put into one transaction under the lock of the blob's row (`LockBlobRow`), or
into one statement with a guard (`DeleteOwnerlessBlob`,
`AdvanceTusUploadOffset`). Background work is a ticker per replica, for the two
blob sweeps under an advisory lock. The services with queues and jobs keep them
in the memory of one replica, under a mutex that is not held over a call to the
outside.

### What is hard

* the object store and the database are not changed together: bytes are put
  before their row, and removed after it, by requests that may die in between;
* the reference, its charge and the object are three steps of an upload, and
  the reverse three of a delete, which interleave with those of other keys;
* sweeps and moderators act on listings and lookups that are stale when used;
* requests race for one offset of a tus upload, one chunk of a session, one
  status, one payment request, one remote URL, one temporary file; a retry of a
  finished step meets its own result;
* counters are read and written in separate calls, and credits clamp at zero;
* a job's status is written by whoever has the job and by who cancels it; jobs
  go back into bounded queues that only the same workers empty;
* outside services take a request and lose the answer;
* what is abandoned must go, and what waits must be answered, in the end.

`PROJECT.json` lists the hazards one by one, at their lines, with the
properties that watch them.

### What makes each part correct

* **Store**: a blob stays as long as one key references it; what nobody
  references goes, row and object; no object outlives its row.
* **Accounting**: each reference is charged once and credited once, whether one
  by one or summed up by a batch.
* **Collector, expiration, moderation**: they take nothing they should not,
  leave nothing half deleted, and get to everything in the end; what was acted
  on is gone and does not come back.
* **tus**: recorded chunks tile the upload, keep their bytes, and become a blob
  whole or not at all; nothing is left behind.
* **Chunked**: the blob is what was recorded; ended sessions keep no files.
* **Payments, limits**: a proof pays once; no window lets more through than its
  limit; refused bytes do not count.
* **Mirror, jobs, queues**: one fetch at a time, references with an entry; a
  status says what is true of the objects; everything that was started ends.
* **Listing**: paging misses nothing that stays.

## 2. Modules

| module | models | by |
|---|---|---|
| `BlobOwnership` | what the store promises its users | `stored`, `owners`; publish, acquire, release, reclaim |
| `BlobStore` | upload, mirror, delete and the operator's delete on the store, with the accounting | the tables and the object store as variables; each request a program counter `pc[r]` over the steps of its handler |
| `BlobSweeps` | the same with collector, expiration sweep, a moderator's decision and recalculation | EXTENDS `BlobStore`; one program counter per sweep |
| `BlobListing` | `GET /list/<pubkey>` and the operator's search, page by page | rows with creation second, owners, type and size; a reader with a position |
| `ResumableUpload` | what the server promises of one resumable upload | `status`, `size`, `pieces`, `made`; open, append, make a blob, remove |
| `TusUpload` | one tus upload; maps to `ResumableUpload` | row, chunk rows, objects; creator, requests and sweep as actors |
| `ChunkedUpload` | one chunked session | row, chunk rows, directory; requests and worker |
| `Batch` | batch uploads and deletes of one key | items one by one, the sum charged or credited at the end |
| `LocalStorage` | the files of one hash on the local disk | names and inodes; one system call a step |
| `Moderation` | reports, decisions, bans, removed hashes, beside uploads by every way that saves a blob | decisions and uploads as program counters; the way of an upload says what it asks before it saves |
| `Payments` | the middleware, payment requests, proofs, free tier | the table, the node and the mint as sets; uploads |
| `RateLimits` | the limits on an upload's way | one counter per limit and window, shared or local |
| `MediaMirror` | remote images and their index | viewers in several replicas, eviction workers |
| `VideoJobs` | the transcoding of one video | jobs, status in memory and cache, files, objects |
| `FederationPublish` | publication to relays | rows, bounded queue, workers |
| `FederationDiscovery` | events, known servers, mirroring from remote servers | relays and workers in any order |
| `Replication` | copies to regions | jobs, bounded queue, workers, cancellation |
| `JobQueue` | what a service that works off jobs promises of them | a place for each job, a bounded line, the job in each carrier's hands; submit, carry, take, retry, release |
| `WorkQueues` | the refinement mappings from `Replication` and `FederationPublish` to `JobQueue` | where a job is, read off queue, workers and callers |
| `ContentScans` | a scan provider by provider, quarantine | scans, a cache, a review |
| `IPFSPins` | pins of one blob at the service | overlapping calls, the service, the cache |
| `Notifications` | websocket connections | handler, writer and reader of each; publishers |
| `MCStoreRequests`, `MCBlobSweeps`, `MCSweepFaults`, `MCTusUpload`, `MCChunkedUpload`, `MCMediaMirror`, `MCModeration` | instances for TLC | symmetry, sizes, origins |
| `MCServices` | the services on small instances | section 3 |
| `SumTheorems` | facts about sums over finite sets and about numbers | section 5 |
| `BlobStoreProofs`, `BlobSweepsProofs`, `StoreRunsProofs`, `TusUploadProofs` | theorems about the store, its sweeps and the tus upload | section 5 |
| `RequestProofs` | theorems about `Payments`, `RateLimits`, `Batch`, `BlobListing`, `Moderation` | section 5 |
| `MediaProofs` | theorems about `ChunkedUpload`, `LocalStorage`, `MediaMirror`, `VideoJobs`, `ContentScans` | section 5 |
| `WorkerProofs` | theorems about `Replication`, `FederationPublish`, `WorkQueues`, `FederationDiscovery`, `IPFSPins`, `Notifications` | section 5 |

The services' names carry a prefix where two of them would share one (`payStatus`,
`repStatus`, `DiscFaults`), so that one module can extend several.

Granularity. One database statement, one transaction, one call to the storage
backend, the cache, the file system or an outside service is one step; between
two steps of a request anything may happen. What is done under one mutex
without such a call is one step. A handler's checks that read no shared state of
the model are part of its start: a request they refuse never starts. An early
return is a step to `done`. Errors are steps too, switched on by the constant
`Faults`: a database error changes nothing and ends the handler (or is
swallowed, where the code swallows it), a failed `Put` may have written the
object or not, a failed `Delete` leaves it, a lost answer hides a change that was
made, a crash stops a request, a worker or a replica at any step.

**`BlobStore`** variables and code: `rows`, `refCount`, `uploader`, `expiring` are
columns of `blobs`; `refs` is `blob_references`; `used` and `banned` are columns
of `users`; `removed` is `removed_blobs`; `objects` is the backend. `cur` and
`todo` are locals of `AdminDeleteBlob`. `settled` and `forfeited` are history
variables that no step reads. `op`, `pk` and `hash` are the input of each
request and arbitrary. The labels of an upload, in order: `mquota`, `mfetch`
(mirror only), `quota`, `removed`, `lookup`, then `hasref`, `addref` for a stored
blob or `put`, `insert`, `refer` for a new one (`cleanup` when the insert
fails), `charge`, `expire`.

**`BlobSweeps`** abstracts time: every row with an `expires_at` may be past it.
`StoredSize` is `blobs.size`, which is larger than the plaintext `Size` for
encrypted blobs.

**`TusUpload`** abstracts bytes to offsets and lengths; a chunk's key is its
offset and its writer, as the random suffix of `tusChunkKey` makes it. A save of
the finished bytes is one step here: what it does inside is `BlobStore`.
`ResumableUpload` says the same without requests: `size` is the row's offset,
`pieces` the chunk rows, `made` the blobs saved, and an upload is open while its row
is there. Loads, puts of chunk bytes, the reading of a finalization and the removal of
objects are stutters; recording a chunk, saving and deleting the row are not.

**`ChunkedUpload`** abstracts a chunk to its number and its bytes to a member of
`Bodies`; a row holds the hash of the bytes, the file the bytes. `Workers` says
whether `StartCleanupWorker` is called, which it is not in this repository.

**`LocalStorage`** goes below `BlobStore`'s atomic `Put`: `os.Create` truncates
and `io.Copy` then writes, and the temporary name depends on the hash alone. Its theorem
says when `Put` is one step.

**`Payments`**: `payStatus`, `price`, `invoice` are the row; `payOverdue` is
`expires_at` having passed; `settled` and `spent` belong to the node and the
mint. `later` is history: the requests that had let another upload pass when
this upload looked them up. `Called` holds the functions that exist but that no
handler calls (`ConsumeFreeTier`, `CleanupExpired`).

**`RateLimits`**: a counter per limit, whose key names the window; a new window
empties it. `Store` is `"counter"` (shared cache, atomic increment) or `"local"`
(buckets in the process); `let` counts what passed, as history.

**`MediaMirror`**: `row` is the outcome stored for a URL, `old` that its negative
TTL is over, `claims` the references of the mirror's key, `inflight` the map of
single flight in each replica. `strayed` is history: the references that an error,
a crash or a second fetch of other bytes left without an entry.

**`Moderation`**: `way` is how an upload comes, and with it what it looks at before
it saves: `PUT /upload` and `PUT /mirror` at the blocklist, the ban (in
`CheckQuota`) and the removed hashes; batch uploads and `PUT /media` at the first
two; tus at the first two when it is made, and at the blocklist again when a PATCH
begins and when it finalizes; a chunked session at the ban alone, when it is made;
the proxy of remote media at none. `slipped`, `unasked` and `erred` are history:
hashes that came back by an upload which had passed the check before, hashes saved
by a way that does not ask, both until the blob is deleted again, and names for
which a statement failed that only logs its error.

**`Batch`**: `granted` and `lost` are history: what references were ever made for,
and what crashes and failed charges left uncharged.

**`JobQueue`**: a job is new, waits in the line, is held by one carrier (or is held
until it is queued again) and is over. `Carries` says whether a submitter that finds
the queue full carries its job itself (`SyncMode` of replication), `Rejects` whether a
job may be refused before it is queued (a publication whose row the database refused),
`Crashes` whether the jobs under way may be lost with the process. The queue of
replication has its callers and its workers for carriers, that of publication its
workers. What a job does, and the statuses written on its way, are not in it.

**`VideoJobs`**, **`FederationPublish`**, **`FederationDiscovery`**, **`Replication`**,
**`ContentScans`**, **`IPFSPins`**, **`Notifications`**: each variable names its table,
map, channel or queue in its declaration. Channels are bounded sequences or
counts, with the `select`'s choice left open; a `default` is a step that drops.

## 3. Runs

`MCServices` runs one component per behaviour: `part` chooses it at the start,
the others stay in an initial state. The components share no state there, so a
property of one says nothing less for it. The module extends all of them, so that
the properties checked are the very definitions the theorems of section 5 name, and
the theorems' assumptions are evaluated for the instances. Three components run a
second time as named instances with other constants, where one instance would be
too large or one property wants other faults (`RateLocal!`, `Lists!`,
`ModerateFails!`). `Parts` in a .cfg lists the components of a run.

What composes is composed where state is shared: requests, all sweeps and the
accounting in `BlobSweeps`; uploads beside decisions in `Moderation`; batches beside
single uploads and deletes in `Batch` (a single one is a batch of one).

Passing runs:

| run | shows |
|---|---|
| `StoreRequests` | `TypeOK`. About accounting: `ChargeMatched`: charges less credits of a key for a blob equal its references, whatever races; `NeverUndercharged`: no key pays less than it references; `NoOrphanObject`: at rest each object has a row. About ownership: `OwnedBlobsStay`: under all failures, crashes included, and beside the collector the store refines `BlobOwnership` |
| `SweepsFaults` | `NoOrphanAfterSweeps` under failures of the database, `NoOwnerlessRow` under failures of the storage and of the accounting and sweeps that die: at rest each object has a row, each row an owner, with all sweeps |
| `SweepsLiveness` | `OwnerlessReclaimed`, `ExpiredDeleted`: the workers get to everything, in batches of one |
| `TusFaults` | `ChunksTile`, `RecordedBytesStored` and `NeverTorn`, whatever fails; `UploadPromised`: requests, retries, deletions and the sweep refine `ResumableUpload`, so that bytes are only added at the end, once by each request, a removed upload stays removed, and all the blobs made of one upload have the same bytes but for empty ones |
| `TusSweep` | `AbandonedRemoved`, and `NoBytesLeftBehind`, with database errors |
| `Services` | the services' safety, below |
| `ServicesLive` | the services' liveness, below, and `NoFilesLeft`: completed, aborted and removed sessions keep no files |

`Services`, property by property:

| property | of | says |
|---|---|---|
| `PaidForOnce` | `Payments` | an upload never passes with a request that had let another pass before it was looked up, although an expiry may write over "paid" |
| `RefusedBytesReturned`, `DailyLimitSeen` | `RateLimits` | refused bytes are handed back, unless that call fails or comes in another window; an upload begun when the day is full is not stored |
| `OneFetch`, `ClaimsTracked` | `MediaMirror` | one fetch of a URL at a time in a replica; at rest each reference of the mirror has an entry, but for those in `strayed` |
| `CompleteHasAll` | `VideoJobs` | a video that says complete has every stream of every quality served |
| `PublishedAccepted` | `FederationPublish` | a row says published only if a relay has the event |
| `MirroredIsStored` | `FederationDiscovery` | nothing but the bytes of a hash is stored under it, and mirrored means stored |
| `ChargedForHoldings` | `Batch` | at rest a key is charged for at least what it holds, less what crashes and failed charges lost, and never for more than the references it was given |
| `CompleteIsCopied` | `Replication` | complete means the copy is in the region, whatever is cancelled or retried |
| `JobsKeepTheirPlace` | `WorkQueues` | replication and publication each refine `JobQueue`: a job is never queued twice nor in two hands, the queue stays bounded and in order, retries are bounded, and what is over stays over |
| `NotWeakened` | `ContentScans` | no detection makes the verdict milder than another calls for, under settings in which the action grows with the confidence |
| `SavedAsRecorded` | `ChunkedUpload` | a blob has each chunk once, with the recorded bytes, under file errors and crashes |
| `ObjectWhole` | `LocalStorage` | readers find the whole object or none unless Puts of it overlap, and again after overlapping Puts that all succeed |
| `ActionedIsGone` | `Moderation` | what a moderator removed is not brought back by `PUT /upload` or `PUT /mirror`, but for uploads that had passed the check before and statements that failed; nor is it there otherwise, until an upload by another way stores it (`FindRemovedReturns`) |
| `PinnedIsHeld` | `IPFSPins` | a call that says "pinned already" is right, unless an unpin overlapped another call, did not run to its end or could not drop the cached entry |
| `PagesComplete` | `BlobListing` | pages by position miss no blob that stays, whatever uploads come between them |

`ServicesLive`: `WaitersAnswered` (viewers of a fetch get an answer),
`CacheDrained` (the media cache comes back under its cap), `TranscodeEnds`,
`FederationEnds` (publications and mirrorings end), `JobsEnd` (replications leave
queue and workers), `OverdueRemoved` (chunked sessions, where the worker runs),
`ConnectionsEnd` (a broken connection's three goroutines end).

Bounds of the store's runs: `Requests` bounds the number of requests (each
identity is used once), `Hashes` and `Pubkeys` the data, `GCBatch` and
`ExpireBatch` are the batch sizes. Two keys and one blob make every race between
an owner and another; a second blob of another size is there where a credit
could go to the wrong account. Three requests are enough for one request to be
between two steps while another ends and a third begins; the sweeps' runs have
two, beside four sweeps. For tus, `Length` 2 makes an upload of one or two chunks
and bodies that are empty, exact, too short and too long.

Bounds of the services: two or three concurrent callers, for a pair that races
and one more that meets the result; two jobs and a queue of one, for a queue that
is full; one retry, for the first and the last; two replicas of the media
mirror; three blobs and three seconds for pages of one and two; chunked uploads
of two chunks with four requests that race for one of them, and of one chunk with
three requests, one of which ends the session. `ServicesInit` pins
inputs that only permute the others (which request is the first chunk, which
upload asks without a proof) and some that bound the run (one of two moderators
removes the blob, and one of two uploads takes the way that asks for removed
hashes; one of three IPFS calls unpins and one pins), and says so. `ServicesLive` has one replica, one
quality and one replication worker: liveness is about whether someone goes on.

`NoOrphanObject` and `NoBytesLeftBehind` are checked without storage failures
and crashes, which leave objects behind by design (the code says so: the bytes
of a failed delete are logged and left). `NoOwnerlessRow` is checked without
crashes of requests and database errors, which leave the rows the collector is
for: `OwnerlessReclaimed` covers those. `ChargeMatched` is checked without
failures of the accounting itself, which the code drops. The liveness run of tus
leaves out HEAD requests and the blocklist, for size; `TusFaults` has both.

Runs that end in a violation, each with its finding in `PROJECT.json`:

| run | a sentence of the repository | what happens |
|---|---|---|
| `FindTusEmpty` | "ReadAll returns the upload's bytes, in order" (core/tus.go:49) | an empty blob is saved |
| `FindChunkCount` | "Number of chunks received" (core/chunked_upload.go:42) | two parallel chunks count as one |
| `FindClaimLeaked` | "reclaimable later by the GC worker" (media_mirror_service.go:661) | a second fetch of the URL that fails overwrites the entry of the first; the mirror's reference stays for good and the collector takes no referenced blob (so does a second fetch that brings other bytes) |
| `FindRemovedReturns` | "checks if a blob hash has been removed and cannot be re-uploaded" (core/moderation.go:153); "Add to removed blobs to prevent re-upload" (moderation_service.go:270) | a batch upload, and one by media, tus, chunks or the media proxy alike, stores a removed blob again |
| `FindTornObject` | "rename for atomicity" (local.go:43) | two Puts of one hash share the temporary file, and readers find part of the blob |

Deadlock is checked for the store and its sweeps, where `AllDone` marks the
bound. One upload, one session and the services on their bounds really end, so
those runs do not check it.

### Seen while modelling

Stated in the modules or here, and not as runs:

* `storage.Delete` runs after the commit: a re-upload that puts its object in
  between keeps its reference and loses the object (the row has the bytes);
* a credit that overtakes its charge is lost at zero, so usage may drift up; the
  error of an upload's charge is dropped; the expiration sweep credits at its
  end, by the stored size, and loses the credits of a batch when it dies; a
  moderator's removal credits the first uploader only; a recalculation sums
  stored sizes; the quota is a soft limit for uploads that run at once;
* an upload between the recheck and the delete of the operator loses its
  reference with the row (`forfeited` in `BlobStore` counts it);
* an upload that passed the removed-hash check before the moderator's decision
  is stored after it, and the check lets pass when the database fails
  (`ActionedIsGone` excepts both);
* a chunked session asks for the blocklist at none of its requests, and the ban
  only when it is made;
* a report about a hash in capitals is kept as it came, and acting on it deletes
  and marks nothing real; `UnbanUser` leaves the blocklist entry that a ban made;
* the cleanup of a refused chunk may remove the recorded chunk's file; nothing
  starts the cleanup worker of chunked sessions;
* `FreeTierHeld` (`Payments`; docs/reference.md, "Free tier") fails: no handler
  calls `ConsumeFreeTier`, so every upload below the free bytes is free. An upload
  of unknown `Content-Length` passes unpaid;
* `WindowKept` (`RateLimits`; ratelimit.go, cleanup "older than 2 windows") fails:
  buckets of windows longer than the cleaner's are dropped early;
* `DASHServed` and `OneAtATime` (`VideoJobs`; docs/reference.md "Stream via HLS or
  DASH", core/video.go `ErrTranscodeInProgress`) fail: the manifest is put under a
  key no reader asks for, and the check for a running job is not one step with
  the start of the next;
* `PendingIsWaiting` and `RefsAreEvents` (federation) fail: a job dropped by a full
  queue leaves its row pending; an event delivered by two relays counts twice. An
  unreachable server's health is not recorded. Downloads put objects without a
  row of `blobs`;
* `CancelledStays` (`Replication`) fails: a worker that has read the status before
  the cancellation completes the job;
* `ApprovalStands` (`ContentScans`) fails: a second scan quarantines an approved
  blob again. With `BlockHighConfidence` on, `QuarantineMedium` off and
  `FlagLowConfidence` on, which are not the defaults, a very confident detection
  outside the critical categories is merely flagged and hides a less confident one
  that would be quarantined (ai_moderation_service.go:254): `NotWeakened` excepts
  these settings. The failure of a custom provider is cached as "allow"; queued scans
  carry no bytes;
* `NoPanic` (`Notifications`) fails: `Publish` sends without the lock on a channel
  that may have been closed since; no command publishes yet;
* listing: the total is zero on a page past the end, an offset without a limit is
  ignored, and so is a limit above the maximum; blobs of one second have no order
  between pages, which `PagesComplete` excepts;
* an IPFS unpin leaves "pinned" in the cache for a day when its answer is lost, and
  also when it succeeds and the cache then fails: the error of `cache.Delete`
  (ipfs_service.go:171) is dropped. Until then `PinBlob` says "already pinned" of a
  blob that is not (`PinnedIsHeld` excepts both); the
  `AutoPin` setting is read by nothing.

## 4. Fairness

* `FairSweepSpec` (requests beside the two workers, which do not die): weak
  fairness of the collector and of the expiration sweep.
  Both are goroutines on a ticker that only the stop channel ends, and a tick
  that finds work does it. Nothing is assumed of clients.
* `TusUpload`'s `FairSpec`: weak fairness of the sweep, a goroutine started in
  `cmd/api/main.go` whose loop survives errors and panics, and strong fairness
  of its delete: it tries again at every tick, so it succeeds in the end unless
  the database refuses for ever. Requests owe nothing.
* `ChunkedUpload`'s `FairSpec`: handlers that have begun go on, the time of a
  session passes, and the worker ticks if it was started. Nobody has to send a
  request.
* `MediaFairSpec`: fetches have a timeout, so a handler runs to its end;
  the eviction worker ticks, and drops an entry in the end unless the database
  refuses for ever.
* `VideoJobs`, `FederationPublish`, `FederationDiscovery`, `Replication`: the
  goroutine of a job, and workers that have been started, go on (ffmpeg, relays
  and downloads run under timeouts); a cached status lapses.
* `Notifications`: the three goroutines of a connection go on; pings are sent
  every 30 seconds.

`FairServicesSpec` gives the running component exactly the fairness of
its module. It folds the conditions of different components into one per actor,
which is the same since `part` never changes.

## 5. Proofs

`tlapm` checks the following for every value of the constants that meets the
named assumptions of the modules (`ConstantsAssumption`, `TusAssumption`,
`PaymentsAssumption`, ...), which say no more than that limits are numbers, sets of
identities are finite where they are counted, requests are not the placeholder for
none, and the like. TLC evaluates each of them in the runs. Every safety invariant
and every refinement that a passing run checks is a theorem here, and so are the types
of every component. A property and its theorem name the same definition; where the run takes a
fault away, so does the theorem, by the same hypothesis on the constant `Faults`.

Each proof has the same shape: an inductive invariant that is a conjunction of
named parts, a lemma for the initial states, a lemma for a step with one case per
action, and the theorem. What follows says what had to be added to make the
invariant inductive, which is the reason the property holds.

* `BlobStoreProofs`
  * `TypeCorrect`: `Spec => []TypeOK`; inductive as it stands, one step per
    group of actions.
  * `RowsOwn`: references, uploader and expiration exist only with their row.
  * `NoOrphans`, without storage failures and crashes. The invariant at rest is
    not inductive; `OrphanCovered` is: an object without a row is named by a
    request about to insert its row or to delete the object.
  * `NoOwnerless`, without database errors and crashes, from `OwnerlessCovered`:
    a row without references has a request about to make its first one.
  * `ChargesMatchReferences`, without failures of the accounting and crashes.
    `ChargeMatched` is its own inductive invariant, but it counts requests:
    lemmas say how the sets of charging and crediting requests grow and shrink
    with one move of a program counter, and each action keeps the balance.
  * `OwnershipImplemented`: uploads, mirrors and user deletes implement
    `BlobOwnership` under every fault. The operator's delete is left out: an
    upload between its recheck and its delete loses its reference with the row.
* `BlobSweepsProofs`: the same store with the collector, the expiration sweep, the
  moderator and the recalculation beside the requests. The requests' steps are
  taken over from the lemmas of `BlobStoreProofs`; the sweeps' are new.
  * `SweepTypes`.
  * `NoOrphansWithSweeps`, from `SweepOrphansCovered`: an object without a row is
    covered by a request or by the one sweep that has just deleted the row.
  * `NoOwnerlessWithSweeps`.
  * `CollectorSparesOwned`: requests and collector implement `BlobOwnership` under
    every fault. The guard of `DeleteOwnerlessBlob` is what the step needs, not the
    listing.
  * `UsageCoversBlobs`, without failures of the accounting and crashes, from
    `Covers`: usage and the charges under way are at least the sizes of the blobs
    referenced and the credits under way. Each of the four is a sum over a finite
    set; a step moves one summand from one sum to another.
* `StoreRunsProofs`: the theorems above for the two runs, `SweepsFaults` and
  `StoreRequests`, whose behaviours have one of two sets of faults from their start.
  `MCSweepFaults` and `MCStoreRequests` instantiate `BlobSweepsProofs` once for each
  set, so that the theorems apply.
  * `FaultyDatabaseNoOrphans`, `FaultyStorageNoOwnerless`: the two sweep theorems.
  * `RequestTypes`, `RequestsChargeMatched`, `RequestsNeverUndercharge`,
    `RequestsLeaveNoOrphan` and `RequestsSpareOwned`: `TypeCorrect` and `SweepTypes`,
    `ChargesMatchReferences`, `UsageCoversBlobs`, `NoOrphans` and
    `CollectorSparesOwned`, for every value of the instance's constants.
* `TusUploadProofs`
  * `TusTypeCorrect`, `ChunksAlwaysTile` and `RecordedBytesStay` under every
    fault, and `NothingLeftBehind` without storage failures and crashes.
    Tiling needs that a request about to record a chunk has one that fits
    (`Type`) and that nothing is recorded before the row is there (`Fresh`); the
    bytes need who may still touch an object (`Keys`): a key
    belongs to one writer, a writer's chunk is recorded once, and objects are
    only unlinked when the upload has no row any more, which it never gets
    again. What is left behind needs `Accounted`: every object is a recorded
    chunk's, or its writer is about to record or remove it, or some actor has
    it on its list to unlink.
  * `SavedNeverTorn`: `Offsets` (an upload once complete stays so, and what an
    actor has seen of the offset is never ahead of it) and `Gathered` (the chunks
    read and those left to read are together a whole upload, or there were none).
  * `UploadImplemented`: the tus upload implements `ResumableUpload` under every
    fault. What the mapping needs beyond the above is `SameContent`: the blobs
    saved and what each actor is about to have read (`Contents`) agree but for
    empty ones, they equal the recorded chunks as long as the row is there, and
    before the upload is complete there are none. That no writer appends twice is
    `Keys`: its first chunk has its key. A save after the removal is then the
    blob that others have made, or would have.
* `RequestProofs`
  * `PaymentTypes`, `ListingTypes`, `ModerationTypes`, `BatchTypes`.
  * `PaymentOnce`: the status alone is no invariant, since `MarkPaymentExpired`
    may overwrite "paid"; `SpentStaysSpent` is: a request that let an upload pass
    is paid or overdue, and either refuses who looks it up later.
  * `DailyLimitKept`, from `DayCounted`: the counter is what was recorded, and an
    upload that began at the limit does not get past the check.
    `RefusedBytesHandedBack`, from `BytesCounted`: the counter is what passed, what
    the cache failed to take back, and what is still to be handed back.
    `LimitsKept`: within a window no counter lets more through than its limit,
    unless it was dropped in it, from `Within`: what was let through is at most the
    limit and, but for bytes, which may be handed back, at most the counter.
  * `HoldingsCharged`, from `BatchBooks`: the charges and credits that running
    batches have summed up so far, beside usage and holdings. The end of a batch
    moves its sum into the usage, or into what was lost.
  * `ListingComplete`, from `StillAhead`: as long as no listed blob goes and no two
    are of one second, the offset of a page is at most the rank of each blob the
    reader has not been given (`PositionsAreRanks`: a query's row number is the
    count of the rows before it).
  * `ActionedStaysGone`, from `MarkedByReview` and `DeletedByMark`: the name is on
    the list before the report says so, and the deletion before the name. With
    `PassedEarly`, what is stored after that slipped through, met a failure or came
    by a way that does not ask: the claim is about the ways that do.
* `MediaProofs`
  * `DiskTypes`, `VideoTypes`, `ScanTypes`.
  * `ChunkedTypes` and `BlobsAsRecorded` under every fault: what a completion has
    assembled is always a prefix of the chunks, each once and each once recorded
    (`Assembled`), whatever becomes of files and rows meanwhile. That a prefix as
    long as the session has every chunk is a fact about cardinalities, in a lemma.
  * `NothingLeft`, without file errors and crashes: the directory of a session
    that is over is still to be removed by whoever ended it (`Removal`), and is
    never made again.
  * `ObjectsWhole`, for any number of blocks and calls: a Put that runs alone has
    the temporary file to itself (`Alone`), and Puts that share it complete each
    other (`ClosedWhole`): whoever emptied it last writes all of it.
  * `FetchedOnce`, `ReferencesTracked` and `MirrorTypes`, from `MediaInv`: the map
    of fetches holds those that lead (`Flights`), of one URL in one replica one
    leads (`OneLeader`), and a reference is held by an entry, by the fetch about to
    write one or by the eviction that has removed one (`ClaimHeld`).
  * `CompleteVideosServed`, from `VideoProgress`: the walk over the work files puts
    the master playlist last, and whoever reports has put it.
  * `DetectionsNotWeakened`: the most confident detection of a set decides, and is
    the strictest one (`DecisiveIsMost`), unless one blocks at once.
* `WorkerProofs`
  * `CompleteJobsCopied`, `ReplicationTypes` and `InProgressJobsExecuted`, from
    `AtOnePlace`: a job is with its caller, at one position of the queue, or in
    the hands of one worker, although retries put jobs back and the status is
    written without a lock.
  * `JobsImplemented`: both services implement `JobQueue`. The mapping reads a job's
    place off the concrete state, and `AtOnePlace` and `PubOnePlace` are what makes that
    reading a function of the step: a job that a worker takes, queues again or lays
    down is nowhere else, so that its place changes and every other job's stays
    (`RepOneMoves`, `PubOneMoves`). Writing a status, calling a relay or copying an
    object moves nobody.
  * `PublishedRowsAccepted`, the action property `PublishedRowsFinal`, and
    `AttemptsAreBounded`, from `PubOnePlace` (as above), `TakenBefore` (who is to
    write "published" has a relay that took the event), `PublishedOver` (nobody has
    to do with a published job) and `AskedPerRetry`.
  * `MirroredBlobsStored`, from `StoredBefore`.
  * `PinnedBlobsHeld`: while no unpin has overlapped another call, been cut short
    or failed to drop the entry, the entry is right (`EntryHolds`) and so is whoever
    has read it (`FoundHolds`), whichever other calls to the cache fail.
  * `PublicationTypes`, `DiscoveryTypes`, `PinTypes`.
  * `ErrorsNeverBlock`: neither goroutine of a websocket connection ever blocks on the
    error channel, from `ToldOnce`: writer and reader each tell their error once, in
    their last step, and the channel has room for both.

Sums and least elements. The models sum with `SumFunctionOnSet` of the community
modules, a fold; what a recursion computes for every input is out of the prover's
reach. `SumTheorems` goes round it: a sum of natural numbers over a finite set is
the cardinality of the set of its units (`SumCountsUnits`, over `Units(f, S)`, the
pairs of an element and a number up to its value), by the well-foundedness of the
naturals applied to a least counterexample, not by an induction scheme; adding,
removing and changing an element are then facts about cardinalities. `Least` gives
the least element of a set of numbers and serves the proofs about ranks and
confidences too.

Only model-checked:

* liveness (`OwnerlessReclaimed`, `ExpiredDeleted`, `AbandonedRemoved` and
  `ServicesLive`), and whatever needs ENABLED, which the prover does not do;
* the five properties of the violation runs, which are false.

## 6. What is assumed and what is not modelled

A transaction is atomic and a failed one changed nothing: the answer of a
commit is not lost (of tus: a chunk whose commit's answer is lost is recorded
while its bytes are removed). The collector's statement sees a consistent state,
whatever the isolation level. Quotas are enabled and kept in the server's own
database. The replicas share the temporary directory of chunked uploads, or a
client stays on one replica.

Some of what is modelled is started or called by no command of the repository:
`federation.Start`, the replication service, the workers and providers of AI
moderation, `StartCleanupWorker`, `ConsumeFreeTier`, payments' `CleanupExpired`,
`Publish` of notifications. The modules say so, and show what the code does when
it is.

Not modelled, within the modelled parts: expiration policies and
`ClearExpiration`, `SetQuota`, batch downloads (they read the storage backend), the rate limiter over
a cache without a counter (it has no user), the choice and health of regions,
`DeleteTranscodedFiles`, subtitles, the counts kept of known servers, the operator's list of pins,
the late expiry of a tus upload that a chunk has just renewed, the sizes of
chunks of a session (its blob may be longer than was checked).

Not modelled at all, and why: authentication, admin sessions and signed URLs
(checks of signed events without state of their own, and a session table whose
rows only expire); analytics, statistics, metrics and HTML (reads and counters);
encryption (cryptography; its effect on sizes is in `StoredSize`); media
processing and torrents (pure functions of the bytes; cached variants may outlive
their blob by an hour); safe fetch (network policy); configuration, MIME types,
CDN rewriting; the external platform database of quotas; S3 (an external
service: `Put` and `Delete` are atomic steps that may fail).

## 7. What could follow

1. An exact account of usage under the sweeps, with expiration policies and
   `SetQuota`, in `BlobSweeps`.
2. Proofs: an abstract specification of a cache in front of a service, which the
   media mirror, the scans and the pins would be shown to implement, each with the
   staleness it allows; the chunked session as a second implementation of
   `ResumableUpload`, with chunks in any order.
3. Batch downloads, and the removed-hash check of the upload paths that lack it.
