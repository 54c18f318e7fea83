------------------------------ MODULE RateLimits ------------------------------
(***************************************************************************)
(* The limits an upload passes on its way: requests per address and per    *)
(* key and bytes per address in each minute (or longer window), then       *)
(* uploads per day.  Each is a counter whose key names the window, kept in *)
(* a shared cache with an atomic increment or in the memory of the process *)
(* under a lock; a new window starts from nothing.  All uploads come from  *)
(* one address; each call of a limiter is one step.                        *)
(***************************************************************************)
EXTENDS Integers, FiniteSets

CONSTANTS
    RateUploads,  \* identities of uploads: the bound on their number
    RatePubkeys,  \* keys that sign them
    RequestLimit, KeyLimit, ByteLimit, UploadsPerDay,
    RateSizes,    \* bytes an upload may have
    Store,        \* "counter": the limiters have a cache.Counter; "local": they have none
    LongWindows,  \* TRUE where a window outlasts the ten minutes that cleanup keeps
    RateFaults,   \* {"cache"} where the cache may fail
    RateEvents    \* {"evict"} where the cache may drop an entry

RateAssumption ==
    /\ {RequestLimit, KeyLimit, ByteLimit, UploadsPerDay} \subseteq Nat \ {0}
    /\ RateSizes \subseteq Nat \ {0}
    /\ RatePubkeys \cap {"ip", "bytes", "day"} = {}
    /\ Store \in {"counter", "local"} /\ LongWindows \in BOOLEAN
    /\ RateFaults \subseteq {"cache"} /\ RateEvents \subseteq {"evict"}

\* The counters: requests of the address and of each key, bytes of the address,
\* and the uploads of the day.
ByMinute == RatePubkeys \cup {"ip", "bytes"}
Counters == ByMinute \cup {"day"}

LimitOf(k) ==
    CASE k = "ip" -> RequestLimit [] k = "bytes" -> ByteLimit
      [] k = "day" -> UploadsPerDay [] OTHER -> KeyLimit

VARIABLES
    count,  \* each counter in the window it is in
    \* each upload: who signs it, its bytes, whether they are declared; the
    \* step it makes next, and the bytes charged so far
    signer, rateSize, declared, ratePc, charged,
    stale,  \* uploads whose refused bytes belong to an earlier window
    \* history of the window: what each counter let through; bytes charged for
    \* good to refused uploads; counters dropped, or not asked for the day;
    \* uploads that began when the day's uploads had been recorded to the limit
    let, stuck, forgot, barred

rateInput == <<signer, rateSize, declared>>
rateHistory == <<let, stuck, forgot, barred>>
rateVars == <<count, signer, rateSize, declared, ratePc, charged, stale, let, stuck, forgot,
          barred>>

RateLabels == {"idle", "key", "bytes", "back", "check", "save", "record", "done", "refused"}

Zero == [k \in Counters |-> 0]

RateInit ==
    /\ count = Zero
    /\ signer \in [RateUploads -> RatePubkeys] /\ rateSize \in [RateUploads -> RateSizes]
    /\ declared \in [RateUploads -> BOOLEAN]
    /\ ratePc = [u \in RateUploads |-> "idle"] /\ charged = [u \in RateUploads |-> 0] /\ stale = {}
    /\ let = Zero /\ stuck = 0 /\ forgot = {} /\ barred = {}

------------------------------------------------------------------------------
RateAt(u, l) == ratePc[u] = l
RateGoto(u, l) == ratePc' = [ratePc EXCEPT ![u] = l]
RateMove(u, l) == RateGoto(u, l) /\ UNCHANGED <<count, rateInput, charged, stale, rateHistory>>

Added(k, n) == [count EXCEPT ![k] = @ + n]
LetThrough(k, n) == [let EXCEPT ![k] = @ + n]

\* What a limiter answers to n more of k: within the limit, or refused.
Fits(k, n) == count[k] + n <= LimitOf(k)

\* AllowN.  The shared counter is incremented first, so a refused request
\* counts too; the local bucket counts only what it allows.  When the cache
\* fails the request passes and nothing is counted.
Request(u, k, l) ==
    /\ \/ /\ Fits(k, 1)
          /\ count' = Added(k, 1) /\ let' = LetThrough(k, 1)
          /\ RateGoto(u, l)
       \/ /\ ~Fits(k, 1)
          /\ count' = IF Store = "counter" THEN Added(k, 1) ELSE count
          /\ RateGoto(u, "refused")
          /\ UNCHANGED let
       \/ /\ "cache" \in RateFaults /\ Store = "counter"
          /\ RateGoto(u, l)
          /\ UNCHANGED <<count, let>>
    /\ UNCHANGED <<rateInput, charged, stale, stuck, forgot>>

\* RateLimitMiddleware: the address first, then the key that signed.
RateLimitAddress(u) ==
    /\ RateAt(u, "idle")
    /\ Request(u, "ip", "key")
    /\ barred' = IF let["day"] >= UploadsPerDay THEN barred \cup {u} ELSE barred

RateLimitKey(u) == RateAt(u, "key") /\ Request(u, signer[u], "bytes") /\ UNCHANGED barred

\* BandwidthLimitMiddleware: declared bytes are charged at once, others as the
\* body is read, here one at a time.
Piece(u) == IF declared[u] THEN rateSize[u] ELSE 1

RateCharge(u) ==
    /\ charged' = [charged EXCEPT ![u] = @ + Piece(u)]
    /\ RateGoto(u, IF charged'[u] = rateSize[u] THEN "check" ELSE "bytes")

\* AllowBytes.  A shared counter has the bytes added before it is known that
\* they are too many; what is refused is handed back in a second call.
AllowBytes(u) ==
    /\ RateAt(u, "bytes")
    /\ \/ /\ Fits("bytes", Piece(u))
          /\ count' = Added("bytes", Piece(u)) /\ let' = LetThrough("bytes", Piece(u))
          /\ RateCharge(u)
          /\ UNCHANGED <<rateInput, stale, stuck, forgot, barred>>
       \/ /\ ~Fits("bytes", Piece(u)) /\ Store = "counter"
          /\ count' = Added("bytes", Piece(u))
          /\ RateGoto(u, "back")
          /\ UNCHANGED <<rateInput, charged, stale, rateHistory>>
       \/ ~Fits("bytes", Piece(u)) /\ Store = "local" /\ RateMove(u, "refused")
       \/ /\ "cache" \in RateFaults /\ Store = "counter"
          /\ RateCharge(u)
          /\ UNCHANGED <<count, rateInput, stale, rateHistory>>

\* The second call names the window of the first.
MutantKeepsBytes(u) == 0
HandedBack(u) == IF u \in stale THEN 0 ELSE Piece(u)

HandBack(u) ==
    /\ RateAt(u, "back")
    /\ \/ count' = Added("bytes", -HandedBack(u)) /\ UNCHANGED stuck
       \/ "cache" \in RateFaults /\ stuck' = stuck + HandedBack(u) /\ UNCHANGED count
    /\ RateGoto(u, "refused")
    /\ UNCHANGED <<rateInput, charged, stale, let, forgot, barred>>

\* CheckUpload asks for zero more of the day; RecordUpload counts a stored
\* upload and looks at no answer.  This limiter always has a counter.
CheckUpload(u) ==
    /\ RateAt(u, "check")
    /\ \/ RateMove(u, IF count["day"] < UploadsPerDay THEN "save" ELSE "refused")
       \/ /\ "cache" \in RateFaults
          /\ forgot' = forgot \cup {"day"}
          /\ RateGoto(u, "save")
          /\ UNCHANGED <<count, rateInput, charged, stale, let, stuck, barred>>

\* The handler's other checks and its save, which may refuse it.
RateSave(u) == RateAt(u, "save") /\ (RateMove(u, "record") \/ RateMove(u, "refused"))

MutantUnrecorded == count
Recorded == Added("day", 1)

RecordUpload(u) ==
    /\ RateAt(u, "record")
    /\ \/ count' = Recorded /\ UNCHANGED forgot
       \/ "cache" \in RateFaults /\ forgot' = forgot \cup {"day"} /\ UNCHANGED count
    /\ let' = LetThrough("day", 1)
    /\ RateGoto(u, "done")
    /\ UNCHANGED <<rateInput, charged, stale, stuck, barred>>

------------------------------------------------------------------------------
Without(f, K) == [k \in Counters |-> IF k \in K THEN 0 ELSE f[k]]

\* A new minute, and a new day.
NextMinute ==
    /\ count' = Without(count, ByMinute) /\ let' = Without(let, ByMinute)
    /\ stale' = stale \cup {u \in RateUploads : RateAt(u, "back")}
    /\ stuck' = 0 /\ forgot' = forgot \ ByMinute
    /\ UNCHANGED <<rateInput, ratePc, charged, barred>>

NextDay ==
    /\ count' = Without(count, {"day"}) /\ let' = Without(let, {"day"})
    /\ forgot' = forgot \ {"day"} /\ barred' = {}
    /\ UNCHANGED <<rateInput, ratePc, charged, stale, stuck>>

Drop(K) ==
    /\ count' = Without(count, K)
    /\ forgot' = forgot \cup K
    /\ UNCHANGED <<rateInput, ratePc, charged, stale, let, stuck, barred>>

\* cleanup, every five minutes: it drops the buckets of the process that are
\* older than ten, also those of a window that goes on.
RateCleanup == Store = "local" /\ LongWindows /\ Drop(ByMinute)

\* The in-memory cache makes room for something else.
RateEvict == "evict" \in RateEvents /\ \E k \in Counters : (k = "day" \/ Store = "counter") /\ Drop({k})

RateHandle(u) ==
    \/ RateLimitAddress(u) \/ RateLimitKey(u) \/ AllowBytes(u) \/ HandBack(u)
    \/ CheckUpload(u) \/ RateSave(u) \/ RecordUpload(u)

RateNext ==
    \/ \E u \in RateUploads : RateHandle(u)
    \/ NextMinute \/ NextDay \/ RateCleanup \/ RateEvict

RateSpec == RateInit /\ [][RateNext]_rateVars

------------------------------------------------------------------------------
\* The state's types.
RateTypeOK ==
    /\ count \in [Counters -> Int]
    /\ ratePc \in [RateUploads -> RateLabels] /\ charged \in [RateUploads -> Nat]
    /\ stale \subseteq RateUploads /\ barred \subseteq RateUploads
    /\ let \in [Counters -> Nat] /\ stuck \in Nat /\ forgot \subseteq Counters

\* In no window do more requests or bytes pass than the limit, however the
\* calls interleave, unless the cache dropped the counter in that window
\* (ratelimit.go: "concurrent requests on any pod cannot all read the same
\* count and all pass").
LimitsHeld == \A k \in ByMinute \ forgot : let[k] <= LimitOf(k)

\* Once refused bytes are handed back, an address is charged for what it was
\* let through and nothing else, but for the bytes the cache failed to take
\* back (ratelimit.go: "a refused upload never transfers them").
RefusedBytesReturned ==
    "bytes" \notin forgot /\ (\A u \in RateUploads : ~RateAt(u, "back"))
        => count["bytes"] = let["bytes"] + stuck

\* An upload that begins when the day's uploads have been recorded up to the
\* limit is not stored that day: only uploads in flight overshoot
\* (core/upload_limits.go, RecordUpload).
DailyLimitSeen == "day" \notin forgot => \A u \in barred : ~RateAt(u, "record")

\* ratelimit.go: "cleanup removes entries older than 2 windows": the count of
\* a window is kept as long as the window goes on, and its limit holds.
WindowKept == \A k \in ByMinute : let[k] <= LimitOf(k)
==============================================================================
