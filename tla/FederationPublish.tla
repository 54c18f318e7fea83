--------------------------- MODULE FederationPublish ---------------------------
(***************************************************************************)
(* Publishing blobs to the relays: an upload records a row and queues a    *)
(* job without blocking, and a pool of workers publishes, retries and      *)
(* records the outcome.  The queue is in memory, the rows outlive it.      *)
(* Relays are external: each takes the event or fails.  (Start, which      *)
(* makes the workers, is called by tests and by no command of the          *)
(* repository; without workers the rows stay pending.)                     *)
(***************************************************************************)
EXTENDS Integers, Sequences, SequencesExt

CONSTANTS
    PubJobs,       \* blobs uploaded, each a job: the bound on their number
    PubRelays,
    PubWorkers,    \* the publish workers, none where Start is not called
    NoJob,
    PubQueueSize,  \* BatchSize * 2
    PubRetryAttempts,
    PubFaults      \* what may fail, a subset of PubFaultNames

PubFaultNames == {"relay", "db", "crash"}

PublishAssumption ==
    /\ PubRelays # {} /\ NoJob \notin PubJobs
    /\ PubQueueSize \in Nat /\ PubRetryAttempts \in Nat
    /\ PubFaults \subseteq PubFaultNames

VARIABLES
    event,        \* federation_events: the status of each job's row, "none" without one
    pubRecorded,  \* jobs for which PublishBlob made a row of its own: it stays pending
    accepted,     \* the relays that have the event of each job
    pubQueue,     \* s.publishQueue
    pubRetries,   \* of each job
    pubAsked,     \* history: how often each job was published, in success or not; it
                  \* counts up to PubRetryAttempts + 2, one more than there should be
    pubUpc,       \* each upload: the step it makes next
    \* each worker: the step it makes next, its job, the relays it has still to
    \* ask, and whether one of this round took the event
    wpc, wjob, pubLeft, taken,
    stopping      \* s.stopCh is closed

rows == <<event, pubRecorded>>
worker == <<wjob, pubLeft, taken>>
pubVars == <<event, pubRecorded, accepted, pubQueue, pubRetries, pubAsked, pubUpc, wpc,
          wjob, pubLeft, taken, stopping>>

PubInit ==
    /\ event = [j \in PubJobs |-> "none"] /\ pubRecorded = {}
    /\ accepted = [j \in PubJobs |-> {}]
    /\ pubQueue = << >> /\ pubRetries = [j \in PubJobs |-> 0] /\ pubAsked = [j \in PubJobs |-> 0]
    /\ pubUpc = [j \in PubJobs |-> "create"]
    /\ wpc = [w \in PubWorkers |-> "idle"] /\ wjob = [w \in PubWorkers |-> NoJob]
    /\ pubLeft = [w \in PubWorkers |-> {}] /\ taken = [w \in PubWorkers |-> FALSE]
    /\ stopping = FALSE

------------------------------------------------------------------------------
UGoto(j, l) == pubUpc' = [pubUpc EXCEPT ![j] = l]
PubGoto(w, l) == wpc' = [wpc EXCEPT ![w] = l]

\* PublishBlobAsync: the row, then the queue, where there is room.
CreateFederationEvent(j) ==
    /\ pubUpc[j] = "create"
    /\ \/ event' = [event EXCEPT ![j] = "pending"] /\ UGoto(j, "queue")
       \/ "db" \in PubFaults /\ UGoto(j, "done") /\ UNCHANGED event
    /\ UNCHANGED <<pubRecorded, accepted, pubQueue, pubRetries, pubAsked, wpc, worker, stopping>>

MutantOneMore == Len(pubQueue) <= PubQueueSize
PubRoom == Len(pubQueue) < PubQueueSize

PubEnqueue(j) ==
    /\ pubUpc[j] = "queue"
    /\ pubQueue' = IF PubRoom THEN Append(pubQueue, j) ELSE pubQueue
    /\ UGoto(j, "done")
    /\ UNCHANGED <<rows, accepted, pubRetries, pubAsked, wpc, worker, stopping>>

\* publishWorker: select takes a job or the closed channel, whichever it likes.
Received == Tail(pubQueue)

PubTake(w) ==
       /\ wpc[w] = "idle" /\ pubQueue # << >>
       /\ wjob' = [wjob EXCEPT ![w] = Head(pubQueue)]
       /\ pubQueue' = Received
       /\ pubLeft' = [pubLeft EXCEPT ![w] = PubRelays] /\ taken' = [taken EXCEPT ![w] = FALSE]
       /\ pubAsked' = [pubAsked EXCEPT ![Head(pubQueue)] =
                           IF @ > PubRetryAttempts + 1 THEN @ ELSE @ + 1]
       /\ PubGoto(w, "publish")
       /\ UNCHANGED <<rows, accepted, pubRetries, pubUpc, stopping>>

Exit(w) ==
    /\ wpc[w] = "idle" /\ stopping
    /\ PubGoto(w, "gone")
    /\ UNCHANGED <<rows, accepted, pubQueue, pubRetries, pubAsked, pubUpc, worker, stopping>>

\* PublishBlob asks every relay.  A relay that has the event may still answer
\* with an error (an answer is lost).
AskRelay(w) ==
    /\ wpc[w] = "publish"
    /\ \E r \in pubLeft[w] :
         /\ pubLeft' = [pubLeft EXCEPT ![w] = @ \ {r}]
         /\ \/ /\ taken' = [taken EXCEPT ![w] = TRUE]
               /\ accepted' = [accepted EXCEPT ![wjob[w]] = @ \cup {r}]
            \/ /\ "relay" \in PubFaults
               /\ accepted' \in {accepted, [accepted EXCEPT ![wjob[w]] = @ \cup {r}]}
               /\ UNCHANGED taken
    /\ UNCHANGED <<rows, pubQueue, pubRetries, pubAsked, pubUpc, wpc, wjob, stopping>>

\* An error when no relay took it.
MutantAlways(w) == TRUE
Published(w) == taken[w]

EndRound(w) ==
    /\ wpc[w] = "publish" /\ pubLeft[w] = {}
    /\ PubGoto(w, IF Published(w) THEN "record" ELSE "fail")
    /\ UNCHANGED <<rows, accepted, pubQueue, pubRetries, pubAsked, pubUpc, worker, stopping>>

\* A row of PublishBlob's own, beside that of the job; an error is logged.
PubRecord(w) ==
    /\ wpc[w] = "record"
    /\ pubRecorded' \in {pubRecorded \cup {wjob[w]}}
                           \cup (IF "db" \in PubFaults THEN {pubRecorded} ELSE {})
    /\ PubGoto(w, "succeed")
    /\ UNCHANGED <<event, accepted, pubQueue, pubRetries, pubAsked, pubUpc, worker, stopping>>

\* UpdateFederationEventStatus, whose errors are dropped.
Update(w, s) ==
    event' \in {[event EXCEPT ![wjob[w]] = s]} \cup (IF "db" \in PubFaults THEN {event} ELSE {})

Succeed(w) ==
    /\ wpc[w] = "succeed"
    /\ Update(w, "published")
    /\ PubGoto(w, "idle")
    /\ wjob' = [wjob EXCEPT ![w] = NoJob]
    /\ UNCHANGED <<pubRecorded, accepted, pubQueue, pubRetries, pubAsked, pubUpc, pubLeft, taken,
                   stopping>>

PubMayRetry(j) == pubRetries[j] < PubRetryAttempts
MutantForgets(n) == n
PubCounted(n) == n + 1

PubFail(w) ==
       /\ wpc[w] = "fail"
       /\ Update(w, "failed")
       /\ IF PubMayRetry(wjob[w])
          THEN /\ pubRetries' = [pubRetries EXCEPT ![wjob[w]] = PubCounted(@)]
               /\ PubGoto(w, "sleep") /\ UNCHANGED wjob
          ELSE /\ wjob' = [wjob EXCEPT ![w] = NoJob]
               /\ PubGoto(w, "idle") /\ UNCHANGED pubRetries
       /\ UNCHANGED <<pubRecorded, accepted, pubQueue, pubAsked, pubUpc, pubLeft, taken, stopping>>

\* After RetryDelay the job goes to the end of the queue, if there is room.
PubRequeue(w) ==
    /\ wpc[w] = "sleep"
    /\ pubQueue' = IF PubRoom THEN Append(pubQueue, wjob[w]) ELSE pubQueue
    /\ wjob' = [wjob EXCEPT ![w] = NoJob]
    /\ PubGoto(w, "idle")
    /\ UNCHANGED <<rows, accepted, pubRetries, pubAsked, pubUpc, pubLeft, taken, stopping>>

------------------------------------------------------------------------------
\* Stop closes the channel and waits for the workers.
Stop ==
    /\ ~stopping /\ PubWorkers # {}
    /\ stopping' = TRUE
    /\ UNCHANGED <<rows, accepted, pubQueue, pubRetries, pubAsked, pubUpc, wpc, worker>>

\* The process dies and starts again, with an empty queue.
PubRestart ==
    /\ "crash" \in PubFaults
    /\ pubQueue # << >> \/ \E w \in PubWorkers : wpc[w] # "idle"
    /\ pubQueue' = << >>
    /\ wpc' = [w \in PubWorkers |-> "idle"] /\ wjob' = [w \in PubWorkers |-> NoJob]
    /\ pubUpc' = [j \in PubJobs |-> IF pubUpc[j] = "create" THEN "create" ELSE "done"]
    /\ stopping' = FALSE
    /\ UNCHANGED <<rows, accepted, pubRetries, pubAsked, pubLeft, taken>>

PubUpload(j) == CreateFederationEvent(j) \/ PubEnqueue(j)
PubWork(w) ==
       \/ PubTake(w) \/ Exit(w) \/ AskRelay(w) \/ EndRound(w) \/ PubRecord(w) \/ Succeed(w)
       \/ PubFail(w) \/ PubRequeue(w)

PubNext ==
    \/ \E j \in PubJobs : PubUpload(j)
    \/ \E w \in PubWorkers : PubWork(w)
    \/ Stop \/ PubRestart

PubSpec == PubInit /\ [][PubNext]_pubVars

\* The workers run; nobody need ever upload, stop or crash.
PubFairness == \A w \in PubWorkers : WF_pubVars(PubWork(w))

PubFairSpec == PubSpec /\ PubFairness

------------------------------------------------------------------------------
PubInHand(j) == \E w \in PubWorkers : wjob[w] = j
Waiting(j) == pubUpc[j] = "queue" \/ j \in ToSet(pubQueue) \/ PubInHand(j)

\* The state's types; a job is in one place at a time.
PubTypeOK ==
    /\ event \in [PubJobs -> {"none", "pending", "published", "failed"}]
    /\ pubRecorded \subseteq PubJobs /\ accepted \in [PubJobs -> SUBSET PubRelays]
    /\ Len(pubQueue) <= PubQueueSize /\ IsInjective(pubQueue)
    /\ \A w \in PubWorkers : wjob[w] \notin ToSet(pubQueue)
    /\ pubRetries \in [PubJobs -> 0..PubRetryAttempts]
    /\ pubLeft \in [PubWorkers -> SUBSET PubRelays] /\ taken \in [PubWorkers -> BOOLEAN]

\* A row says published only of a blob whose event a relay has, however often
\* it failed before and whoever published it (publishWorker).
PublishedAccepted == \A j \in PubJobs : event[j] = "published" => accepted[j] # {}

\* A row that says published is final: no other worker, holding the same job
\* for a retry, later makes it failed.
PublishedFinal == [][\A j \in PubJobs : event[j] = "published" => event'[j] = "published"]_pubVars

\* A job is published once and retried at most PubRetryAttempts times, though it
\* passes through the queue and other workers in between.
AttemptsBounded == \A j \in PubJobs : pubAsked[j] <= PubRetryAttempts + 1

\* Every job comes to an end, done or given up, unless the service is stopped:
\* a worker that retries never waits for room in the queue, which only other
\* workers make.
PublishEnds ==
    \A j \in PubJobs :
        (j \in ToSet(pubQueue) \/ PubInHand(j))
            ~> (stopping \/ (j \notin ToSet(pubQueue) /\ ~PubInHand(j)))

\* Stop returns: every worker leaves, or the process restarts.
StopReturns == stopping ~> (~stopping \/ \A w \in PubWorkers : wpc[w] = "gone")

\* federation_service.go, GetPendingPublishes: "returns blobs waiting to be
\* published": a pending row is one of a job that waits.
PendingIsWaiting ==
    \A j \in PubJobs : (event[j] = "pending" \/ j \in pubRecorded) => Waiting(j) \/ accepted[j] = {}
==============================================================================
