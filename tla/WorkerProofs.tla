---------------------------- MODULE WorkerProofs -----------------------------
(***************************************************************************)
(* Proofs about what runs in the background: the workers that copy,        *)
(* publish, mirror and pin blobs (replication, publication and discovery   *)
(* in the federation, the pins of an IPFS service), and the goroutines     *)
(* that tell websocket clients of changes.  For any number of jobs,        *)
(* workers, relays, blobs and clients, and any limit of a queue or of      *)
(* retries.                                                                *)
(***************************************************************************)
EXTENDS WorkQueues, FederationDiscovery, IPFSPins, Notifications, TLAPS

------------------------------------------------------------------------------
\* REPLICATION.  A job is at one place at a time: in the queue, with a worker, or
\* nowhere.

Waits(j) == \E n \in 1..Len(repQueue) : repQueue[n] = j
Executes(a) == repPc[a] \in {"copy", "complete", "fail"}

\* What the argument needs of the types; a caller works on its own job.
RepShapes ==
    /\ repStatus \in [RepJobs -> RepStatuses] /\ repQueue \in Seq(RepJobs)
    /\ repPc \in [Actors -> {"idle", "done", "queue", "check", "start", "copy", "complete",
                             "fail", "retry", "sleep"}]
    /\ mine \in [Actors -> RepJobs \cup {RepNobody}]
    /\ repRetries \in [RepJobs -> 0..RepRetryAttempts]
    /\ copies \subseteq Regions
    /\ Len(repQueue) <= RepQueueSize
    /\ \A j \in RepJobs : mine[j] = j /\ repPc[j] \notin {"check", "retry", "sleep"}
    /\ \A w \in RepWorkers : repPc[w] \notin {"queue", "done"} /\ (Busy(w) => mine[w] \in RepJobs)

\* A job is at one place at most: with its caller until it is queued or done, at
\* one position of the queue, or in the hands of one worker.
AtOnePlace ==
    /\ \A m, n \in 1..Len(repQueue) : repQueue[m] = repQueue[n] => m = n
    /\ \A j \in RepJobs : Waits(j) => repPc[j] = "done"
    /\ \A w \in RepWorkers : Busy(w) => repPc[mine[w]] = "done" /\ ~Waits(mine[w])
    /\ \A v, w \in RepWorkers : Busy(v) /\ Busy(w) /\ mine[v] = mine[w] => v = w

\* Whoever is to write complete has put the copy.
PutBefore == \A a \in Actors : repPc[a] = "complete" => Target[mine[a]] \in copies

\* A job in progress is between StartJob and the end of executeJob.
Executed == \A j \in RepJobs : repStatus[j] = "in_progress" => \E a \in Actors : Executes(a) /\ mine[a] = j

RepInv == RepShapes /\ AtOnePlace /\ PutBefore /\ Executed /\ CompleteIsCopied

\* No job waits at first.
LEMMA ReplicationInit == ASSUME ReplicationAssumption, RepInit PROVE RepInv
BY DEF ReplicationAssumption, RepInit, RepInv, RepShapes, AtOnePlace, PutBefore, Executed,
       CompleteIsCopied, Waits, Executes, Busy, Actors, RepStatuses

\* A job appended that did not wait is still at one position only.
LEMMA Appended ==
    ASSUME NEW S, NEW q \in Seq(S), NEW x \in S,
           \A m, n \in 1..Len(q) : q[m] = q[n] => m = n,
           \A n \in 1..Len(q) : q[n] # x
    PROVE  /\ Append(q, x) \in Seq(S)
           /\ \A m, n \in 1..Len(Append(q, x)) : Append(q, x)[m] = Append(q, x)[n] => m = n
           /\ \A y : (\E n \in 1..Len(Append(q, x)) : Append(q, x)[n] = y)
                       <=> y = x \/ \E n \in 1..Len(q) : q[n] = y
<1>1. Append(q, x) \in Seq(S) /\ Len(Append(q, x)) = Len(q) + 1
      /\ Append(q, x)[Len(q) + 1] = x /\ \A n \in 1..Len(q) : Append(q, x)[n] = q[n]
  OBVIOUS
<1>2. Len(q) \in Nat
  OBVIOUS
<1> QED BY <1>1, <1>2

\* The first job taken away leaves the others at one position, and none of them
\* is the one taken.
LEMMA Taken ==
    ASSUME NEW S, NEW q \in Seq(S), q # << >>,
           \A m, n \in 1..Len(q) : q[m] = q[n] => m = n
    PROVE  /\ Tail(q) \in Seq(S) /\ Head(q) \in S
           /\ \A m, n \in 1..Len(Tail(q)) : Tail(q)[m] = Tail(q)[n] => m = n
           /\ \A n \in 1..Len(Tail(q)) : Tail(q)[n] # Head(q)
           /\ \A n \in 1..Len(Tail(q)) : n + 1 \in 1..Len(q) /\ Tail(q)[n] = q[n + 1]
           /\ 1 \in 1..Len(q) /\ Head(q) = q[1]
<1>1. Len(q) \in Nat \ {0} /\ Tail(q) \in Seq(S) /\ Head(q) = q[1] /\ q[1] \in S
  OBVIOUS
<1>2. Len(Tail(q)) = Len(q) - 1 /\ \A n \in 1..Len(Tail(q)) : Tail(q)[n] = q[n + 1]
  BY <1>1
<1>3. \A n \in 1..Len(Tail(q)) : n + 1 \in 1..Len(q) /\ n + 1 # 1 /\ n \in Int
  BY <1>1, <1>2
<1>4. \A m, n \in 1..Len(Tail(q)) : Tail(q)[m] = Tail(q)[n] => m = n
  <2> TAKE m, n \in 1..Len(Tail(q))
  <2> HAVE Tail(q)[m] = Tail(q)[n]
  <2>1. q[m + 1] = q[n + 1]
    BY <1>2
  <2>2. m + 1 = n + 1
    BY <2>1, <1>3
  <2> QED BY <2>2, <1>3
<1>5. 1 \in 1..Len(q)
  BY <1>1
<1>6. \A n \in 1..Len(Tail(q)) : Tail(q)[n] # Head(q)
  BY <1>1, <1>2, <1>3, <1>5
<1> QED BY <1>1, <1>2, <1>3, <1>4, <1>5, <1>6

\* A step of one actor that keeps the queue and who has which job, and leaves the
\* actor as busy as it was or rids it of its job.
LEMMA PlacesKept ==
    ASSUME ReplicationAssumption, RepShapes, AtOnePlace, NEW a \in Actors, NEW l, RepGoto(a, l),
           UNCHANGED <<repQueue, mine>>,
           Busy(a),
           IF a \in RepWorkers THEN l \in {"idle", "start", "copy", "complete", "fail", "retry", "sleep"}
           ELSE l \in {"done", "start", "copy", "complete", "fail"},
           repStatus' \in [RepJobs -> RepStatuses], repRetries' = repRetries, copies' \subseteq Regions
    PROVE  RepShapes' /\ AtOnePlace'
BY DEF ReplicationAssumption, RepShapes, AtOnePlace, RepGoto, Waits, Busy, Actors

\* Each step of a worker, a cancellation, a retry and a deletion keeps the invariant.
LEMMA ReplicationStep == ASSUME ReplicationAssumption, RepInv, [RepNext]_repVars PROVE RepInv'
<1> USE DEF RepInv, RepAt
<1>1. CASE UNCHANGED repVars
  BY <1>1 DEF repVars, RepShapes, AtOnePlace, PutBefore, Executed, CompleteIsCopied, Waits, Executes,
              Busy
\* A step that starts nothing, completes nothing and leaves what was put.
<1>2. ASSUME NEW a \in Actors, NEW l, RepGoto(a, l), l \notin {"copy", "complete", "fail"},
             ~Executes(a),
             UNCHANGED <<copies, mine>>,
             \A j \in RepJobs : repStatus'[j] = repStatus[j] \/ repStatus'[j] \notin {"complete", "in_progress"}
      PROVE  PutBefore' /\ Executed' /\ CompleteIsCopied'
  BY <1>2 DEF RepShapes, PutBefore, Executed, CompleteIsCopied, RepGoto, Executes
<1>3. ASSUME NEW j \in RepJobs, Replicate(j) PROVE RepInv'
  <2>1. RepShapes' /\ AtOnePlace'
    BY <1>3 DEF ReplicationAssumption, Replicate, RepRest, RepShapes, AtOnePlace, RepGoto, Waits, Busy,
                Actors, RepStatuses
  <2> QED BY <1>2, <1>3, <2>1 DEF Replicate, RepRest, RepShapes, Executes, Actors
<1>4. ASSUME NEW j \in RepJobs, RepEnqueue(j) PROVE RepInv'
  <2>1. ~Waits(j) /\ j \in Actors /\ ~Executes(j) /\ \A w \in RepWorkers : Busy(w) => mine[w] # j
    BY <1>4 DEF RepEnqueue, AtOnePlace, Executes, Actors
  <2>2. CASE RepRoom /\ repQueue' = Append(repQueue, j) /\ RepGoto(j, "done")
    <3>1. /\ repQueue' \in Seq(RepJobs) /\ Len(repQueue') <= RepQueueSize
          /\ \A m, n \in 1..Len(repQueue') : repQueue'[m] = repQueue'[n] => m = n
          /\ \A y : Waits(y)' <=> y = j \/ Waits(y)
      <4>1. \A n \in 1..Len(repQueue) : repQueue[n] # j
        BY <2>1 DEF Waits
      <4>2. Len(repQueue') <= RepQueueSize
        BY <2>2 DEF RepShapes, RepRoom, ReplicationAssumption
      <4>3. /\ repQueue \in Seq(RepJobs)
            /\ \A m, n \in 1..Len(repQueue) : repQueue[m] = repQueue[n] => m = n
        BY DEF RepShapes, AtOnePlace
      <4>4. /\ Append(repQueue, j) \in Seq(RepJobs)
            /\ \A m, n \in 1..Len(Append(repQueue, j)) :
                 Append(repQueue, j)[m] = Append(repQueue, j)[n] => m = n
            /\ \A y : (\E n \in 1..Len(Append(repQueue, j)) : Append(repQueue, j)[n] = y)
                        <=> y = j \/ \E n \in 1..Len(repQueue) : repQueue[n] = y
        <5> HIDE DEF RepInv
        <5> QED BY <4>1, <4>3, Appended
      <4>5. repQueue' = Append(repQueue, j)
        BY <2>2
      <4> HIDE DEF RepInv
      <4>6. \A y : Waits(y)' <=> y = j \/ Waits(y)
        BY <4>4, <4>5 DEF Waits
      <4> QED BY <4>2, <4>4, <4>5, <4>6
    <3>2. RepShapes' /\ AtOnePlace'
      BY <1>4, <2>1, <2>2, <3>1 DEF ReplicationAssumption, RepEnqueue, RepRest, RepShapes, AtOnePlace,
                                    RepGoto, Busy, Actors
    <3> QED BY <1>2, <1>4, <2>1, <2>2, <3>2 DEF RepEnqueue, RepRest
  <2>3. CASE ~RepRoom /\ RepGoto(j, IF SyncMode THEN "start" ELSE "done") /\ UNCHANGED repQueue
    <3>1. RepShapes' /\ AtOnePlace'
      BY <1>4, <2>1, <2>3, PlacesKept DEF RepEnqueue, RepRest, Busy, ReplicationAssumption, RepShapes
    <3> QED BY <1>2, <1>4, <2>1, <2>3, <3>1 DEF RepEnqueue, RepRest
  <2> QED BY <1>4, <2>2, <2>3 DEF RepEnqueue
\* The job a worker takes is in nobody else's hands: it waited.
<1>5. ASSUME NEW w \in RepWorkers, RepTake(w) PROVE RepInv'
  <2>1. /\ Tail(repQueue) \in Seq(RepJobs)
        /\ Head(repQueue) \in RepJobs
        /\ Len(Tail(repQueue)) <= RepQueueSize
        /\ \A m, n \in 1..Len(Tail(repQueue)) : Tail(repQueue)[m] = Tail(repQueue)[n] => m = n
        /\ \A y : Waits(y)' => Waits(y) /\ y # Head(repQueue)
        /\ Waits(Head(repQueue))
    <3>1. /\ repQueue \in Seq(RepJobs)
          /\ Len(repQueue) \in Nat
          /\ Len(repQueue) <= RepQueueSize
          /\ repQueue # << >>
          /\ \A m, n \in 1..Len(repQueue) : repQueue[m] = repQueue[n] => m = n
      BY <1>5 DEF RepTake, RepShapes, AtOnePlace
    <3>2. repQueue' = Tail(repQueue)
      BY <1>5 DEF RepTake
    <3> HIDE DEF RepInv
    <3>3. /\ Tail(repQueue) \in Seq(RepJobs) /\ Head(repQueue) \in RepJobs
          /\ \A m, n \in 1..Len(Tail(repQueue)) : Tail(repQueue)[m] = Tail(repQueue)[n] => m = n
          /\ \A n \in 1..Len(Tail(repQueue)) : Tail(repQueue)[n] # Head(repQueue)
          /\ \A n \in 1..Len(Tail(repQueue)) : n + 1 \in 1..Len(repQueue) /\ Tail(repQueue)[n] = repQueue[n + 1]
          /\ 1 \in 1..Len(repQueue) /\ Head(repQueue) = repQueue[1]
      BY <3>1, Taken
    <3>4. Len(Tail(repQueue)) <= RepQueueSize
      BY <3>1 DEF ReplicationAssumption
    <3>5. Waits(Head(repQueue))
      BY <3>3 DEF Waits
    <3>6. \A y : Waits(y)' => Waits(y) /\ y # Head(repQueue)
      BY <3>2, <3>3 DEF Waits
    <3> QED BY <3>3, <3>4, <3>5, <3>6
  <2>2. repPc[Head(repQueue)] = "done" /\ \A v \in RepWorkers : Busy(v) => mine[v] # Head(repQueue)
    BY <2>1 DEF AtOnePlace
  <2>3. w \notin RepJobs /\ w \in Actors
    BY DEF ReplicationAssumption, Actors
  <2>4. RepShapes'
    BY <1>5, <2>1, <2>3 DEF RepTake, RepRest, RepShapes, RepGoto, Busy, Actors
  <2>5. AtOnePlace'
    BY <1>5, <2>1, <2>2, <2>3 DEF RepTake, RepRest, RepShapes, AtOnePlace, RepGoto, Busy, Actors
  <2>6. PutBefore' /\ Executed' /\ CompleteIsCopied'
    BY <1>5, <2>3 DEF RepTake, RepRest, RepShapes, PutBefore, Executed, CompleteIsCopied, RepGoto,
                      Executes
  <2> QED BY <2>4, <2>5, <2>6
<1>6. ASSUME NEW w \in RepWorkers, CheckPending(w) PROVE RepInv'
  <2>1. w \in Actors /\ Busy(w) /\ ~Executes(w)
    BY <1>6 DEF CheckPending, Actors, Busy, Executes
  <2>2. RepShapes' /\ AtOnePlace'
    BY <1>6, <2>1, PlacesKept DEF CheckPending, RepRest, RepShapes
  <2> QED BY <1>2, <1>6, <2>1, <2>2 DEF CheckPending, RepRest
<1>7. ASSUME NEW a \in Actors, Execute(a) PROVE RepInv'
  <2>1. Busy(a) /\ mine[a] \in RepJobs
    BY <1>7 DEF Execute, StartJob, RepCopy, RepComplete, RepFail, Busy, RepShapes, Actors
  <2>2. CASE StartJob(a)
    <3>1. RepShapes' /\ AtOnePlace'
      BY <2>1, <2>2, PlacesKept DEF StartJob, RepSetStatus, RepRest, RepShapes, RepStatuses
    <3> QED BY <2>1, <2>2, <3>1
            DEF StartJob, RepSetStatus, RepRest, RepShapes, PutBefore, Executed, CompleteIsCopied,
                RepGoto, Executes
  <2>3. CASE RepCopy(a)
    <3>1. /\ repPc[a] = "copy" /\ UNCHANGED <<repStatus, repRetries, repQueue, mine>>
          /\ copies \subseteq copies' /\ copies' \subseteq Regions
          /\ \/ RepGoto(a, "complete") /\ Target[mine[a]] \in copies'
             \/ RepGoto(a, "fail")
      BY <2>1, <2>3 DEF RepCopy, RepPut, RepRest, ReplicationAssumption, RepShapes
    <3>2. RepShapes' /\ AtOnePlace'
      BY <2>1, <3>1, PlacesKept DEF RepShapes
    <3>3. PutBefore' /\ CompleteIsCopied'
      BY <3>1 DEF RepShapes, PutBefore, CompleteIsCopied, RepGoto
    <3>4. \A b \in Actors : Executes(b) => Executes(b)'
      BY <3>1 DEF RepShapes, RepGoto, Executes
    <3>5. Executed'
      BY <3>1, <3>4 DEF Executed
    <3> QED BY <3>2, <3>3, <3>5
  <2>4. CASE RepComplete(a)
    <3>1. RepShapes' /\ AtOnePlace'
      BY <2>1, <2>4, PlacesKept DEF RepComplete, RepSetStatus, RepRest, RepShapes, RepStatuses
    <3> QED BY <2>1, <2>4, <3>1
            DEF RepComplete, RepSetStatus, RepRest, RepShapes, PutBefore, Executed,
                CompleteIsCopied, RepGoto, Executes
  <2>5. CASE RepFail(a)
    <3>1. RepShapes' /\ AtOnePlace'
      BY <2>1, <2>5, PlacesKept DEF RepFail, RepSetStatus, RepRest, RepShapes, RepStatuses
    <3> QED BY <2>1, <2>5, <3>1
            DEF RepFail, RepSetStatus, RepRest, RepShapes, PutBefore, Executed, CompleteIsCopied,
                RepGoto, Executes
  <2> QED BY <1>7, <2>2, <2>3, <2>4, <2>5 DEF Execute
<1>8. ASSUME NEW w \in RepWorkers, Retry(w) PROVE RepInv'
  <2>1. w \in Actors /\ Busy(w) /\ ~Executes(w) /\ mine[w] \in RepJobs
    BY <1>8 DEF Retry, Actors, Busy, Executes, RepShapes
  <2>2. repRetries' \in [RepJobs -> 0..RepRetryAttempts]
    <3>1. CASE RepMayRetry(w)
      <4>1. repRetries[mine[w]] + 1 \in 0..RepRetryAttempts
        BY <2>1, <3>1 DEF RepMayRetry, RepShapes, ReplicationAssumption
      <4> QED BY <1>8, <2>1, <3>1, <4>1 DEF Retry, RepShapes
    <3> QED BY <1>8, <3>1 DEF Retry, RepShapes
  <2>4. repStatus' \in [RepJobs -> RepStatuses]
    BY <1>8, <2>1 DEF Retry, RepSetStatus, RepShapes, RepStatuses
  <2>5. UNCHANGED <<repQueue, copies, mine>> /\ \E l \in {"sleep", "idle"} : RepGoto(w, l)
    BY <1>8 DEF Retry, RepRest
  <2>3. RepShapes' /\ AtOnePlace'
    BY <2>1, <2>2, <2>4, <2>5 DEF ReplicationAssumption, RepShapes, AtOnePlace, RepGoto, Waits, Busy,
                                  Actors
  <2> QED BY <1>2, <1>8, <2>1, <2>3 DEF Retry, RepSetStatus, RepRest, RepShapes
\* The job a worker queues again does not wait: the worker had it.
<1>9. ASSUME NEW w \in RepWorkers, RepRequeue(w) PROVE RepInv'
  <2>1. /\ w \in Actors /\ w \notin RepJobs /\ Busy(w) /\ ~Executes(w) /\ mine[w] \in RepJobs
        /\ repPc[mine[w]] = "done" /\ ~Waits(mine[w])
        /\ \A v \in RepWorkers : Busy(v) /\ v # w => mine[v] # mine[w]
    BY <1>9 DEF RepRequeue, Actors, Busy, Executes, RepShapes, AtOnePlace, ReplicationAssumption
  <2>2. /\ repQueue' \in Seq(RepJobs) /\ Len(repQueue') <= RepQueueSize
        /\ \A m, n \in 1..Len(repQueue') : repQueue'[m] = repQueue'[n] => m = n
        /\ \A y : Waits(y)' => y = mine[w] \/ Waits(y)
    <3>1. \A n \in 1..Len(repQueue) : repQueue[n] # mine[w]
      BY <2>1 DEF Waits
    <3>2. CASE RepRoom
      BY <1>9, <2>1, <3>1, <3>2, Appended
         DEF RepRequeue, RepShapes, AtOnePlace, Waits, RepRoom, ReplicationAssumption
    <3> QED BY <1>9, <3>2 DEF RepRequeue, RepShapes, AtOnePlace, Waits
  <2>3. RepShapes'
    BY <1>9, <2>1, <2>2 DEF RepRequeue, RepRest, RepShapes, RepGoto, Busy
  <2>4. AtOnePlace'
    BY <1>9, <2>1, <2>2 DEF RepRequeue, RepRest, RepShapes, AtOnePlace, RepGoto, Busy, Actors
  <2> QED BY <1>2, <1>9, <2>1, <2>3, <2>4 DEF RepRequeue, RepRest
<1>10. ASSUME NEW j \in RepJobs, CheckCancel(j) \/ Cancel(j) PROVE RepInv'
  <2>1. UNCHANGED <<repQueue, repPc, mine, repRetries, copies>>
    BY <1>10 DEF CheckCancel, Cancel
  <2>2. repStatus' \in [RepJobs -> RepStatuses]
    BY <1>10 DEF CheckCancel, Cancel, RepShapes, RepStatuses
  <2>3. RepShapes'
    BY <2>1, <2>2 DEF RepShapes, Busy
  <2>4. AtOnePlace'
    BY <2>1 DEF AtOnePlace, Waits, Busy
  <2> QED BY <1>10, <2>3, <2>4 DEF CheckCancel, Cancel, RepShapes, PutBefore, Executed,
                                   CompleteIsCopied, Executes
<1>11. CASE DeleteSource
  BY <1>11 DEF DeleteSource, RepShapes, AtOnePlace, PutBefore, Executed, CompleteIsCopied, Waits,
               Executes, Busy
<1> QED BY <1>1, <1>3, <1>4, <1>5, <1>6, <1>7, <1>8, <1>9, <1>10, <1>11
        DEF RepNext, Finish, RepWork, Actors

\* So it is in every state.
LEMMA ReplicationInvariant == ASSUME ReplicationAssumption PROVE RepSpec => []RepInv
<1>1. RepInit => RepInv
  BY ReplicationInit
<1>2. RepInv /\ [RepNext]_repVars => RepInv'
  BY ReplicationStep
<1> QED BY <1>1, <1>2, PTL DEF RepSpec

\* A job that says complete has its copy in the region (executeJob), whatever is
\* cancelled, retried or deleted meanwhile and however many workers there are.
THEOREM CompleteJobsCopied == ASSUME ReplicationAssumption PROVE RepSpec => []CompleteIsCopied
<1>1. RepInv => CompleteIsCopied
  BY DEF RepInv
<1> QED BY <1>1, ReplicationInvariant, PTL

\* The state's types; the shared queue never holds a job twice, nor one that a
\* worker has in hand, although retries put jobs back (worker, executeJob).
THEOREM ReplicationTypes == ASSUME ReplicationAssumption PROVE RepSpec => []RepTypeOK
<1>1. RepInv => RepTypeOK
  <2> SUFFICES ASSUME RepInv PROVE RepTypeOK
    OBVIOUS
  <2>1. DOMAIN repQueue = 1..Len(repQueue)
    BY DEF RepInv, RepShapes
  <2>2. IsInjective(repQueue)
    BY <2>1 DEF RepInv, AtOnePlace, IsInjective
  <2>3. \A j : RepQueued(j) => Waits(j)
    BY <2>1 DEF RepQueued, ToSet, Waits
  <2> QED BY <2>2, <2>3 DEF RepInv, RepShapes, AtOnePlace, RepTypeOK
<1> QED BY <1>1, ReplicationInvariant, PTL

\* No job is left in progress: whoever began it still executes it
\* (core.ReplicationStatusInProgress), since a cancellation, a retry or a second
\* look at the status never ends an execution without writing its outcome.
THEOREM InProgressJobsExecuted == ASSUME ReplicationAssumption PROVE RepSpec => []InProgressIsExecuted
<1>1. RepInv => InProgressIsExecuted
  BY DEF RepInv, Executed, Executes, InProgressIsExecuted, RepInHand, Busy
<1> QED BY <1>1, ReplicationInvariant, PTL

------------------------------------------------------------------------------
\* PUBLICATION.  Here too a job is at one place at a time, in a queue of this replica.

PubWaits(j) == \E n \in 1..Len(pubQueue) : pubQueue[n] = j
Has(w) == wpc[w] \in {"publish", "record", "succeed", "fail", "sleep"}

\* What the argument needs of the types; a worker has a job while it works.
PubShapes ==
    /\ event \in [PubJobs -> {"none", "pending", "published", "failed"}]
    /\ pubRecorded \subseteq PubJobs /\ accepted \in [PubJobs -> SUBSET PubRelays]
    /\ pubQueue \in Seq(PubJobs) /\ Len(pubQueue) <= PubQueueSize
    /\ pubRetries \in [PubJobs -> 0..PubRetryAttempts] /\ pubAsked \in [PubJobs -> Nat]
    /\ pubUpc \in [PubJobs -> {"create", "queue", "done"}]
    /\ wpc \in [PubWorkers -> {"idle", "publish", "record", "succeed", "fail", "sleep", "gone"}]
    /\ wjob \in [PubWorkers -> PubJobs \cup {NoJob}]
    /\ pubLeft \in [PubWorkers -> SUBSET PubRelays] /\ taken \in [PubWorkers -> BOOLEAN]
    /\ \A w \in PubWorkers : Has(w) <=> wjob[w] # NoJob

\* A job is at one place at most: with its upload until it is queued or dropped, at
\* one position of the queue, or in the hands of one worker.
PubOnePlace ==
    /\ \A m, n \in 1..Len(pubQueue) : pubQueue[m] = pubQueue[n] => m = n
    /\ \A j \in PubJobs : PubWaits(j) => pubUpc[j] = "done"
    /\ \A w \in PubWorkers : Has(w) => pubUpc[wjob[w]] = "done" /\ ~PubWaits(wjob[w])
    /\ \A v, w \in PubWorkers : Has(v) /\ Has(w) /\ wjob[v] = wjob[w] => v = w

\* Whoever is to write published has a relay that took the event.
TakenBefore ==
    \A w \in PubWorkers :
        (wpc[w] = "publish" /\ taken[w]) \/ wpc[w] \in {"record", "succeed"} => accepted[wjob[w]] # {}

\* Nobody has to do with a job that says published.
PublishedOver ==
    \A j \in PubJobs : event[j] = "published" =>
        pubUpc[j] = "done" /\ ~PubWaits(j) /\ \A w \in PubWorkers : wjob[w] # j

\* A job has been published once for each of its retries, and once more unless it
\* is still to be taken.
AskedPerRetry ==
    \A j \in PubJobs :
        /\ pubAsked[j] <= pubRetries[j] + 1
        /\ \/ pubUpc[j] # "done" \/ PubWaits(j)
           \/ \E w \in PubWorkers : wjob[w] = j /\ wpc[w] = "sleep"
           => pubAsked[j] <= pubRetries[j]

PubInv ==
  /\ PubShapes
  /\ PubOnePlace
  /\ TakenBefore
  /\ PublishedAccepted
  /\ PublishedOver
  /\ AskedPerRetry

PubStates == PublishAssumption /\ PubInv

\* No job at first.
LEMMA PublishInit == ASSUME PublishAssumption, PubInit PROVE PubInv
BY DEF PublishAssumption, PubInit, PubInv, PubShapes, PubOnePlace, TakenBefore, PublishedAccepted,
       PublishedOver,
       AskedPerRetry, PubWaits, Has

\* A worker that goes on with its job, or lays it down, moves no other job.
LEMMA WorkerKeepsPlaces ==
    ASSUME PubStates, NEW w \in PubWorkers, Has(w), NEW l, PubGoto(w, l),
           UNCHANGED <<pubQueue, pubUpc>>,
           \/ l \in {"publish", "record", "succeed", "fail", "sleep"} /\ wjob' = wjob
           \/ l = "idle" /\ wjob' = [wjob EXCEPT ![w] = NoJob]
    PROVE  /\ PubOnePlace'
           /\ wpc' \in [PubWorkers -> {"idle", "publish", "record", "succeed", "fail", "sleep", "gone"}]
           /\ wjob' \in [PubWorkers -> PubJobs \cup {NoJob}]
           /\ \A v \in PubWorkers : Has(v)' <=> wjob'[v] # NoJob
           /\ \A v \in PubWorkers \ {w} : wpc'[v] = wpc[v] /\ wjob'[v] = wjob[v]
           /\ wpc'[w] = l /\ wjob'[w] \in {wjob[w], NoJob}
<1> USE DEF PubStates, PubInv
<1>1. /\ \A v \in PubWorkers \ {w} : wpc'[v] = wpc[v] /\ wjob'[v] = wjob[v]
      /\ wpc'[w] = l /\ (wjob'[w] = wjob[w] \/ (l = "idle" /\ wjob'[w] = NoJob))
      /\ wpc' \in [PubWorkers -> {"idle", "publish", "record", "succeed", "fail", "sleep", "gone"}]
      /\ wjob' \in [PubWorkers -> PubJobs \cup {NoJob}]
  BY DEF PubGoto, PubShapes
<1>2. \A v \in PubWorkers : Has(v)' <=> wjob'[v] # NoJob
  BY <1>1 DEF PubShapes, Has
<1>3. \A v \in PubWorkers : Has(v)' => Has(v) /\ wjob'[v] = wjob[v]
  BY <1>1 DEF PubShapes, Has
<1>4. PubOnePlace'
  BY <1>3 DEF PubOnePlace, PubWaits
<1> QED BY <1>1, <1>2, <1>4

\* The count of retries can be compared.
LEMMA RetriesAreNumbers == ASSUME PubStates PROVE \A j \in PubJobs : pubRetries[j] >= pubRetries[j]
BY DEF PubStates, PubInv, PubShapes, PublishAssumption

\* A job that is neither queued nor published goes to the end of the queue, or is
\* dropped.
LEMMA QueuedAgain ==
    ASSUME PubStates, NEW j \in PubJobs, ~PubWaits(j),
           pubQueue' = IF PubRoom THEN Append(pubQueue, j) ELSE pubQueue
    PROVE  /\ pubQueue' \in Seq(PubJobs) /\ Len(pubQueue') <= PubQueueSize
           /\ \A m, n \in 1..Len(pubQueue') : pubQueue'[m] = pubQueue'[n] => m = n
           /\ \A y : PubWaits(y)' => y = j \/ PubWaits(y)
<1>1. /\ pubQueue \in Seq(PubJobs) /\ Len(pubQueue) <= PubQueueSize /\ PubQueueSize \in Nat
      /\ \A m, n \in 1..Len(pubQueue) : pubQueue[m] = pubQueue[n] => m = n
  BY DEF PubStates, PubInv, PubShapes, PubOnePlace, PublishAssumption
<1>2. CASE ~PubRoom
  BY <1>1, <1>2 DEF PubWaits
<1>3. CASE PubRoom
  <2>1. \A n \in 1..Len(pubQueue) : pubQueue[n] # j
    BY DEF PubWaits
  <2>2. /\ Append(pubQueue, j) \in Seq(PubJobs)
        /\ \A m, n \in 1..Len(Append(pubQueue, j)) : Append(pubQueue, j)[m] = Append(pubQueue, j)[n] => m = n
        /\ \A y : (\E n \in 1..Len(Append(pubQueue, j)) : Append(pubQueue, j)[n] = y)
                     <=> y = j \/ \E n \in 1..Len(pubQueue) : pubQueue[n] = y
    BY <1>1, <2>1, Appended
  <2>3. Len(Append(pubQueue, j)) <= PubQueueSize
    BY <1>1, <1>3 DEF PubRoom
  <2>4. pubQueue' = Append(pubQueue, j)
    BY <1>3
  <2> QED BY <2>2, <2>3, <2>4 DEF PubWaits
<1> QED BY <1>2, <1>3

\* Each step of a worker, of a retry and of the restart keeps the invariant.
LEMMA PublishStep == ASSUME PubStates, [PubNext]_pubVars PROVE PubInv'
<1> USE DEF PubStates, PubInv
<1>1. CASE UNCHANGED pubVars
  BY <1>1 DEF pubVars, PubShapes, PubOnePlace, TakenBefore, PublishedAccepted, PublishedOver,
              AskedPerRetry, PubWaits, Has
\* What is true of a job that a worker has.
<1>2. ASSUME NEW w \in PubWorkers, Has(w)
      PROVE  /\ wjob[w] \in PubJobs /\ event[wjob[w]] # "published" /\ pubUpc[wjob[w]] = "done"
             /\ ~PubWaits(wjob[w]) /\ \A v \in PubWorkers \ {w} : wjob[v] # wjob[w]
  BY <1>2 DEF PubShapes, PubOnePlace, PublishedOver, PublishAssumption
\* A worker's step that takes nothing from the queue nor puts anything there.
<1>3. ASSUME NEW w \in PubWorkers, Has(w), NEW l, PubGoto(w, l),
             UNCHANGED <<pubQueue, pubUpc, pubAsked>>,
             \/ l \in {"publish", "record", "succeed", "fail", "sleep"} /\ wjob' = wjob
             \/ l = "idle" /\ wjob' = [wjob EXCEPT ![w] = NoJob],
             event' \in [PubJobs -> {"none", "pending", "published", "failed"}],
             \A j \in PubJobs \ {wjob[w]} : event'[j] = event[j],
             event'[wjob[w]] = "published" => l = "idle" /\ accepted[wjob[w]] # {},
             pubRecorded' \subseteq PubJobs, accepted' \in [PubJobs -> SUBSET PubRelays],
             \A j \in PubJobs : accepted[j] \subseteq accepted'[j],
             pubRetries' \in [PubJobs -> 0..PubRetryAttempts],
             \A j \in PubJobs : pubRetries'[j] >= pubRetries[j],
             l = "sleep" => pubRetries'[wjob[w]] = pubRetries[wjob[w]] + 1,
             pubLeft' \in [PubWorkers -> SUBSET PubRelays], taken' \in [PubWorkers -> BOOLEAN],
             \A v \in PubWorkers \ {w} : taken'[v] = taken[v],
             (l = "publish" /\ taken'[w]) \/ l \in {"record", "succeed"} => accepted'[wjob[w]] # {}
      PROVE  PubInv'
  <2>1. /\ PubOnePlace'
        /\ wpc' \in [PubWorkers -> {"idle", "publish", "record", "succeed", "fail", "sleep", "gone"}]
        /\ wjob' \in [PubWorkers -> PubJobs \cup {NoJob}]
        /\ \A v \in PubWorkers : Has(v)' <=> wjob'[v] # NoJob
        /\ \A v \in PubWorkers \ {w} : wpc'[v] = wpc[v] /\ wjob'[v] = wjob[v]
        /\ wpc'[w] = l /\ wjob'[w] \in {wjob[w], NoJob}
    BY <1>3, WorkerKeepsPlaces
  <2>2. PubShapes'
    BY <1>3, <2>1 DEF PubShapes
  <2>3. TakenBefore'
    <3> SUFFICES ASSUME NEW v \in PubWorkers,
                        (wpc'[v] = "publish" /\ taken'[v]) \/ wpc'[v] \in {"record", "succeed"}
                 PROVE  accepted'[wjob'[v]] # {}
      BY DEF TakenBefore
    <3>1. CASE v = w
      BY <1>3, <2>1, <3>1
    <3>2. CASE v # w
      <4>1. accepted[wjob[v]] # {} /\ wjob[v] \in PubJobs /\ wjob'[v] = wjob[v]
        BY <1>2, <1>3, <2>1, <3>2 DEF TakenBefore, Has
      <4> QED BY <1>3, <4>1
    <3> QED BY <3>1, <3>2
  <2>4. PublishedAccepted'
    BY <1>2, <1>3 DEF PublishedAccepted
  <2>5. PublishedOver'
    <3> SUFFICES ASSUME NEW j \in PubJobs, event'[j] = "published"
                 PROVE  pubUpc'[j] = "done" /\ ~PubWaits(j)' /\ \A v \in PubWorkers : wjob'[v] # j
      BY DEF PublishedOver
    <3>1. pubUpc' = pubUpc /\ (PubWaits(j)' <=> PubWaits(j)) /\ NoJob \notin PubJobs
      BY <1>3 DEF PubWaits, PublishAssumption
    <3>2. CASE j = wjob[w]
      <4>1. wpc'[w] = "idle" /\ wjob'[w] = NoJob
        BY <1>3, <2>1, <3>2 DEF Has
      <4>2. pubUpc[j] = "done" /\ ~PubWaits(j) /\ \A v \in PubWorkers \ {w} : wjob[v] # j
        BY <1>2, <1>3, <3>2
      <4> QED BY <2>1, <3>1, <4>1, <4>2
    <3>3. CASE j # wjob[w]
      <4>1. event[j] = "published"
        BY <1>3, <3>3
      <4>2. pubUpc[j] = "done" /\ ~PubWaits(j) /\ \A v \in PubWorkers : wjob[v] # j
        BY <4>1 DEF PublishedOver
      <4> QED BY <2>1, <3>1, <4>2
    <3> QED BY <3>2, <3>3
  <2>6. AskedPerRetry'
    <3> SUFFICES ASSUME NEW j \in PubJobs
                 PROVE  /\ pubAsked[j] <= pubRetries'[j] + 1
                        /\ \/ pubUpc[j] # "done" \/ PubWaits(j)
                           \/ \E v \in PubWorkers : wjob'[v] = j /\ wpc'[v] = "sleep"
                           => pubAsked[j] <= pubRetries'[j]
      BY <1>3 DEF AskedPerRetry, PubWaits
    <3>1. /\ pubAsked[j] \in Int
          /\ pubRetries[j] \in Int
          /\ pubRetries'[j] \in Int
          /\ pubRetries'[j] >= pubRetries[j]
          /\ pubAsked[j] <= pubRetries[j] + 1
      BY <1>3 DEF PubShapes, AskedPerRetry, PublishAssumption
    <3>2. CASE \/ pubUpc[j] # "done" \/ PubWaits(j)
               \/ \E v \in PubWorkers : wjob[v] = j /\ wpc[v] = "sleep"
      BY <3>1, <3>2 DEF AskedPerRetry
    <3>3. ASSUME NEW v \in PubWorkers, wjob'[v] = j, wpc'[v] = "sleep",
                 ~(wjob[v] = j /\ wpc[v] = "sleep")
          PROVE  pubAsked[j] <= pubRetries'[j]
      <4>1. v = w /\ l = "sleep" /\ wjob[w] = j
        BY <1>3, <2>1, <3>3
      <4> QED BY <1>3, <3>1, <4>1
    <3> QED BY <3>1, <3>2, <3>3
  <2> QED BY <2>1, <2>2, <2>3, <2>4, <2>5, <2>6
<1>4. ASSUME NEW j \in PubJobs, CreateFederationEvent(j) PROVE PubInv'
  <2>1. /\ pubUpc[j] = "create"
        /\ UNCHANGED <<pubRecorded, accepted, pubQueue, pubRetries, pubAsked, wpc, wjob, pubLeft, taken>>
        /\ event'[j] # "published" \/ event'[j] = event[j]
        /\ event' \in [PubJobs -> {"none", "pending", "published", "failed"}]
        /\ \A i \in PubJobs \ {j} : event'[i] = event[i] /\ pubUpc'[i] = pubUpc[i]
        /\ pubUpc' \in [PubJobs -> {"create", "queue", "done"}]
    BY <1>4 DEF CreateFederationEvent, UGoto, worker, PubShapes
  <2>2. PubShapes'
    BY <2>1 DEF PubShapes, Has
  <2>3. ~PubWaits(j) /\ \A w \in PubWorkers : Has(w) => wjob[w] # j
    BY <2>1 DEF PubOnePlace
  <2>4. PubOnePlace'
    BY <2>1, <2>3 DEF PubOnePlace, PubWaits, Has, PubShapes
  <2>5. TakenBefore' /\ PublishedAccepted' /\ PublishedOver'
    BY <2>1 DEF TakenBefore, PublishedAccepted, PublishedOver, PubWaits
  <2>6. AskedPerRetry'
    BY <2>1 DEF AskedPerRetry, PubWaits
  <2> QED BY <2>2, <2>4, <2>5, <2>6
<1>5. ASSUME NEW j \in PubJobs, PubEnqueue(j) PROVE PubInv'
  <2>1. /\ pubUpc[j] = "queue"
        /\ UNCHANGED <<event, pubRecorded, accepted, pubRetries, pubAsked, wpc, wjob, pubLeft, taken>>
        /\ pubUpc' \in [PubJobs -> {"create", "queue", "done"}] /\ pubUpc'[j] = "done"
        /\ \A i \in PubJobs \ {j} : pubUpc'[i] = pubUpc[i]
        /\ pubQueue' = IF PubRoom THEN Append(pubQueue, j) ELSE pubQueue
    BY <1>5 DEF PubEnqueue, UGoto, worker, rows, PubShapes
  <2>2. ~PubWaits(j) /\ event[j] # "published" /\ \A w \in PubWorkers : Has(w) => wjob[w] # j
    BY <2>1 DEF PubOnePlace, PublishedOver
  <2>3. /\ pubQueue' \in Seq(PubJobs) /\ Len(pubQueue') <= PubQueueSize
        /\ \A m, n \in 1..Len(pubQueue') : pubQueue'[m] = pubQueue'[n] => m = n
        /\ \A y : PubWaits(y)' => y = j \/ PubWaits(y)
    BY <2>1, <2>2, QueuedAgain
  <2>4. PubShapes'
    BY <2>1, <2>3 DEF PubShapes, Has
  <2>5. PubOnePlace'
    <3>1. \A w \in PubWorkers : (Has(w)' <=> Has(w)) /\ wjob'[w] = wjob[w] /\ (Has(w) => wjob[w] \in PubJobs)
      BY <1>2, <2>1 DEF Has
    <3>2. \A w \in PubWorkers : (Has(w) => pubUpc[wjob[w]] = "done" /\ ~PubWaits(wjob[w]))'
      BY <2>1, <2>2, <2>3, <3>1 DEF PubOnePlace
    <3>3. \A v, w \in PubWorkers : Has(v)' /\ Has(w)' /\ wjob'[v] = wjob'[w] => v = w
      BY <3>1 DEF PubOnePlace
    <3>4. \A i \in PubJobs : PubWaits(i)' => pubUpc'[i] = "done"
      BY <2>1, <2>3 DEF PubOnePlace
    <3> QED BY <2>3, <3>2, <3>3, <3>4 DEF PubOnePlace
  <2>6. TakenBefore' /\ PublishedAccepted' /\ PublishedOver'
    BY <2>1, <2>2, <2>3 DEF TakenBefore, PublishedAccepted, PublishedOver
  <2>7. AskedPerRetry'
    BY <2>1, <2>3 DEF AskedPerRetry
  <2> QED BY <2>4, <2>5, <2>6, <2>7
<1>6. ASSUME NEW w \in PubWorkers, PubTake(w) PROVE PubInv'
  <2>0. PICK h : h = Head(pubQueue)
    OBVIOUS
  <2>1. /\ wpc[w] = "idle" /\ pubQueue # << >> /\ pubQueue' = Tail(pubQueue)
        /\ UNCHANGED <<event, pubRecorded, accepted, pubRetries, pubUpc>>
    BY <1>6 DEF PubTake, Received, rows
  <2>2. /\ pubQueue' \in Seq(PubJobs) /\ h \in PubJobs /\ Len(pubQueue') <= PubQueueSize
        /\ \A m, n \in 1..Len(pubQueue') : pubQueue'[m] = pubQueue'[n] => m = n
        /\ \A y : PubWaits(y)' => PubWaits(y) /\ y # h
        /\ PubWaits(h)
    <3>1. /\ pubQueue \in Seq(PubJobs) /\ Len(pubQueue) \in Nat /\ Len(pubQueue) <= PubQueueSize
          /\ \A m, n \in 1..Len(pubQueue) : pubQueue[m] = pubQueue[n] => m = n
      BY DEF PubShapes, PubOnePlace
    <3> HIDE DEF PubInv
    <3>3. /\ Tail(pubQueue) \in Seq(PubJobs) /\ Head(pubQueue) \in PubJobs
          /\ \A m, n \in 1..Len(Tail(pubQueue)) : Tail(pubQueue)[m] = Tail(pubQueue)[n] => m = n
          /\ \A n \in 1..Len(Tail(pubQueue)) : Tail(pubQueue)[n] # Head(pubQueue)
          /\ \A n \in 1..Len(Tail(pubQueue)) : n + 1 \in 1..Len(pubQueue) /\ Tail(pubQueue)[n] = pubQueue[n + 1]
          /\ 1 \in 1..Len(pubQueue) /\ Head(pubQueue) = pubQueue[1]
      BY <2>1, <3>1, Taken
    <3>4. Len(Tail(pubQueue)) <= PubQueueSize
      BY <2>1, <3>1 DEF PublishAssumption
    <3>5. PubWaits(Head(pubQueue))
      BY <3>3 DEF PubWaits
    <3>6. \A y : PubWaits(y)' => PubWaits(y) /\ y # Head(pubQueue)
      BY <2>1, <3>3 DEF PubWaits
    <3> QED BY <2>0, <2>1, <3>3, <3>4, <3>5, <3>6
  <2>3. pubUpc[h] = "done" /\ event[h] # "published" /\ pubAsked[h] <= pubRetries[h]
        /\ \A v \in PubWorkers : wjob[v] # h
    BY <2>2 DEF PubOnePlace, PublishedOver, AskedPerRetry, PublishAssumption, PubShapes
  <2>4. /\ wpc'[w] = "publish" /\ wjob'[w] = h /\ ~taken'[w]
        /\ \A v \in PubWorkers \ {w} : wpc'[v] = wpc[v] /\ wjob'[v] = wjob[v] /\ taken'[v] = taken[v]
        /\ wpc' \in [PubWorkers -> {"idle", "publish", "record", "succeed", "fail", "sleep", "gone"}]
        /\ wjob' \in [PubWorkers -> PubJobs \cup {NoJob}]
        /\ pubLeft' \in [PubWorkers -> SUBSET PubRelays] /\ taken' \in [PubWorkers -> BOOLEAN]
    BY <1>6, <2>0, <2>2 DEF PubTake, PubGoto, PubShapes
  <2>5. /\ pubAsked' \in [PubJobs -> Nat] /\ pubAsked'[h] <= pubAsked[h] + 1
        /\ \A j \in PubJobs \ {h} : pubAsked'[j] = pubAsked[j]
    <3>1. pubAsked' = [pubAsked EXCEPT ![h] = IF @ > PubRetryAttempts + 1 THEN @ ELSE @ + 1]
      BY <1>6, <2>0 DEF PubTake
    <3>2. pubAsked \in [PubJobs -> Nat] /\ h \in PubJobs /\ PubRetryAttempts \in Nat
      BY <2>2 DEF PubShapes, PublishAssumption
    <3> HIDE DEF PubInv
    <3> QED BY <3>1, <3>2
  <2>6. PubShapes'
    <3>1. \A v \in PubWorkers : Has(v)' <=> wjob'[v] # NoJob
      <4>1. NoJob \notin PubJobs /\ \A v \in PubWorkers : Has(v) <=> wjob[v] # NoJob
        BY DEF PubShapes, PublishAssumption
      <4>2. (\A v \in PubWorkers \ {w} : Has(v)' <=> Has(v)) /\ Has(w)'
        BY <2>4 DEF Has
      <4> QED BY <2>2, <2>4, <4>1, <4>2
    <3> QED BY <2>1, <2>2, <2>4, <2>5, <3>1 DEF PubShapes
  <2>7. PubOnePlace'
    <3>1. \A v \in PubWorkers \ {w} : (Has(v)' <=> Has(v)) /\ wjob'[v] = wjob[v]
      BY <2>4 DEF Has
    <3>2. \A v \in PubWorkers : (Has(v) => pubUpc[wjob[v]] = "done" /\ ~PubWaits(wjob[v]))'
      BY <2>1, <2>2, <2>3, <2>4, <3>1 DEF PubOnePlace
    <3>3. \A v, u \in PubWorkers : Has(v)' /\ Has(u)' /\ wjob'[v] = wjob'[u] => v = u
      BY <2>3, <2>4, <3>1 DEF PubOnePlace
    <3>4. \A i \in PubJobs : PubWaits(i)' => pubUpc'[i] = "done"
      BY <2>1, <2>2 DEF PubOnePlace
    <3> QED BY <2>2, <3>2, <3>3, <3>4 DEF PubOnePlace
  <2>8. TakenBefore'
    BY <2>1, <2>4 DEF TakenBefore
  <2>9. PublishedAccepted' /\ PublishedOver'
    <3>1. \A v \in PubWorkers : wjob'[v] = wjob[v] \/ wjob'[v] = h
      BY <2>4
    <3> QED BY <2>1, <2>2, <2>3, <3>1 DEF PublishedAccepted, PublishedOver
  <2>10. AskedPerRetry'
    <3>1. \A j \in PubJobs : pubAsked[j] \in Int /\ pubAsked'[j] \in Int /\ pubRetries[j] \in Int
      BY <2>5 DEF PubShapes, PublishAssumption
    <3>2. pubAsked'[h] <= pubRetries[h] + 1 /\ h \in PubJobs
      BY <2>2, <2>3, <2>5, <3>1
    <3>3. ~PubWaits(h)' /\ \A v \in PubWorkers : wjob'[v] = h => wpc'[v] # "sleep"
      BY <2>2, <2>3, <2>4
    <3>4. \A j \in PubJobs \ {h} : (\E v \in PubWorkers : wjob'[v] = j /\ wpc'[v] = "sleep")
                                     => \E v \in PubWorkers : wjob[v] = j /\ wpc[v] = "sleep"
      BY <2>4
    <3> QED BY <2>1, <2>2, <2>3, <2>5, <3>2, <3>3, <3>4 DEF AskedPerRetry
  <2> QED BY <2>6, <2>7, <2>8, <2>9, <2>10
<1>7. ASSUME NEW w \in PubWorkers, Exit(w) PROVE PubInv'
  <2>1. /\ wpc[w] = "idle" /\ wpc'[w] = "gone" /\ \A v \in PubWorkers \ {w} : wpc'[v] = wpc[v]
        /\ wpc' \in [PubWorkers -> {"idle", "publish", "record", "succeed", "fail", "sleep", "gone"}]
        /\ UNCHANGED <<event, pubRecorded, accepted, pubQueue, pubRetries, pubAsked, pubUpc, wjob, pubLeft, taken>>
    BY <1>7 DEF Exit, PubGoto, rows, worker, PubShapes
  <2>2. \A v \in PubWorkers : Has(v)' <=> Has(v)
    BY <2>1 DEF Has
  <2>3. PubShapes' /\ PubOnePlace'
    BY <2>1, <2>2 DEF PubShapes, PubOnePlace, PubWaits
  <2>4. TakenBefore' /\ PublishedAccepted' /\ PublishedOver' /\ AskedPerRetry'
    BY <2>1 DEF TakenBefore, PublishedAccepted, PublishedOver, AskedPerRetry, PubWaits
  <2> QED BY <2>3, <2>4
<1>8. ASSUME NEW w \in PubWorkers, AskRelay(w) PROVE PubInv'
  <2>1. /\ wpc[w] = "publish"
        /\ Has(w)
        /\ UNCHANGED <<event, pubRecorded, pubQueue, pubRetries, pubAsked, pubUpc, wpc, wjob>>
    BY <1>8 DEF AskRelay, Has, rows
  <2>2. PubGoto(w, "publish")
    BY <2>1 DEF PubGoto, PubShapes
  <2>3. PICK r \in pubLeft[w] :
         /\ pubLeft' = [pubLeft EXCEPT ![w] = @ \ {r}]
         /\ \/ /\ taken' = [taken EXCEPT ![w] = TRUE]
               /\ accepted' = [accepted EXCEPT ![wjob[w]] = @ \cup {r}]
            \/ /\ accepted' \in {accepted, [accepted EXCEPT ![wjob[w]] = @ \cup {r}]}
               /\ UNCHANGED taken
    BY <1>8 DEF AskRelay
  <2>4. r \in PubRelays /\ wjob[w] \in PubJobs
    BY <1>2, <2>1 DEF PubShapes
  <2>5. /\ pubLeft' \in [PubWorkers -> SUBSET PubRelays]
        /\ accepted' \in [PubJobs -> SUBSET PubRelays]
        /\ \A j \in PubJobs : accepted[j] \subseteq accepted'[j]
    <3>1. pubLeft' \in [PubWorkers -> SUBSET PubRelays]
      BY <2>3 DEF PubShapes
    <3>2. CASE accepted' = accepted
      BY <3>1, <3>2 DEF PubShapes
    <3>3. CASE accepted' = [accepted EXCEPT ![wjob[w]] = @ \cup {r}]
      BY <2>4, <3>1, <3>3 DEF PubShapes
    <3> QED BY <2>3, <3>2, <3>3
  <2>6. /\ taken' \in [PubWorkers -> BOOLEAN] /\ \A v \in PubWorkers \ {w} : taken'[v] = taken[v]
    BY <2>3 DEF PubShapes
  <2>7. taken'[w] => accepted'[wjob[w]] # {}
    <3>1. CASE taken' = taken
      BY <2>1, <2>4, <2>5, <3>1 DEF TakenBefore
    <3>2. CASE accepted' = [accepted EXCEPT ![wjob[w]] = @ \cup {r}]
      BY <2>4, <3>2 DEF PubShapes
    <3> QED BY <2>3, <3>1, <3>2
  <2>8. \A j \in PubJobs : pubRetries'[j] >= pubRetries[j]
    BY <2>1 DEF PubShapes, PublishAssumption
  <2>9. event'[wjob[w]] # "published"
    BY <1>2, <2>1
  <2>10. PubShapes
    OBVIOUS
  <2> HIDE DEF PubInv, PubStates
  <2>11. PubInv
    BY DEF PubStates
  <2> QED BY <1>3, <2>1, <2>2, <2>4, <2>5, <2>6, <2>7, <2>8, <2>9, <2>10 DEF PubShapes
<1>9. ASSUME NEW w \in PubWorkers, EndRound(w) PROVE PubInv'
  <2>1. /\ wpc[w] = "publish"
        /\ Has(w)
        /\ UNCHANGED <<event, pubRecorded, accepted, pubQueue, pubRetries, pubAsked, pubUpc, wjob, pubLeft, taken>>
    BY <1>9 DEF EndRound, Has, rows, worker
  <2>2. CASE taken[w] /\ PubGoto(w, "record")
    <3>1. accepted[wjob[w]] # {}
      BY <2>1, <2>2 DEF TakenBefore
    <3> QED BY <1>2, <1>3, <2>1, <2>2, <3>1, RetriesAreNumbers DEF PubShapes
  <2>3. CASE ~taken[w] /\ PubGoto(w, "fail")
    BY <1>2, <1>3, <2>1, <2>3, RetriesAreNumbers DEF PubShapes
  <2> QED BY <1>9, <2>2, <2>3 DEF EndRound, Published
<1>10. ASSUME NEW w \in PubWorkers, PubRecord(w) PROVE PubInv'
  <2>1. /\ wpc[w] = "record" /\ Has(w) /\ PubGoto(w, "succeed")
        /\ UNCHANGED <<event, accepted, pubQueue, pubRetries, pubAsked, pubUpc, wjob, pubLeft, taken>>
    BY <1>10 DEF PubRecord, Has, worker
  <2>2. pubRecorded' \subseteq PubJobs
    BY <1>2, <1>10, <2>1 DEF PubRecord, PubShapes
  <2>3. accepted[wjob[w]] # {}
    BY <2>1 DEF TakenBefore
  <2> QED BY <1>2, <1>3, <2>1, <2>2, <2>3, RetriesAreNumbers DEF PubShapes
<1>11. ASSUME NEW w \in PubWorkers, Succeed(w) PROVE PubInv'
  <2>1. /\ wpc[w] = "succeed" /\ Has(w) /\ PubGoto(w, "idle") /\ wjob' = [wjob EXCEPT ![w] = NoJob]
        /\ UNCHANGED <<pubRecorded, accepted, pubQueue, pubRetries, pubAsked, pubUpc, pubLeft, taken>>
    BY <1>11 DEF Succeed, Has
  <2>2. /\ event' \in [PubJobs -> {"none", "pending", "published", "failed"}]
        /\ \A j \in PubJobs \ {wjob[w]} : event'[j] = event[j]
    BY <1>2, <1>11, <2>1 DEF Succeed, Update, PubShapes
  <2>3. accepted[wjob[w]] # {}
    BY <2>1 DEF TakenBefore
  <2> QED BY <1>3, <2>1, <2>2, <2>3, RetriesAreNumbers DEF PubShapes
<1>12. ASSUME NEW w \in PubWorkers, PubFail(w) PROVE PubInv'
  <2>1. /\ wpc[w] = "fail" /\ Has(w)
        /\ UNCHANGED <<pubRecorded, accepted, pubQueue, pubAsked, pubUpc, pubLeft, taken>>
    BY <1>12 DEF PubFail, Has
  <2>2. /\ event' \in [PubJobs -> {"none", "pending", "published", "failed"}]
        /\ \A j \in PubJobs \ {wjob[w]} : event'[j] = event[j]
        /\ event'[wjob[w]] # "published"
    BY <1>2, <1>12, <2>1 DEF PubFail, Update, PubShapes
  <2>3. CASE /\ PubMayRetry(wjob[w]) /\ pubRetries' = [pubRetries EXCEPT ![wjob[w]] = PubCounted(@)]
             /\ PubGoto(w, "sleep") /\ UNCHANGED wjob
    <3>1. /\ wjob[w] \in PubJobs /\ pubRetries[wjob[w]] \in 0..PubRetryAttempts
          /\ pubRetries[wjob[w]] < PubRetryAttempts /\ PubRetryAttempts \in Nat
      BY <1>2, <2>1, <2>3 DEF PubMayRetry, PubShapes, PublishAssumption
    <3>2. /\ pubRetries' \in [PubJobs -> 0..PubRetryAttempts]
          /\ pubRetries'[wjob[w]] = pubRetries[wjob[w]] + 1
          /\ \A j \in PubJobs : pubRetries'[j] >= pubRetries[j]
      <4>1. pubRetries \in [PubJobs -> 0..PubRetryAttempts]
        BY DEF PubShapes
      <4>2. pubRetries[wjob[w]] + 1 \in 0..PubRetryAttempts
        BY <3>1
      <4>3. pubRetries' = [pubRetries EXCEPT ![wjob[w]] = pubRetries[wjob[w]] + 1]
        BY <2>3 DEF PubCounted
      <4>4. \A j \in PubJobs : pubRetries'[j] = IF j = wjob[w] THEN pubRetries[wjob[w]] + 1 ELSE pubRetries[j]
        BY <3>1, <4>1, <4>3
      <4> QED BY <3>1, <4>1, <4>2, <4>3, <4>4, RetriesAreNumbers
    <3> QED BY <1>3, <2>1, <2>2, <2>3, <3>2 DEF PubShapes
  <2>4. CASE wjob' = [wjob EXCEPT ![w] = NoJob] /\ PubGoto(w, "idle") /\ UNCHANGED pubRetries
    BY <1>3, <2>1, <2>2, <2>4, RetriesAreNumbers DEF PubShapes
  <2> QED BY <1>12, <2>3, <2>4 DEF PubFail
<1>13. ASSUME NEW w \in PubWorkers, PubRequeue(w) PROVE PubInv'
  <2>0. PICK j : j = wjob[w]
    OBVIOUS
  <2>1. /\ wpc[w] = "sleep" /\ Has(w)
        /\ pubQueue' = IF PubRoom THEN Append(pubQueue, j) ELSE pubQueue
        /\ UNCHANGED <<event, pubRecorded, accepted, pubRetries, pubAsked, pubUpc, pubLeft, taken>>
    BY <1>13, <2>0 DEF PubRequeue, Has, rows
  <2>2. /\ j \in PubJobs /\ event[j] # "published" /\ pubUpc[j] = "done"
        /\ ~PubWaits(j) /\ \A v \in PubWorkers \ {w} : wjob[v] # j
    BY <1>2, <2>0, <2>1
  <2>3. /\ pubQueue' \in Seq(PubJobs) /\ Len(pubQueue') <= PubQueueSize
        /\ \A m, n \in 1..Len(pubQueue') : pubQueue'[m] = pubQueue'[n] => m = n
        /\ \A y : PubWaits(y)' => y = j \/ PubWaits(y)
    BY <2>1, <2>2, QueuedAgain
  <2>4. /\ wpc'[w] = "idle" /\ wjob'[w] = NoJob
        /\ \A v \in PubWorkers \ {w} : wpc'[v] = wpc[v] /\ wjob'[v] = wjob[v]
        /\ wpc' \in [PubWorkers -> {"idle", "publish", "record", "succeed", "fail", "sleep", "gone"}]
        /\ wjob' \in [PubWorkers -> PubJobs \cup {NoJob}]
    BY <1>13 DEF PubRequeue, PubGoto, PubShapes
  <2>5. \A v \in PubWorkers : Has(v)' <=> Has(v) /\ v # w
    BY <2>4 DEF Has
  <2>6. PubShapes'
    <3>1. \A v \in PubWorkers : Has(v) <=> wjob[v] # NoJob
      BY DEF PubShapes
    <3>2. \A v \in PubWorkers : Has(v)' <=> wjob'[v] # NoJob
      BY <2>4, <2>5, <3>1
    <3> QED BY <2>1, <2>3, <2>4, <3>2 DEF PubShapes
  <2>7. PubOnePlace'
    <3>1. \A v \in PubWorkers : (Has(v) => pubUpc[wjob[v]] = "done" /\ ~PubWaits(wjob[v]))'
      BY <2>0, <2>1, <2>2, <2>3, <2>4, <2>5 DEF PubOnePlace
    <3>2. \A v, u \in PubWorkers : Has(v)' /\ Has(u)' /\ wjob'[v] = wjob'[u] => v = u
      BY <2>4, <2>5 DEF PubOnePlace
    <3>3. \A i \in PubJobs : PubWaits(i)' => pubUpc'[i] = "done"
      BY <2>1, <2>2, <2>3 DEF PubOnePlace
    <3> QED BY <2>3, <3>1, <3>2, <3>3 DEF PubOnePlace
  <2>8. TakenBefore' /\ PublishedAccepted'
    BY <2>1, <2>4 DEF TakenBefore, PublishedAccepted
  <2>9. PublishedOver'
    <3>1. NoJob \notin PubJobs /\ \A v \in PubWorkers : wjob'[v] = wjob[v] \/ wjob'[v] = NoJob
      BY <2>4 DEF PublishAssumption
    <3> QED BY <2>1, <2>2, <2>3, <3>1 DEF PublishedOver
  <2>10. AskedPerRetry'
    <3>1. pubAsked[j] <= pubRetries[j]
      BY <2>0, <2>1, <2>2 DEF AskedPerRetry
    <3>2. \A i \in PubJobs : (\E v \in PubWorkers : wjob'[v] = i /\ wpc'[v] = "sleep")
                              => \E v \in PubWorkers : wjob[v] = i /\ wpc[v] = "sleep"
      BY <2>4
    <3> QED BY <2>1, <2>2, <2>3, <3>1, <3>2 DEF AskedPerRetry
  <2> QED BY <2>6, <2>7, <2>8, <2>9, <2>10
<1>14. CASE Stop
  BY <1>14 DEF Stop, rows, worker, PubShapes, PubOnePlace, TakenBefore, PublishedAccepted,
               PublishedOver, AskedPerRetry, PubWaits, Has
\* A restart takes every job from its place, and none comes back.
<1>15. CASE PubRestart
  <2>1. /\ pubQueue' = << >>
        /\ wpc' = [w \in PubWorkers |-> "idle"]
        /\ wjob' = [w \in PubWorkers |-> NoJob]
        /\ pubUpc' = [j \in PubJobs |-> IF pubUpc[j] = "create" THEN "create" ELSE "done"]
        /\ UNCHANGED <<event, pubRecorded, accepted, pubRetries, pubAsked, pubLeft, taken>>
    BY <1>15 DEF PubRestart, rows
  <2>2. Len(pubQueue') = 0 /\ \A y : ~PubWaits(y)'
    BY <2>1 DEF PubWaits
  <2>3. /\ \A w \in PubWorkers : wpc'[w] = "idle" /\ wjob'[w] = NoJob /\ ~Has(w)'
        /\ \A j \in PubJobs : pubUpc'[j] # "done" => pubUpc[j] # "done"
    BY <2>1 DEF Has
  <2>4. PubShapes'
    BY <2>1, <2>2, <2>3 DEF PubShapes, PublishAssumption
  <2>5. PubOnePlace'
    BY <2>2, <2>3 DEF PubOnePlace
  <2>6. TakenBefore' /\ PublishedAccepted'
    BY <2>1, <2>3 DEF TakenBefore, PublishedAccepted
  <2>7. PublishedOver'
    BY <2>1, <2>2, <2>3 DEF PublishedOver, PublishAssumption
  <2>8. AskedPerRetry'
    BY <2>1, <2>2, <2>3 DEF AskedPerRetry
  <2> QED BY <2>4, <2>5, <2>6, <2>7, <2>8
<1> QED BY <1>1, <1>4, <1>5, <1>6, <1>7, <1>8, <1>9, <1>10, <1>11, <1>12, <1>13, <1>14, <1>15
        DEF PubNext, PubUpload, PubWork

\* So it is in every state.
LEMMA PublishInvariant == ASSUME PublishAssumption PROVE PubSpec => []PubInv
<1>1. PubInit => PubInv
  BY PublishInit
<1>2. PubInv /\ [PubNext]_pubVars => PubInv'
  BY PublishStep DEF PubStates
<1> QED BY <1>1, <1>2, PTL DEF PubSpec

\* A row says published only of a blob whose event a relay has (publishWorker), for
\* any number of jobs, workers and relays and whatever fails or restarts.
THEOREM PublishedRowsAccepted == ASSUME PublishAssumption PROVE PubSpec => []PublishedAccepted
<1>1. PubInv => PublishedAccepted
  BY DEF PubInv
<1> QED BY <1>1, PublishInvariant, PTL

\* A row that says published stays so: of a job in one place at a time nobody is
\* left to write that it failed (publishWorker).
THEOREM PublishedRowsFinal == ASSUME PublishAssumption PROVE PubSpec => PublishedFinal
<1>1. PubInv /\ [PubNext]_pubVars => [\A j \in PubJobs : event[j] = "published" => event'[j] = "published"]_pubVars
  <2> SUFFICES ASSUME PubInv, PubNext, NEW j \in PubJobs, event[j] = "published"
               PROVE  event'[j] = "published"
    OBVIOUS
  <2>1. pubUpc[j] = "done" /\ \A w \in PubWorkers : wjob[w] # j
    BY DEF PubInv, PublishedOver
  <2>2. event \in [PubJobs -> {"none", "pending", "published", "failed"}]
    BY DEF PubInv, PubShapes
  <2>3. ASSUME NEW i \in PubJobs, PubUpload(i) PROVE event'[j] = "published"
    BY <2>1, <2>2, <2>3 DEF PubUpload, CreateFederationEvent, PubEnqueue, rows
  <2>4. ASSUME NEW w \in PubWorkers, PubWork(w) PROVE event'[j] = "published"
    BY <2>1, <2>2, <2>4
       DEF PubWork, PubTake, Exit, AskRelay, EndRound, PubRecord, Succeed, PubFail, PubRequeue,
           Update, rows
  <2> QED BY <2>3, <2>4 DEF PubNext, Stop, PubRestart, rows
<1> QED BY <1>1, PublishInvariant, PTL DEF PubSpec, PublishedFinal

\* A job is published once and at most PubRetryAttempts times more, through
\* whichever workers and the queue it passes (publishWorker).
THEOREM AttemptsAreBounded == ASSUME PublishAssumption PROVE PubSpec => []AttemptsBounded
<1>1. PubInv => AttemptsBounded
  <2> SUFFICES ASSUME PubInv, NEW j \in PubJobs PROVE pubAsked[j] <= PubRetryAttempts + 1
    BY DEF AttemptsBounded
  <2>1. pubAsked[j] \in Nat /\ pubRetries[j] \in 0..PubRetryAttempts /\ PubRetryAttempts \in Nat
        /\ pubAsked[j] <= pubRetries[j] + 1
    BY DEF PubInv, PubShapes, AskedPerRetry, PublishAssumption
  <2> QED BY <2>1
<1> QED BY <1>1, PublishInvariant, PTL

\* The types of the publication's state; a job is never twice in the queue, nor there
\* while a worker has it, although retries put jobs back (publishWorker).
THEOREM PublicationTypes == ASSUME PublishAssumption PROVE PubSpec => []PubTypeOK
<1>1. PubInit => PubInv
  BY PublishInit
<1>2. PubInv /\ [PubNext]_pubVars => PubInv'
  BY PublishStep DEF PubStates
<1>3. PubInv => PubTypeOK
  <2> SUFFICES ASSUME PubInv PROVE PubTypeOK
    OBVIOUS
  <2> USE DEF PubInv
  <2>1. DOMAIN pubQueue = 1..Len(pubQueue) /\ \A n \in 1..Len(pubQueue) : pubQueue[n] \in PubJobs
    BY DEF PubShapes
  <2>2. IsInjective(pubQueue)
    BY <2>1 DEF PubOnePlace, IsInjective
  <2>3. \A j : j \in ToSet(pubQueue) => PubWaits(j) /\ j \in PubJobs
    BY <2>1 DEF ToSet, PubWaits
  <2>4. \A w \in PubWorkers : wjob[w] \notin ToSet(pubQueue)
    BY <2>3 DEF PubShapes, PubOnePlace, PublishAssumption
  <2> QED BY <2>2, <2>4 DEF PubShapes, PubTypeOK
<1> QED BY <1>1, <1>2, <1>3, PTL DEF PubSpec

------------------------------------------------------------------------------
\* The two queues as one abstract queue of jobs.

\* The jobs that wait are those in the queue.
LEMMA InQueue ==
    ASSUME NEW S, NEW q \in Seq(S)
    PROVE  \A x : x \in ToSet(q) <=> \E n \in 1..Len(q) : q[n] = x
BY DEF ToSet

RepCarried(j) == \E a \in Actors : RepCarries(a) /\ mine[a] = j

\* Where a job is, of places that exclude each other.
RepKnown ==
    /\ \A j \in RepJobs : RepPlaces[j] = RepPlace(j)
    /\ \A j \in RepJobs : repPc[j] \in {"idle", "queue"} =>
         ~Waits(j) /\ ~RepCarried(j) /\ RepPlace(j) = "new"
    /\ \A j \in RepJobs : Waits(j) =>
         repPc[j] = "done" /\ ~RepCarried(j) /\ RepPlace(j) = "waiting"
    /\ \A j \in RepJobs : RepSleeps(j) => RepCarried(j) /\ RepPlace(j) = "retry"
    /\ \A j \in RepJobs : RepCarried(j) /\ ~RepSleeps(j) => RepPlace(j) = "held"
    /\ \A j \in RepJobs : repPc[j] \notin {"idle", "queue"} /\ ~Waits(j) /\ ~RepCarried(j) =>
         RepPlace(j) = "over"
    /\ \A a, b \in Actors : RepCarries(a) /\ RepCarries(b) /\ mine[a] = mine[b] => a = b
    /\ \A a \in Actors : RepCarries(a) =>
         mine[a] \in RepJobs /\ repPc[mine[a]] \notin {"idle", "queue"} /\ ~Waits(mine[a])
    /\ \A j \in RepJobs : j \in Actors /\ mine[j] = j

\* The places are told apart by whoever has the job.
LEMMA RepPlaceOf == ASSUME ReplicationAssumption, RepInv PROVE RepKnown
<1> USE DEF RepInv, RepShapes, AtOnePlace
<1>1. \A j : j \in ToSet(repQueue) <=> Waits(j)
  BY InQueue DEF Waits
<1>2. \A a \in Actors : RepCarries(a) =>
        /\ mine[a] \in RepJobs /\ repPc[mine[a]] \notin {"idle", "queue"} /\ ~Waits(mine[a])
        /\ a \in RepWorkers => repPc[mine[a]] = "done" /\ Busy(a)
        /\ a \in RepJobs => mine[a] = a
  BY DEF RepCarries, Busy, Actors
<1>3. \A a, b \in Actors : RepCarries(a) /\ RepCarries(b) /\ mine[a] = mine[b] => a = b
  BY <1>2 DEF RepCarries, Actors
<1>4. \A j \in RepJobs : RepSleeps(j) => RepCarried(j) /\ repPc[j] = "done"
  BY <1>2 DEF RepSleeps, RepCarried, RepCarries, Actors
<1>5. \A j \in RepJobs : j \in Actors /\ mine[j] = j
  BY DEF Actors
<1>6. \A j \in RepJobs : RepPlaces[j] = RepPlace(j)
  BY DEF RepPlaces
<1>7. \A j \in RepJobs : repPc[j] \in {"idle", "queue"} => ~Waits(j) /\ ~RepCarried(j)
  BY <1>2 DEF RepCarried
<1>8. \A j \in RepJobs : Waits(j) => repPc[j] = "done" /\ ~RepCarried(j)
  BY <1>2 DEF RepCarried
<1> HIDE DEF RepInv, RepShapes, AtOnePlace
<1>9. \A j \in RepJobs : RepPlace(j) = IF repPc[j] \in {"idle", "queue"} THEN "new"
                                       ELSE IF Waits(j) THEN "waiting"
                                       ELSE IF RepSleeps(j) THEN "retry"
                                       ELSE IF RepCarried(j) THEN "held" ELSE "over"
  BY <1>1, <1>4, <1>7, <1>8 DEF RepPlace, RepCarried
<1> QED BY <1>2, <1>3, <1>4, <1>5, <1>6, <1>7, <1>8, <1>9 DEF RepKnown

\* And after a step.
LEMMA RepPlaceNext == ASSUME ReplicationAssumption PROVE RepInv' => RepKnown'
<1>1. RepInv => RepKnown
  BY RepPlaceOf
<1> QED BY <1>1, PTL

\* A step that moves the places of no job but one.
LEMMA RepOneMoves ==
    ASSUME ReplicationAssumption, RepShapes, RepKnown, RepKnown', NEW x, NEW p,
           x \in RepJobs => RepPlace(x)' = p,
           \A j \in RepJobs \ {x} :
             /\ (repPc[j] \in {"idle", "queue"}) <=> (repPc'[j] \in {"idle", "queue"})
             /\ Waits(j) <=> Waits(j)'
             /\ RepSleeps(j) <=> RepSleeps(j)'
             /\ RepCarried(j) <=> RepCarried(j)'
    PROVE  RepPlaces' = [RepPlaces EXCEPT ![x] = p]
<1>1. \A j \in RepJobs \ {x} : RepPlace(j)' = RepPlace(j)
  <2> TAKE j \in RepJobs \ {x}
  <2>1. CASE repPc[j] \in {"idle", "queue"}
    BY <2>1 DEF RepKnown
  <2>2. CASE Waits(j)
    BY <2>2 DEF RepKnown
  <2>3. CASE RepSleeps(j)
    BY <2>3 DEF RepKnown
  <2>4. CASE RepCarried(j) /\ ~RepSleeps(j)
    BY <2>4 DEF RepKnown
  <2>5. CASE repPc[j] \notin {"idle", "queue"} /\ ~Waits(j) /\ ~RepCarried(j)
    BY <2>5 DEF RepKnown
  <2> QED BY <2>1, <2>2, <2>3, <2>4, <2>5
<1> QED BY <1>1 DEF RepPlaces

\* An actor that goes on with the job that it has.
LEMMA RepGoesOn ==
    ASSUME ReplicationAssumption, RepShapes, RepKnown, RepKnown', NEW a \in Actors, NEW l,
           RepGoto(a, l),
           RepCarries(a) <=> l \notin {"idle", "queue", "done"},
           (repPc[a] \in {"idle", "queue"}) <=> (l \in {"idle", "queue"}),
           repPc[a] = "sleep" <=> l = "sleep",
           UNCHANGED <<repQueue, repRetries, mine>>
    PROVE  UNCHANGED ReplicationQueue!jobVars
<1>1. repPc \in [Actors -> {"idle", "done", "queue", "check", "start", "copy", "complete",
                            "fail", "retry", "sleep"}] /\ RepJobs \subseteq Actors
  BY DEF RepShapes, Actors
<1>2. \A b \in Actors : repPc'[b] = IF b = a THEN l ELSE repPc[b]
  BY <1>1 DEF RepGoto
<1>3. \A b \in Actors : RepCarries(b) <=> RepCarries(b)'
  BY <1>2 DEF RepCarries
<1>4. \A j \in RepJobs :
             /\ (repPc[j] \in {"idle", "queue"}) <=> (repPc'[j] \in {"idle", "queue"})
             /\ Waits(j) <=> Waits(j)'
             /\ RepSleeps(j) <=> RepSleeps(j)'
             /\ RepCarried(j) <=> RepCarried(j)'
  BY <1>1, <1>2, <1>3 DEF Waits, RepSleeps, RepCarried, Actors
<1>5. RepPlaces' = RepPlaces
  <2>1. RepNobody \notin RepJobs
    BY DEF ReplicationAssumption
  <2>2. RepPlaces' = [RepPlaces EXCEPT ![RepNobody] = "over"]
    BY <1>4, <2>1, RepOneMoves
  <2> QED BY <2>1, <2>2 DEF RepPlaces
<1>6. RepHands' = RepHands
  BY <1>3 DEF RepHands
<1> QED BY <1>5, <1>6 DEF ReplicationQueue!jobVars

\* And one that lays its job down for good.
LEMMA RepLaysDown ==
    ASSUME ReplicationAssumption, RepShapes, RepKnown, RepKnown', NEW a \in Actors, NEW l,
           RepGoto(a, l),
           RepCarries(a), repPc[a] # "sleep",
           l = IF a \in RepWorkers THEN "idle" ELSE "done",
           UNCHANGED <<repQueue, repRetries, mine>>
    PROVE  ReplicationQueue!Release(a)
<1> DEFINE x == mine[a]
<1>1. repPc \in [Actors -> {"idle", "done", "queue", "check", "start", "copy", "complete",
                            "fail", "retry", "sleep"}] /\ RepJobs \subseteq Actors
      /\ RepWorkers \cap RepJobs = {} /\ RepNobody \notin RepJobs
  BY DEF RepShapes, Actors, ReplicationAssumption
<1>2. \A b \in Actors : repPc'[b] = IF b = a THEN l ELSE repPc[b]
  BY <1>1 DEF RepGoto
<1>3. \A b \in Actors : RepCarries(b)' <=> RepCarries(b) /\ b # a
  BY <1>2 DEF RepCarries
<1>4. x \in RepJobs /\ repPc[x] \notin {"idle", "queue"} /\ ~Waits(x)
      /\ RepCarried(x) /\ \A b \in Actors : RepCarries(b) /\ mine[b] = x => a = b
  BY DEF RepKnown, RepCarried
<1>5. ~RepSleeps(x)
  BY <1>4 DEF RepSleeps, RepCarries, Actors
<1>6. RepPlaces[x] = "held" /\ RepHands[a] = x
  BY <1>4, <1>5 DEF RepKnown, RepHands
<1>7. ~RepCarried(x)' /\ ~Waits(x)' /\ repPc'[x] \notin {"idle", "queue"}
  BY <1>1, <1>2, <1>3, <1>4 DEF RepCarried, Waits, Actors
<1>8. RepPlace(x)' = "over"
  BY <1>4, <1>7 DEF RepKnown
<1>9. \A j \in RepJobs \ {x} :
             /\ (repPc[j] \in {"idle", "queue"}) <=> (repPc'[j] \in {"idle", "queue"})
             /\ Waits(j) <=> Waits(j)'
             /\ RepSleeps(j) <=> RepSleeps(j)'
             /\ RepCarried(j) <=> RepCarried(j)'
  <2> TAKE j \in RepJobs \ {x}
  <2>1. (repPc[j] \in {"idle", "queue"}) <=> (repPc'[j] \in {"idle", "queue"})
    BY <1>1, <1>2 DEF RepKnown, RepCarries
  <2>2. Waits(j) <=> Waits(j)'
    BY DEF Waits
  <2>3. RepSleeps(j) <=> RepSleeps(j)'
    BY <1>2 DEF RepSleeps, Actors
  <2>4. RepCarried(j) <=> RepCarried(j)'
    BY <1>3 DEF RepCarried
  <2> QED BY <2>1, <2>2, <2>3, <2>4
<1>10. RepPlaces' = [RepPlaces EXCEPT ![x] = "over"]
  BY <1>8, <1>9, RepOneMoves
<1>11. RepHands' = [RepHands EXCEPT ![a] = RepNobody]
  BY <1>3 DEF RepHands
<1> QED BY <1>1, <1>4, <1>6, <1>10, <1>11
        DEF ReplicationQueue!Release, ReplicationQueue!Moves, ReplicationQueue!Takes

\* A call that has its job queued, carried out or dropped.
LEMMA RepEnqueueStep ==
    ASSUME ReplicationAssumption, RepShapes, AtOnePlace, RepKnown, RepKnown', NEW j \in RepJobs,
           RepEnqueue(j)
    PROVE  ReplicationQueue!Submit(j) \/ ReplicationQueue!Refuse(j) \/ ReplicationQueue!Carry(j, j)
<1>1. /\ repPc \in [Actors -> {"idle", "done", "queue", "check", "start", "copy", "complete",
                               "fail", "retry", "sleep"}] /\ RepJobs \subseteq Actors /\ j \in Actors
      /\ RepWorkers \cap RepJobs = {} /\ RepNobody \notin RepJobs
      /\ repQueue \in Seq(RepJobs) /\ RepQueueSize \in Nat
  BY DEF RepShapes, Actors, ReplicationAssumption
<1>2. /\ ~Waits(j)
      /\ ~RepCarried(j)
      /\ ~RepSleeps(j)
      /\ RepPlaces[j] = "new"
      /\ ~RepCarries(j)
      /\ mine[j] = j
  BY DEF RepEnqueue, RepAt, RepKnown, RepCarries
<1>3. PICK l \in {"done", "start"} :
        /\ RepGoto(j, l)
        /\ \/ RepRoom /\ repQueue' = Append(repQueue, j) /\ l = "done"
           \/ ~RepRoom /\ repQueue' = repQueue /\ l = IF SyncMode THEN "start" ELSE "done"
  BY DEF RepEnqueue
<1>4. \A b \in Actors : repPc'[b] = IF b = j THEN l ELSE repPc[b]
  BY <1>1, <1>3 DEF RepGoto
<1>5. UNCHANGED <<mine, repRetries>>
  BY DEF RepEnqueue
<1>6. \A b \in Actors : RepCarries(b)' <=> RepCarries(b) \/ (b = j /\ l = "start")
  BY <1>2, <1>3, <1>4 DEF RepCarries
<1>7. RepRoom <=> ~ReplicationQueue!Full
  BY <1>1 DEF RepRoom, ReplicationQueue!Full
<1>8. \A y : Waits(y)' <=> Waits(y) \/ (y = j /\ RepRoom)
  <2>1. CASE RepRoom
    <3>1. \A m, n \in 1..Len(repQueue) : repQueue[m] = repQueue[n] => m = n
      BY DEF AtOnePlace
    <3>2. \A n \in 1..Len(repQueue) : repQueue[n] # j
      BY <1>2 DEF Waits
    <3>3. \A y : (\E n \in 1..Len(Append(repQueue, j)) : Append(repQueue, j)[n] = y)
                   <=> y = j \/ \E n \in 1..Len(repQueue) : repQueue[n] = y
      BY <1>1, <3>1, <3>2, Appended
    <3> QED BY <1>3, <2>1, <3>3 DEF Waits
  <2>2. CASE ~RepRoom
    BY <1>3, <2>2 DEF Waits
  <2> QED BY <2>1, <2>2
<1>9. \A i \in RepJobs \ {j} :
             /\ (repPc[i] \in {"idle", "queue"}) <=> (repPc'[i] \in {"idle", "queue"})
             /\ Waits(i) <=> Waits(i)'
             /\ RepSleeps(i) <=> RepSleeps(i)'
             /\ RepCarried(i) <=> RepCarried(i)'
  <2> TAKE i \in RepJobs \ {j}
  <2>1. (repPc[i] \in {"idle", "queue"}) <=> (repPc'[i] \in {"idle", "queue"})
    BY <1>1, <1>4
  <2>2. RepSleeps(i) <=> RepSleeps(i)'
    BY <1>1, <1>4, <1>5 DEF RepSleeps, Actors
  <2>3. RepCarried(i) <=> RepCarried(i)'
    BY <1>2, <1>5, <1>6 DEF RepCarried
  <2> QED BY <1>8, <2>1, <2>2, <2>3
<1>10. ~RepSleeps(j)' /\ repPc'[j] = l
  BY <1>1, <1>2, <1>4, <1>5 DEF RepSleeps, Actors
<1>11. CASE RepRoom
  <2>1. RepPlaces' = [RepPlaces EXCEPT ![j] = "waiting"]
    BY <1>8, <1>9, <1>11, RepOneMoves DEF RepKnown
  <2>2. RepHands' = RepHands
    BY <1>3, <1>5, <1>6, <1>11 DEF RepHands
  <2> QED BY <1>2, <1>3, <1>5, <1>7, <1>11, <2>1, <2>2 DEF ReplicationQueue!Submit, ReplicationQueue!Moves
<1>12. CASE ~RepRoom /\ SyncMode
  <2>1. RepCarried(j)'
    BY <1>1, <1>2, <1>3, <1>5, <1>6, <1>12 DEF RepCarried
  <2>2. RepPlaces' = [RepPlaces EXCEPT ![j] = "held"]
    BY <1>9, <1>10, <2>1, RepOneMoves DEF RepKnown
  <2>3. RepHands' = [RepHands EXCEPT ![j] = j] /\ RepHands[j] = RepNobody
    BY <1>1, <1>2, <1>3, <1>5, <1>6, <1>12 DEF RepHands
  <2> QED BY <1>2, <1>3, <1>5, <1>7, <1>12, <2>2, <2>3
          DEF ReplicationQueue!Carry, ReplicationQueue!Moves, ReplicationQueue!Takes
<1>13. CASE ~RepRoom /\ ~SyncMode
  <2>1. l = "done" /\ repQueue' = repQueue
    BY <1>3, <1>13
  <2>2. ~RepCarried(j)' /\ ~Waits(j)' /\ repPc'[j] \notin {"idle", "queue"}
    BY <1>2, <1>5, <1>6, <1>8, <1>10, <1>13, <2>1 DEF RepCarried
  <2>3. RepPlaces' = [RepPlaces EXCEPT ![j] = "over"]
    BY <1>9, <2>2, RepOneMoves DEF RepKnown
  <2>4. RepHands' = RepHands
    BY <1>5, <1>6, <2>1 DEF RepHands
  <2> QED BY <1>2, <1>5, <1>7, <1>13, <2>1, <2>3, <2>4
          DEF ReplicationQueue!Refuse, ReplicationQueue!Moves
<1> QED BY <1>11, <1>12, <1>13

\* A worker that takes the first job of the queue.
LEMMA RepTakeStep ==
    ASSUME ReplicationAssumption, RepShapes, AtOnePlace, RepKnown, RepKnown', NEW w \in RepWorkers,
           RepTake(w)
    PROVE  ReplicationQueue!Take(w)
<1>0. PICK x \in RepJobs : x = Head(repQueue)
  BY DEF RepTake, RepShapes
<1>1. /\ repPc \in [Actors -> {"idle", "done", "queue", "check", "start", "copy", "complete",
                               "fail", "retry", "sleep"}] /\ RepJobs \subseteq Actors /\ w \in Actors
      /\ w \notin RepJobs /\ RepNobody \notin RepJobs
      /\ repQueue \in Seq(RepJobs) /\ mine \in [Actors -> RepJobs \cup {RepNobody}]
      /\ \A m, n \in 1..Len(repQueue) : repQueue[m] = repQueue[n] => m = n
  BY DEF RepShapes, AtOnePlace, Actors, ReplicationAssumption
<1>2. /\ repPc[w] = "idle" /\ repQueue # << >> /\ repQueue' = Tail(repQueue)
      /\ RepGoto(w, "check") /\ mine' = [mine EXCEPT ![w] = x] /\ repRetries' = repRetries
  BY <1>0 DEF RepTake, RepAt
<1>3. /\ x \in RepJobs /\ Waits(x)
      /\ \A y : Waits(y)' <=> Waits(y) /\ y # x
  <2>1. /\ x \in RepJobs
        /\ \A n \in 1..Len(Tail(repQueue)) : Tail(repQueue)[n] # x
        /\ \A n \in 1..Len(Tail(repQueue)) : n + 1 \in 1..Len(repQueue) /\ Tail(repQueue)[n] = repQueue[n + 1]
        /\ 1 \in 1..Len(repQueue) /\ x = repQueue[1]
    BY <1>0, <1>1, <1>2, Taken
  <2>2. \A n \in 1..Len(repQueue) : n # 1 => n - 1 \in 1..Len(Tail(repQueue)) /\ Tail(repQueue)[n - 1] = repQueue[n]
    BY <1>1, <1>2
  <2>3. \A y : Waits(y)' => Waits(y) /\ y # x
    BY <1>2, <2>1 DEF Waits
  <2>4. \A y : Waits(y) /\ y # x => Waits(y)'
    BY <1>2, <2>1, <2>2 DEF Waits
  <2> QED BY <2>1, <2>3, <2>4 DEF Waits
<1>4. \A b \in Actors : repPc'[b] = (IF b = w THEN "check" ELSE repPc[b])
                        /\ mine'[b] = (IF b = w THEN x ELSE mine[b])
  BY <1>1, <1>2 DEF RepGoto
<1>5. \A b \in Actors : RepCarries(b)' <=> RepCarries(b) \/ b = w
  BY <1>4 DEF RepCarries
<1>6. ~RepCarries(w) /\ RepPlaces[x] = "waiting" /\ ~RepCarried(x)
  BY <1>2, <1>3 DEF RepCarries, RepKnown
<1>7. RepCarried(x)' /\ ~RepSleeps(x)'
  <2>1. RepCarried(x)'
    BY <1>1, <1>4, <1>5 DEF RepCarried
  <2>2. ~RepSleeps(x)'
    BY <1>4, <1>6 DEF RepSleeps, RepCarried, RepCarries, Actors
  <2> QED BY <2>1, <2>2
<1>8. RepPlace(x)' = "held"
  BY <1>3, <1>7 DEF RepKnown
<1>9. \A j \in RepJobs \ {x} :
             /\ (repPc[j] \in {"idle", "queue"}) <=> (repPc'[j] \in {"idle", "queue"})
             /\ Waits(j) <=> Waits(j)'
             /\ RepSleeps(j) <=> RepSleeps(j)'
             /\ RepCarried(j) <=> RepCarried(j)'
  <2> TAKE j \in RepJobs \ {x}
  <2>1. (repPc[j] \in {"idle", "queue"}) <=> (repPc'[j] \in {"idle", "queue"})
    BY <1>1, <1>4
  <2>2. RepSleeps(j) <=> RepSleeps(j)'
    BY <1>2, <1>4 DEF RepSleeps, Actors
  <2>3. RepCarried(j) <=> RepCarried(j)'
    BY <1>4, <1>5, <1>6 DEF RepCarried
  <2> QED BY <1>3, <2>1, <2>2, <2>3
<1>10. RepPlaces' = [RepPlaces EXCEPT ![x] = "held"]
  BY <1>8, <1>9, RepOneMoves
<1>11. RepHands' = [RepHands EXCEPT ![w] = x] /\ RepHands[w] = RepNobody
  BY <1>1, <1>4, <1>5, <1>6 DEF RepHands
<1> QED BY <1>0, <1>2, <1>6, <1>10, <1>11
        DEF ReplicationQueue!Take, ReplicationQueue!Moves, ReplicationQueue!Takes

\* A worker that is to retry its job later.
LEMMA RepRetryStep ==
    ASSUME ReplicationAssumption, RepShapes, RepKnown, RepKnown', NEW w \in RepWorkers,
           Retry(w), RepMayRetry(w)
    PROVE  ReplicationQueue!Retry(w)
<1>0. PICK x \in RepJobs : x = mine[w]
  BY DEF Retry, RepAt, RepShapes, Busy
<1>1. /\ repPc \in [Actors -> {"idle", "done", "queue", "check", "start", "copy", "complete",
                               "fail", "retry", "sleep"}] /\ RepJobs \subseteq Actors /\ w \in Actors
      /\ w \notin RepJobs /\ RepNobody \notin RepJobs
  BY DEF RepShapes, Actors, ReplicationAssumption
<1>2. /\ repPc[w] = "retry" /\ RepGoto(w, "sleep") /\ UNCHANGED <<mine, repQueue>>
      /\ repRetries' = [repRetries EXCEPT ![x] = @ + 1] /\ repRetries[x] < RepRetryAttempts
  BY <1>0 DEF Retry, RepAt, RepRest, RepMayRetry
<1>3. \A b \in Actors : repPc'[b] = IF b = w THEN "sleep" ELSE repPc[b]
  BY <1>1, <1>2 DEF RepGoto
<1>4. \A b \in Actors : RepCarries(b)' <=> RepCarries(b)
  BY <1>2, <1>3 DEF RepCarries
<1>5. RepCarries(w) /\ \A b \in Actors : RepCarries(b) /\ mine[b] = x => w = b
  BY <1>0, <1>1, <1>2 DEF RepKnown, RepCarries
<1>6. RepCarried(x) /\ ~RepSleeps(x)
  BY <1>0, <1>1, <1>2, <1>5 DEF RepCarried, RepSleeps, RepCarries, Actors
<1>7. RepPlaces[x] = "held" /\ RepHands[w] = x
  BY <1>0, <1>1, <1>5, <1>6 DEF RepKnown, RepHands
<1>8. RepPlace(x)' = "retry"
  <2>1. RepSleeps(x)'
    BY <1>0, <1>1, <1>2, <1>3 DEF RepSleeps
  <2> QED BY <2>1 DEF RepKnown
<1>9. \A j \in RepJobs \ {x} :
             /\ (repPc[j] \in {"idle", "queue"}) <=> (repPc'[j] \in {"idle", "queue"})
             /\ Waits(j) <=> Waits(j)'
             /\ RepSleeps(j) <=> RepSleeps(j)'
             /\ RepCarried(j) <=> RepCarried(j)'
  <2> TAKE j \in RepJobs \ {x}
  <2>1. (repPc[j] \in {"idle", "queue"}) <=> (repPc'[j] \in {"idle", "queue"})
    BY <1>1, <1>3
  <2>2. RepSleeps(j) <=> RepSleeps(j)'
    BY <1>0, <1>2, <1>3 DEF RepSleeps, Actors
  <2>3. RepCarried(j) <=> RepCarried(j)'
    BY <1>2, <1>4 DEF RepCarried
  <2> QED BY <1>2, <2>1, <2>2, <2>3 DEF Waits
<1>10. RepPlaces' = [RepPlaces EXCEPT ![x] = "retry"]
  BY <1>8, <1>9, RepOneMoves
<1>11. RepHands' = RepHands
  BY <1>2, <1>4 DEF RepHands
<1> QED BY <1>1, <1>2, <1>7, <1>10, <1>11 DEF ReplicationQueue!Retry, ReplicationQueue!Moves

\* A worker that puts its job back, or drops it because the queue is full.
LEMMA RepRequeueStep ==
    ASSUME ReplicationAssumption, RepShapes, AtOnePlace, RepKnown, RepKnown', NEW w \in RepWorkers,
           RepRequeue(w)
    PROVE  ReplicationQueue!Return(w)
<1>0. PICK x \in RepJobs : x = mine[w]
  BY DEF RepRequeue, RepAt, RepShapes, Busy
<1>1. /\ repPc \in [Actors -> {"idle", "done", "queue", "check", "start", "copy", "complete",
                               "fail", "retry", "sleep"}] /\ RepJobs \subseteq Actors /\ w \in Actors
      /\ w \notin RepJobs /\ RepNobody \notin RepJobs
      /\ repQueue \in Seq(RepJobs) /\ RepQueueSize \in Nat
  BY DEF RepShapes, Actors, ReplicationAssumption
<1>2. /\ repPc[w] = "sleep" /\ RepGoto(w, "idle") /\ UNCHANGED <<mine, repRetries>>
      /\ repQueue' = IF RepRoom THEN Append(repQueue, x) ELSE repQueue
  BY <1>0 DEF RepRequeue, RepAt, RepRest
<1>3. \A b \in Actors : repPc'[b] = IF b = w THEN "idle" ELSE repPc[b]
  BY <1>1, <1>2 DEF RepGoto
<1>4. \A b \in Actors : RepCarries(b)' <=> RepCarries(b) /\ b # w
  BY <1>3 DEF RepCarries
<1>5. /\ RepCarries(w) /\ ~Waits(x) /\ repPc[x] \notin {"idle", "queue"}
      /\ \A b \in Actors : RepCarries(b) /\ mine[b] = x => w = b
  BY <1>0, <1>1, <1>2 DEF RepKnown, RepCarries
<1>6. RepSleeps(x) /\ RepPlaces[x] = "retry" /\ RepHands[w] = x
  BY <1>0, <1>1, <1>2, <1>5 DEF RepKnown, RepHands, RepSleeps
<1>7. RepRoom <=> ~ReplicationQueue!Full
  BY <1>1 DEF RepRoom, ReplicationQueue!Full
<1>8. \A y : Waits(y)' <=> Waits(y) \/ (y = x /\ RepRoom)
  <2>1. CASE RepRoom
    <3>1. \A m, n \in 1..Len(repQueue) : repQueue[m] = repQueue[n] => m = n
      BY DEF AtOnePlace
    <3>2. \A n \in 1..Len(repQueue) : repQueue[n] # x
      BY <1>5 DEF Waits
    <3>3. \A y : (\E n \in 1..Len(Append(repQueue, x)) : Append(repQueue, x)[n] = y)
                   <=> y = x \/ \E n \in 1..Len(repQueue) : repQueue[n] = y
      BY <1>1, <3>1, <3>2, Appended
    <3> QED BY <1>2, <2>1, <3>3 DEF Waits
  <2>2. CASE ~RepRoom
    BY <1>2, <2>2 DEF Waits
  <2> QED BY <2>1, <2>2
<1>9. ~RepCarried(x)' /\ repPc'[x] \notin {"idle", "queue"}
  BY <1>1, <1>2, <1>3, <1>4, <1>5 DEF RepCarried
<1>10. \A j \in RepJobs \ {x} :
             /\ (repPc[j] \in {"idle", "queue"}) <=> (repPc'[j] \in {"idle", "queue"})
             /\ Waits(j) <=> Waits(j)'
             /\ RepSleeps(j) <=> RepSleeps(j)'
             /\ RepCarried(j) <=> RepCarried(j)'
  <2> TAKE j \in RepJobs \ {x}
  <2>1. (repPc[j] \in {"idle", "queue"}) <=> (repPc'[j] \in {"idle", "queue"})
    BY <1>1, <1>3
  <2>2. RepSleeps(j) <=> RepSleeps(j)'
    BY <1>0, <1>2, <1>3 DEF RepSleeps, Actors
  <2>3. RepCarried(j) <=> RepCarried(j)'
    BY <1>0, <1>2, <1>4 DEF RepCarried
  <2> QED BY <1>8, <2>1, <2>2, <2>3
<1>11. RepHands' = [RepHands EXCEPT ![w] = RepNobody]
  BY <1>2, <1>4 DEF RepHands
<1>12. CASE RepRoom
  <2>1. RepPlaces' = [RepPlaces EXCEPT ![x] = "waiting"]
    BY <1>8, <1>10, <1>12, RepOneMoves DEF RepKnown
  <2> QED BY <1>1, <1>2, <1>6, <1>7, <1>11, <1>12, <2>1
          DEF ReplicationQueue!Return, ReplicationQueue!Moves, ReplicationQueue!Takes
<1>13. CASE ~RepRoom
  <2>1. RepPlaces' = [RepPlaces EXCEPT ![x] = "over"]
    BY <1>5, <1>8, <1>9, <1>10, <1>13, RepOneMoves DEF RepKnown
  <2> QED BY <1>1, <1>2, <1>6, <1>7, <1>11, <1>13, <2>1
          DEF ReplicationQueue!Return, ReplicationQueue!Moves, ReplicationQueue!Takes
<1> QED BY <1>12, <1>13

\* Each step of the service is a step of the abstract queue, or none.
LEMMA RepQueueStep ==
    ASSUME ReplicationAssumption, RepInv, RepInv', [RepNext]_repVars
    PROVE  [ReplicationQueue!JobNext]_(ReplicationQueue!jobVars)
<1>1. RepShapes /\ AtOnePlace /\ RepKnown /\ RepKnown'
  BY RepPlaceOf, RepPlaceNext DEF RepInv
<1>2. CASE UNCHANGED <<repPc, mine, repQueue, repRetries>>
  BY <1>2 DEF ReplicationQueue!jobVars, RepPlaces, RepPlace, RepHands, RepCarries, RepSleeps
<1>3. ASSUME NEW j \in RepJobs, Replicate(j) PROVE UNCHANGED ReplicationQueue!jobVars
  BY <1>1, <1>3, RepGoesOn DEF Replicate, RepAt, RepRest, RepCarries, Actors
<1>4. ASSUME NEW j \in RepJobs, RepEnqueue(j) PROVE ReplicationQueue!JobNext
  <2>1. j \in Actors
    BY DEF Actors
  <2> QED BY <1>1, <1>4, <2>1, RepEnqueueStep DEF ReplicationQueue!JobNext
<1>5. ASSUME NEW w \in RepWorkers, RepTake(w) PROVE ReplicationQueue!JobNext
  <2>1. w \in Actors
    BY DEF Actors
  <2> QED BY <1>1, <1>5, <2>1, RepTakeStep DEF ReplicationQueue!JobNext
<1>6. ASSUME NEW w \in RepWorkers, CheckPending(w)
      PROVE  ReplicationQueue!JobNext \/ UNCHANGED ReplicationQueue!jobVars
  <2>1. w \in Actors /\ RepCarries(w) /\ repPc[w] = "check"
    BY <1>6 DEF CheckPending, RepAt, RepCarries, Actors
  <2>2. CASE StillPending(w)
    BY <1>1, <1>6, <2>1, <2>2, RepGoesOn DEF CheckPending, RepRest
  <2>3. CASE ~StillPending(w)
    <3>1. ReplicationQueue!Release(w)
      BY <1>1, <1>6, <2>1, <2>3, RepLaysDown DEF CheckPending, RepRest
    <3> QED BY <2>1, <3>1 DEF ReplicationQueue!JobNext
  <2> QED BY <2>2, <2>3
<1>7. ASSUME NEW a \in Actors, Execute(a)
      PROVE  ReplicationQueue!JobNext \/ UNCHANGED ReplicationQueue!jobVars
  <2>1. RepCarries(a) /\ repPc[a] # "sleep" /\ repPc[a] \notin {"idle", "queue"}
    BY <1>7 DEF Execute, StartJob, RepCopy, RepComplete, RepFail, RepAt, RepCarries
  <2>2. UNCHANGED <<repQueue, repRetries, mine>>
    BY <1>7 DEF Execute, StartJob, RepCopy, RepComplete, RepFail
  <2>3. \/ \E l \in {"copy", "complete", "fail", "retry"} : RepGoto(a, l)
        \/ RepGoto(a, IF a \in RepWorkers THEN "idle" ELSE "done")
    BY <1>7 DEF Execute, StartJob, RepCopy, RepComplete, RepFail
  <2>4. CASE \E l \in {"copy", "complete", "fail", "retry"} : RepGoto(a, l)
    BY <1>1, <2>1, <2>2, <2>4, RepGoesOn
  <2>5. CASE RepGoto(a, IF a \in RepWorkers THEN "idle" ELSE "done")
    <3>1. ReplicationQueue!Release(a)
      BY <1>1, <2>1, <2>2, <2>5, RepLaysDown
    <3> QED BY <3>1 DEF ReplicationQueue!JobNext
  <2> QED BY <2>3, <2>4, <2>5
<1>8. ASSUME NEW w \in RepWorkers, Retry(w) PROVE ReplicationQueue!JobNext
  <2>1. w \in Actors /\ RepCarries(w) /\ repPc[w] = "retry"
    BY <1>8 DEF Retry, RepAt, RepCarries, Actors
  <2>2. CASE RepMayRetry(w)
    BY <1>1, <1>8, <2>1, <2>2, RepRetryStep DEF ReplicationQueue!JobNext
  <2>3. CASE ~RepMayRetry(w)
    <3>1. ReplicationQueue!Release(w)
      BY <1>1, <1>8, <2>1, <2>3, RepLaysDown DEF Retry, RepRest
    <3> QED BY <2>1, <3>1 DEF ReplicationQueue!JobNext
  <2> QED BY <2>2, <2>3
<1>9. ASSUME NEW w \in RepWorkers, RepRequeue(w) PROVE ReplicationQueue!JobNext
  <2>1. w \in Actors
    BY DEF Actors
  <2> QED BY <1>1, <1>9, <2>1, RepRequeueStep DEF ReplicationQueue!JobNext
<1>10. ASSUME NEW j \in RepJobs,
              CheckCancel(j) \/ Cancel(j) PROVE UNCHANGED <<repPc, mine, repQueue, repRetries>>
  BY <1>10 DEF CheckCancel, Cancel
<1>11. CASE DeleteSource
  BY <1>2, <1>11 DEF DeleteSource
<1>12. CASE UNCHANGED repVars
  BY <1>2, <1>12 DEF repVars
<1> QED BY <1>2, <1>3, <1>4, <1>5, <1>6, <1>7, <1>8, <1>9, <1>10, <1>11, <1>12
        DEF RepNext, Finish, RepWork, Actors

\* Replication keeps what a queue of jobs promises.
LEMMA ReplicationIsAQueue == ASSUME ReplicationAssumption PROVE RepSpec => ReplicationQueue!JobSpec
<1>1. RepInit => ReplicationQueue!JobInit
  <2> SUFFICES ASSUME RepInit PROVE ReplicationQueue!JobInit
    OBVIOUS
  <2>1. \A j \in RepJobs : repPc[j] = "idle"
    BY DEF RepInit, Actors
  <2>2. \A a \in Actors : ~RepCarries(a)
    BY DEF RepInit, RepCarries
  <2>3. RepPlaces = [j \in RepJobs |-> "new"]
    <3>1. \A j \in RepJobs : RepPlace(j) = "new"
      BY <2>1, RepPlaceOf, ReplicationInit DEF RepKnown
    <3> QED BY <3>1 DEF RepPlaces
  <2>4. RepHands = [a \in Actors |-> RepNobody]
    BY <2>2 DEF RepHands
  <2> QED BY <2>3, <2>4 DEF RepInit, ReplicationQueue!JobInit
<1>2. RepInv /\ RepInv' /\ [RepNext]_repVars => [ReplicationQueue!JobNext]_(ReplicationQueue!jobVars)
  BY RepQueueStep
<1> QED BY <1>1, <1>2, ReplicationInvariant, PTL DEF RepSpec, ReplicationQueue!JobSpec

------------------------------------------------------------------------------
\* Publication: where a job is.
PubKnown ==
    /\ \A j \in PubJobs : PubPlaces[j] = PubPlace(j)
    /\ \A j \in PubJobs : pubUpc[j] # "done" => ~PubWaits(j) /\ ~PubInHand(j) /\ PubPlace(j) = "new"
    /\ \A j \in PubJobs : PubWaits(j) => pubUpc[j] = "done" /\ ~PubInHand(j) /\ PubPlace(j) = "waiting"
    /\ \A j \in PubJobs : PubSleeps(j) => PubInHand(j) /\ PubPlace(j) = "retry"
    /\ \A j \in PubJobs : PubInHand(j) /\ ~PubSleeps(j) => PubPlace(j) = "held"
    /\ \A j \in PubJobs : pubUpc[j] = "done" /\ ~PubWaits(j) /\ ~PubInHand(j) => PubPlace(j) = "over"
    /\ \A v, w \in PubWorkers : wjob[v] = wjob[w] /\ wjob[v] # NoJob => v = w
    /\ \A w \in PubWorkers : wjob[w] # NoJob =>
         Has(w) /\ wjob[w] \in PubJobs /\ pubUpc[wjob[w]] = "done" /\ ~PubWaits(wjob[w])
    /\ NoJob \notin PubJobs

\* The places are told apart by whoever has the job.
LEMMA PubPlaceOf == ASSUME PublishAssumption, PubInv PROVE PubKnown
<1> USE DEF PubInv, PubShapes, PubOnePlace, PublishAssumption
<1>1. \A j : j \in ToSet(pubQueue) <=> PubWaits(j)
  BY InQueue DEF PubWaits
<1>2. \A w \in PubWorkers : wjob[w] # NoJob =>
        Has(w) /\ wjob[w] \in PubJobs /\ pubUpc[wjob[w]] = "done" /\ ~PubWaits(wjob[w])
  OBVIOUS
<1>3. \A v, w \in PubWorkers : wjob[v] = wjob[w] /\ wjob[v] # NoJob => v = w
  BY <1>2
<1>4. NoJob \notin PubJobs /\ \A j \in PubJobs : PubSleeps(j) => PubInHand(j)
  BY DEF PubSleeps, PubInHand
<1> HIDE DEF PubInv, PubShapes, PubOnePlace, PublishAssumption
<1>5. \A j \in PubJobs : PubInHand(j) => pubUpc[j] = "done" /\ ~PubWaits(j)
  BY <1>2, <1>4 DEF PubInHand
<1>6. \A j \in PubJobs : PubWaits(j) => pubUpc[j] = "done"
  BY DEF PubInv, PubOnePlace
<1>7. \A j \in PubJobs : PubPlace(j) = IF pubUpc[j] # "done" THEN "new"
                                       ELSE IF PubWaits(j) THEN "waiting"
                                       ELSE IF PubSleeps(j) THEN "retry"
                                       ELSE IF PubInHand(j) THEN "held" ELSE "over"
  BY <1>1, <1>4, <1>5, <1>6 DEF PubPlace
<1>8. \A j \in PubJobs : PubPlaces[j] = PubPlace(j)
  BY DEF PubPlaces
<1> QED BY <1>2, <1>3, <1>4, <1>5, <1>6, <1>7, <1>8 DEF PubKnown

\* And after a step.
LEMMA PubPlaceNext == ASSUME PublishAssumption PROVE PubInv' => PubKnown'
<1>1. PubInv => PubKnown
  BY PubPlaceOf
<1> QED BY <1>1, PTL

\* A step that moves the places of no job but one.
LEMMA PubOneMoves ==
    ASSUME PubKnown, PubKnown', NEW x, NEW p, x \in PubJobs => PubPlace(x)' = p,
           \A j \in PubJobs \ {x} :
             /\ (pubUpc[j] = "done") <=> (pubUpc'[j] = "done")
             /\ PubWaits(j) <=> PubWaits(j)'
             /\ PubSleeps(j) <=> PubSleeps(j)'
             /\ PubInHand(j) <=> PubInHand(j)'
    PROVE  PubPlaces' = [PubPlaces EXCEPT ![x] = p]
<1>1. \A j \in PubJobs \ {x} : PubPlace(j)' = PubPlace(j)
  <2> TAKE j \in PubJobs \ {x}
  <2>1. CASE pubUpc[j] # "done"
    BY <2>1 DEF PubKnown
  <2>2. CASE PubWaits(j)
    BY <2>2 DEF PubKnown
  <2>3. CASE PubSleeps(j)
    BY <2>3 DEF PubKnown
  <2>4. CASE PubInHand(j) /\ ~PubSleeps(j)
    BY <2>4 DEF PubKnown
  <2>5. CASE pubUpc[j] = "done" /\ ~PubWaits(j) /\ ~PubInHand(j)
    BY <2>5 DEF PubKnown
  <2> QED BY <2>1, <2>2, <2>3, <2>4, <2>5
<1> QED BY <1>1 DEF PubPlaces

\* A step in which no job leaves its place.
LEMMA PubStays ==
    ASSUME PubKnown, PubKnown',
           \A j \in PubJobs : (pubUpc[j] = "done") <=> (pubUpc'[j] = "done"),
           \A w \in PubWorkers : wpc[w] = "sleep" <=> wpc'[w] = "sleep",
           UNCHANGED <<pubQueue, wjob, pubRetries>>
    PROVE  UNCHANGED PublishQueue!jobVars
<1>1. \A j \in PubJobs :
             /\ (pubUpc[j] = "done") <=> (pubUpc'[j] = "done")
             /\ PubWaits(j) <=> PubWaits(j)'
             /\ PubSleeps(j) <=> PubSleeps(j)'
             /\ PubInHand(j) <=> PubInHand(j)'
  BY DEF PubWaits, PubSleeps, PubInHand
<1>2. NoJob \notin PubJobs
  BY DEF PubKnown
<1>3. PubPlaces' = [PubPlaces EXCEPT ![NoJob] = "over"]
  BY <1>1, <1>2, PubOneMoves
<1>4. PubPlaces' = PubPlaces
  BY <1>2, <1>3 DEF PubPlaces
<1> QED BY <1>4 DEF PublishQueue!jobVars

\* A worker that lays its job down for good.
LEMMA PubLaysDown ==
    ASSUME PubShapes, PubKnown, PubKnown', NEW w \in PubWorkers,
           Has(w), wpc[w] # "sleep", PubGoto(w, "idle"),
           wjob' = [wjob EXCEPT ![w] = NoJob], UNCHANGED <<pubQueue, pubRetries, pubUpc>>
    PROVE  PublishQueue!Release(w)
<1>0. PICK x \in PubJobs : x = wjob[w]
  BY DEF PubShapes
<1>1. \A v \in PubWorkers : wpc'[v] = (IF v = w THEN "idle" ELSE wpc[v])
                            /\ wjob'[v] = (IF v = w THEN NoJob ELSE wjob[v])
  BY DEF PubGoto, PubShapes
<1>2. /\ PubInHand(x)
      /\ ~PubSleeps(x)
      /\ PubPlaces[x] = "held"
      /\ pubUpc[x] = "done"
      /\ ~PubWaits(x)
      /\ \A v \in PubWorkers : wjob[v] = x => v = w
  BY <1>0 DEF PubKnown, PubInHand, PubSleeps
<1>3. ~PubInHand(x)' /\ ~PubWaits(x)' /\ pubUpc'[x] = "done"
  BY <1>0, <1>1, <1>2 DEF PubInHand, PubWaits, PubKnown
<1>4. \A j \in PubJobs \ {x} :
             /\ (pubUpc[j] = "done") <=> (pubUpc'[j] = "done")
             /\ PubWaits(j) <=> PubWaits(j)'
             /\ PubSleeps(j) <=> PubSleeps(j)'
             /\ PubInHand(j) <=> PubInHand(j)'
  BY <1>0, <1>1 DEF PubKnown, PubWaits, PubSleeps, PubInHand
<1>5. PubPlaces' = [PubPlaces EXCEPT ![x] = "over"]
  <2>1. PubPlace(x)' = "over"
    BY <1>3 DEF PubKnown
  <2> QED BY <1>4, <2>1, PubOneMoves
<1>6. NoJob \notin PubJobs
  BY DEF PubKnown
<1> QED BY <1>0, <1>2, <1>5, <1>6 DEF PublishQueue!Release, PublishQueue!Moves, PublishQueue!Takes

\* The queue after a job that did not wait has been put at its end, or dropped.
LEMMA PubAppended ==
    ASSUME PublishAssumption, PubShapes, PubOnePlace, NEW x \in PubJobs, ~PubWaits(x),
           pubQueue' = IF PubRoom THEN Append(pubQueue, x) ELSE pubQueue
    PROVE  /\ PubRoom <=> ~PublishQueue!Full
           /\ \A y : PubWaits(y)' <=> PubWaits(y) \/ (y = x /\ PubRoom)
<1>1. pubQueue \in Seq(PubJobs) /\ PubQueueSize \in Nat
      /\ \A m, n \in 1..Len(pubQueue) : pubQueue[m] = pubQueue[n] => m = n
  BY DEF PubShapes, PubOnePlace, PublishAssumption
<1>2. PubRoom <=> ~PublishQueue!Full
  BY <1>1 DEF PubRoom, PublishQueue!Full
<1>3. CASE PubRoom
  <2>1. \A n \in 1..Len(pubQueue) : pubQueue[n] # x
    BY DEF PubWaits
  <2>2. \A y : (\E n \in 1..Len(Append(pubQueue, x)) : Append(pubQueue, x)[n] = y)
                 <=> y = x \/ \E n \in 1..Len(pubQueue) : pubQueue[n] = y
    BY <1>1, <2>1, Appended
  <2> QED BY <1>2, <1>3, <2>2 DEF PubWaits
<1>4. CASE ~PubRoom
  BY <1>2, <1>4 DEF PubWaits
<1> QED BY <1>3, <1>4

\* A call that has its job queued or dropped.
LEMMA PubEnqueueStep ==
    ASSUME PublishAssumption, PubShapes, PubOnePlace, PubKnown, PubKnown', NEW j \in PubJobs,
           PubEnqueue(j)
    PROVE  PublishQueue!Submit(j) \/ PublishQueue!Refuse(j)
<1>1. /\ pubUpc[j] = "queue" /\ UNCHANGED <<wjob, wpc, pubRetries>> /\ pubUpc'[j] = "done"
      /\ \A i \in PubJobs \ {j} : pubUpc'[i] = pubUpc[i]
      /\ pubQueue' = IF PubRoom THEN Append(pubQueue, j) ELSE pubQueue
  BY DEF PubEnqueue, UGoto, PubShapes, worker
<1>2. ~PubWaits(j) /\ ~PubInHand(j) /\ PubPlaces[j] = "new"
  BY <1>1 DEF PubKnown
<1>3. /\ PubRoom <=> ~PublishQueue!Full
      /\ \A y : PubWaits(y)' <=> PubWaits(y) \/ (y = j /\ PubRoom)
  BY <1>1, <1>2, PubAppended
<1>4. \A i \in PubJobs : (PubSleeps(i) <=> PubSleeps(i)') /\ (PubInHand(i) <=> PubInHand(i)')
  BY <1>1 DEF PubSleeps, PubInHand
<1>5. CASE PubRoom
  <2>1. PubPlaces' = [PubPlaces EXCEPT ![j] = "waiting"]
    <3>1. PubPlace(j)' = "waiting"
      BY <1>3, <1>5 DEF PubKnown
    <3>2. \A i \in PubJobs \ {j} : (PubWaits(i) <=> PubWaits(i)') /\ pubUpc'[i] = pubUpc[i]
      BY <1>1, <1>3
    <3> QED BY <1>4, <3>1, <3>2, PubOneMoves
  <2> QED BY <1>1, <1>2, <1>3, <1>5, <2>1 DEF PublishQueue!Submit, PublishQueue!Moves
<1>6. CASE ~PubRoom
  <2>1. PubPlaces' = [PubPlaces EXCEPT ![j] = "over"]
    <3>1. PubPlace(j)' = "over"
      BY <1>1, <1>2, <1>3, <1>4, <1>6 DEF PubKnown
    <3> QED BY <1>1, <1>3, <1>4, <1>6, <3>1, PubOneMoves
  <2> QED BY <1>1, <1>2, <1>3, <1>6, <2>1 DEF PublishQueue!Refuse, PublishQueue!Moves
<1> QED BY <1>5, <1>6

\* An upload whose row could not be made queues nothing.
LEMMA PubCreateStep ==
    ASSUME PublishAssumption, PubShapes, PubKnown, PubKnown', NEW j \in PubJobs,
           CreateFederationEvent(j)
    PROVE  PublishQueue!Refuse(j) \/ UNCHANGED PublishQueue!jobVars
<1>1. /\ pubUpc[j] = "create" /\ UNCHANGED <<wjob, wpc, pubRetries, pubQueue>>
      /\ \A i \in PubJobs \ {j} : pubUpc'[i] = pubUpc[i]
  BY DEF CreateFederationEvent, UGoto, PubShapes, worker
<1>2. \A i \in PubJobs : /\ PubWaits(i) <=> PubWaits(i)'
                         /\ PubSleeps(i) <=> PubSleeps(i)'
                         /\ PubInHand(i) <=> PubInHand(i)'
  BY <1>1 DEF PubWaits, PubSleeps, PubInHand
<1>3. CASE pubUpc'[j] = "queue"
  BY <1>1, <1>3, PubStays
<1>4. CASE pubUpc'[j] = "done" /\ "db" \in PubFaults
  <2>1. PubPlace(j)' = "over" /\ PubPlaces[j] = "new"
    BY <1>1, <1>2, <1>4 DEF PubKnown
  <2>2. PubPlaces' = [PubPlaces EXCEPT ![j] = "over"]
    BY <1>1, <1>2, <2>1, PubOneMoves
  <2> QED BY <1>1, <1>4, <2>1, <2>2 DEF PublishQueue!Refuse, PublishQueue!Moves
<1> QED BY <1>3, <1>4 DEF CreateFederationEvent, UGoto, PubShapes

\* A worker that takes the first job of the queue.
LEMMA PubTakeStep ==
    ASSUME PublishAssumption, PubShapes, PubOnePlace, PubKnown, PubKnown', NEW w \in PubWorkers,
           PubTake(w)
    PROVE  PublishQueue!Take(w)
<1>0. PICK x \in PubJobs : x = Head(pubQueue)
  BY DEF PubTake, PubShapes
<1>1. /\ pubQueue \in Seq(PubJobs) /\ wjob \in [PubWorkers -> PubJobs \cup {NoJob}]
      /\ wpc[w] = "idle" /\ pubQueue # << >> /\ pubQueue' = Tail(pubQueue)
      /\ wjob[w] = NoJob /\ wjob' = [wjob EXCEPT ![w] = x] /\ UNCHANGED <<pubRetries, pubUpc>>
      /\ wpc'[w] = "publish" /\ \A v \in PubWorkers \ {w} : wpc'[v] = wpc[v]
      /\ \A m, n \in 1..Len(pubQueue) : pubQueue[m] = pubQueue[n] => m = n
  BY <1>0 DEF PubTake, Received, PubShapes, PubOnePlace, Has, PubGoto
<1>2. /\ PubWaits(x) /\ \A y : PubWaits(y)' <=> PubWaits(y) /\ y # x
  <2>1. /\ \A n \in 1..Len(Tail(pubQueue)) : Tail(pubQueue)[n] # x
        /\ \A n \in 1..Len(Tail(pubQueue)) : n + 1 \in 1..Len(pubQueue) /\ Tail(pubQueue)[n] = pubQueue[n + 1]
        /\ 1 \in 1..Len(pubQueue) /\ x = pubQueue[1]
    BY <1>0, <1>1, Taken
  <2>2. \A n \in 1..Len(pubQueue) : n # 1 => n - 1 \in 1..Len(Tail(pubQueue)) /\ Tail(pubQueue)[n - 1] = pubQueue[n]
    BY <1>1
  <2>3. \A y : PubWaits(y)' => PubWaits(y) /\ y # x
    BY <1>1, <2>1 DEF PubWaits
  <2>4. ASSUME NEW y, PubWaits(y), y # x PROVE PubWaits(y)'
    <3>1. PICK n \in 1..Len(pubQueue) : pubQueue[n] = y /\ n # 1
      BY <2>1, <2>4 DEF PubWaits
    <3>2. n - 1 \in 1..Len(Tail(pubQueue)) /\ Tail(pubQueue)[n - 1] = y
      BY <2>2, <3>1
    <3> QED BY <1>1, <3>2 DEF PubWaits
  <2> QED BY <2>1, <2>3, <2>4 DEF PubWaits
<1>3. PubPlaces[x] = "waiting" /\ ~PubInHand(x)
  BY <1>2 DEF PubKnown
<1>4. PubPlace(x)' = "held"
  <2>1. PubInHand(x)' /\ ~PubSleeps(x)'
    BY <1>1, <1>3 DEF PubInHand, PubSleeps
  <2> QED BY <2>1 DEF PubKnown
<1>5. \A j \in PubJobs \ {x} :
             /\ (pubUpc[j] = "done") <=> (pubUpc'[j] = "done")
             /\ PubWaits(j) <=> PubWaits(j)'
             /\ PubSleeps(j) <=> PubSleeps(j)'
             /\ PubInHand(j) <=> PubInHand(j)'
  BY <1>1, <1>2 DEF PubKnown, PubSleeps, PubInHand
<1>6. PubPlaces' = [PubPlaces EXCEPT ![x] = "held"]
  BY <1>4, <1>5, PubOneMoves
<1> QED BY <1>0, <1>1, <1>3, <1>6 DEF PublishQueue!Take, PublishQueue!Moves, PublishQueue!Takes

\* A worker whose round failed: it is to retry its job, or gives it up.
LEMMA PubFailStep ==
    ASSUME PublishAssumption, PubShapes, PubKnown, PubKnown', NEW w \in PubWorkers, PubFail(w)
    PROVE  PublishQueue!Retry(w) \/ PublishQueue!Release(w)
<1>0. PICK x \in PubJobs : x = wjob[w]
  BY DEF PubFail, PubShapes, Has
<1>1. /\ wpc[w] = "fail" /\ Has(w) /\ wjob[w] # NoJob /\ UNCHANGED <<pubQueue, pubUpc>>
  BY DEF PubFail, PubShapes, Has
<1>2. CASE PubMayRetry(x)
  <2>1. /\ pubRetries' = [pubRetries EXCEPT ![x] = @ + 1] /\ pubRetries[x] < PubRetryAttempts
        /\ wjob' = wjob /\ wpc'[w] = "sleep" /\ \A v \in PubWorkers \ {w} : wpc'[v] = wpc[v]
    BY <1>0, <1>1, <1>2 DEF PubFail, PubMayRetry, PubCounted, PubGoto, PubShapes
  <2>2. /\ PubInHand(x) /\ ~PubSleeps(x) /\ PubPlaces[x] = "held"
    BY <1>0, <1>1 DEF PubKnown, PubInHand, PubSleeps
  <2>3. PubPlace(x)' = "retry"
    <3>1. PubSleeps(x)'
      BY <1>0, <2>1 DEF PubSleeps
    <3> QED BY <3>1 DEF PubKnown
  <2>4. \A j \in PubJobs \ {x} :
             /\ (pubUpc[j] = "done") <=> (pubUpc'[j] = "done")
             /\ PubWaits(j) <=> PubWaits(j)'
             /\ PubSleeps(j) <=> PubSleeps(j)'
             /\ PubInHand(j) <=> PubInHand(j)'
    BY <1>0, <1>1, <2>1 DEF PubWaits, PubSleeps, PubInHand
  <2>5. PubPlaces' = [PubPlaces EXCEPT ![x] = "retry"]
    BY <2>3, <2>4, PubOneMoves
  <2> QED BY <1>0, <1>1, <2>1, <2>2, <2>5 DEF PublishQueue!Retry, PublishQueue!Moves
<1>3. CASE ~PubMayRetry(x)
  BY <1>0, <1>1, <1>3, PubLaysDown DEF PubFail
<1> QED BY <1>2, <1>3

\* A worker that puts its job back, or drops it because the queue is full.
LEMMA PubRequeueStep ==
    ASSUME PublishAssumption, PubShapes, PubOnePlace, PubKnown, PubKnown', NEW w \in PubWorkers,
           PubRequeue(w)
    PROVE  PublishQueue!Return(w)
<1>0. PICK x \in PubJobs : x = wjob[w]
  BY DEF PubRequeue, PubShapes, Has
<1>1. /\ wjob \in [PubWorkers -> PubJobs \cup {NoJob}]
      /\ wpc[w] = "sleep" /\ UNCHANGED <<pubRetries, pubUpc>> /\ wjob' = [wjob EXCEPT ![w] = NoJob]
      /\ wpc'[w] = "idle" /\ \A v \in PubWorkers \ {w} : wpc'[v] = wpc[v]
      /\ pubQueue' = IF PubRoom THEN Append(pubQueue, x) ELSE pubQueue
  BY <1>0 DEF PubRequeue, PubShapes, PubGoto
<1>2. /\ PubSleeps(x) /\ PubPlaces[x] = "retry" /\ pubUpc[x] = "done" /\ ~PubWaits(x)
      /\ x # NoJob /\ \A v \in PubWorkers : wjob[v] = x => v = w
  BY <1>0, <1>1 DEF PubKnown, PubSleeps
<1>3. /\ PubRoom <=> ~PublishQueue!Full
      /\ \A y : PubWaits(y)' <=> PubWaits(y) \/ (y = x /\ PubRoom)
  BY <1>1, <1>2, PubAppended
<1>4. ~PubInHand(x)' /\ pubUpc'[x] = "done"
  BY <1>1, <1>2 DEF PubInHand
<1>5. \A j \in PubJobs \ {x} :
             /\ (pubUpc[j] = "done") <=> (pubUpc'[j] = "done")
             /\ PubWaits(j) <=> PubWaits(j)'
             /\ PubSleeps(j) <=> PubSleeps(j)'
             /\ PubInHand(j) <=> PubInHand(j)'
  BY <1>0, <1>1, <1>3 DEF PubKnown, PubSleeps, PubInHand
<1>6. CASE PubRoom
  <2>1. PubPlaces' = [PubPlaces EXCEPT ![x] = "waiting"]
    <3>1. PubPlace(x)' = "waiting"
      BY <1>3, <1>6 DEF PubKnown
    <3> QED BY <1>5, <3>1, PubOneMoves
  <2> QED BY <1>0, <1>1, <1>2, <1>3, <1>6, <2>1
          DEF PublishQueue!Return, PublishQueue!Moves, PublishQueue!Takes
<1>7. CASE ~PubRoom
  <2>1. PubPlaces' = [PubPlaces EXCEPT ![x] = "over"]
    <3>1. PubPlace(x)' = "over"
      BY <1>2, <1>3, <1>4, <1>7 DEF PubKnown
    <3> QED BY <1>5, <3>1, PubOneMoves
  <2> QED BY <1>0, <1>1, <1>2, <1>3, <1>7, <2>1
          DEF PublishQueue!Return, PublishQueue!Moves, PublishQueue!Takes
<1> QED BY <1>6, <1>7

\* A restart loses every job that has been made.
LEMMA PubRestartStep ==
    ASSUME PublishAssumption, PubShapes, PubKnown, PubKnown', PubRestart
    PROVE  PublishQueue!Crash
<1> DEFINE lost == {j \in PubJobs : pubUpc[j] = "queue"}
<1>1. /\ "crash" \in PubFaults /\ pubQueue' = << >> /\ pubRetries' = pubRetries
      /\ wjob' = [w \in PubWorkers |-> NoJob]
      /\ pubUpc' = [j \in PubJobs |-> IF pubUpc[j] = "create" THEN "create" ELSE "done"]
  BY DEF PubRestart
<1>2. \A j \in PubJobs : ~PubWaits(j)' /\ ~PubInHand(j)'
  BY <1>1 DEF PubWaits, PubInHand, PubKnown
<1>3. \A j \in PubJobs : PubPlace(j)' = IF pubUpc[j] = "create" THEN "new" ELSE "over"
  BY <1>1, <1>2 DEF PubKnown
<1>4. \A j \in PubJobs : PubPlaces[j] = "new" <=> pubUpc[j] # "done"
  <2> TAKE j \in PubJobs
  <2>1. CASE pubUpc[j] # "done"
    BY <2>1 DEF PubKnown
  <2>2. CASE pubUpc[j] = "done"
    BY <2>2 DEF PubKnown
  <2> QED BY <2>1, <2>2
<1>5. \A j \in PubJobs : pubUpc[j] = "create" <=> PubPlaces[j] = "new" /\ j \notin lost
  BY <1>4 DEF PubShapes
<1>6. PubPlaces' = [j \in PubJobs |-> IF PubPlaces[j] = "new" /\ j \notin lost THEN "new" ELSE "over"]
  BY <1>3, <1>5 DEF PubPlaces
<1>7. lost \in SUBSET {j \in PubJobs : PubPlaces[j] = "new"}
  BY <1>4
<1> QED BY <1>1, <1>6, <1>7 DEF PublishQueue!Crash

\* Each step of the service is a step of the abstract queue, or none.
LEMMA PubQueueStep ==
    ASSUME PublishAssumption, PubInv, PubInv', [PubNext]_pubVars
    PROVE  [PublishQueue!JobNext]_(PublishQueue!jobVars)
<1>1. PubShapes /\ PubOnePlace /\ PubKnown /\ PubKnown'
  BY PubPlaceOf, PubPlaceNext DEF PubInv
<1>2. ASSUME NEW j \in PubJobs, PubUpload(j)
      PROVE  PublishQueue!JobNext \/ UNCHANGED PublishQueue!jobVars
  BY <1>1, <1>2, PubCreateStep, PubEnqueueStep DEF PubUpload, PublishQueue!JobNext
<1>3. ASSUME NEW w \in PubWorkers, PubTake(w) PROVE PublishQueue!JobNext
  BY <1>1, <1>3, PubTakeStep DEF PublishQueue!JobNext
<1>4. ASSUME NEW w \in PubWorkers, Exit(w) \/ AskRelay(w) \/ EndRound(w) \/ PubRecord(w)
      PROVE  UNCHANGED PublishQueue!jobVars
  <2>1. UNCHANGED <<pubQueue, wjob, pubRetries, pubUpc>>
    BY <1>4 DEF Exit, AskRelay, EndRound, PubRecord, worker
  <2>2. \A v \in PubWorkers : wpc[v] = "sleep" <=> wpc'[v] = "sleep"
    BY <1>1, <1>4 DEF Exit, AskRelay, EndRound, PubRecord, PubGoto, PubShapes
  <2> QED BY <1>1, <2>1, <2>2, PubStays
<1>5. ASSUME NEW w \in PubWorkers, Succeed(w) PROVE PublishQueue!JobNext
  <2>1. Has(w) /\ wpc[w] # "sleep"
    BY <1>1, <1>5 DEF Succeed, PubShapes, Has
  <2>2. PublishQueue!Release(w)
    BY <1>1, <1>5, <2>1, PubLaysDown DEF Succeed
  <2> QED BY <2>2 DEF PublishQueue!JobNext
<1>6. ASSUME NEW w \in PubWorkers, PubFail(w) PROVE PublishQueue!JobNext
  BY <1>1, <1>6, PubFailStep DEF PublishQueue!JobNext
<1>7. ASSUME NEW w \in PubWorkers, PubRequeue(w) PROVE PublishQueue!JobNext
  BY <1>1, <1>7, PubRequeueStep DEF PublishQueue!JobNext
<1>8. CASE Stop \/ UNCHANGED pubVars
  BY <1>1, <1>8, PubStays DEF Stop, pubVars, worker
<1>9. CASE PubRestart
  BY <1>1, <1>9, PubRestartStep DEF PublishQueue!JobNext
<1> QED BY <1>2, <1>3, <1>4, <1>5, <1>6, <1>7, <1>8, <1>9 DEF PubNext, PubWork

\* Publication keeps what a queue of jobs promises.
LEMMA PublicationIsAQueue == ASSUME PublishAssumption PROVE PubSpec => PublishQueue!JobSpec
<1>1. PubInit => PublishQueue!JobInit
  <2> SUFFICES ASSUME PubInit PROVE PublishQueue!JobInit
    OBVIOUS
  <2>1. PubKnown
    BY PublishInit, PubPlaceOf
  <2>2. \A j \in PubJobs : PubPlace(j) = "new"
    BY <2>1 DEF PubInit, PubKnown
  <2> QED BY <2>2 DEF PubInit, PubPlaces, PublishQueue!JobInit
<1>2. PubInv /\ PubInv' /\ [PubNext]_pubVars => [PublishQueue!JobNext]_(PublishQueue!jobVars)
  BY PubQueueStep
<1> QED BY <1>1, <1>2, PublishInvariant, PTL DEF PubSpec, PublishQueue!JobSpec

\* Replication and publication keep what a queue of jobs promises, for any
\* number of jobs and workers and any capacity: a job is in one place, served in
\* order, tried again a bounded number of times, and over for good, although
\* workers put jobs back, callers execute theirs when the queue is full, and a
\* replica dies with its queue (replication.go, worker; federation, publishWorker).
THEOREM JobsImplemented ==
    ASSUME ReplicationAssumption, PublishAssumption
    PROVE  RepSpec /\ PubSpec => JobsKeepTheirPlace
BY ReplicationIsAQueue, PublicationIsAQueue DEF JobsKeepTheirPlace

------------------------------------------------------------------------------
\* DISCOVERY.

\* What the argument needs of the types: a relay has an event of the kind it
\* handles, and a worker that has read a blob works on one that has a row.
DiscShapes ==
    /\ discStatus \in [DiscHashes -> DiscStatuses] /\ discRefs \in [DiscHashes -> Nat]
    /\ \A h \in DiscHashes : discStatus[h] = "none" <=> discRefs[h] = 0
    /\ object \in [DiscHashes -> DiscHashes \cup {"none"}]
    /\ urls \in [DiscHashes -> SUBSET DiscUrls]
    /\ discQueue \in Seq(DiscHashes)
    /\ revent \in [DiscRelays -> DiscEvents \cup {Nothing}]
    /\ rpc \in [DiscRelays -> {"idle", "blob", "url", "host", "auto", "delete", "list", "user", "known"}]
    /\ \A r \in DiscRelays : /\ rpc[r] \in {"blob", "url", "host", "auto"} => revent[r] \in FileEvents
                             /\ rpc[r] \in {"url", "host", "auto"} => discStatus[XTag[revent[r]]] # "none"
    /\ mpc \in [DiscWorkers -> {"idle", "read", "mark", "download", "done"}]
    /\ mhash \in [DiscWorkers -> DiscHashes \cup {Nothing}]
    /\ \A w \in DiscWorkers : /\ mpc[w] # "idle" => mhash[w] \in DiscHashes
                              /\ mpc[w] \in {"mark", "download", "done"} => discStatus[mhash[w]] # "none"

\* Whoever is to write mirrored has stored the blob.
StoredBefore == \A w \in DiscWorkers : mpc[w] = "done" => object[mhash[w]] = mhash[w]

DiscInv == DiscShapes /\ StoredBefore /\ MirroredIsStored

DiscStates == DiscoveryAssumption /\ DiscInv

\* Nothing is mirrored at first.
LEMMA DiscoveryInit == ASSUME DiscoveryAssumption, DiscInit PROVE DiscInv
BY DEF DiscoveryAssumption, DiscInit, DiscInv, DiscShapes, StoredBefore, MirroredIsStored,
       DiscStatuses, DiscEvents

\* A relay's step: it stores nothing, and at most discovers a blob.
LEMMA RelayKeeps ==
    ASSUME DiscStates, UNCHANGED <<object, mirror>>,
           discStatus' \in [DiscHashes -> DiscStatuses], discRefs' \in [DiscHashes -> Nat],
           \A h \in DiscHashes : discStatus'[h] = "none" <=> discRefs'[h] = 0,
           \A h \in DiscHashes : discStatus'[h] = discStatus[h]
                                 \/ (discStatus[h] = "none" /\ discStatus'[h] = "discovered"),
           urls' \in [DiscHashes -> SUBSET DiscUrls], discQueue' \in Seq(DiscHashes),
           revent' \in [DiscRelays -> DiscEvents \cup {Nothing}],
           rpc' \in [DiscRelays -> {"idle", "blob", "url", "host", "auto", "delete", "list", "user", "known"}],
           \A r \in DiscRelays : /\ rpc'[r] \in {"blob", "url", "host", "auto"} => revent'[r] \in FileEvents
                                 /\ rpc'[r] \in {"url", "host", "auto"} => discStatus'[XTag[revent'[r]]] # "none"
    PROVE  DiscInv'
<1> USE DEF DiscStates, DiscInv, mirror
<1>1. DiscShapes'
  BY DEF DiscShapes
<1>2. StoredBefore' /\ MirroredIsStored'
  BY DEF StoredBefore, MirroredIsStored
<1> QED BY <1>1, <1>2

\* Relay, cleanup and mirror workers keep what is stored and what the rows say of it.
LEMMA DiscoveryStep == ASSUME DiscStates, [DiscNext]_discVars PROVE DiscInv'
<1> USE DEF DiscStates, DiscInv
<1>1. CASE UNCHANGED discVars
  BY <1>1 DEF discVars, DiscShapes, StoredBefore, MirroredIsStored
<1>2. ASSUME NEW h \in DiscHashes PROVE DiscQueued(h) \in Seq(DiscHashes)
  BY <1>2 DEF DiscQueued, DiscShapes
\* Steps of a relay that leave the rows of blobs alone.
<1>3. ASSUME NEW r \in DiscRelays, NEW l, DiscGoto(r, l),
             UNCHANGED <<discStatus, discRefs, object, mirror, revent>>,
             urls' \in [DiscHashes -> SUBSET DiscUrls], discQueue' \in Seq(DiscHashes),
             \/ l \in {"idle", "list", "user", "known"}
             \/ l \in {"host", "auto"} /\ rpc[r] \in {"url", "host"}
      PROVE  DiscInv'
  <2>1. /\ rpc'[r] = l /\ \A s \in DiscRelays \ {r} : rpc'[s] = rpc[s]
        /\ rpc' \in [DiscRelays -> {"idle", "blob", "url", "host", "auto", "delete", "list", "user", "known"}]
    BY <1>3 DEF DiscGoto, DiscShapes
  <2>2. \A s \in DiscRelays : /\ rpc'[s] \in {"blob", "url", "host", "auto"} => revent'[s] \in FileEvents
                              /\ rpc'[s] \in {"url", "host", "auto"} => discStatus'[XTag[revent'[s]]] # "none"
    BY <1>3, <2>1 DEF DiscShapes
  <2> QED BY <1>3, <2>1, <2>2, RelayKeeps DEF DiscShapes
<1>4. ASSUME NEW r \in DiscRelays, NEW e \in DiscEvents, Receive(r, e) PROVE DiscInv'
  <2>1. /\ UNCHANGED <<discStatus, discRefs, urls, object, discQueue, mirror>>
        /\ revent' = [revent EXCEPT ![r] = e]
        /\ DiscGoto(r, IF e \in FileEvents THEN "blob" ELSE "delete")
    BY <1>4 DEF Receive, blobRows
  <2>2. /\ \A s \in DiscRelays \ {r} : rpc'[s] = rpc[s] /\ revent'[s] = revent[s]
        /\ rpc'[r] = (IF e \in FileEvents THEN "blob" ELSE "delete") /\ revent'[r] = e
        /\ rpc' \in [DiscRelays -> {"idle", "blob", "url", "host", "auto", "delete", "list", "user", "known"}]
        /\ revent' \in [DiscRelays -> DiscEvents \cup {Nothing}]
    BY <2>1 DEF DiscGoto, DiscShapes
  <2>3. \A s \in DiscRelays : /\ rpc'[s] \in {"blob", "url", "host", "auto"} => revent'[s] \in FileEvents
                              /\ rpc'[s] \in {"url", "host", "auto"} => discStatus'[XTag[revent'[s]]] # "none"
    BY <2>1, <2>2 DEF DiscShapes
  <2> QED BY <2>1, <2>2, <2>3, RelayKeeps DEF DiscShapes
<1>5. ASSUME NEW r \in DiscRelays, UpsertFederatedBlob(r) PROVE DiscInv'
  <2>1. DiscAt(r, "blob") /\ FileRest /\ UNCHANGED <<urls, known, discQueue>>
    BY <1>5 DEF UpsertFederatedBlob
  <2>2. PICK h : h = XTag[revent[r]]
    OBVIOUS
  <2>3. revent[r] \in FileEvents /\ h \in DiscHashes
    BY <2>1, <2>2 DEF DiscAt, DiscShapes, DiscoveryAssumption
  <2>4. CASE DiscGoto(r, "idle") /\ UNCHANGED <<discStatus, discRefs>>
    BY <1>3, <2>1, <2>4 DEF FileRest, DiscShapes
  <2>5. CASE /\ discStatus' = [discStatus EXCEPT ![h] = IF @ = "none" THEN "discovered" ELSE @]
             /\ discRefs' = [discRefs EXCEPT ![h] = @ + 1]
             /\ DiscGoto(r, "url")
    <3>1. /\ discStatus' \in [DiscHashes -> DiscStatuses] /\ discStatus'[h] # "none"
          /\ \A i \in DiscHashes : discStatus'[i] = discStatus[i]
                                   \/ (discStatus[i] = "none" /\ discStatus'[i] = "discovered")
      BY <2>3, <2>5 DEF DiscShapes, DiscStatuses
    <3>2. /\ discRefs' \in [DiscHashes -> Nat]
          /\ discRefs'[h] # 0
          /\ \A i \in DiscHashes \ {h} : discRefs'[i] = discRefs[i]
      BY <2>3, <2>5 DEF DiscShapes
    <3>3. \A i \in DiscHashes : discStatus'[i] = "none" <=> discRefs'[i] = 0
      BY <2>3, <2>5, <3>1, <3>2 DEF DiscShapes
    <3>4. /\ \A s \in DiscRelays \ {r} : rpc'[s] = rpc[s]
          /\ rpc'[r] = "url" /\ revent' = revent
          /\ rpc' \in [DiscRelays -> {"idle", "blob", "url", "host", "auto", "delete", "list", "user", "known"}]
      BY <2>1, <2>5 DEF DiscGoto, DiscShapes, FileRest
    <3>5. \A s \in DiscRelays : rpc[s] \in {"url", "host", "auto"} => XTag[revent[s]] \in DiscHashes
      BY DEF DiscShapes, DiscoveryAssumption
    <3>6. \A s \in DiscRelays : /\ rpc'[s] \in {"blob", "url", "host", "auto"} => revent'[s] \in FileEvents
                                /\ rpc'[s] \in {"url", "host", "auto"} => discStatus'[XTag[revent'[s]]] # "none"
      BY <2>2, <2>3, <3>1, <3>4, <3>5 DEF DiscShapes
    <3> QED BY <2>1, <3>1, <3>2, <3>3, <3>4, <3>6, RelayKeeps DEF DiscShapes, FileRest
  <2> QED BY <1>5, <2>2, <2>4, <2>5 DEF UpsertFederatedBlob
<1>6. ASSUME NEW r \in DiscRelays,
             AddFederatedBlobURL(r) \/ RecordHost(r) \/ AutoMirror(r) PROVE DiscInv'
  <2>1. rpc[r] \in {"url", "host", "auto"} /\ revent[r] \in FileEvents
    BY <1>6 DEF AddFederatedBlobURL, RecordHost, AutoMirror, DiscAt, DiscShapes
  <2>2. XTag[revent[r]] \in DiscHashes /\ UrlTag[revent[r]] \in DiscUrls
    BY <2>1 DEF DiscoveryAssumption
  <2>3. CASE AddFederatedBlobURL(r)
    <3>1. urls' \in [DiscHashes -> SUBSET DiscUrls]
      <4>1. \/ urls' = [urls EXCEPT ![XTag[revent[r]]] = @ \cup {UrlTag[revent[r]]}]
            \/ urls' = urls
        BY <2>3 DEF AddFederatedBlobURL
      <4>2. urls \in [DiscHashes -> SUBSET DiscUrls]
        BY DEF DiscShapes
      <4> HIDE DEF DiscInv, DiscStates
      <4> QED BY <2>2, <4>1, <4>2
    <3> QED BY <1>3, <2>3, <3>1 DEF AddFederatedBlobURL, FileRest, DiscAt, DiscShapes
  <2>4. CASE RecordHost(r)
    BY <1>3, <2>4 DEF RecordHost, FileRest, blobRows, DiscAt, DiscShapes
  <2>5. CASE AutoMirror(r)
    <3>1. discQueue' \in Seq(DiscHashes)
      BY <1>2, <2>2, <2>5 DEF AutoMirror, DiscShapes
    <3> QED BY <1>3, <2>5, <3>1 DEF AutoMirror, FileRest, blobRows, DiscShapes
  <2> QED BY <1>6, <2>3, <2>4, <2>5
<1>7. ASSUME NEW r \in DiscRelays,
             DeleteUserServerList(r) \/ UpsertUserServerList(r) \/ UpsertFederatedUser(r)
                                     \/ RecordServer(r) \/ EndList(r)
      PROVE  DiscInv'
  <2>1. ListRest /\ \E l \in {"idle", "list", "user", "known"} : DiscGoto(r, l)
    BY <1>7 DEF DeleteUserServerList, UpsertUserServerList, UpsertFederatedUser, RecordServer, EndList
  <2> QED BY <1>3, <2>1 DEF ListRest, blobRows, DiscShapes
\* A worker's step.
<1>8. ASSUME NEW w \in DiscWorkers, DiscWork(w) PROVE DiscInv'
  <2>0. /\ MirrorRest /\ (mpc[w] # "idle" => mhash[w] \in DiscHashes)
        /\ mpc[w] \in {"mark", "download", "done"} => discStatus[mhash[w]] # "none"
    BY <1>8 DEF DiscWork, DiscTake, DiscReadBlob, DiscMark, Download, DiscGiveUp, DiscMirrored,
                DiscShapes
  <2>1. ASSUME NEW l \in {"idle", "read", "mark", "download", "done"}, MGoto(w, l),
               mhash' \in [DiscWorkers -> DiscHashes \cup {Nothing}],
               \A v \in DiscWorkers \ {w} : mhash'[v] = mhash[v],
               l # "idle" => mhash'[w] \in DiscHashes, discQueue' \in Seq(DiscHashes),
               l \in {"mark", "download", "done"} => discStatus[mhash'[w]] # "none",
               l = "done" => object'[mhash'[w]] = mhash'[w],
               object' \in [DiscHashes -> DiscHashes \cup {"none"}],
               \A h \in DiscHashes : object'[h] = object[h] \/ object'[h] = h,
               discStatus' \in [DiscHashes -> DiscStatuses],
               \A h \in DiscHashes : discStatus'[h] = discStatus[h]
                 \/ (discStatus[h] # "none" /\ discStatus'[h] # "none" /\ (discStatus'[h] = "mirrored" => object[h] = h))
        PROVE  DiscInv'
    <3>1. /\ mpc'[w] = l /\ \A v \in DiscWorkers \ {w} : mpc'[v] = mpc[v]
          /\ mpc' \in [DiscWorkers -> {"idle", "read", "mark", "download", "done"}]
      BY <2>1 DEF MGoto, DiscShapes
    <3>2. UNCHANGED <<discRefs, urls, rpc, revent>>
      BY <2>0 DEF MirrorRest, relay
    <3>3. \A h \in DiscHashes : discStatus'[h] = "none" <=> discStatus[h] = "none"
      BY <2>1
    <3>4. \A v \in DiscWorkers : /\ mpc'[v] # "idle" => mhash'[v] \in DiscHashes
                                 /\ mpc'[v] \in {"mark", "download", "done"} => discStatus[mhash'[v]] # "none"
      BY <2>1, <3>1 DEF DiscShapes
    <3>5. \A r \in DiscRelays : rpc[r] \in {"url", "host", "auto"} => XTag[revent[r]] \in DiscHashes
      BY DEF DiscShapes, DiscoveryAssumption
    <3>6. \A r \in DiscRelays : rpc[r] \in {"url", "host", "auto"} => discStatus'[XTag[revent[r]]] # "none"
      BY <3>3, <3>5 DEF DiscShapes
    <3>7. \A h \in DiscHashes : discStatus'[h] = "none" <=> discRefs'[h] = 0
      BY <3>2, <3>3 DEF DiscShapes
    <3>8. \A v \in DiscWorkers : mpc'[v] \in {"mark", "download", "done"} => discStatus'[mhash'[v]] # "none"
      BY <3>3, <3>4
    <3>9. DiscShapes'
      BY <2>1, <3>1, <3>2, <3>4, <3>6, <3>7, <3>8 DEF DiscShapes
    <3>10. StoredBefore'
      BY <2>1, <3>1, <3>4 DEF StoredBefore
    <3>11. MirroredIsStored'
      BY <2>1 DEF MirroredIsStored
    <3> QED BY <3>9, <3>10, <3>11
  <2>2. CASE DiscTake(w)
    <3>1. discQueue \in Seq(DiscHashes) /\ discQueue # << >>
      BY <2>2 DEF DiscTake, DiscShapes
    <3>2. Head(discQueue) \in DiscHashes /\ Tail(discQueue) \in Seq(DiscHashes)
      BY <3>1
    <3> QED BY <2>1, <2>2, <3>2 DEF DiscTake, DiscShapes
  <2>3. CASE DiscReadBlob(w)
    BY <2>0, <2>1, <2>3 DEF DiscReadBlob, DiscShapes
  <2>4. CASE DiscMark(w)
    <3>1. mhash[w] \in DiscHashes /\ discStatus[mhash[w]] # "none"
      BY <2>0, <2>4 DEF DiscMark
    <3>2. /\ discStatus' \in [DiscHashes -> DiscStatuses]
          /\ \A h \in DiscHashes : discStatus'[h] = discStatus[h] \/ (h = mhash[w] /\ discStatus'[h] = "mirroring")
      BY <2>4, <3>1 DEF DiscMark, DiscSetStatus, DiscShapes, DiscStatuses
    <3> QED BY <2>1, <2>4, <3>1, <3>2 DEF DiscMark, DiscShapes
  <2>5. CASE Download(w)
    <3>1. mpc[w] = "download" /\ mhash[w] \in DiscHashes /\ discStatus[mhash[w]] # "none"
      BY <2>0, <2>5 DEF Download
    <3>2. CASE object' = [object EXCEPT ![mhash[w]] = mhash[w]] /\ MGoto(w, "done")
      BY <2>1, <2>5, <3>1, <3>2 DEF Download, DiscShapes
    <3>3. CASE UNCHANGED <<object, mpc>>
      <4>1. MGoto(w, "download")
        BY <3>1, <3>3 DEF MGoto, DiscShapes
      <4> QED BY <2>1, <2>5, <3>1, <3>3, <4>1 DEF Download, DiscShapes
    <3> QED BY <2>5, <3>2, <3>3 DEF Download, HashMatches
  <2>6. CASE DiscGiveUp(w) \/ DiscMirrored(w)
    <3>1. mhash[w] \in DiscHashes /\ discStatus[mhash[w]] # "none"
      BY <2>0, <2>6 DEF DiscGiveUp, DiscMirrored
    <3>2. /\ discStatus' \in [DiscHashes -> DiscStatuses]
          /\ \A h \in DiscHashes : discStatus'[h] = discStatus[h]
               \/ (h = mhash[w] /\ (discStatus'[h] = "failed" \/ (discStatus'[h] = "mirrored" /\ mpc[w] = "done")))
      BY <2>6, <3>1 DEF DiscGiveUp, DiscMirrored, DiscSetStatus, DiscShapes, DiscStatuses
    <3>3. mpc[w] = "done" => object[mhash[w]] = mhash[w]
      BY DEF StoredBefore
    <3>4. UNCHANGED <<object, discQueue, mhash>> /\ MGoto(w, "idle")
      BY <2>6 DEF DiscGiveUp, DiscMirrored
    <3> QED BY <2>1, <3>1, <3>2, <3>3, <3>4 DEF DiscShapes
  <2> QED BY <1>8, <2>2, <2>3, <2>4, <2>5, <2>6 DEF DiscWork
<1>9. ASSUME NEW h \in DiscHashes, RequestMirror(h) PROVE DiscInv'
  BY <1>2, <1>9, RelayKeeps DEF RequestMirror, blobRows, relay, DiscShapes
<1>10. ASSUME NEW s \in Servers, CheckServerHealth(s) PROVE DiscInv'
  BY <1>10, RelayKeeps DEF CheckServerHealth, blobRows, relay, DiscShapes
<1>11. CASE DiscRestart
  <2>1. /\ discQueue' = << >>
        /\ rpc' = [r \in DiscRelays |-> "idle"]
        /\ mpc' = [w \in DiscWorkers |-> "idle"]
        /\ UNCHANGED <<discStatus, discRefs, urls, object, revent, mhash>>
    BY <1>11 DEF DiscRestart, blobRows
  <2>2. DiscShapes'
    BY <2>1 DEF DiscShapes
  <2> QED BY <2>1, <2>2 DEF StoredBefore, MirroredIsStored
<1> QED BY <1>1, <1>4, <1>5, <1>6, <1>7, <1>8, <1>9, <1>10, <1>11 DEF DiscNext, DiscHandle

\* So it is in every state.
LEMMA DiscoveryInvariant == ASSUME DiscoveryAssumption PROVE DiscSpec => []DiscInv
<1>1. DiscInit => DiscInv
  BY DiscoveryInit
<1>2. DiscInv /\ [DiscNext]_discVars => DiscInv'
  BY DiscoveryStep DEF DiscStates
<1> QED BY <1>1, <1>2, PTL DEF DiscSpec

\* Nothing but the bytes of a hash is stored under it, and a blob that says mirrored
\* was stored (MirrorBlob, downloadAndStore), for any number of workers that mirror
\* it at once.
THEOREM MirroredBlobsStored == ASSUME DiscoveryAssumption PROVE DiscSpec => []MirroredIsStored
<1>1. DiscInv => MirroredIsStored
  BY DEF DiscInv
<1> QED BY <1>1, DiscoveryInvariant, PTL

\* What the types say beyond DiscShapes: a relay that handles a list has a list,
\* and an entry of it while it records one.
DiscRest ==
    /\ discList \in [Servers -> ListEvents \cup {Nothing}]
    /\ known \in [Servers -> {"none", "healthy", "unhealthy"}]
    /\ Len(discQueue) <= DiscQueueSize
    /\ discLeft \in [DiscWorkers -> SUBSET DiscUrls]
    /\ place \in [DiscRelays -> Nat \ {0}]
    /\ \A r \in DiscRelays :
         /\ rpc[r] \in {"delete", "list", "user", "known"} => revent[r] \in ListEvents
         /\ rpc[r] \in {"user", "known"} => place[r] <= Len(ServerTags[revent[r]])

\* The entry a relay records is a server.
LEMMA EntryIsServer ==
    ASSUME DiscoveryAssumption, DiscRest, NEW r \in DiscRelays, revent[r] \in ListEvents,
           place[r] <= Len(ServerTags[revent[r]])
    PROVE  Entry(r) \in Servers
<1>1. ServerTags[revent[r]] \in Seq(Servers)
  BY DEF DiscoveryAssumption
<1>2. place[r] \in 1..Len(ServerTags[revent[r]])
  BY <1>1 DEF DiscRest
<1> QED BY <1>1, <1>2 DEF Entry

\* A blob is queued where there is room.
LEMMA DiscQueueBound ==
    ASSUME DiscoveryAssumption, DiscStates, DiscRest, NEW h \in DiscHashes
    PROVE  Len(DiscQueued(h)) <= DiscQueueSize
<1>1. DiscQueueSize \in Nat /\ discQueue \in Seq(DiscHashes)
  BY DEF DiscoveryAssumption, DiscStates, DiscInv, DiscShapes
<1>2. Len(discQueue) <= DiscQueueSize /\ Len(discQueue) \in Nat
  BY <1>1 DEF DiscRest
<1>3. Len(Append(discQueue, h)) = Len(discQueue) + 1
  BY <1>1
<1> QED BY <1>1, <1>2, <1>3 DEF DiscQueued

\* A server that is seen or checked has a health.
LEMMA HealthTyped ==
    ASSUME DiscRest, NEW s \in Servers, UpsertKnownServer(s) \/ CheckServerHealth(s)
    PROVE  known' \in [Servers -> {"none", "healthy", "unhealthy"}]
<1>1. known \in [Servers -> {"none", "healthy", "unhealthy"}]
  BY DEF DiscRest
<1>2. CASE UpsertKnownServer(s)
  BY <1>1, <1>2 DEF UpsertKnownServer
<1>3. CASE CheckServerHealth(s)
  BY <1>1, <1>3 DEF CheckServerHealth, UpdateServerHealth
<1> QED BY <1>2, <1>3

\* No step leaves them.
LEMMA DiscRestStep == ASSUME DiscStates, DiscRest, [DiscNext]_discVars PROVE DiscRest'
<1>0. DiscoveryAssumption /\ DiscInv /\ DiscShapes
  BY DEF DiscStates, DiscInv
<1>1. CASE UNCHANGED discVars
  BY <1>1 DEF discVars, DiscRest
\* A step of a relay that stays with its event.
<1>2. ASSUME NEW r \in DiscRelays, NEW l, DiscGoto(r, l), UNCHANGED <<revent, discLeft>>,
             discList' \in [Servers -> ListEvents \cup {Nothing}],
             known' \in [Servers -> {"none", "healthy", "unhealthy"}],
             Len(discQueue') <= DiscQueueSize,
             place' \in [DiscRelays -> Nat \ {0}],
             \A q \in DiscRelays \ {r} : place'[q] = place[q],
             l \in {"delete", "list", "user", "known"} => revent[r] \in ListEvents,
             l \in {"user", "known"} => place'[r] <= Len(ServerTags[revent[r]])
      PROVE  DiscRest'
  <2>1. rpc'[r] = l /\ \A q \in DiscRelays \ {r} : rpc'[q] = rpc[q]
    BY <1>0, <1>2 DEF DiscGoto, DiscShapes
  <2> QED BY <1>2, <2>1 DEF DiscRest
<1>3. ASSUME NEW r \in DiscRelays, NEW e \in DiscEvents, Receive(r, e) PROVE DiscRest'
  <2>1. /\ revent' = [revent EXCEPT ![r] = e] /\ place' = [place EXCEPT ![r] = 1]
        /\ DiscGoto(r, IF e \in FileEvents THEN "blob" ELSE "delete")
        /\ UNCHANGED <<discList, known, discQueue, discLeft>>
    BY <1>3 DEF Receive, listRows, mirror
  <2>2. 1 \in Nat \ {0}
    OBVIOUS
  <2>3. /\ rpc'[r] = (IF e \in FileEvents THEN "blob" ELSE "delete") /\ revent'[r] = e
        /\ \A q \in DiscRelays \ {r} : rpc'[q] = rpc[q] /\ revent'[q] = revent[q] /\ place'[q] = place[q]
        /\ place' \in [DiscRelays -> Nat \ {0}]
    BY <1>0, <2>1, <2>2 DEF DiscGoto, DiscShapes, DiscRest
  <2>4. e \in FileEvents \/ e \in ListEvents
    BY DEF DiscEvents
  <2> QED BY <2>1, <2>3, <2>4 DEF DiscRest
<1>4. ASSUME NEW r \in DiscRelays,
             \/ UpsertFederatedBlob(r) \/ AddFederatedBlobURL(r) \/ RecordHost(r) \/ AutoMirror(r)
      PROVE  DiscRest'
  <2>1. UNCHANGED <<discList, place, revent, discLeft>> /\ revent[r] \in FileEvents
    BY <1>0, <1>4 DEF UpsertFederatedBlob, AddFederatedBlobURL, RecordHost, AutoMirror, FileRest,
                      mirror, DiscAt, DiscShapes
  <2>2. XTag[revent[r]] \in DiscHashes /\ HostOf[UrlTag[revent[r]]] \in Servers
    BY <1>0, <2>1 DEF DiscoveryAssumption
  <2>3. \E l \in {"idle", "url", "host", "auto"} : DiscGoto(r, l)
    BY <1>4 DEF UpsertFederatedBlob, AddFederatedBlobURL, RecordHost, AutoMirror
  <2>4. known' \in [Servers -> {"none", "healthy", "unhealthy"}]
    <3>1. CASE known' = known
      BY <3>1 DEF DiscRest
    <3>2. CASE RecordHost(r)
      BY <2>2, <3>2, HealthTyped DEF RecordHost
    <3> QED BY <1>4, <3>1, <3>2 DEF UpsertFederatedBlob, AddFederatedBlobURL, AutoMirror
  <2>5. Len(discQueue') <= DiscQueueSize
    <3>1. CASE discQueue' = discQueue
      BY <3>1 DEF DiscRest
    <3>2. CASE discQueue' = DiscQueued(XTag[revent[r]])
      BY <1>0, <2>2, <3>2, DiscQueueBound
    <3> QED BY <1>4, <3>1, <3>2 DEF UpsertFederatedBlob, AddFederatedBlobURL, RecordHost, AutoMirror
  <2> QED BY <1>2, <2>1, <2>3, <2>4, <2>5 DEF DiscRest
<1>5. ASSUME NEW r \in DiscRelays,
             \/ DeleteUserServerList(r) \/ UpsertUserServerList(r) \/ UpsertFederatedUser(r) \/ EndList(r)
      PROVE  DiscRest'
  <2>1. UNCHANGED <<known, discQueue, place, revent, discLeft>> /\ revent[r] \in ListEvents
    BY <1>5 DEF DeleteUserServerList, UpsertUserServerList, UpsertFederatedUser, EndList, ListRest,
                listRows, mirror, DiscAt, DiscRest
  <2>2. discList' \in [Servers -> ListEvents \cup {Nothing}]
    <3>1. CASE discList' = discList
      BY <3>1 DEF DiscRest
    <3>2. CASE discList' = Emptied
      BY <3>2 DEF Emptied
    <3>3. CASE UpsertUserServerList(r)
      <4>1. Entry(r) \in Servers
        BY <1>0, <2>1, <3>3, EntryIsServer DEF UpsertUserServerList
      <4> QED BY <2>1, <3>3, <4>1 DEF UpsertUserServerList, DiscRest
    <3> QED BY <1>5, <3>1, <3>2, <3>3 DEF DeleteUserServerList, UpsertFederatedUser, EndList, listRows
  <2>3. \E l \in {"idle", "list", "user", "known"} :
           DiscGoto(r, l) /\ (l \in {"user", "known"} => place[r] <= Len(ServerTags[revent[r]]))
    BY <1>5 DEF DeleteUserServerList, UpsertUserServerList, UpsertFederatedUser, EndList, DiscAt, DiscRest
  <2> QED BY <1>2, <2>1, <2>2, <2>3 DEF DiscRest
<1>6. ASSUME NEW r \in DiscRelays, RecordServer(r) PROVE DiscRest'
  <2>1. /\ UNCHANGED <<discList, discQueue, revent, discLeft>> /\ DiscGoto(r, "list")
        /\ revent[r] \in ListEvents /\ place[r] <= Len(ServerTags[revent[r]])
        /\ place' = [place EXCEPT ![r] = @ + 1]
    BY <1>6 DEF RecordServer, ListRest, listRows, mirror, DiscAt, DiscRest
  <2>2. known' \in [Servers -> {"none", "healthy", "unhealthy"}]
    BY <1>0, <1>6, <2>1, EntryIsServer, HealthTyped DEF RecordServer
  <2>3. place' \in [DiscRelays -> Nat \ {0}] /\ \A q \in DiscRelays \ {r} : place'[q] = place[q]
    <3>1. place[r] + 1 \in Nat \ {0}
      BY DEF DiscRest
    <3> QED BY <2>1, <3>1 DEF DiscRest
  <2> QED BY <1>2, <2>1, <2>2, <2>3 DEF DiscRest
\* A worker's step.
<1>7. ASSUME NEW w \in DiscWorkers, DiscWork(w) PROVE DiscRest'
  <2>1. UNCHANGED <<discList, known, rpc, revent, place>>
    BY <1>7 DEF DiscWork, DiscTake, DiscReadBlob, DiscMark, Download, DiscGiveUp, DiscMirrored,
                MirrorRest, listRows, relay
  <2>2. discLeft' \in [DiscWorkers -> SUBSET DiscUrls]
    <3>1. CASE discLeft' = discLeft
      BY <3>1 DEF DiscRest
    <3>2. CASE DiscReadBlob(w)
      <4>1. urls[mhash[w]] \subseteq DiscUrls
        BY <1>0, <3>2 DEF DiscReadBlob, DiscShapes
      <4> QED BY <3>2, <4>1 DEF DiscReadBlob, DiscRest
    <3>3. CASE Download(w)
      BY <3>3 DEF Download, DiscRest
    <3> QED BY <1>7, <3>1, <3>2, <3>3 DEF DiscWork, DiscTake, DiscMark, DiscGiveUp, DiscMirrored
  <2>3. Len(discQueue') <= DiscQueueSize
    <3>1. CASE discQueue' = discQueue
      BY <3>1 DEF DiscRest
    <3>2. CASE DiscTake(w)
      <4>1. discQueue \in Seq(DiscHashes) /\ discQueue # << >> /\ discQueue' = Tail(discQueue)
        BY <1>0, <3>2 DEF DiscTake, DiscShapes
      <4>2. Len(discQueue') = Len(discQueue) - 1
        BY <4>1
      <4>3. Len(discQueue) \in Nat /\ DiscQueueSize \in Nat /\ Len(discQueue) <= DiscQueueSize
        BY <1>0, <4>1 DEF DiscRest, DiscoveryAssumption
      <4> QED BY <4>2, <4>3
    <3> QED BY <1>7, <3>1, <3>2 DEF DiscWork, DiscReadBlob, DiscMark, Download, DiscGiveUp, DiscMirrored
  <2> QED BY <2>1, <2>2, <2>3 DEF DiscRest
<1>8. ASSUME NEW h \in DiscHashes, RequestMirror(h) PROVE DiscRest'
  <2>1. Len(discQueue') <= DiscQueueSize
    BY <1>0, <1>8, DiscQueueBound DEF RequestMirror
  <2> QED BY <1>8, <2>1 DEF RequestMirror, listRows, relay, mirror, DiscRest
<1>9. ASSUME NEW s \in Servers, CheckServerHealth(s) PROVE DiscRest'
  BY <1>9, HealthTyped DEF CheckServerHealth, listRows, relay, mirror, DiscRest
<1>10. CASE DiscRestart
  <2>1. Len(<< >>) <= DiscQueueSize
    BY <1>0 DEF DiscoveryAssumption
  <2> QED BY <1>10, <2>1 DEF DiscRestart, listRows, DiscRest
<1> QED BY <1>1, <1>3, <1>4, <1>5, <1>6, <1>7, <1>8, <1>9, <1>10 DEF DiscNext, DiscHandle

\* The types of what discovery keeps: the queue stays within its bound, and a blob has
\* a row as long as an event refers to it.
THEOREM DiscoveryTypes == ASSUME DiscoveryAssumption PROVE DiscSpec => []DiscTypeOK
<1>1. DiscInit => DiscInv /\ DiscRest
  <2> SUFFICES ASSUME DiscInit PROVE DiscInv /\ DiscRest
    OBVIOUS
  <2>1. Len(<< >>) <= DiscQueueSize /\ 1 \in Nat \ {0}
    BY DEF DiscoveryAssumption
  <2> QED BY <2>1, DiscoveryInit DEF DiscInit, DiscRest
<1>2. (DiscInv /\ DiscRest) /\ [DiscNext]_discVars => (DiscInv /\ DiscRest)'
  BY DiscoveryStep, DiscRestStep DEF DiscStates
<1>3. DiscInv /\ DiscRest => DiscTypeOK
  <2> SUFFICES ASSUME DiscInv, DiscRest PROVE DiscTypeOK
    OBVIOUS
  <2>1. ToSet(discQueue) \subseteq DiscHashes
    BY DEF DiscInv, DiscShapes, ToSet
  <2> QED BY <2>1 DEF DiscInv, DiscShapes, DiscRest, DiscTypeOK
<1> QED BY <1>1, <1>2, <1>3, PTL DEF DiscSpec

------------------------------------------------------------------------------
\* PINS.

PinLabels == {"idle", "look", "list", "refresh", "store", "found", "add", "added",
              "delete", "uncache", "done"}

\* The pin that a call has in hand at each of its steps.
PinInHand(l, p, op) ==
    /\ l \in {"refresh", "store", "added", "delete", "uncache"} => p # NoPin
    /\ l = "list" => p = NoPin
    /\ l = "refresh" => ~Final(p)
    /\ l = "added" => p.status = "queued"
    /\ l \in {"delete", "uncache"} => op = "unpin"

\* An unpin runs alone; the entry says that the blob is pinned only if it is, or
\* the entry is about to go; and a call that found so may rely on it.
UnpinAlone ==
    \A c, d \in PinCalls : PinRunning(c) /\ PinRunning(d) /\ pinOp[c] = "unpin" => c = d
EntryHolds ==
    pinCached.status = "pinned" =>
        remote[pinCached.id] = "pinned" \/ \E c \in PinCalls : pinPc[c] = "uncache"
FoundHolds ==
    \A c \in PinCalls : pinPc[c] \in {"store", "found"} /\ pin[c].status = "pinned"
        => remote[pin[c].id] = "pinned"

PinInv ==
    /\ PinTypeOK
    /\ \A c \in PinCalls : PinInHand(pinPc[c], pin[c], pinOp[c])
    /\ misled => blurred
    /\ blurred \/ (UnpinAlone /\ EntryHolds /\ FoundHolds)

\* Nothing is pinned at first.
LEMMA PinStart == ASSUME IPFSAssumption, PinInit PROVE PinInv
<1>1. pinCached \in Pins
  BY DEF PinInit, Pins, PinStatuses
<1>2. remote \in [PinRequests -> PinStatuses \cup {"none"}]
  BY DEF PinInit, PinStatuses
<1>3. pin \in [PinCalls -> Pins]
  BY DEF PinInit, Pins
<1>4. PinTypeOK
  BY <1>1, <1>2, <1>3 DEF PinInit, PinTypeOK, pinHistory
<1>5. EntryHolds
  <2>1. ASSUME pinCached.status = "pinned" PROVE remote[pinCached.id] = "pinned"
    <3>1. pinCached \in [status : {"pinned"}, id : PinRequests]
      BY <2>1 DEF PinInit, NoPin
    <3> QED BY <3>1 DEF PinInit
  <2> QED BY <2>1 DEF EntryHolds
<1> QED BY <1>4, <1>5 DEF PinInit, PinInv, PinInHand, UnpinAlone, FoundHolds, PinRunning

\* A step of a call that takes no pin away.
LEMMA PinMoves ==
    ASSUME IPFSAssumption, PinInv, NEW c \in PinCalls, NEW l \in PinLabels, NEW p \in Pins,
           PinGoto(c, l), pin' = [pin EXCEPT ![c] = p], UNCHANGED pinOp, PinInHand(l, p, pinOp[c]),
           remote' \in [PinRequests -> PinStatuses \cup {"none"}],
           \A i \in PinRequests : remote[i] = "pinned" => remote'[i] = "pinned",
           blurred' \in BOOLEAN, misled' \in BOOLEAN, blurred => blurred', misled' => misled \/ blurred',
           blurred' \/ PinRunning(c) \/ l = "done" \/ ~Overlaps(c),
           pinCached' \in Pins,
           blurred' \/ pinCached'.status # "pinned" \/ remote'[pinCached'.id] = "pinned"
               \/ \E d \in PinCalls \ {c} : pinPc[d] = "uncache",
           blurred' \/ l \notin {"store", "found"} \/ p.status # "pinned" \/ remote'[p.id] = "pinned"
    PROVE  PinInv'
<1>1. /\ pinPc'[c] = l /\ pin'[c] = p
      /\ \A d \in PinCalls \ {c} : pinPc'[d] = pinPc[d] /\ pin'[d] = pin[d]
      /\ pinPc' \in [PinCalls -> PinLabels] /\ pin' \in [PinCalls -> Pins]
  BY DEF PinGoto, PinInv, PinTypeOK, PinLabels
<1>2. \A d \in PinCalls : PinInHand(pinPc'[d], pin'[d], pinOp'[d])
  BY <1>1 DEF PinInv
<1>3. PinTypeOK'
  BY <1>1, <1>2 DEF PinInv, PinTypeOK, PinLabels, PinInHand, pinHistory
<1>4. misled' => blurred'
  BY DEF PinInv
<1>5. ASSUME ~blurred' PROVE UnpinAlone' /\ EntryHolds' /\ FoundHolds'
  <2>1. UnpinAlone /\ FoundHolds
    BY <1>5 DEF PinInv
  <2>2. UnpinAlone'
    BY <1>1, <1>5, <2>1 DEF UnpinAlone, PinRunning, Overlaps
  <2>3. EntryHolds'
    BY <1>1, <1>5 DEF EntryHolds
  <2>4. FoundHolds'
    <3>1. ASSUME NEW d \in PinCalls, pinPc'[d] \in {"store", "found"}, pin'[d].status = "pinned"
          PROVE  remote'[pin'[d].id] = "pinned"
      <4>1. CASE d = c
        BY <1>1, <1>5, <3>1, <4>1
      <4>2. CASE d # c
        <5>1. remote[pin[d].id] = "pinned" /\ pin[d] \in Pins /\ pin[d].status = "pinned"
          BY <1>1, <2>1, <3>1, <4>2 DEF FoundHolds, PinInv, PinTypeOK
        <5>2. pin[d].id \in PinRequests
          BY <5>1 DEF Pins, NoPin
        <5> QED BY <1>1, <4>2, <5>1, <5>2
      <4> QED BY <4>1, <4>2
    <3> QED BY <3>1 DEF FoundHolds
  <2> QED BY <2>2, <2>3, <2>4
<1> QED BY <1>2, <1>3, <1>4, <1>5 DEF PinInv

\* Each step of a call, and of the service, keeps the invariant.
LEMMA PinStep == ASSUME IPFSAssumption, PinInv, [PinNext]_pinVars PROVE PinInv'
<1>0. /\ PinTypeOK /\ blurred \in BOOLEAN /\ misled \in BOOLEAN
      /\ \A c \in PinCalls : /\ pinPc[c] \in PinLabels /\ pin[c] \in Pins /\ pin = [pin EXCEPT ![c] = pin[c]]
                             /\ PinInHand(pinPc[c], pin[c], pinOp[c])
      /\ \A p \in Pins : p # NoPin => p.id \in PinRequests /\ p.status \in PinStatuses
      /\ \A p \in Pins : p.status = "pinned" => p # NoPin
  BY DEF PinInv, PinTypeOK, PinLabels, pinHistory, Pins, NoPin
<1>1. CASE UNCHANGED pinVars
  BY <1>1 DEF pinVars, calls, pinHistory, PinInv, PinTypeOK, UnpinAlone, EntryHolds, FoundHolds,
              PinRunning
\* The entry of a call about to look at it, or to leave it.
<1>2. ASSUME NEW c \in PinCalls, ~blurred, pinCached.status = "pinned", pinPc[c] # "uncache"
      PROVE  remote[pinCached.id] = "pinned" \/ \E d \in PinCalls \ {c} : pinPc[d] = "uncache"
  BY <1>2 DEF PinInv, EntryHolds
\* A step that leaves the service, the entry and what is found alone.
<1>3. ASSUME NEW c \in PinCalls, NEW l \in PinLabels, PinMove(c, l), PinRunning(c),
             pinPc[c] # "uncache",
             PinInHand(l, pin[c], pinOp[c]),
             l \in {"store", "found"} => pin[c].status # "pinned" \/ pinPc[c] \in {"store", "found"}
      PROVE  PinInv'
  <2>1. UNCHANGED <<remote, pinCached, pinOp, pin, blurred, misled>> /\ PinGoto(c, l)
    BY <1>3 DEF PinMove, pinHistory
  <2>2. ~blurred => (pinCached.status = "pinned" =>
            remote[pinCached.id] = "pinned" \/ \E d \in PinCalls \ {c} : pinPc[d] = "uncache")
    BY <1>2, <1>3
  <2>3. ~blurred => (l \in {"store", "found"} /\ pin[c].status = "pinned" => remote[pin[c].id] = "pinned")
    BY <1>3 DEF PinInv, FoundHolds
  <2>4. /\ pinCached' \in Pins /\ remote' \in [PinRequests -> PinStatuses \cup {"none"}]
        /\ pin' = [pin EXCEPT ![c] = pin[c]] /\ pin[c] \in Pins
    BY <1>0, <2>1 DEF PinTypeOK
  <2> QED BY <1>0, <1>3, <2>1, <2>2, <2>3, <2>4, PinMoves
<1>4. ASSUME NEW c \in PinCalls, PinBegin(c) PROVE PinInv'
  <2>1. /\ pinPc[c] = "idle" /\ PinGoto(c, "look") /\ blurred' = (blurred \/ Overlaps(c))
        /\ UNCHANGED <<remote, pinCached, pinOp, pin, misled>>
    BY <1>4 DEF PinBegin, PinAt
  <2>2. /\ pinCached' \in Pins /\ remote' \in [PinRequests -> PinStatuses \cup {"none"}]
        /\ pin' = [pin EXCEPT ![c] = pin[c]] /\ pin[c] \in Pins /\ "look" \in PinLabels
        /\ PinInHand("look", pin[c], pinOp[c])
        /\ blurred' \in BOOLEAN
    BY <1>0, <2>1 DEF PinTypeOK, PinLabels, PinInHand, Overlaps
  <2>3. ~blurred' => (pinCached'.status = "pinned" =>
            remote'[pinCached'.id] = "pinned" \/ \E d \in PinCalls \ {c} : pinPc[d] = "uncache")
    BY <1>2, <2>1
  <2> QED BY <1>0, <2>1, <2>2, <2>3, PinMoves
<1>5. ASSUME NEW c \in PinCalls, PinLookUp(c) PROVE PinInv'
  <2>0. PICK e \in {pinCached, NoPin} :
          /\ pin' = [pin EXCEPT ![c] = e]
          /\ PinGoto(c, IF e = NoPin THEN "list" ELSE IF Final(e) THEN "found" ELSE "refresh")
    BY <1>5 DEF PinLookUp
  <2>1. /\ pinPc[c] = "look" /\ UNCHANGED <<remote, pinCached, pinOp, blurred, misled>>
        /\ pinCached \in Pins /\ e \in Pins /\ NoPin.status # "pinned"
        /\ remote' \in [PinRequests -> PinStatuses \cup {"none"}]
    BY <1>0, <1>5 DEF PinLookUp, PinAt, pinHistory, PinTypeOK, Pins, NoPin
  <2>2. ~blurred /\ pinCached.status = "pinned" => remote[pinCached.id] = "pinned"
    <3>1. ASSUME NEW d \in PinCalls, pinPc[d] = "uncache", ~blurred PROVE FALSE
      <4>1. pinOp[d] = "unpin" /\ PinRunning(d) /\ PinRunning(c) /\ d # c
        BY <1>0, <2>1, <3>1 DEF PinInHand, PinRunning
      <4> QED BY <3>1, <4>1 DEF PinInv, UnpinAlone
    <3> QED BY <3>1 DEF PinInv, EntryHolds
  <2>3. PICK l \in {"list", "found", "refresh"} : PinGoto(c, l) /\ PinInHand(l, e, pinOp[c])
    BY <2>0 DEF PinInHand
  <2>4. l \in PinLabels /\ PinRunning(c)
    BY <2>1 DEF PinLabels, PinRunning
  <2>5. ~blurred => (e.status = "pinned" => remote[e.id] = "pinned")
    BY <2>0, <2>1, <2>2
  <2>6. ~blurred => (pinCached.status = "pinned" => remote[pinCached.id] = "pinned")
    BY <2>2
  <2> QED BY <1>0, <2>0, <2>1, <2>3, <2>4, <2>5, <2>6, PinMoves
\* What the service says of a request.
<1>6. ASSUME NEW c \in PinCalls, NEW p \in Pins, p # NoPin, p.status = remote[p.id],
             pinPc[c] \in {"list", "refresh"}, PinGoto(c, "store"), pin' = [pin EXCEPT ![c] = p],
             UNCHANGED <<remote, pinCached, pinOp, pinHistory>>
      PROVE  PinInv'
  <2>1. /\ UNCHANGED <<blurred, misled>> /\ PinRunning(c) /\ PinInHand("store", p, pinOp[c])
        /\ remote' \in [PinRequests -> PinStatuses \cup {"none"}]
        /\ pinCached' \in Pins
        /\ "store" \in PinLabels
    BY <1>0, <1>6 DEF pinHistory, PinRunning, PinInHand, PinTypeOK, PinLabels
  <2>2. ~blurred => (pinCached.status = "pinned" =>
            remote[pinCached.id] = "pinned" \/ \E d \in PinCalls \ {c} : pinPc[d] = "uncache")
    BY <1>2, <1>6
  <2> QED BY <1>0, <1>6, <2>1, <2>2, PinMoves
<1>7. ASSUME NEW c \in PinCalls, refreshPinStatus(c) PROVE PinInv'
  <2>1. pinPc[c] = "refresh" /\ pin[c] # NoPin /\ ~Final(pin[c]) /\ pin[c].id \in PinRequests
    BY <1>0, <1>7 DEF refreshPinStatus, PinAt, PinInHand
  <2>2. CASE PinMove(c, "found")
    BY <1>3, <2>1, <2>2 DEF PinRunning, PinInHand, PinLabels, Final
  <2>3. CASE /\ remote[pin[c].id] # "none" /\ pin' = [pin EXCEPT ![c].status = remote[pin[c].id]]
             /\ PinGoto(c, "store") /\ UNCHANGED <<remote, pinCached, pinOp, pinHistory>>
    <3>1. remote[pin[c].id] \in PinStatuses
      BY <1>0, <2>1, <2>3 DEF PinTypeOK
    <3>2. pin[c] \in [status : PinStatuses, id : PinRequests]
      BY <1>0, <2>1 DEF Pins
    <3> DEFINE p == [pin[c] EXCEPT !.status = remote[pin[c].id]]
    <3>3. p \in [status : PinStatuses, id : PinRequests] /\ p.status = remote[p.id]
      BY <3>1, <3>2
    <3>4. p \in Pins /\ p # NoPin
      BY <3>3 DEF Pins, NoPin, PinStatuses
    <3>5. pin' = [pin EXCEPT ![c] = p]
      BY <2>3
    <3> QED BY <1>6, <2>1, <2>3, <3>3, <3>4, <3>5
  <2> QED BY <1>7, <2>2, <2>3 DEF refreshPinStatus, PinFails
<1>8. ASSUME NEW c \in PinCalls, ListPins(c) PROVE PinInv'
  <2>1. pinPc[c] = "list" /\ pin[c] = NoPin /\ pin[c].status # "pinned"
    BY <1>0, <1>8 DEF ListPins, PinAt, PinInHand, NoPin
  <2>2. CASE PinMove(c, "found")
    BY <1>3, <2>1, <2>2 DEF PinRunning, PinInHand, PinLabels
  <2>3. ASSUME NEW i \in Pinned, pin' = [pin EXCEPT ![c] = [status |-> remote[i], id |-> i]],
               PinGoto(c, "store"), UNCHANGED <<remote, pinCached, pinOp, pinHistory>>
        PROVE  PinInv'
    <3> DEFINE p == [status |-> remote[i], id |-> i]
    <3>1. p \in Pins /\ p # NoPin /\ p.status = remote[p.id]
      BY <2>3 DEF Pinned, Pins, NoPin, PinStatuses
    <3> QED BY <1>6, <2>1, <2>3, <3>1
  <2> QED BY <1>8, <2>2, <2>3 DEF ListPins, PinFails
\* A step that caches the pin of the call, or fails to.
<1>9. ASSUME NEW c \in PinCalls, NEW l \in {"found", "done"}, PinGoto(c, l),
             pinCached' \in {pin[c], pinCached},
             UNCHANGED <<remote, pinOp, pin, pinHistory>>, PinRunning(c), pinPc[c] # "uncache",
             pinPc[c] = "store" \/ (l = "done" /\ pin[c].status # "pinned")
      PROVE  PinInv'
  <2>1. /\ UNCHANGED <<blurred, misled>> /\ PinInHand(l, pin[c], pinOp[c]) /\ l \in PinLabels
        /\ remote' \in [PinRequests -> PinStatuses \cup {"none"}] /\ pinCached' \in Pins
        /\ pin' = [pin EXCEPT ![c] = pin[c]] /\ pin[c] \in Pins
    BY <1>0, <1>9 DEF pinHistory, PinInHand, PinTypeOK, PinLabels
  <2>2. ~blurred => (pin[c].status = "pinned" => l # "done" \/ pinPc[c] = "store")
    BY <1>9
  <2>3. ~blurred => (pin[c].status = "pinned" => remote[pin[c].id] = "pinned")
    BY <1>9 DEF PinInv, FoundHolds
  <2>4. ~blurred => (pinCached.status = "pinned" =>
            remote[pinCached.id] = "pinned" \/ \E d \in PinCalls \ {c} : pinPc[d] = "uncache")
    BY <1>2, <1>9
  <2> QED BY <1>0, <1>9, <2>1, <2>3, <2>4, PinMoves
<1>10. ASSUME NEW c \in PinCalls, cachePin(c) \/ CacheAdded(c) PROVE PinInv'
  <2>1. pinPc[c] = "store" \/ (pinPc[c] = "added" /\ pin[c].status = "queued")
    BY <1>0, <1>10 DEF cachePin, CacheAdded, PinAt, PinInHand
  <2>2. PICK l \in {"found", "done"} : PinGoto(c, l) /\ (pinPc[c] = "added" => l = "done")
    BY <1>10 DEF cachePin, CacheAdded, PinAt
  <2>3. pinCached' \in {pin[c], pinCached} /\ UNCHANGED <<remote, pinOp, pin, pinHistory>>
    BY <1>10 DEF cachePin, CacheAdded, SetEntry
  <2> QED BY <1>9, <2>1, <2>2, <2>3 DEF PinRunning
<1>11. ASSUME NEW c \in PinCalls, PinAnswer(c) \/ UnpinFound(c) PROVE PinInv'
  <2>1. PICK l \in {"done", "delete"} : /\ PinMove(c, l)
                                        /\ (l = "delete" => pin[c] # NoPin /\ pinOp[c] = "unpin")
    BY <1>11 DEF PinAnswer, UnpinFound
  <2>2. pinPc[c] = "found"
    BY <1>11 DEF PinAnswer, UnpinFound, PinAt
  <2> QED BY <1>3, <2>1, <2>2 DEF PinRunning, PinInHand, PinLabels
<1>12. ASSUME NEW c \in PinCalls, AlreadyPinned(c) PROVE PinInv'
  <2>1. /\ pinPc[c] = "found" /\ UNCHANGED <<remote, pinCached, pinOp, pin, blurred>>
        /\ misled' \in BOOLEAN /\ PinRunning(c)
        /\ \E l \in {"done", "add"} : PinGoto(c, l)
    BY <1>0, <1>12 DEF AlreadyPinned, PinAt, PinRunning
  <2>2. misled' => misled \/ blurred
    <3>1. ASSUME ~blurred, pin[c].status = "pinned" PROVE Pinned # {}
      <4>1. remote[pin[c].id] = "pinned" /\ pin[c].id \in PinRequests
        BY <1>0, <2>1, <3>1 DEF PinInv, FoundHolds
      <4> QED BY <4>1 DEF Pinned
    <3> QED BY <1>12, <3>1 DEF AlreadyPinned
  <2>3. ~blurred => (pinCached.status = "pinned" =>
            remote[pinCached.id] = "pinned" \/ \E d \in PinCalls \ {c} : pinPc[d] = "uncache")
    BY <1>2, <2>1
  <2>4. /\ \A l \in {"done", "add"} : l \in PinLabels /\ PinInHand(l, pin[c], pinOp[c])
        /\ remote' \in [PinRequests -> PinStatuses \cup {"none"}] /\ pinCached' \in Pins
        /\ pin' = [pin EXCEPT ![c] = pin[c]] /\ pin[c] \in Pins
    BY <1>0, <2>1 DEF PinInHand, PinTypeOK, PinLabels
  <2> QED BY <1>0, <2>1, <2>2, <2>3, <2>4, PinMoves
<1>13. ASSUME NEW c \in PinCalls, AddPin(c) PROVE PinInv'
  <2>1. pinPc[c] = "add"
    BY <1>13 DEF AddPin, PinAt
  <2>2. CASE PinMove(c, "done")
    BY <1>3, <2>1, <2>2 DEF PinRunning, PinInHand, PinLabels
  <2>3. ASSUME NEW i \in PinRequests, remote[i] = "none", remote' = [remote EXCEPT ![i] = "queued"],
               UNCHANGED <<pinCached, pinOp, pinHistory>>,
               NEW p \in Pins, NEW l \in {"added", "done"}, PinGoto(c, l), pin' = [pin EXCEPT ![c] = p],
               l = "added" => p # NoPin /\ p.status = "queued"
        PROVE  PinInv'
    <3>1. /\ UNCHANGED <<blurred, misled>>
          /\ PinInHand(l, p, pinOp[c])
          /\ l \in PinLabels
          /\ PinRunning(c)
          /\ pinCached' \in Pins
      BY <1>0, <2>1, <2>3 DEF pinHistory, PinInHand, PinTypeOK, PinLabels, PinRunning
    <3>2. /\ remote' \in [PinRequests -> PinStatuses \cup {"none"}]
          /\ \A j \in PinRequests : remote[j] = "pinned" => remote'[j] = "pinned"
      BY <1>0, <2>3 DEF PinTypeOK, PinStatuses
    <3>3. ~blurred => (pinCached.status = "pinned" =>
              remote'[pinCached.id] = "pinned" \/ \E d \in PinCalls \ {c} : pinPc[d] = "uncache")
      BY <1>0, <1>2, <2>1, <3>2 DEF PinTypeOK
    <3> QED BY <1>0, <2>3, <3>1, <3>2, <3>3, PinMoves
  <2>4. ASSUME NEW i \in PinRequests PROVE [status |-> "queued", id |-> i] \in Pins
    BY <2>4 DEF Pins, PinStatuses
  <2>5. [status |-> "queued", id |-> PinNoRequest].status = "queued" /\ NoPin.status = "none"
    BY DEF NoPin
  <2>6. ASSUME NEW i \in PinRequests, remote[i] = "none", remote' = [remote EXCEPT ![i] = "queued"],
               UNCHANGED <<pinCached, pinOp, pinHistory>>,
               \/ /\ pin' = [pin EXCEPT ![c] = [status |-> "queued", id |-> i]]
                  /\ PinGoto(c, "added")
               \/ PinGoto(c, "done") /\ UNCHANGED pin
        PROVE  PinInv'
    <3>1. CASE pin' = [pin EXCEPT ![c] = [status |-> "queued", id |-> i]] /\ PinGoto(c, "added")
      <4> DEFINE p == [status |-> "queued", id |-> i]
      <4>1. p \in Pins /\ p # NoPin /\ p.status = "queued"
        BY <2>4 DEF NoPin
      <4> HIDE DEF p
      <4>2. pin' = [pin EXCEPT ![c] = p]
        BY <3>1 DEF p
      <4> QED BY <2>3, <2>6, <3>1, <4>1, <4>2
    <3>2. CASE PinGoto(c, "done") /\ UNCHANGED pin
      BY <1>0, <2>3, <2>6, <3>2
    <3> QED BY <2>6, <3>1, <3>2
  <2> QED BY <1>13, <2>2, <2>6 DEF AddPin, PinFails
<1>14. ASSUME NEW c \in PinCalls, DeleteByID(c) PROVE PinInv'
  <2>1. pinPc[c] = "delete" /\ pinOp[c] = "unpin" /\ pin[c] # NoPin /\ pin[c].id \in PinRequests
    BY <1>0, <1>14 DEF DeleteByID, PinAt, PinInHand
  <2>2. CASE PinMove(c, "done")
    BY <1>3, <2>1, <2>2 DEF PinRunning, PinInHand, PinLabels
  <2>3. ASSUME NEW l \in {"uncache", "done"}, PinGoto(c, l),
               remote' = [remote EXCEPT ![pin[c].id] = "none"],
               UNCHANGED <<pinCached, pinOp, pin, misled>>,
               (l = "uncache" /\ UNCHANGED blurred) \/ (l = "done" /\ blurred' = TRUE)
        PROVE  PinInv'
    <3>1. /\ pinPc'[c] = l /\ \A d \in PinCalls \ {c} : pinPc'[d] = pinPc[d]
          /\ pinPc' \in [PinCalls -> PinLabels]
          /\ remote' \in [PinRequests -> PinStatuses \cup {"none"}]
          /\ \A j \in PinRequests \ {pin[c].id} : remote'[j] = remote[j]
      BY <1>0, <2>3 DEF PinTypeOK, PinGoto, PinLabels
    <3>2. PinTypeOK'
      BY <1>0, <2>1, <2>3, <3>1 DEF PinTypeOK, PinLabels, pinHistory
    <3>3. \A d \in PinCalls : PinInHand(pinPc'[d], pin'[d], pinOp'[d])
      BY <1>0, <2>1, <2>3, <3>1 DEF PinInHand
    <3>4. ASSUME ~blurred' PROVE UnpinAlone' /\ EntryHolds' /\ FoundHolds'
      <4>1. l = "uncache" /\ ~blurred /\ UnpinAlone /\ EntryHolds /\ FoundHolds
        BY <2>3, <3>4 DEF PinInv
      <4>2. UnpinAlone'
        BY <2>1, <2>3, <3>1, <4>1 DEF UnpinAlone, PinRunning
      <4>3. EntryHolds'
        BY <3>1, <4>1 DEF EntryHolds
      <4>4. FoundHolds'
        <5>1. \A d \in PinCalls \ {c} : ~PinRunning(d)
          BY <2>1, <4>1 DEF UnpinAlone, PinRunning
        <5> QED BY <3>1, <4>1, <5>1 DEF FoundHolds, PinRunning
      <4> QED BY <4>2, <4>3, <4>4
    <3>5. misled' => blurred'
      <4>1. CASE blurred' = TRUE
        BY <4>1
      <4>2. CASE blurred' = blurred
        BY <2>3, <4>2 DEF PinInv
      <4> QED BY <2>3, <4>1, <4>2
    <3>6. blurred' \/ (UnpinAlone' /\ EntryHolds' /\ FoundHolds')
      BY <3>4
    <3> QED BY <3>2, <3>3, <3>5, <3>6 DEF PinInv
  <2> QED BY <1>14, <2>2, <2>3 DEF DeleteByID, PinFails
<1>15. ASSUME NEW c \in PinCalls, Uncache(c) PROVE PinInv'
  <2>1. /\ pinPc[c] = "uncache" /\ PinGoto(c, "done") /\ UNCHANGED <<remote, pinOp, pin, misled>>
        /\ \/ pinCached' = NoPin /\ UNCHANGED blurred
           \/ pinCached' = pinCached /\ blurred' = TRUE
    BY <1>15 DEF Uncache, EntryAfterUnpin, PinAt
  <2>2. /\ pinCached' \in Pins /\ blurred' \in BOOLEAN
        /\ blurred' \/ pinCached'.status # "pinned"
        /\ "done" \in PinLabels
        /\ PinInHand("done", pin[c], pinOp[c])
        /\ remote' \in [PinRequests -> PinStatuses \cup {"none"}] /\ PinRunning(c)
        /\ pin' = [pin EXCEPT ![c] = pin[c]] /\ pin[c] \in Pins
    BY <1>0, <2>1 DEF Pins, NoPin, PinLabels, PinInHand, PinTypeOK, PinRunning
  <2>3. (blurred => blurred') /\ (misled' => misled \/ blurred')
    BY <2>1
  <2> QED BY <1>0, <2>1, <2>2, <2>3, PinMoves
<1>16. ASSUME NEW c \in PinCalls, PinCrash(c) PROVE PinInv'
  <2>1. /\ PinRunning(c) /\ PinGoto(c, "done") /\ blurred' = (blurred \/ pinOp[c] = "unpin")
        /\ UNCHANGED <<remote, pinCached, pinOp, pin, misled>>
    BY <1>16 DEF PinCrash
  <2>2. /\ "done" \in PinLabels /\ PinInHand("done", pin[c], pinOp[c]) /\ blurred' \in BOOLEAN
        /\ remote' \in [PinRequests -> PinStatuses \cup {"none"}] /\ pinCached' \in Pins
        /\ pin' = [pin EXCEPT ![c] = pin[c]] /\ pin[c] \in Pins
    BY <1>0, <2>1 DEF PinLabels, PinInHand, PinTypeOK
  <2>3. ~blurred' => (pinCached.status = "pinned" =>
            remote[pinCached.id] = "pinned" \/ \E d \in PinCalls \ {c} : pinPc[d] = "uncache")
    BY <1>0, <1>2, <2>1 DEF PinInHand
  <2> QED BY <1>0, <2>1, <2>2, <2>3, PinMoves
<1>17. CASE Progress \/ DropEntry
  <2>1. /\ UNCHANGED <<pinOp, pinPc, pin, blurred, misled>> /\ pinCached' \in {pinCached, NoPin}
        /\ remote' \in [PinRequests -> PinStatuses \cup {"none"}]
        /\ \A j \in PinRequests : remote[j] = "pinned" => remote'[j] = "pinned"
    BY <1>0, <1>17 DEF Progress, DropEntry, calls, pinHistory, PinTypeOK, PinStatuses
  <2>2. PinTypeOK'
    BY <1>0, <2>1 DEF PinTypeOK, pinHistory, Pins
  <2>3. NoPin.status # "pinned" /\ pinCached \in Pins /\ pin \in [PinCalls -> Pins]
    BY <1>0 DEF NoPin, PinTypeOK
  <2>4. EntryHolds => EntryHolds'
    BY <1>0, <2>1, <2>3 DEF EntryHolds
  <2>5. FoundHolds => FoundHolds'
    BY <1>0, <2>1, <2>3 DEF FoundHolds
  <2>6. UnpinAlone => UnpinAlone'
    BY <2>1 DEF UnpinAlone, PinRunning
  <2> QED BY <2>1, <2>2, <2>4, <2>5, <2>6 DEF PinInv
<1> QED BY <1>1, <1>4, <1>5, <1>7, <1>8, <1>10, <1>11, <1>12, <1>13, <1>14, <1>15, <1>16, <1>17
        DEF PinNext, PinRun, pinBlob, unpinBlob, getPinStatus, GetPinStatus, PinBlob, UnpinBlob

\* A call that leaves a blob because it is pinned already is right, however the
\* calls, the service and the cache take turns and whatever fails of them, unless
\* an unpin overlapped another call, was cut short or could not drop the entry
\* (AlreadyPinned, PinLookUp, cachePin, Uncache).
THEOREM PinnedBlobsHeld == ASSUME IPFSAssumption PROVE PinSpec => []PinnedIsHeld
<1>1. PinInit => PinInv
  BY PinStart
<1>2. PinInv /\ [PinNext]_pinVars => PinInv'
  BY PinStep
<1>3. PinInv => PinnedIsHeld
  BY DEF PinInv, PinnedIsHeld
<1> QED BY <1>1, <1>2, <1>3, PTL DEF PinSpec

\* The types of the pins' state.
THEOREM PinTypes == ASSUME IPFSAssumption PROVE PinSpec => []PinTypeOK
<1>1. PinInit => PinInv
  BY PinStart
<1>2. PinInv /\ [PinNext]_pinVars => PinInv'
  BY PinStep
<1>3. PinInv => PinTypeOK
  BY DEF PinInv
<1> QED BY <1>1, <1>2, <1>3, PTL DEF PinSpec

------------------------------------------------------------------------------
\* NOTIFICATIONS.

\* A channel is subscribed from the start of its handler until the handler
\* unsubscribes it, and then closed; the goroutines start with the handler.
Subscribed ==
    \A c \in Clients :
        /\ c \in allSubs <=> handler[c] \in {"wait", "unsubscribe"}
        /\ closed[c] <=> handler[c] = "gone"
        /\ handler[c] = "idle" => writer[c] = "idle" /\ noteReader[c] = "idle"

\* Each goroutine tells the handler of one error, its last.
ToldBy(pc) == IF pc = "ended" THEN 1 ELSE 0
ToldOnce == \A c \in Clients : errCh[c] <= ToldBy(writer[c]) + ToldBy(noteReader[c])

NoteInv == NoteTypeOK /\ Subscribed /\ ToldOnce

\* Nobody is connected at first.
LEMMA NoteStart == ASSUME NotificationsAssumption, NoteInit PROVE NoteInv
<1>1. ChannelSize \in Nat \ {0}
  BY DEF NotificationsAssumption
<1>2. NoteTypeOK
  <2>1. /\ closed \in [Clients -> BOOLEAN] /\ done \in [Clients -> BOOLEAN]
        /\ noteLeft \in [Publications -> SUBSET Clients] /\ panicked \in BOOLEAN
    BY Zenon DEF NoteInit
  <2> QED BY <1>1, <2>1 DEF NoteInit, NoteTypeOK
<1> QED BY <1>2 DEF NoteInit, NoteInv, Subscribed, ToldOnce, ToldBy

\* Each step of a goroutine, of a client and of a publisher keeps the invariant.
LEMMA NoteStep == ASSUME NotificationsAssumption, NoteInv, [NoteNext]_noteVars PROVE NoteInv'
<1> USE DEF NoteInv, channels, goroutines, publishers
<1>0. ChannelSize \in Nat \ {0}
  BY DEF NotificationsAssumption
<1>1. CASE UNCHANGED noteVars
  BY <1>1 DEF noteVars, NoteTypeOK, Subscribed, ToldOnce
<1>2. ASSUME NEW c \in Clients, wsConnect(c) PROVE NoteInv'
  BY <1>2 DEF wsConnect, Subscribe, NoteTypeOK, Subscribed, ToldOnce, ToldBy
<1>3. ASSUME NEW c \in Clients, Disconnect(c) PROVE NoteInv'
  BY <1>3 DEF Disconnect, NoteTypeOK, Subscribed, ToldOnce, ToldBy
<1>4. ASSUME NEW c \in Clients, Read(c) PROVE NoteInv'
  BY <1>4 DEF Read, Tell, ErrRoom, NoteTypeOK, Subscribed, ToldOnce, ToldBy
<1>5. ASSUME NEW c \in Clients, WriteNotification(c) PROVE NoteInv'
  BY <1>0, <1>5 DEF WriteNotification, NoteTypeOK, Subscribed, ToldOnce, ToldBy
<1>6. ASSUME NEW c \in Clients, WriteError(c) \/ WriteDone(c) PROVE NoteInv'
  <2>1. CASE WriteError(c)
    BY <2>1 DEF WriteError, WriterEnds, Tell, ErrRoom, NoteTypeOK, Subscribed, ToldOnce, ToldBy
  <2>2. CASE WriteDone(c)
    BY <2>2 DEF WriteDone, WriterEnds, NoteTypeOK, Subscribed, ToldOnce, ToldBy
  <2> QED BY <1>6, <2>1, <2>2
<1>7. ASSUME NEW c \in Clients, HearError(c) PROVE NoteInv'
  BY <1>7 DEF HearError, NoteClose, NoteTypeOK, Subscribed, ToldOnce, ToldBy
<1>8. ASSUME NEW c \in Clients, HearDone(c) \/ FailPing(c) PROVE NoteInv'
  BY <1>8 DEF HearDone, FailPing, NoteClose, NoteTypeOK, Subscribed, ToldOnce, ToldBy
<1>9. ASSUME NEW c \in Clients, Unsubscribe(c) PROVE NoteInv'
  BY <1>9 DEF Unsubscribe, NoteTypeOK, Subscribed, ToldOnce, ToldBy
<1>10. ASSUME NEW p \in Publications, NEW S \in SUBSET Clients, SendTo(p, S) PROVE NoteInv'
  BY <1>10 DEF SendTo, NoteTypeOK, Subscribed, ToldOnce
<1>11. ASSUME NEW p \in Publications, Publish(p) \/ PublishToAll(p) PROVE NoteInv'
  <2>1. allSubs \in SUBSET Clients /\ Subscribers(To[p]) \in SUBSET Clients
    BY DEF NoteTypeOK, Subscribers
  <2> QED BY <1>10, <1>11, <2>1 DEF Publish, PublishToAll
<1>12. ASSUME NEW p \in Publications, NEW c \in noteLeft[p], Send(p, c) PROVE NoteInv'
  <2>1. c \in Clients
    BY DEF NoteTypeOK
  <2>2. chan' \in [Clients -> 0..ChannelSize]
    BY <1>0, <1>12, <2>1 DEF Send, NoteTypeOK
  <2>3. noteLeft' \in [Publications -> SUBSET Clients] /\ panicked' \in BOOLEAN
    BY <1>12, <2>1 DEF Send, NoteTypeOK
  <2> QED BY <1>12, <2>2, <2>3 DEF Send, NoteTypeOK, Subscribed, ToldOnce
<1>13. ASSUME NEW p \in Publications, EndPublish(p) PROVE NoteInv'
  BY <1>13 DEF EndPublish, NoteTypeOK, Subscribed, ToldOnce
<1> QED BY <1>1, <1>2, <1>3, <1>4, <1>5, <1>6, <1>7, <1>8, <1>9, <1>11, <1>12, <1>13
        DEF NoteNext, Write, NoteWait, Serve

\* No goroutine of a connection waits for room to tell of its error, though the
\* handler may have left without hearing of any (websocket_controller.go, errCh).
NobodyBlocks ==
    \A c \in Clients : noteReader[c] = "wait" \/ writer[c] \in {"wait", "error"} => errCh[c] < ErrRoom

\* The types of the notifications' state, in which a lagging client's channel
\* never holds more than it has room for, and no error is waited with.
THEOREM ErrorsNeverBlock == ASSUME NotificationsAssumption PROVE NoteSpec => [](NoteTypeOK /\ NobodyBlocks)
<1>1. NoteInit => NoteInv
  BY NoteStart
<1>2. NoteInv /\ [NoteNext]_noteVars => NoteInv'
  BY NoteStep
<1>3. NoteInv => NoteTypeOK /\ NobodyBlocks
  BY DEF NoteInv, NoteTypeOK, ToldOnce, ToldBy, NobodyBlocks, ErrRoom
<1> QED BY <1>1, <1>2, <1>3, PTL DEF NoteSpec
==============================================================================
