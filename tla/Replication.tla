------------------------------ MODULE Replication ------------------------------
(***************************************************************************)
(* Copying blobs to other regions: a job for each blob and region in a map *)
(* of the process, a bounded queue, workers that copy and retry, and a     *)
(* cancellation that only writes the job's status.  The status is shared   *)
(* without a lock; each read or write of it is one step.  Jobs are of one  *)
(* blob.  (No command of the repository makes a replication service: the   *)
(* model is of what it does when Start is called.  The map blobRegions,    *)
(* which nothing reads, is left out.)                                      *)
(***************************************************************************)
EXTENDS Integers, Sequences, SequencesExt

CONSTANTS
    RepJobs,          \* requests to replicate: the bound on their number
    Regions, Target,  \* the region each job copies to
    RepWorkers, RepNobody,
    RepQueueSize,     \* BatchSize * 2
    RepRetryAttempts,
    SyncMode,         \* TRUE: a job that finds the queue full is executed by its caller
    RepFaults         \* what may fail, a subset of RepFaultNames

\* "region" a region fails; "source" the blob is deleted from the primary.
RepFaultNames == {"region", "source"}
RepStatuses == {"none", "pending", "in_progress", "complete", "failed"}

ReplicationAssumption ==
    /\ Target \in [RepJobs -> Regions] /\ RepNobody \notin RepJobs
    /\ RepWorkers \cap RepJobs = {}
    /\ RepQueueSize \in Nat /\ RepRetryAttempts \in Nat
    /\ SyncMode \in BOOLEAN /\ RepFaults \subseteq RepFaultNames

\* Who executes jobs: a worker, or the caller of a job, by the job's name.
Actors == RepWorkers \cup RepJobs

VARIABLES
    repStatus,   \* job.Status
    repRetries,  \* job.Retries
    repQueue,    \* s.jobQueue
    source,      \* whether the primary has the blob
    copies,      \* regions that have the blob
    \* each actor: the step it makes next, and its job
    repPc, mine,
    cancelled,   \* history: jobs whose cancellation was answered with success
    cpc          \* each job's cancellation: the step it makes next

repVars == <<repStatus, repRetries, repQueue, source, copies, repPc, mine, cancelled, cpc>>

RepInit ==
    /\ repStatus = [j \in RepJobs |-> "none"] /\ repRetries = [j \in RepJobs |-> 0]
    /\ repQueue = << >> /\ source = TRUE /\ copies = {}
    /\ repPc = [a \in Actors |-> "idle"]
    /\ mine = [a \in Actors |-> IF a \in RepJobs THEN a ELSE RepNobody]
    /\ cancelled = {} /\ cpc = [j \in RepJobs |-> "idle"]

------------------------------------------------------------------------------
RepAt(a, l) == repPc[a] = l
RepGoto(a, l) == repPc' = [repPc EXCEPT ![a] = l]
RepSetStatus(a, s) == repStatus' = [repStatus EXCEPT ![mine[a]] = s]
RepRest == UNCHANGED <<source, cancelled, cpc>>
RepRoom == Len(repQueue) < RepQueueSize

\* ReplicateBlobToRegion: the job is stored, then queued; when the queue is
\* full it is executed at once, or an error leaves it pending.
Replicate(j) ==
    /\ RepAt(j, "idle")
    /\ repStatus' = [repStatus EXCEPT ![j] = "pending"]
    /\ RepGoto(j, "queue")
    /\ RepRest /\ UNCHANGED <<repRetries, repQueue, copies, mine>>

RepEnqueue(j) ==
    /\ RepAt(j, "queue")
    /\ IF RepRoom THEN repQueue' = Append(repQueue, j) /\ RepGoto(j, "done")
       ELSE RepGoto(j, IF SyncMode THEN "start" ELSE "done") /\ UNCHANGED repQueue
    /\ RepRest /\ UNCHANGED <<repStatus, repRetries, copies, mine>>

\* worker: a job that is not pending any more is skipped.
RepTake(w) ==
       /\ w \in RepWorkers /\ RepAt(w, "idle") /\ repQueue # << >>
       /\ mine' = [mine EXCEPT ![w] = Head(repQueue)] /\ repQueue' = Tail(repQueue)
       /\ RepGoto(w, "check")
       /\ RepRest /\ UNCHANGED <<repStatus, repRetries, copies>>

StillPending(a) == repStatus[mine[a]] = "pending"

CheckPending(w) ==
    /\ RepAt(w, "check")
    /\ RepGoto(w, IF StillPending(w) THEN "start" ELSE "idle")
    /\ RepRest /\ UNCHANGED <<repStatus, repRetries, repQueue, copies, mine>>

\* executeJob.
StartJob(a) ==
    /\ RepAt(a, "start")
    /\ RepSetStatus(a, "in_progress")
    /\ RepGoto(a, "copy")
    /\ RepRest /\ UNCHANGED <<repRetries, repQueue, copies, mine>>

\* The blob is read from the primary and put into the region.
MutantIgnoresError(a) == copies
RepPut(a) == copies \cup {Target[mine[a]]}

RepCopy(a) ==
       /\ RepAt(a, "copy")
       /\ \/ source /\ copies' = RepPut(a) /\ RepGoto(a, "complete")
          \/ (~source \/ "region" \in RepFaults) /\ RepGoto(a, "fail") /\ UNCHANGED copies
       /\ RepRest /\ UNCHANGED <<repStatus, repRetries, repQueue, mine>>

RepComplete(a) ==
    /\ RepAt(a, "complete")
    /\ RepSetStatus(a, "complete")
    /\ RepGoto(a, IF a \in RepWorkers THEN "idle" ELSE "done")
    /\ RepRest /\ UNCHANGED <<repRetries, repQueue, copies, mine>>

\* A worker retries, a caller does not.
RepFail(a) ==
       /\ RepAt(a, "fail")
       /\ RepSetStatus(a, "failed")
       /\ RepGoto(a, IF a \in RepWorkers THEN "retry" ELSE "done")
       /\ RepRest /\ UNCHANGED <<repRetries, repQueue, copies, mine>>

RepMayRetry(a) == repRetries[mine[a]] < RepRetryAttempts

Retry(w) ==
    /\ RepAt(w, "retry")
    /\ IF RepMayRetry(w)
       THEN /\ repRetries' = [repRetries EXCEPT ![mine[w]] = @ + 1]
            /\ RepSetStatus(w, "pending")
            /\ RepGoto(w, "sleep")
       ELSE RepGoto(w, "idle") /\ UNCHANGED <<repStatus, repRetries>>
    /\ RepRest /\ UNCHANGED <<repQueue, copies, mine>>

\* After RetryDelay; a full queue drops the job, which stays pending.
MutantWaits(w) == RepRoom
Wakes(w) == TRUE

RepRequeue(w) ==
    /\ RepAt(w, "sleep") /\ Wakes(w)
    /\ repQueue' = IF RepRoom THEN Append(repQueue, mine[w]) ELSE repQueue
    /\ RepGoto(w, "idle")
    /\ RepRest /\ UNCHANGED <<repStatus, repRetries, copies, mine>>

------------------------------------------------------------------------------
\* CancelJob looks at the status, then writes it.
CheckCancel(j) ==
    /\ cpc[j] = "idle" /\ repStatus[j] # "none"
    /\ cpc' = [cpc EXCEPT ![j] = IF repStatus[j] = "pending" THEN "write" ELSE "done"]
    /\ UNCHANGED <<repStatus, repRetries, repQueue, source, copies, repPc, mine, cancelled>>

Cancel(j) ==
    /\ cpc[j] = "write"
    /\ cpc' = [cpc EXCEPT ![j] = "done"]
    /\ repStatus' = [repStatus EXCEPT ![j] = "failed"]
    /\ cancelled' = cancelled \cup {j}
    /\ UNCHANGED <<repRetries, repQueue, source, copies, repPc, mine>>

\* The blob store deletes the blob.
DeleteSource ==
    /\ "source" \in RepFaults /\ source
    /\ source' = FALSE
    /\ UNCHANGED <<repStatus, repRetries, repQueue, copies, repPc, mine, cancelled, cpc>>

Execute(a) == StartJob(a) \/ RepCopy(a) \/ RepComplete(a) \/ RepFail(a)
Finish(j) == RepEnqueue(j) \/ Execute(j)
RepWork(w) == RepTake(w) \/ CheckPending(w) \/ Execute(w) \/ Retry(w) \/ RepRequeue(w)

RepNext ==
    \/ \E j \in RepJobs : Replicate(j) \/ Finish(j) \/ CheckCancel(j) \/ Cancel(j)
    \/ \E w \in RepWorkers : RepWork(w)
    \/ DeleteSource

RepSpec == RepInit /\ [][RepNext]_repVars

\* The workers run, and so does a call that has begun.
RepFairness ==
    /\ \A w \in RepWorkers : WF_repVars(RepWork(w))
    /\ \A j \in RepJobs : WF_repVars(Finish(j))

RepFairSpec == RepSpec /\ RepFairness

------------------------------------------------------------------------------
Busy(a) == repPc[a] \notin {"idle", "done"}
RepInHand(j) == \E a \in Actors : Busy(a) /\ mine[a] = j
RepQueued(j) == j \in ToSet(repQueue)

\* The state's types; a job is queued once at most, and never while a worker
\* has it in hand.
RepTypeOK ==
    /\ repStatus \in [RepJobs -> RepStatuses] /\ repRetries \in [RepJobs -> 0..RepRetryAttempts]
    /\ copies \subseteq Regions /\ mine \in [Actors -> RepJobs \cup {RepNobody}]
    /\ Len(repQueue) <= RepQueueSize /\ IsInjective(repQueue)
    /\ \A w \in RepWorkers : Busy(w) => ~RepQueued(mine[w])

\* A job that says complete has its copy in the region, whatever was cancelled,
\* retried or deleted meanwhile (executeJob).
CompleteIsCopied == \A j \in RepJobs : repStatus[j] = "complete" => Target[j] \in copies

\* A job that a worker has done with for good does not say in_progress: a
\* poller is not left waiting (core.ReplicationStatusInProgress).
InProgressIsExecuted == \A j \in RepJobs : repStatus[j] = "in_progress" => RepInHand(j)

\* Every queued job leaves the queue and the workers for good: a worker that
\* retries does not wait for room that only workers make.
JobsEnd == \A j \in RepJobs : (RepQueued(j) \/ RepInHand(j)) ~> ~(RepQueued(j) \/ RepInHand(j))

\* core/replication.go: "CancelJob cancels a pending replication job": one whose
\* cancellation succeeded is not completed afterwards.
CancelledStays == \A j \in RepJobs : j \in cancelled => repStatus[j] # "complete"
==============================================================================
