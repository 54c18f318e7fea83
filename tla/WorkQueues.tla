------------------------------ MODULE WorkQueues -------------------------------
(***************************************************************************)
(* The replication of blobs and their publication as instances of one      *)
(* abstract queue of jobs: where each job is, read off the queue, the      *)
(* workers and the calls that submit it.                                   *)
(***************************************************************************)
EXTENDS Replication, FederationPublish

\* A caller that executes its own job (SyncMode) carries it as a worker does.
RepCarries(a) == repPc[a] \notin {"idle", "queue", "done"}
RepSleeps(j) == \E w \in RepWorkers : mine[w] = j /\ repPc[w] = "sleep"

RepPlace(j) ==
    CASE repPc[j] \in {"idle", "queue"} -> "new"
      [] j \in ToSet(repQueue) -> "waiting"
      [] RepSleeps(j) -> "retry"
      [] OTHER -> IF \E a \in Actors : RepCarries(a) /\ mine[a] = j THEN "held" ELSE "over"

RepPlaces == [j \in RepJobs |-> RepPlace(j)]
RepHands == [a \in Actors |-> IF RepCarries(a) THEN mine[a] ELSE RepNobody]

ReplicationQueue == INSTANCE JobQueue WITH
    Jobs <- RepJobs, Carriers <- Actors, NoJob <- RepNobody,
    Capacity <- RepQueueSize, Retries <- RepRetryAttempts,
    Carries <- SyncMode, Rejects <- FALSE, Crashes <- FALSE,
    place <- RepPlaces, line <- repQueue, hand <- RepHands, tries <- repRetries

\* A job whose upload is still to queue it is new.
PubSleeps(j) == \E w \in PubWorkers : wjob[w] = j /\ wpc[w] = "sleep"

PubPlace(j) ==
    CASE pubUpc[j] # "done" -> "new"
      [] j \in ToSet(pubQueue) -> "waiting"
      [] PubSleeps(j) -> "retry"
      [] OTHER -> IF PubInHand(j) THEN "held" ELSE "over"

PubPlaces == [j \in PubJobs |-> PubPlace(j)]

PublishQueue == INSTANCE JobQueue WITH
    Jobs <- PubJobs, Carriers <- PubWorkers, NoJob <- NoJob,
    Capacity <- PubQueueSize, Retries <- PubRetryAttempts,
    Carries <- FALSE, Rejects <- "db" \in PubFaults, Crashes <- "crash" \in PubFaults,
    place <- PubPlaces, line <- pubQueue, hand <- wjob, tries <- pubRetries

\* Both services keep the promises of a queue of jobs, though workers retry by
\* putting a job back, callers execute theirs when the queue is full, and a
\* status may be written meanwhile (replication.go, worker; federation publishWorker).
JobsKeepTheirPlace == ReplicationQueue!JobSpec /\ PublishQueue!JobSpec
==============================================================================
