------------------------------- MODULE JobQueue --------------------------------
(***************************************************************************)
(* What a service that works off jobs in the background promises of them,  *)
(* whatever the jobs do: a job is in one place at a time, waits in a queue *)
(* that is bounded and served in order, is in the hands of one carrier, is *)
(* tried again a bounded number of times, and once it is over it is over.  *)
(***************************************************************************)
EXTENDS Integers, Sequences

CONSTANTS
    Jobs, Carriers,
    NoJob,      \* what a carrier has that has no job
    Capacity,   \* of the queue
    Retries,    \* how often a job may be tried again
    Carries,    \* TRUE where a job that finds the queue full is carried at once
    Rejects,    \* TRUE where a job may be refused before it is queued
    Crashes     \* TRUE where the jobs may all be lost

VARIABLES
    place,  \* of each job: "new", "waiting", "held", "retry" (held until it waits again) or "over"
    line,   \* the jobs that wait, in order
    hand,   \* the job each carrier has
    tries   \* how often each job was tried again

jobVars == <<place, line, hand, tries>>

JobInit ==
    /\ place = [j \in Jobs |-> "new"] /\ line = << >>
    /\ hand = [c \in Carriers |-> NoJob] /\ tries = [j \in Jobs |-> 0]

Full == Len(line) >= Capacity
Moves(j, p) == place' = [place EXCEPT ![j] = p]
Takes(c, j) == hand' = [hand EXCEPT ![c] = j]

\* A new job joins the end of the queue.
Submit(j) ==
    /\ place[j] = "new" /\ ~Full
    /\ Moves(j, "waiting") /\ line' = Append(line, j)
    /\ UNCHANGED <<hand, tries>>

\* It is dropped where the queue is full, and may be refused beforehand.
Refuse(j) ==
    /\ place[j] = "new" /\ (Rejects \/ (Full /\ ~Carries))
    /\ Moves(j, "over")
    /\ UNCHANGED <<line, hand, tries>>

\* Or somebody who is free carries it out at once.
Carry(c, j) ==
    /\ place[j] = "new" /\ Full /\ Carries
    /\ hand[c] = NoJob /\ Moves(j, "held") /\ Takes(c, j)
    /\ UNCHANGED <<line, tries>>

\* A free carrier takes the first job that waits.
Take(c) ==
    /\ line # << >> /\ place[Head(line)] = "waiting" /\ hand[c] = NoJob
    /\ Moves(Head(line), "held") /\ Takes(c, Head(line)) /\ line' = Tail(line)
    /\ UNCHANGED tries

\* It has done with its job for good.
Release(c) ==
    /\ hand[c] # NoJob /\ place[hand[c]] = "held"
    /\ Moves(hand[c], "over") /\ Takes(c, NoJob)
    /\ UNCHANGED <<line, tries>>

\* Or is to queue it again, and does so if there is room then.
Retry(c) ==
    /\ hand[c] # NoJob /\ place[hand[c]] = "held" /\ tries[hand[c]] < Retries
    /\ Moves(hand[c], "retry") /\ tries' = [tries EXCEPT ![hand[c]] = @ + 1]
    /\ UNCHANGED <<line, hand>>

Return(c) ==
    /\ hand[c] # NoJob /\ place[hand[c]] = "retry"
    /\ IF Full THEN Moves(hand[c], "over") /\ UNCHANGED line
       ELSE Moves(hand[c], "waiting") /\ line' = Append(line, hand[c])
    /\ Takes(c, NoJob)
    /\ UNCHANGED tries

\* The jobs that were under way are lost, and no other is touched.
Crash ==
    /\ Crashes
    /\ \E lost \in SUBSET {j \in Jobs : place[j] = "new"} :
         place' = [j \in Jobs |-> IF place[j] = "new" /\ j \notin lost THEN "new" ELSE "over"]
    /\ line' = << >> /\ hand' = [c \in Carriers |-> NoJob]
    /\ UNCHANGED tries

JobNext ==
    \/ UNCHANGED jobVars     \* most steps of a service move no job
    \/ \E j \in Jobs : Submit(j) \/ Refuse(j) \/ \E c \in Carriers : Carry(c, j)
    \/ \E c \in Carriers : Take(c) \/ Release(c) \/ Retry(c) \/ Return(c)
    \/ Crash

JobSpec == JobInit /\ [][JobNext]_jobVars
==============================================================================
