---------------------------- MODULE JobDelivery ----------------------------
(***************************************************************************)
(* What the outbox promises to the code that writes jobs: a job exists     *)
(* only if the transaction that wrote it committed, is handed to the queue *)
(* at least once, perhaps several times, and leaves the outbox only after  *)
(* it was handed over or ended in errors often enough to be parked.        *)
(***************************************************************************)
EXTENDS Naturals

CONSTANTS Jobs, MaxRefusals

VARIABLES
    job,            \* what the outbox still owes each job
    delivered,      \* how often the queue took it
    refused         \* how often the queue refused it

jobVars == <<job, delivered, refused>>

Init ==
    /\ job = [j \in Jobs |-> "none"]
    /\ delivered = [j \in Jobs |-> 0]
    /\ refused = [j \in Jobs |-> 0]

Promise(j) ==
    /\ job[j] = "none"
    /\ job' = [job EXCEPT ![j] = "promised"]
    /\ UNCHANGED <<delivered, refused>>

Deliver(j) ==
    /\ job[j] = "promised"
    /\ delivered' = [delivered EXCEPT ![j] = @ + 1]
    /\ UNCHANGED <<job, refused>>

Refuse(j) ==
    /\ job[j] = "promised"
    /\ refused' = [refused EXCEPT ![j] = @ + 1]
    /\ UNCHANGED <<job, delivered>>

\* A batch of jobs leaves at once.
Leave(S) ==
    /\ \A j \in S : job[j] = "promised"
    /\ \E left \in [S -> {"closed", "parked"}] :
          /\ \A j \in S : IF left[j] = "closed" THEN delivered[j] > 0 ELSE refused[j] >= MaxRefusals
          /\ job' = [j \in Jobs |-> IF j \in S THEN left[j] ELSE job[j]]
    /\ UNCHANGED <<delivered, refused>>

Next ==
    \/ \E j \in Jobs : Promise(j) \/ Deliver(j) \/ Refuse(j)
    \/ \E S \in SUBSET Jobs : Leave(S)

Spec == Init /\ [][Next]_jobVars
=============================================================================
